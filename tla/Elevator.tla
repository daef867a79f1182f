------------------------------- MODULE Elevator -------------------------------
(***************************************************************************)
(* The elevator kernel module while it is loaded (part3/elevator):         *)
(*   - the kthread runElevator, which alternates a loading phase and a     *)
(*     moving phase, each in a region locked by e_tp.mutx, and sleeps      *)
(*     after each;                                                         *)
(*   - the system calls issue_request, start_elevator and stop_elevator,   *)
(*     which any process may execute at any time.                          *)
(*                                                                         *)
(* Every iteration of the two list_for_each_safe loops is a step.  A       *)
(* system call's locked region is one step, enabled while the mutex is     *)
(* free.  issue_request reads e.shutdown before it locks, so it is two     *)
(* steps.  Calls that only return an error change nothing and need no      *)
(* action.  No call is interrupted by a signal while it waits for the      *)
(* mutex (mutex_lock_interruptible returns 0).                             *)
(***************************************************************************)
EXTENDS Passenger, Sequences, SequencesExt

CONSTANTS Passengers,  (* the passenger structs that kmalloc can return;
                          its size bounds the requests of a behaviour      *)
          Requests     (* the arguments processes pass to issue_request,
                          numbered from 1 as in user space                 *)

(* There is a limit to the memory of the machine. *)
ASSUME PassengersAssumption == IsFiniteSet(Passengers)

ASSUME RequestsAssumption ==
    Requests \subseteq [p_type: Int, s_floor: Int, d_floor: Int]

VARIABLES
    waiting,    (* b.f[i].waiting: the queue of nodes on floor i           *)
    riding,     (* e.p[i]: the nodes on the elevator bound for floor i     *)
    pass,       (* the contents of each struct passenger                   *)
    node,       (* where each struct is in its life, see NodeState         *)
    hall,       (* the load counters of b.f[i]                             *)
    car,        (* the load counters of e                                  *)
    serviced,   (* b.f[i].serviced                                         *)
    status,     (* e.status                                                *)
    current,    (* e._current                                              *)
    next,       (* e.next                                                  *)
    direction,  (* e.direction, 1 is up                                    *)
    shutdown,   (* e.shutdown                                              *)
    mutx,       (* e_tp.mutx: "free", or "held" by the kthread             *)
    pc,         (* where runElevator is, see ThreadPc                      *)
    ptr         (* the position its list_for_each_safe loop is at          *)

lists    == <<waiting, riding, pass, node>>
counters == <<hall, car, serviced>>
position == <<current, next, direction>>
thread   == <<mutx, pc, ptr>>
vars     == <<lists, counters, status, position, shutdown, thread>>

(* typedef enum { IDLE, OFFLINE, LOADING, UP, DOWN } STATE; STATE itself is *)
(* a TLA+ keyword.                                                          *)
States == {"IDLE", "OFFLINE", "LOADING", "UP", "DOWN"}

(* A struct is unused until kmalloc returns it, private while issue_request *)
(* has not added it to a list, listed on a floor or on the elevator, and    *)
(* freed by delPass.                                                        *)
NodeState == {"unused", "private", "listed", "freed"}

(* runElevator is about to lock for loading, in the loop that empties       *)
(* e.p[_current], in the loop that boards b.f[_current].waiting, or about   *)
(* to lock for moving.                                                      *)
ThreadPc == {"load_lock", "unload", "board", "move_lock"}

-----------------------------------------------------------------------------
(* initElevator and initBuilding, run by elevator_init before the thread is *)
(* created.                                                                 *)
Init ==
    /\ waiting = [i \in Floors |-> <<>>]
    /\ riding = [i \in Floors |-> <<>>]
    /\ pass = [p \in Passengers |-> [type |-> ADULT, s_floor |-> 0, d_floor |-> 0]]
    /\ node = [p \in Passengers |-> "unused"]
    /\ hall = [i \in Floors |-> NoLoad]
    /\ car = NoLoad
    /\ serviced = [i \in Floors |-> 0]
    /\ status = "OFFLINE"
    /\ current = 0
    /\ next = 1
    /\ direction = 1
    /\ shutdown = 0
    /\ mutx = "free"
    /\ pc = "load_lock"
    /\ ptr = 1

-----------------------------------------------------------------------------
(* The list and counter updates of elevator.h. *)

(* Variant of addPass for the mutation of FifoBoarding: list_add in place  *)
(* of list_add_tail.                                                       *)
addPassAtHead(p) ==
    /\ waiting' = [waiting EXCEPT ![pass[p].s_floor] = <<p>> \o @]
    /\ hall' = [hall EXCEPT ![pass[p].s_floor] = CountIn(@, pass[p].type)]

addPass(p) ==
    /\ waiting' = [waiting EXCEPT ![pass[p].s_floor] = Append(@, p)]
    /\ hall' = [hall EXCEPT ![pass[p].s_floor] = CountIn(@, pass[p].type)]

(* Variant of movePass for the mutation of ListsSound: list_add_tail in    *)
(* place of list_move_tail, so the node stays on the floor's list too.     *)
movePassKeepsNode(p) ==
    /\ UNCHANGED waiting
    /\ riding' = [riding EXCEPT ![pass[p].d_floor] = Append(@, p)]
    /\ hall' = [hall EXCEPT ![pass[p].s_floor] = CountOut(@, pass[p].type)]
    /\ car' = CountIn(car, pass[p].type)

(* The node at ptr, p, goes from the floor's list to the elevator's. *)
movePass(p) ==
    /\ waiting' = [waiting EXCEPT ![current] = RemoveAt(@, ptr)]
    /\ riding' = [riding EXCEPT ![pass[p].d_floor] = Append(@, p)]
    /\ hall' = [hall EXCEPT ![pass[p].s_floor] = CountOut(@, pass[p].type)]
    /\ car' = CountIn(car, pass[p].type)

(* The node at ptr, p, leaves the elevator and is freed. *)
delPass(p) ==
    /\ car' = CountOut(car, pass[p].type)
    /\ serviced' = [serviced EXCEPT ![pass[p].s_floor] = @ + 1]
    /\ riding' = [riding EXCEPT ![current] = RemoveAt(@, ptr)]
    /\ node' = [node EXCEPT ![p] = "freed"]

checkFloor(i) == waiting[i] # <<>>

(* Variant of checkBuilding for the mutation of RequestsServed: the loop   *)
(* stops one floor early.                                                  *)
checkBuildingBelowTop == \E i \in Floors \ {Top} : waiting[i] # <<>>

checkBuilding == \E i \in Floors : waiting[i] # <<>>

checkElevator == \E i \in Floors : riding[i] # <<>>

-----------------------------------------------------------------------------
(* runElevator, loading phase. *)

LockForLoading == pc = "load_lock" /\ mutx = "free"

(* Nothing to do on this floor, or out of service: lock, unlock, sleep. *)
PassFloor ==
    /\ LockForLoading
    /\ \/ status = "OFFLINE"
       \/ waiting[current] = <<>> /\ riding[current] = <<>>
    /\ pc' = "move_lock"
    /\ UNCHANGED <<lists, counters, status, position, shutdown, mutx, ptr>>

(* Someone waits here or wants to leave here: stop and open the doors. *)
BeginLoading ==
    /\ LockForLoading
    /\ status # "OFFLINE"
    /\ waiting[current] # <<>> \/ riding[current] # <<>>
    /\ status' = "LOADING"
    /\ mutx' = "held"
    /\ pc' = "unload"
    /\ ptr' = 1
    /\ UNCHANGED <<lists, counters, position, shutdown>>

(* One iteration of the loop over e.p[_current]. *)
Unload ==
    /\ pc = "unload"
    /\ ptr <= Len(riding[current])
    /\ LET p == riding[current][ptr]
       IN  IF pass[p].d_floor = current
           THEN delPass(p) /\ UNCHANGED ptr
           ELSE ptr' = ptr + 1 /\ UNCHANGED <<car, serviced, riding, node>>
    /\ UNCHANGED <<waiting, pass, hall, status, position, shutdown, mutx, pc>>

UnloadDone == pc = "unload" /\ ptr > Len(riding[current])

BeginBoarding ==
    /\ UnloadDone
    /\ checkFloor(current) /\ shutdown # 1
    /\ pc' = "board"
    /\ ptr' = 1
    /\ UNCHANGED <<lists, counters, status, position, shutdown, mutx>>

(* Variant of MayBoard for the mutation of OnTheWay: the direction is not  *)
(* compared.                                                               *)
MayBoardEitherWay ==
    /\ ptr <= Len(waiting[current])
    /\ canFit(pass[waiting[current][ptr]].type, car)

(* The passenger at ptr fits and travels in the elevator's direction. *)
MayBoard ==
    /\ ptr <= Len(waiting[current])
    /\ LET p == waiting[current][ptr]
       IN  canFit(pass[p].type, car) /\ pDirection(pass[p]) = direction

(* One iteration of the loop over b.f[_current].waiting. *)
Board ==
    /\ pc = "board"
    /\ MayBoard
    /\ LET p == waiting[current][ptr]
       IN  IF pass[p].s_floor = current
           THEN movePass(p) /\ UNCHANGED ptr
           ELSE ptr' = ptr + 1 /\ UNCHANGED <<waiting, riding, hall, car>>
    /\ UNCHANGED <<pass, node, serviced, status, position, shutdown, mutx, pc>>

(* The phase ends when nobody may board or the boarding loop ends or breaks: *)
(* unlock and ssleep(L_SLEEP).                                               *)
EndLoading ==
    /\ \/ UnloadDone /\ ~(checkFloor(current) /\ shutdown # 1)
       \/ pc = "board" /\ ~MayBoard
    /\ mutx' = "free"
    /\ pc' = "move_lock"
    /\ ptr' = 1
    /\ UNCHANGED <<lists, counters, status, position, shutdown>>

-----------------------------------------------------------------------------
(* runElevator, moving phase: lock, one of these, unlock, ssleep(M_SLEEP).  *)

LockForMoving == pc = "move_lock" /\ mutx = "free"

StayOffline ==
    /\ LockForMoving
    /\ status = "OFFLINE"
    /\ pc' = "load_lock"
    /\ UNCHANGED <<lists, counters, status, position, shutdown, mutx, ptr>>

NothingToDo == ~checkElevator /\ ~checkBuilding

GoIdle ==
    /\ LockForMoving
    /\ status # "OFFLINE"
    /\ NothingToDo
    /\ status' = "IDLE"
    /\ pc' = "load_lock"
    /\ UNCHANGED <<lists, counters, position, shutdown, mutx, ptr>>

(* Variant of Drained for the mutation of EmptyWhenParked and              *)
(* RidersDelivered: the elevator is not asked whether it carries someone.  *)
DrainedAnyway == shutdown = 1

(* Variant of Drained for the mutation of StopCompletesIfWaiting: waits    *)
(* for the floors to empty, which a stopped elevator never makes happen.   *)
DrainedFloorsToo == NothingToDo /\ shutdown = 1

Drained == ~checkElevator /\ shutdown = 1

(* Variant of GoOffline for the mutation of ImplementsService: e.shutdown  *)
(* is cleared when the elevator goes out of service, not when it restarts. *)
GoOfflineClearsShutdown ==
    /\ LockForMoving
    /\ status # "OFFLINE"
    /\ ~NothingToDo /\ Drained
    /\ status' = "OFFLINE"
    /\ shutdown' = 0
    /\ pc' = "load_lock"
    /\ UNCHANGED <<lists, counters, position, mutx, ptr>>

GoOffline ==
    /\ LockForMoving
    /\ status # "OFFLINE"
    /\ ~NothingToDo /\ Drained
    /\ status' = "OFFLINE"
    /\ pc' = "load_lock"
    /\ UNCHANGED <<lists, counters, position, shutdown, mutx, ptr>>

(* Variant of Ascending for the mutation of TypeOK: no turn at the top. *)
AscendingPastTop == next = 0 \/ direction = 1

(* The elevator turns at either end and otherwise keeps its direction. *)
Ascending == next = 0 \/ (next # Top /\ direction = 1)

(* Variant of MoveFloor for the mutation of NoTeleport: on the way up with *)
(* someone aboard, a floor where nobody waits or leaves is skipped.        *)
MoveFloorSkipsEmpty ==
    /\ LockForMoving
    /\ status # "OFFLINE"
    /\ ~NothingToDo /\ ~Drained
    /\ LET empty == checkElevator /\ waiting[next] = <<>> /\ riding[next] = <<>>
           f     == IF Ascending /\ next + 1 < Top /\ empty THEN next + 1 ELSE next
       IN  /\ current' = f
           /\ next' = IF Ascending THEN f + 1 ELSE f - 1
    /\ direction' = IF Ascending THEN 1 ELSE 0
    /\ status' = IF Ascending THEN "UP" ELSE "DOWN"
    /\ pc' = "load_lock"
    /\ UNCHANGED <<lists, counters, shutdown, mutx, ptr>>

MoveFloor ==
    /\ LockForMoving
    /\ status # "OFFLINE"
    /\ ~NothingToDo /\ ~Drained
    /\ current' = next
    /\ next' = IF Ascending THEN next + 1 ELSE next - 1
    /\ direction' = IF Ascending THEN 1 ELSE 0
    /\ status' = IF Ascending THEN "UP" ELSE "DOWN"
    /\ pc' = "load_lock"
    /\ UNCHANGED <<lists, counters, shutdown, mutx, ptr>>

RunElevator ==
    \/ PassFloor \/ BeginLoading \/ Unload \/ BeginBoarding \/ Board \/ EndLoading
    \/ StayOffline \/ GoIdle \/ GoOffline \/ MoveFloor

-----------------------------------------------------------------------------
(* The system calls. *)

(* The range checks of issue_request. *)
InRange(r) ==
    /\ r.p_type \in 1 .. 4
    /\ r.s_floor \in 1 .. MAX_FLOOR
    /\ r.d_floor \in 1 .. MAX_FLOOR

(* issue_request before it locks: the checks, kmalloc and the struct. *)
IssueRequestCheck(p, r) ==
    /\ InRange(r)
    /\ shutdown = 0
    /\ node[p] = "unused"
    /\ node' = [node EXCEPT ![p] = "private"]
    /\ pass' = [pass EXCEPT ![p] = [type    |-> r.p_type - 1,
                                    s_floor |-> r.s_floor - 1,
                                    d_floor |-> r.d_floor - 1]]
    /\ UNCHANGED <<waiting, riding, counters, status, position, shutdown, thread>>

(* issue_request in its locked region. *)
IssueRequestAdd(p) ==
    /\ node[p] = "private"
    /\ mutx = "free"
    /\ addPass(p)
    /\ node' = [node EXCEPT ![p] = "listed"]
    /\ UNCHANGED <<riding, pass, car, serviced, status, position, shutdown, thread>>

MayStart == status = "OFFLINE"

(* Variant of start_elevator for the mutation of HeadingConsistent: next   *)
(* is not reset.                                                           *)
StartElevatorKeepsNext ==
    /\ mutx = "free"
    /\ MayStart
    /\ status' = "IDLE"
    /\ current' = 0
    /\ shutdown' = 0
    /\ UNCHANGED <<lists, counters, next, direction, thread>>

StartElevator ==
    /\ mutx = "free"
    /\ MayStart
    /\ status' = "IDLE"
    /\ current' = 0
    /\ next' = 1
    /\ shutdown' = 0
    /\ UNCHANGED <<lists, counters, direction, thread>>

(* Variant of stop_elevator for the mutation of NoBoardingAfterStop: the   *)
(* flag is set without the lock.                                           *)
StopElevatorUnlocked ==
    /\ shutdown = 0
    /\ shutdown' = 1
    /\ UNCHANGED <<lists, counters, status, position, thread>>

StopElevator ==
    /\ mutx = "free"
    /\ shutdown = 0
    /\ shutdown' = 1
    /\ UNCHANGED <<lists, counters, status, position, thread>>

Next ==
    \/ RunElevator
    \/ \E p \in Passengers, r \in Requests : IssueRequestCheck(p, r)
    \/ \E p \in Passengers : IssueRequestAdd(p)
    \/ StartElevator
    \/ StopElevator

Spec == Init /\ [][Next]_vars

(* The scheduler keeps running the kthread, whose every step is enabled    *)
(* when it is at it, and nobody is obliged to make a system call.          *)
FairSpec == Spec /\ WF_vars(RunElevator)

-----------------------------------------------------------------------------
(* Properties. *)

Riders == UNION {ToSet(riding[i]) : i \in Floors}

(* Every variable has the type its declaration in elevator.h gives it; in  *)
(* particular _current, next and the stored floors are indices of the      *)
(* arrays b.f[] and e.p[], whatever turns and restarts the elevator makes. *)
TypeOK ==
    /\ waiting \in [Floors -> Seq(Passengers)]
    /\ riding \in [Floors -> Seq(Passengers)]
    /\ pass \in [Passengers -> passenger]
    /\ node \in [Passengers -> NodeState]
    /\ hall \in [Floors -> Load]
    /\ car \in Load
    /\ serviced \in [Floors -> Nat]
    /\ status \in States
    /\ current \in Floors
    /\ next \in Floors
    /\ direction \in {0, 1}
    /\ shutdown \in {0, 1}
    /\ mutx \in {"free", "held"}
    /\ pc \in ThreadPc
    /\ ptr \in Nat \ {0}

(* The list nodes are used soundly: a node is on a floor's queue or on the *)
(* elevator exactly from addPass to delPass, at one position of one list;  *)
(* it waits on its start floor, and rides on the list of its destination.  *)
(* So no list holds a freed node, and no node is lost.                     *)
ListsSound ==
    /\ \A i \in Floors :
          /\ IsInjective(waiting[i])
          /\ IsInjective(riding[i])
          /\ \A p \in ToSet(waiting[i]) : pass[p].s_floor = i
          /\ \A p \in ToSet(riding[i]) : pass[p].d_floor = i
          /\ ToSet(waiting[i]) \cap Riders = {}
    /\ {p \in Passengers : node[p] = "listed"}
         = Riders \cup UNION {ToSet(waiting[i]) : i \in Floors}

(* The passengers that started on floor i and were delivered. *)
Delivered(i) == {p \in Passengers : node[p] = "freed" /\ pass[p].s_floor = i}

(* The counters that addPass, movePass and delPass add to and subtract     *)
(* from agree with the lists they stand for: the load of the elevator, the *)
(* load waiting on every floor, and the passengers every floor has had     *)
(* serviced, the figures that /proc/elevator prints.                       *)
LoadAccounting ==
    /\ car = Tally(Riders, pass)
    /\ \A i \in Floors :
          /\ hall[i] = Tally(ToSet(waiting[i]), pass)
          /\ serviced[i] = Cardinality(Delivered(i))

(* The passengers on the elevator never exceed either limit, although      *)
(* canFit looks at running counters and not at the passengers.             *)
CapacityRespected ==
    LET load == Tally(Riders, pass)
    IN  load.w_units <= MAX_W /\ load.p_units <= MAX_P

(* An elevator that is idle or out of service carries nobody: stopping     *)
(* first delivers everyone aboard.                                         *)
EmptyWhenParked == status \in {"IDLE", "OFFLINE"} => Riders = {}

(* The next floor is a neighbour of the current one, on the side that      *)
(* direction says.  The exception is an elevator restarted on the ground   *)
(* floor, which keeps the direction it was stopped with.                   *)
HeadingConsistent ==
    \/ direction = 1 /\ next = current + 1
    \/ direction = 0 /\ next = current - 1
    \/ direction = 0 /\ current = 0 /\ next = 1

(* Everyone aboard is on the stretch between the floor they started on and *)
(* the one they go to: nobody boards an elevator that leaves the other     *)
(* way, and nobody is carried past their floor, through turns, stops and   *)
(* restarts.  (A trip to the start floor itself goes down and comes back.) *)
OnTheWay ==
    \A p \in Riders :
        LET s == pass[p].s_floor
            d == pass[p].d_floor
        IN  \/ s <= current /\ current <= d
            \/ d <= current /\ current <= s
            \/ s = d

(* p stands ahead of q in the queue s. *)
Ahead(p, q, s) == \E j, k \in DOMAIN s : j < k /\ s[j] = p /\ s[k] = q

(* Passengers board in FIFO order: no step puts anyone ahead of a waiting  *)
(* passenger who was not ahead of it before, and whoever boards was ahead  *)
(* of all those left waiting on that floor.                                *)
FifoBoarding ==
    [][\A i \in Floors :
         \A p \in ToSet(waiting[i]) \cap ToSet(waiting'[i]) :
            /\ \A q \in Passengers : Ahead(q, p, waiting'[i]) => Ahead(q, p, waiting[i])
            /\ \A q \in ToSet(waiting[i]) \ ToSet(waiting'[i]) : Ahead(q, p, waiting[i])]_vars

(* From stop_elevator until the next start nobody boards, not even when    *)
(* stop is called while the elevator loads or when issue_request had       *)
(* already read e.shutdown.                                                *)
NoBoardingAfterStop ==
    [][shutdown = 1 /\ shutdown' = 1 => Riders' \subseteq Riders]_vars

(* While someone is aboard the elevator moves at most one floor at a time; *)
(* the jump to the ground floor in start_elevator takes nobody along.      *)
NoTeleport ==
    [][Riders # {} => current' \in {current - 1, current, current + 1}]_vars

(* Whoever boards is delivered, also when the elevator is stopped.         *)
RidersDelivered ==
    \A p \in Passengers : (p \in Riders) ~> (node[p] = "freed")

(* Whoever waits while the elevator runs is delivered unless it is stopped. *)
RequestsServed ==
    \A p \in Passengers :
        (node[p] = "listed" /\ status # "OFFLINE") ~> (node[p] = "freed" \/ shutdown = 1)

(* An elevator that is stopped while passengers wait goes out of service.  *)
StopCompletesIfWaiting ==
    (shutdown = 1 /\ checkBuilding /\ status # "OFFLINE") ~> (status = "OFFLINE")

(* An elevator that is stopped goes out of service, as the description of  *)
(* stop_elevator has it.                                                   *)
StopCompletes == (shutdown = 1) ~> (status = "OFFLINE")

-----------------------------------------------------------------------------
(* The elevator as its passengers see it.  A request arrives when addPass  *)
(* puts it on a list; before that its struct is private to issue_request.  *)
Service ==
    INSTANCE ElevatorService
    WITH line   <- waiting,
         trip   <- [p \in Passengers |->
                      IF node[p] \in {"listed", "freed"} THEN pass[p]
                      ELSE [type |-> ADULT, s_floor |-> 0, d_floor |-> 0]],
         aboard <- Riders,
         served <- {p \in Passengers : node[p] = "freed"},
         floor  <- current,
         taking <- shutdown = 0

(* Every step of the thread and of the system calls is a step of the       *)
(* service or invisible to the passengers: runElevator, with its lock,     *)
(* counters, direction and status, keeps every promise of ElevatorService. *)
ImplementsService == Service!Spec

=============================================================================
