---------------------------- MODULE ElevatorProofs ----------------------------
(***************************************************************************)
(* Proofs of the safety properties of Elevator, for every finite pool of   *)
(* structs, every set of requests, every number of floors and all limits.  *)
(***************************************************************************)
EXTENDS Elevator, PassengerTheorems

-----------------------------------------------------------------------------
(* Type correctness. *)

LEMMA TypeInit == Init => TypeOK
BY LimitsAssumption DEF Init, TypeOK, Floors, passenger, Load, NoLoad, P_TYPE,
   ADULT, CHILD, ROOM, BELL, NodeState, States, ThreadPc

LEMMA UnloadType == TypeOK /\ Unload => TypeOK'
<1> SUFFICES ASSUME TypeOK, Unload PROVE TypeOK'
  OBVIOUS
<1> DEFINE p == riding[current][ptr]
<1>1. p \in Passengers /\ ptr \in 1 .. Len(riding[current])
  BY DEF TypeOK, Unload
<1>2. CASE pass[p].d_floor = current
  <2>1. pass[p].type \in P_TYPE /\ pass[p].s_floor \in Floors
    BY <1>1 DEF TypeOK, passenger
  <2>2. delPass(p) /\ ptr' = ptr
    BY <1>2 DEF Unload
  <2>3. car' \in Load
    BY <2>1, <2>2, CountTypes DEF TypeOK, delPass
  <2>4. RemoveAt(riding[current], ptr) \in Seq(Passengers)
    BY <1>1, RemoveAtType DEF TypeOK
  <2>5. riding' \in [Floors -> Seq(Passengers)]
    BY <2>2, <2>4 DEF TypeOK, delPass
  <2>6. serviced' \in [Floors -> Nat]
    BY <2>1, <2>2 DEF TypeOK, delPass
  <2>7. node' \in [Passengers -> NodeState]
    BY <2>2 DEF TypeOK, delPass, NodeState
  <2> QED
    BY <2>2, <2>3, <2>5, <2>6, <2>7 DEF TypeOK, Unload, position
<1>3. CASE pass[p].d_floor # current
  BY <1>3 DEF TypeOK, Unload, position
<1> QED
  BY <1>2, <1>3

LEMMA BoardType == TypeOK /\ Board => TypeOK'
<1> SUFFICES ASSUME TypeOK, Board PROVE TypeOK'
  OBVIOUS
<1> DEFINE p == waiting[current][ptr]
<1>1. p \in Passengers /\ ptr \in 1 .. Len(waiting[current])
  BY DEF TypeOK, Board, MayBoard
<1>2. CASE pass[p].s_floor = current
  <2>1. pass[p].type \in P_TYPE /\ pass[p].d_floor \in Floors
    BY <1>1 DEF TypeOK, passenger
  <2>2. movePass(p) /\ ptr' = ptr
    BY <1>2 DEF Board
  <2>3. car' \in Load /\ hall' \in [Floors -> Load]
    BY <1>2, <2>1, <2>2, CountTypes DEF TypeOK, movePass
  <2>4. RemoveAt(waiting[current], ptr) \in Seq(Passengers)
    BY <1>1, RemoveAtType DEF TypeOK
  <2>5. waiting' \in [Floors -> Seq(Passengers)]
    BY <2>2, <2>4 DEF TypeOK, movePass
  <2>6. riding' \in [Floors -> Seq(Passengers)]
    BY <1>1, <2>1, <2>2, AppendFacts DEF TypeOK, movePass
  <2> QED
    BY <2>2, <2>3, <2>5, <2>6 DEF TypeOK, Board, position
<1>3. CASE pass[p].s_floor # current
  BY <1>3 DEF TypeOK, Board, position
<1> QED
  BY <1>2, <1>3

LEMMA MoveFloorType == TypeOK /\ MoveFloor => TypeOK'
<1> SUFFICES ASSUME TypeOK, MoveFloor PROVE TypeOK'
  OBVIOUS
<1>1. /\ current' \in Floors
      /\ next' \in Floors
      /\ direction' \in {0, 1}
      /\ status' \in States
      /\ pc' \in ThreadPc
  BY LimitsAssumption DEF TypeOK, MoveFloor, Ascending, Floors, Top, States, ThreadPc
<1> QED
  BY <1>1 DEF TypeOK, MoveFloor, lists, counters

LEMMA IssueRequestType ==
    ASSUME TypeOK, NEW p \in Passengers
    PROVE  /\ \A r \in Requests : IssueRequestCheck(p, r) => TypeOK'
           /\ IssueRequestAdd(p) => TypeOK'
<1>1. ASSUME NEW r \in Requests, IssueRequestCheck(p, r) PROVE TypeOK'
  <2>1. [type |-> r.p_type - 1, s_floor |-> r.s_floor - 1, d_floor |-> r.d_floor - 1]
          \in passenger
    BY <1>1, RequestsAssumption, LimitsAssumption
       DEF IssueRequestCheck, InRange, passenger, P_TYPE, ADULT, CHILD, ROOM, BELL, Floors
  <2>2. pass' \in [Passengers -> passenger] /\ node' \in [Passengers -> NodeState]
    BY <1>1, <2>1 DEF TypeOK, IssueRequestCheck, NodeState
  <2> QED
    BY <1>1, <2>2 DEF TypeOK, IssueRequestCheck, counters, position, thread
<1>2. ASSUME IssueRequestAdd(p) PROVE TypeOK'
  <2>1. pass[p].type \in P_TYPE /\ pass[p].s_floor \in Floors
    BY DEF TypeOK, passenger
  <2>2. waiting' \in [Floors -> Seq(Passengers)]
    BY <1>2, <2>1, AppendFacts DEF TypeOK, IssueRequestAdd, addPass
  <2>3. hall' \in [Floors -> Load]
    BY <1>2, <2>1, CountTypes DEF TypeOK, IssueRequestAdd, addPass
  <2>4. node' \in [Passengers -> NodeState]
    BY <1>2 DEF TypeOK, IssueRequestAdd, NodeState
  <2> QED
    BY <1>2, <2>2, <2>3, <2>4 DEF TypeOK, IssueRequestAdd, position, thread
<1> QED
  BY <1>1, <1>2

LEMMA TypeStep == TypeOK /\ [Next]_vars => TypeOK'
<1> SUFFICES ASSUME TypeOK, [Next]_vars PROVE TypeOK'
  OBVIOUS
<1> USE DEF lists, counters, position, thread
<1>1. CASE PassFloor \/ EndLoading \/ StayOffline
  BY <1>1 DEF TypeOK, PassFloor, EndLoading, StayOffline, ThreadPc
<1>2. CASE BeginLoading \/ BeginBoarding
  BY <1>2 DEF TypeOK, BeginLoading, BeginBoarding, ThreadPc, States
<1>3. CASE GoIdle \/ GoOffline
  BY <1>3 DEF TypeOK, GoIdle, GoOffline, ThreadPc, States
<1>4. CASE StartElevator
  <2>1. 0 \in Floors /\ 1 \in Floors
    BY LimitsAssumption DEF Floors
  <2> QED
    BY <1>4, <2>1 DEF TypeOK, StartElevator, States
<1>5. CASE StopElevator
  BY <1>5 DEF TypeOK, StopElevator
<1>6. CASE UNCHANGED vars
  BY <1>6 DEF TypeOK, vars
<1> QED
  BY <1>1, <1>2, <1>3, <1>4, <1>5, <1>6, UnloadType, BoardType, MoveFloorType, IssueRequestType
     DEF Next, RunElevator

(* The variables keep their types: no turn, restart or request drives      *)
(* _current, next or a stored floor out of the bounds of b.f[] and e.p[].  *)
THEOREM TypeCorrect == Spec => []TypeOK
BY TypeInit, TypeStep, PTL DEF Spec

-----------------------------------------------------------------------------
(* The inductive invariant. *)

(* The thread holds the mutex exactly in its two loops, which run in state *)
(* LOADING; it is in the second only if e.shutdown was not set, and since  *)
(* every node a loop visits leaves the list, a loop is always at its head. *)
LockDiscipline ==
    /\ mutx = "held" <=> pc \in {"unload", "board"}
    /\ pc \in {"unload", "board"} => status = "LOADING"
    /\ pc = "board" => shutdown = 0
    /\ ptr = 1

(* What OnTheWay needs to be inductive: a rider is short of its floor and  *)
(* the elevator heads for it, or has arrived and is about to be let out.   *)
Arriving(p) == pass[p].d_floor = current /\ pc \in {"load_lock", "unload"}

OnCourse(p) ==
    LET s == pass[p].s_floor
        d == pass[p].d_floor
    IN  /\ s < d => /\ s <= current
                    /\ Arriving(p) \/ (current < d /\ direction = 1)
        /\ d < s => /\ current <= s
                    /\ Arriving(p) \/ (d < current /\ direction = 0)

Course == \A p \in Riders : OnCourse(p)

Inv ==
    /\ TypeOK
    /\ LockDiscipline
    /\ ListsSound
    /\ LoadAccounting
    /\ CapacityRespected
    /\ EmptyWhenParked
    /\ HeadingConsistent
    /\ Course

LEMMA RidersFinite ==
    ASSUME TypeOK
    PROVE  /\ Riders \subseteq Passengers
           /\ \A i \in Floors : ToSet(waiting[i]) \subseteq Passengers
           /\ IsFiniteSet(Riders)
           /\ \A i \in Floors : IsFiniteSet(ToSet(waiting[i]))
<1>1. \A i \in Floors : ToSet(riding[i]) \subseteq Passengers
  BY DEF TypeOK, ToSet
<1>2. \A i \in Floors : ToSet(waiting[i]) \subseteq Passengers
  BY DEF TypeOK, ToSet
<1>3. Riders \subseteq Passengers
  BY <1>1 DEF Riders
<1> QED
  BY <1>2, <1>3, FS_Subset, PassengersAssumption

LEMMA NobodyRides == ASSUME \A i \in Floors : riding[i] = <<>> PROVE Riders = {}
BY DEF Riders, ToSet

(* What an iteration of the unloading loop does: the node at the head of   *)
(* e.p[_current] is let out.                                               *)
LEMMA UnloadEffect ==
    ASSUME TypeOK, LockDiscipline, ListsSound, Unload,
           NEW p, p = riding[current][ptr]
    PROVE  /\ p \in Riders
           /\ p \in Passengers
           /\ pass[p].d_floor = current
           /\ delPass(p)
           /\ ptr' = ptr
           /\ \A i \in Floors : IsInjective(riding'[i])
           /\ \A i \in Floors : ToSet(riding'[i]) = ToSet(riding[i]) \ {p}
           /\ Riders' = Riders \ {p}
<1> DEFINE s == riding[current]
<1>1. /\ s \in Seq(Passengers) /\ 1 <= Len(s) /\ IsInjective(s)
      /\ p = s[1] /\ ptr = 1 /\ current \in Floors
  BY DEF TypeOK, LockDiscipline, ListsSound, Unload
<1>2. /\ p \in Passengers
      /\ p \in ToSet(s)
      /\ ToSet(RemoveAt(s, 1)) = ToSet(s) \ {p}
      /\ IsInjective(RemoveAt(s, 1))
  BY <1>1, RemoveFirstFacts
<1>3. pass[p].d_floor = current /\ p \in Riders
  BY <1>1, <1>2 DEF ListsSound, Riders
<1>4. delPass(p) /\ ptr' = ptr
  BY <1>3 DEF Unload
<1>5. riding' = [riding EXCEPT ![current] = RemoveAt(s, 1)]
  BY <1>1, <1>4 DEF delPass
<1>6. \A i \in Floors : riding'[i] = IF i = current THEN RemoveAt(s, 1) ELSE riding[i]
  BY <1>1, <1>5 DEF TypeOK
<1>7. \A i \in Floors : i # current => p \notin ToSet(riding[i])
  BY <1>3 DEF ListsSound
<1>8. \A i \in Floors : ToSet(riding'[i]) = ToSet(riding[i]) \ {p}
  BY <1>2, <1>6, <1>7
<1>9. \A i \in Floors : IsInjective(riding'[i])
  BY <1>2, <1>6 DEF ListsSound
<1>10. Riders' = Riders \ {p}
  BY <1>8 DEF Riders
<1> QED
  BY <1>2, <1>3, <1>4, <1>8, <1>9, <1>10

(* What an iteration of the boarding loop does: the passenger at the head  *)
(* of b.f[_current].waiting boards.                                        *)
LEMMA BoardEffect ==
    ASSUME TypeOK, LockDiscipline, ListsSound, Board,
           NEW p, p = waiting[current][ptr]
    PROVE  /\ p \in ToSet(waiting[current])
           /\ p \in Passengers
           /\ pass[p].s_floor = current
           /\ movePass(p)
           /\ ptr' = ptr
           /\ \A i \in Floors : IsInjective(waiting'[i]) /\ IsInjective(riding'[i])
           /\ \A i \in Floors : ToSet(waiting'[i]) = ToSet(waiting[i]) \ {p}
           /\ \A i \in Floors : ToSet(riding'[i]) = IF i = pass[p].d_floor
                                                    THEN ToSet(riding[i]) \cup {p}
                                                    ELSE ToSet(riding[i])
           /\ Riders' = Riders \cup {p}
<1> DEFINE s == waiting[current]
           d == pass[p].d_floor
<1>1. /\ s \in Seq(Passengers) /\ 1 <= Len(s) /\ IsInjective(s)
      /\ p = s[1] /\ ptr = 1 /\ current \in Floors
  BY DEF TypeOK, LockDiscipline, ListsSound, Board, MayBoard
<1>2. /\ p \in Passengers
      /\ p \in ToSet(s)
      /\ ToSet(RemoveAt(s, 1)) = ToSet(s) \ {p}
      /\ IsInjective(RemoveAt(s, 1))
  BY <1>1, RemoveFirstFacts
<1>3. pass[p].s_floor = current /\ d \in Floors
  BY <1>1, <1>2 DEF ListsSound, TypeOK, passenger
<1>4. movePass(p) /\ ptr' = ptr
  BY <1>3 DEF Board
<1>5. \A i \in Floors : waiting'[i] = IF i = current THEN RemoveAt(s, 1) ELSE waiting[i]
  BY <1>1, <1>4 DEF TypeOK, movePass
<1>6. \A i \in Floors : riding'[i] = IF i = d THEN Append(riding[i], p) ELSE riding[i]
  BY <1>3, <1>4 DEF TypeOK, movePass
<1>7. \A i \in Floors : i # current => p \notin ToSet(waiting[i])
  BY <1>3 DEF ListsSound
<1>8. \A i \in Floors : p \notin ToSet(riding[i])
  BY <1>1, <1>2 DEF ListsSound, Riders
<1>9. \A i \in Floors : ToSet(waiting'[i]) = ToSet(waiting[i]) \ {p}
  BY <1>2, <1>5, <1>7
<1>10. \A i \in Floors : /\ ToSet(Append(riding[i], p)) = ToSet(riding[i]) \cup {p}
                         /\ IsInjective(Append(riding[i], p))
  BY <1>2, <1>8, AppendFacts DEF TypeOK, ListsSound
<1>11. \A i \in Floors : IsInjective(waiting'[i]) /\ IsInjective(riding'[i])
  BY <1>2, <1>5, <1>6, <1>10 DEF ListsSound
<1>12. \A i \in Floors : ToSet(riding'[i]) = IF i = d THEN ToSet(riding[i]) \cup {p}
                                             ELSE ToSet(riding[i])
  BY <1>6, <1>10
<1>13. Riders' = Riders \cup {p}
  <2> HIDE DEF d
  <2>1. \A q : q \in Riders' <=> \E i \in Floors : q \in ToSet(riding'[i])
    BY DEF Riders
  <2>2. \A q : q \in Riders <=> \E i \in Floors : q \in ToSet(riding[i])
    BY DEF Riders
  <2>3. d \in Floors
    BY <1>3
  <2>4. \A q : q \in Riders' <=> q \in Riders \/ q = p
    BY <2>1, <2>2, <2>3, <1>12
  <2> QED
    BY <2>4
<1> QED
  BY <1>2, <1>3, <1>4, <1>9, <1>11, <1>12, <1>13

(* What the locked region of issue_request does: the new passenger stands  *)
(* at the end of the queue of its floor.                                   *)
LEMMA AddEffect ==
    ASSUME TypeOK, ListsSound, NEW p \in Passengers, IssueRequestAdd(p)
    PROVE  /\ pass[p].s_floor \in Floors
           /\ p \notin Riders
           /\ \A i \in Floors : p \notin ToSet(waiting[i])
           /\ \A i \in Floors : IsInjective(waiting'[i])
           /\ \A i \in Floors : ToSet(waiting'[i]) = IF i = pass[p].s_floor
                                                     THEN ToSet(waiting[i]) \cup {p}
                                                     ELSE ToSet(waiting[i])
           /\ Riders' = Riders
<1> DEFINE f == pass[p].s_floor
<1>1. f \in Floors
  BY DEF TypeOK, passenger
<1>2. p \notin Riders /\ \A i \in Floors : p \notin ToSet(waiting[i])
  BY DEF IssueRequestAdd, ListsSound
<1>3. \A i \in Floors : waiting'[i] = IF i = f THEN Append(waiting[i], p) ELSE waiting[i]
  BY <1>1 DEF TypeOK, IssueRequestAdd, addPass
<1>4. \A i \in Floors : /\ ToSet(Append(waiting[i], p)) = ToSet(waiting[i]) \cup {p}
                        /\ IsInjective(Append(waiting[i], p))
  BY <1>2, AppendFacts DEF TypeOK, ListsSound
<1>5. \A i \in Floors : ToSet(waiting'[i]) = IF i = f THEN ToSet(waiting[i]) \cup {p}
                                             ELSE ToSet(waiting[i])
  BY <1>3, <1>4
<1>6. \A i \in Floors : IsInjective(waiting'[i])
  BY <1>3, <1>4 DEF ListsSound
<1>7. Riders' = Riders
  BY DEF IssueRequestAdd, Riders
<1> QED
  BY <1>1, <1>2, <1>5, <1>6, <1>7

(* The steps that touch no list and no counter. *)
Quiet ==
    \/ PassFloor \/ BeginLoading \/ BeginBoarding \/ EndLoading
    \/ StayOffline \/ GoIdle \/ GoOffline \/ MoveFloor
    \/ StartElevator \/ StopElevator
    \/ UNCHANGED vars

LEMMA StepCases ==
    ASSUME [Next]_vars
    PROVE  \/ Quiet
           \/ Unload
           \/ Board
           \/ \E p \in Passengers, r \in Requests : IssueRequestCheck(p, r)
           \/ \E p \in Passengers : IssueRequestAdd(p)
BY DEF Next, RunElevator, Quiet

LEMMA QuietLeaves ==
    ASSUME Quiet
    PROVE  /\ UNCHANGED <<waiting, riding, pass, node, hall, car, serviced>>
           /\ Riders' = Riders
<1>1. UNCHANGED <<waiting, riding, pass, node, hall, car, serviced>>
  <2> USE DEF lists, counters
  <2>1. CASE PassFloor \/ BeginLoading \/ BeginBoarding \/ EndLoading \/ StayOffline
    BY <2>1 DEF PassFloor, BeginLoading, BeginBoarding, EndLoading, StayOffline
  <2>2. CASE GoIdle \/ GoOffline \/ MoveFloor \/ StartElevator \/ StopElevator
    BY <2>2 DEF GoIdle, GoOffline, MoveFloor, StartElevator, StopElevator
  <2>3. CASE UNCHANGED vars
    BY <2>3 DEF vars
  <2> QED
    BY <2>1, <2>2, <2>3 DEF Quiet
<1>2. Riders' = Riders
  BY <1>1 DEF Riders
<1> QED
  BY <1>1, <1>2

LEMMA CheckLeaves ==
    ASSUME TypeOK, ListsSound, NEW p \in Passengers, NEW r \in Requests,
           IssueRequestCheck(p, r)
    PROVE  /\ UNCHANGED <<waiting, riding, hall, car, serviced>>
           /\ Riders' = Riders
           /\ \A q \in Riders : pass'[q] = pass[q] /\ node'[q] = node[q]
           /\ \A i \in Floors : \A q \in ToSet(waiting[i]) : pass'[q] = pass[q]
           /\ \A q \in Passengers : node[q] = "freed" <=> node'[q] = "freed"
           /\ \A q \in Passengers : node[q] = "listed" <=> node'[q] = "listed"
           /\ \A q \in Passengers : node[q] = "freed" => pass'[q] = pass[q]
<1>1. UNCHANGED <<waiting, riding, hall, car, serviced>>
  BY DEF IssueRequestCheck, counters
<1>2. Riders' = Riders
  BY <1>1 DEF Riders
<1>3. node[p] = "unused" /\ node'[p] = "private"
  BY DEF IssueRequestCheck, TypeOK
<1>4. \A q \in Passengers : q # p => pass'[q] = pass[q] /\ node'[q] = node[q]
  BY DEF IssueRequestCheck, TypeOK
<1>5. p \notin Riders /\ \A i \in Floors : p \notin ToSet(waiting[i])
  BY <1>3 DEF ListsSound
<1> QED
  BY <1>1, <1>2, <1>3, <1>4, <1>5, RidersFinite

LEMMA ListsStep == Inv /\ [Next]_vars => ListsSound'
<1> SUFFICES ASSUME TypeOK, LockDiscipline, ListsSound, [Next]_vars PROVE ListsSound'
  BY DEF Inv
<1> DEFINE Queued == UNION {ToSet(waiting[i]) : i \in Floors}
<1>1. CASE Quiet
  BY <1>1, QuietLeaves DEF ListsSound
<1>2. CASE Unload
  <2> DEFINE p == riding[current][ptr]
  <2>1. /\ p \in Riders /\ p \in Passengers
        /\ delPass(p)
        /\ \A i \in Floors : IsInjective(riding'[i])
        /\ \A i \in Floors : ToSet(riding'[i]) = ToSet(riding[i]) \ {p}
        /\ Riders' = Riders \ {p}
    BY <1>2, UnloadEffect
  <2>2. waiting' = waiting /\ pass' = pass
    BY <1>2 DEF Unload
  <2>3. node' = [node EXCEPT ![p] = "freed"]
    BY <2>1 DEF delPass
  <2> HIDE DEF p
  <2>4. p \notin Queued
    BY <2>1 DEF ListsSound
  <2>5. {q \in Passengers : node'[q] = "listed"}
          = {q \in Passengers : node[q] = "listed"} \ {p}
    BY <2>1, <2>3 DEF TypeOK
  <2>6. {q \in Passengers : node'[q] = "listed"} = Riders' \cup Queued'
    BY <2>1, <2>2, <2>4, <2>5 DEF ListsSound
  <2> QED
    BY <2>1, <2>2, <2>6 DEF ListsSound
<1>3. CASE Board
  <2> DEFINE p == waiting[current][ptr]
  <2>1. /\ p \in ToSet(waiting[current]) /\ p \in Passengers
        /\ \A i \in Floors : IsInjective(waiting'[i]) /\ IsInjective(riding'[i])
        /\ \A i \in Floors : ToSet(waiting'[i]) = ToSet(waiting[i]) \ {p}
        /\ \A i \in Floors : ToSet(riding'[i]) = IF i = pass[p].d_floor
                                                 THEN ToSet(riding[i]) \cup {p}
                                                 ELSE ToSet(riding[i])
        /\ Riders' = Riders \cup {p}
    BY <1>3, BoardEffect
  <2>2. node' = node /\ pass' = pass /\ current \in Floors
    BY <1>3 DEF Board, TypeOK
  <2> HIDE DEF p
  <2>3. Queued' = Queued \ {p}
    BY <2>1
  <2>4. p \in Queued
    BY <2>1, <2>2
  <2>5. {q \in Passengers : node'[q] = "listed"} = Riders' \cup Queued'
    BY <2>1, <2>2, <2>3, <2>4 DEF ListsSound
  <2>6. ASSUME NEW i \in Floors, NEW q \in ToSet(riding'[i]) PROVE pass'[q].d_floor = i
    <3>1. q \in ToSet(riding[i]) \/ (q = p /\ i = pass[p].d_floor)
      BY <2>1, <2>6
    <3> QED
      BY <2>2, <3>1 DEF ListsSound
  <2>7. \A i \in Floors : ToSet(waiting'[i]) \cap Riders' = {}
    BY <2>1 DEF ListsSound
  <2>8. \A i \in Floors : \A q \in ToSet(waiting'[i]) : pass'[q].s_floor = i
    BY <2>1, <2>2 DEF ListsSound
  <2> QED
    BY <2>1, <2>5, <2>6, <2>7, <2>8 DEF ListsSound
<1>4. ASSUME NEW p \in Passengers, NEW r \in Requests, IssueRequestCheck(p, r)
      PROVE  ListsSound'
  <2>1. /\ UNCHANGED <<waiting, riding>>
        /\ Riders' = Riders
        /\ \A q \in Riders : pass'[q] = pass[q]
        /\ \A i \in Floors : \A q \in ToSet(waiting[i]) : pass'[q] = pass[q]
        /\ \A q \in Passengers : node[q] = "listed" <=> node'[q] = "listed"
    BY <1>4, CheckLeaves
  <2>2. \A i \in Floors : \A q \in ToSet(riding[i]) : pass'[q] = pass[q]
    BY <2>1 DEF Riders
  <2>3. {q \in Passengers : node'[q] = "listed"} = {q \in Passengers : node[q] = "listed"}
    BY <2>1
  <2>4. \A i \in Floors : /\ \A q \in ToSet(waiting'[i]) : pass'[q].s_floor = i
                          /\ \A q \in ToSet(riding'[i]) : pass'[q].d_floor = i
    BY <2>1, <2>2 DEF ListsSound
  <2> QED
    BY <2>1, <2>3, <2>4 DEF ListsSound
<1>5. ASSUME NEW p \in Passengers, IssueRequestAdd(p) PROVE ListsSound'
  <2>1. /\ pass[p].s_floor \in Floors
        /\ p \notin Riders
        /\ \A i \in Floors : IsInjective(waiting'[i])
        /\ \A i \in Floors : ToSet(waiting'[i]) = IF i = pass[p].s_floor
                                                  THEN ToSet(waiting[i]) \cup {p}
                                                  ELSE ToSet(waiting[i])
        /\ Riders' = Riders
    BY <1>5, AddEffect
  <2>2. riding' = riding /\ pass' = pass /\ node' = [node EXCEPT ![p] = "listed"]
    BY <1>5 DEF IssueRequestAdd
  <2>3. \A q : q \in Queued' <=> \E i \in Floors : q \in ToSet(waiting'[i])
    OBVIOUS
  <2>4. \A q : q \in Queued <=> \E i \in Floors : q \in ToSet(waiting[i])
    OBVIOUS
  <2>5. \A q : q \in Queued' <=> q \in Queued \/ q = p
    BY <2>1, <2>3, <2>4
  <2>6. Queued' = Queued \cup {p}
    BY <2>5
  <2>7. {q \in Passengers : node'[q] = "listed"} = {q \in Passengers : node[q] = "listed"} \cup {p}
    BY <2>2 DEF TypeOK
  <2>8. {q \in Passengers : node'[q] = "listed"} = Riders' \cup Queued'
    BY <2>1, <2>6, <2>7 DEF ListsSound
  <2>9. ASSUME NEW i \in Floors, NEW q \in ToSet(waiting'[i])
        PROVE  q \notin Riders' /\ pass'[q].s_floor = i
    <3>1. q \in ToSet(waiting[i]) \/ (q = p /\ i = pass[p].s_floor)
      BY <2>1, <2>9
    <3> QED
      BY <2>1, <2>2, <3>1 DEF ListsSound
  <2> QED
    BY <2>1, <2>2, <2>8, <2>9 DEF ListsSound
<1> QED
  BY <1>1, <1>2, <1>3, <1>4, <1>5, StepCases

LEMMA AccountingStep == Inv /\ [Next]_vars => LoadAccounting'
<1> SUFFICES ASSUME TypeOK, LockDiscipline, ListsSound, LoadAccounting, [Next]_vars
             PROVE  LoadAccounting'
  BY DEF Inv
<1> DEFINE Q(i) == ToSet(waiting[i])
<1>1. CASE Quiet
  BY <1>1, QuietLeaves DEF LoadAccounting, Delivered
<1>2. CASE Unload
  <2> DEFINE p == riding[current][ptr]
             f == pass[p].s_floor
  <2>1. p \in Riders /\ p \in Passengers /\ delPass(p) /\ Riders' = Riders \ {p}
    BY <1>2, UnloadEffect
  <2>2. waiting' = waiting /\ pass' = pass /\ hall' = hall
    BY <1>2 DEF Unload
  <2>3. /\ car' = CountOut(car, pass[p].type)
        /\ serviced' = [serviced EXCEPT ![f] = @ + 1]
        /\ node' = [node EXCEPT ![p] = "freed"]
    BY <2>1 DEF delPass
  <2>4. f \in Floors /\ pass[p].type \in P_TYPE /\ node[p] = "listed"
    BY <2>1 DEF TypeOK, passenger, ListsSound
  <2> HIDE DEF p
  <2>5. car' = Tally(Riders', pass')
    BY <2>1, <2>2, <2>3, <2>4, RidersFinite, TallyRemove DEF LoadAccounting
  <2>6. \A i \in Floors : hall'[i] = Tally(ToSet(waiting'[i]), pass')
    BY <2>2 DEF LoadAccounting
  <2>7. ASSUME NEW i \in Floors PROVE serviced'[i] = Cardinality(Delivered(i)')
    <3>1. /\ IsFiniteSet(Delivered(i))
          /\ Cardinality(Delivered(i)) \in Nat
          /\ p \notin Delivered(i)
          /\ serviced[i] = Cardinality(Delivered(i))
      BY <2>4, FS_Subset, FS_CardinalityType, PassengersAssumption
         DEF Delivered, LoadAccounting
    <3>2. CASE i = f
      <4>1. Delivered(i)' = Delivered(i) \cup {p}
        BY <2>1, <2>2, <2>3, <3>2 DEF Delivered, TypeOK
      <4>2. serviced'[i] = serviced[i] + 1
        BY <2>3, <2>4, <3>2 DEF TypeOK
      <4> QED
        BY <3>1, <4>1, <4>2, FS_AddElement
    <3>3. CASE i # f
      <4>1. Delivered(i)' = Delivered(i)
        BY <2>1, <2>2, <2>3, <2>4, <3>3 DEF Delivered, TypeOK
      <4>2. serviced'[i] = serviced[i]
        BY <2>3, <2>4, <3>3 DEF TypeOK
      <4> QED
        BY <3>1, <4>1, <4>2
    <3> QED
      BY <3>2, <3>3
  <2> QED
    BY <2>5, <2>6, <2>7 DEF LoadAccounting
<1>3. CASE Board
  <2> DEFINE p == waiting[current][ptr]
  <2>1. /\ p \in Q(current) /\ p \in Passengers
        /\ pass[p].s_floor = current
        /\ movePass(p)
        /\ \A i \in Floors : ToSet(waiting'[i]) = Q(i) \ {p}
        /\ Riders' = Riders \cup {p}
    BY <1>3, BoardEffect
  <2>2. node' = node /\ pass' = pass /\ serviced' = serviced /\ current \in Floors
    BY <1>3 DEF Board, TypeOK
  <2>3. /\ car' = CountIn(car, pass[p].type)
        /\ hall' = [hall EXCEPT ![current] = CountOut(@, pass[p].type)]
    BY <2>1 DEF movePass
  <2>4. pass[p].type \in P_TYPE
    BY <2>1 DEF TypeOK, passenger
  <2>5. p \notin Riders /\ \A i \in Floors : i # current => p \notin Q(i)
    BY <2>1, <2>2 DEF ListsSound
  <2> HIDE DEF p
  <2>6. car' = Tally(Riders', pass')
    <3>1. Tally(Riders \cup {p}, pass) = CountIn(Tally(Riders, pass), pass[p].type)
      BY <2>4, <2>5, RidersFinite, TallyAdd
    <3> QED
      BY <2>1, <2>2, <2>3, <3>1 DEF LoadAccounting
  <2>7. ASSUME NEW i \in Floors PROVE hall'[i] = Tally(ToSet(waiting'[i]), pass')
    <3>1. hall[i] = Tally(Q(i), pass)
      BY DEF LoadAccounting
    <3>2. CASE i = current
      <4>1. hall'[i] = CountOut(hall[i], pass[p].type)
        BY <2>2, <2>3, <3>2 DEF TypeOK
      <4>2. Tally(Q(i) \ {p}, pass) = CountOut(Tally(Q(i), pass), pass[p].type)
        BY <2>1, <2>4, <3>2, RidersFinite, TallyRemove
      <4> QED
        BY <2>1, <2>2, <3>1, <4>1, <4>2
    <3>3. CASE i # current
      <4>1. hall'[i] = hall[i] /\ Q(i) \ {p} = Q(i)
        BY <2>2, <2>3, <2>5, <3>3 DEF TypeOK
      <4> QED
        BY <2>1, <2>2, <3>1, <4>1
    <3> QED
      BY <3>2, <3>3
  <2>8. \A i \in Floors : serviced'[i] = Cardinality(Delivered(i)')
    BY <2>2 DEF LoadAccounting, Delivered
  <2> QED
    BY <2>6, <2>7, <2>8 DEF LoadAccounting
<1>4. ASSUME NEW p \in Passengers, NEW r \in Requests, IssueRequestCheck(p, r)
      PROVE  LoadAccounting'
  <2>1. /\ UNCHANGED <<waiting, riding, hall, car, serviced>>
        /\ Riders' = Riders
        /\ \A q \in Riders : pass'[q] = pass[q]
        /\ \A i \in Floors : \A q \in Q(i) : pass'[q] = pass[q]
        /\ \A q \in Passengers : node[q] = "freed" <=> node'[q] = "freed"
        /\ \A q \in Passengers : node[q] = "freed" => pass'[q] = pass[q]
    BY <1>4, CheckLeaves
  <2>2. car' = Tally(Riders', pass')
    <3>1. Tally(Riders, pass') = Tally(Riders, pass)
      BY <2>1, TallySame
    <3> QED
      BY <2>1, <3>1 DEF LoadAccounting
  <2>3. ASSUME NEW i \in Floors
        PROVE  /\ hall'[i] = Tally(ToSet(waiting'[i]), pass')
               /\ serviced'[i] = Cardinality(Delivered(i)')
    <3>1. Tally(Q(i), pass') = Tally(Q(i), pass)
      BY <2>1, TallySame
    <3>2. Delivered(i)' = Delivered(i)
      BY <2>1 DEF Delivered
    <3> QED
      BY <2>1, <3>1, <3>2 DEF LoadAccounting
  <2> QED
    BY <2>2, <2>3 DEF LoadAccounting
<1>5. ASSUME NEW p \in Passengers, IssueRequestAdd(p) PROVE LoadAccounting'
  <2> DEFINE f == pass[p].s_floor
  <2>1. /\ f \in Floors
        /\ \A i \in Floors : p \notin Q(i)
        /\ \A i \in Floors : ToSet(waiting'[i]) = IF i = f THEN Q(i) \cup {p} ELSE Q(i)
        /\ Riders' = Riders
    BY <1>5, AddEffect
  <2>2. /\ pass' = pass /\ car' = car /\ serviced' = serviced
        /\ node[p] = "private"
        /\ node' = [node EXCEPT ![p] = "listed"]
        /\ hall' = [hall EXCEPT ![f] = CountIn(@, pass[p].type)]
    BY <1>5 DEF IssueRequestAdd, addPass
  <2>3. pass[p].type \in P_TYPE
    BY DEF TypeOK, passenger
  <2> HIDE DEF f
  <2>4. ASSUME NEW i \in Floors PROVE hall'[i] = Tally(ToSet(waiting'[i]), pass')
    <3>1. hall[i] = Tally(Q(i), pass)
      BY DEF LoadAccounting
    <3>2. CASE i = f
      <4>1. hall'[i] = CountIn(hall[i], pass[p].type)
        BY <2>1, <2>2, <3>2 DEF TypeOK
      <4>2. Tally(Q(i) \cup {p}, pass) = CountIn(Tally(Q(i), pass), pass[p].type)
        BY <2>1, <2>3, RidersFinite, TallyAdd
      <4>3. ToSet(waiting'[i]) = Q(i) \cup {p}
        BY <2>1, <3>2
      <4> QED
        BY <2>2, <3>1, <4>1, <4>2, <4>3
    <3>3. CASE i # f
      <4>1. hall'[i] = hall[i] /\ ToSet(waiting'[i]) = Q(i)
        BY <2>1, <2>2, <3>3 DEF TypeOK
      <4> QED
        BY <2>2, <3>1, <4>1
    <3> QED
      BY <3>2, <3>3
  <2>5. \A i \in Floors : Delivered(i)' = Delivered(i)
    BY <2>2 DEF Delivered, TypeOK
  <2> QED
    BY <2>1, <2>2, <2>4, <2>5 DEF LoadAccounting
<1> QED
  BY <1>1, <1>2, <1>3, <1>4, <1>5, StepCases

LEMMA CapacityIsCar ==
    LoadAccounting => (CapacityRespected <=> car.w_units <= MAX_W /\ car.p_units <= MAX_P)
BY DEF LoadAccounting, CapacityRespected

LEMMA CapacityStep == Inv /\ [Next]_vars => CapacityRespected'
<1> SUFFICES ASSUME Inv, [Next]_vars PROVE CapacityRespected'
  OBVIOUS
<1> USE DEF Inv
<1>1. LoadAccounting' /\ TypeOK'
  BY AccountingStep, TypeStep
<1>2. car.w_units <= MAX_W /\ car.p_units <= MAX_P
  BY CapacityIsCar
<1>3. SUFFICES car'.w_units <= MAX_W /\ car'.p_units <= MAX_P
  BY <1>1 DEF LoadAccounting, CapacityRespected
<1>4. CASE UNCHANGED car
  BY <1>2, <1>4
<1>5. CASE Unload
  <2> DEFINE t == pass[riding[current][ptr]].type
  <2>1. t \in P_TYPE /\ car' = CountOut(car, t)
    BY <1>5, UnloadEffect DEF delPass, TypeOK, passenger
  <2> HIDE DEF t
  <2>2. getWeight(t) \in Nat /\ getPass(t) \in Nat
    BY <2>1 DEF getWeight, getPass, P_TYPE, ADULT, CHILD, ROOM, BELL
  <2>3. car.w_units \in Int /\ car.p_units \in Int
    BY DEF TypeOK, Load
  <2>4. car'.w_units = car.w_units - getWeight(t) /\ car'.p_units = car.p_units - getPass(t)
    BY <2>1 DEF CountOut
  <2> QED
    BY <1>2, <2>2, <2>3, <2>4, LimitsAssumption
<1>6. CASE Board
  <2> DEFINE t == pass[waiting[current][ptr]].type
  <2>1. car' = CountIn(car, t) /\ canFit(t, car) /\ t \in P_TYPE
    BY <1>6, BoardEffect DEF movePass, Board, MayBoard, TypeOK, passenger
  <2> HIDE DEF t
  <2>2. getWeight(t) \in Nat /\ getPass(t) \in Nat
    BY <2>1 DEF getWeight, getPass, P_TYPE, ADULT, CHILD, ROOM, BELL
  <2>3. car.w_units \in Int /\ car.p_units \in Int
    BY DEF TypeOK, Load
  <2>4. car'.w_units = car.w_units + getWeight(t) /\ car'.p_units = car.p_units + getPass(t)
    BY <2>1 DEF CountIn
  <2> QED
    BY <2>1, <2>2, <2>3, <2>4 DEF canFit
<1>7. ASSUME Quiet \/ (\E p \in Passengers, r \in Requests : IssueRequestCheck(p, r))
                   \/ (\E p \in Passengers : IssueRequestAdd(p))
      PROVE  UNCHANGED car
  BY <1>7, QuietLeaves DEF IssueRequestCheck, IssueRequestAdd, counters
<1> QED
  BY <1>4, <1>5, <1>6, <1>7, StepCases

LEMMA LockStep == Inv /\ [Next]_vars => LockDiscipline'
<1> SUFFICES ASSUME TypeOK, LockDiscipline, ListsSound, [Next]_vars PROVE LockDiscipline'
  BY DEF Inv
<1> USE DEF LockDiscipline
<1>1. CASE PassFloor \/ BeginLoading
  BY <1>1 DEF PassFloor, BeginLoading, LockForLoading
<1>2. CASE Unload
  BY <1>2, UnloadEffect DEF Unload
<1>3. CASE BeginBoarding \/ EndLoading
  BY <1>3 DEF TypeOK, BeginBoarding, EndLoading, UnloadDone
<1>4. CASE Board
  BY <1>4, BoardEffect DEF Board
<1>5. CASE StayOffline \/ GoIdle \/ GoOffline \/ MoveFloor
  BY <1>5 DEF StayOffline, GoIdle, GoOffline, MoveFloor, LockForMoving
<1>6. CASE StartElevator \/ StopElevator
  BY <1>6 DEF StartElevator, StopElevator, thread
<1>7. CASE \/ \E p \in Passengers, r \in Requests : IssueRequestCheck(p, r)
           \/ \E p \in Passengers : IssueRequestAdd(p)
  BY <1>7 DEF IssueRequestCheck, IssueRequestAdd, thread
<1>8. CASE UNCHANGED vars
  BY <1>8 DEF vars, thread
<1> QED
  BY <1>1, <1>2, <1>3, <1>4, <1>5, <1>6, <1>7, <1>8 DEF Next, RunElevator

LEMMA ParkedStep == Inv /\ [Next]_vars => EmptyWhenParked'
<1> SUFFICES ASSUME Inv, [Next]_vars PROVE EmptyWhenParked'
  OBVIOUS
<1> USE DEF Inv, EmptyWhenParked
<1>1. CASE GoIdle \/ GoOffline
  <2>1. ~checkElevator
    BY <1>1 DEF GoIdle, GoOffline, NothingToDo, Drained
  <2>2. Riders = {}
    BY <2>1, NobodyRides DEF checkElevator
  <2> QED
    BY <1>1, <2>2, QuietLeaves DEF Quiet
<1>2. CASE BeginLoading \/ MoveFloor
  BY <1>2 DEF BeginLoading, MoveFloor
<1>3. CASE StartElevator
  BY <1>3, QuietLeaves DEF StartElevator, MayStart, Quiet
<1>4. CASE Unload \/ Board
  BY <1>4 DEF Unload, Board, LockDiscipline
<1>5. ASSUME \/ PassFloor \/ BeginBoarding \/ EndLoading \/ StayOffline
             \/ StopElevator \/ UNCHANGED vars
      PROVE  status' = status /\ Riders' = Riders
  <2>1. Riders' = Riders
    BY <1>5, QuietLeaves DEF Quiet
  <2>2. status' = status
    BY <1>5 DEF PassFloor, BeginBoarding, EndLoading, StayOffline, StopElevator, vars
  <2> QED
    BY <2>1, <2>2
<1>6. ASSUME \/ \E p \in Passengers, r \in Requests : IssueRequestCheck(p, r)
             \/ \E p \in Passengers : IssueRequestAdd(p)
      PROVE  status' = status /\ Riders' = Riders
  BY <1>6, CheckLeaves, AddEffect DEF IssueRequestCheck, IssueRequestAdd
<1> QED
  BY <1>1, <1>2, <1>3, <1>4, <1>5, <1>6 DEF Next, RunElevator

LEMMA HeadingStep == Inv /\ [Next]_vars => HeadingConsistent'
<1> SUFFICES ASSUME TypeOK, HeadingConsistent, [Next]_vars PROVE HeadingConsistent'
  BY DEF Inv
<1>1. CASE MoveFloor
  BY <1>1, LimitsAssumption
     DEF MoveFloor, Ascending, HeadingConsistent, TypeOK, Floors, Top
<1>2. CASE StartElevator
  BY <1>2 DEF StartElevator, HeadingConsistent, TypeOK
<1>3. ASSUME ~MoveFloor, ~StartElevator PROVE UNCHANGED position
  <2> USE DEF position
  <2>1. CASE PassFloor \/ BeginLoading \/ Unload \/ BeginBoarding \/ Board \/ EndLoading
    BY <2>1 DEF PassFloor, BeginLoading, Unload, BeginBoarding, Board, EndLoading
  <2>2. CASE StayOffline \/ GoIdle \/ GoOffline \/ StopElevator
    BY <2>2 DEF StayOffline, GoIdle, GoOffline, StopElevator
  <2>3. CASE \/ \E p \in Passengers, r \in Requests : IssueRequestCheck(p, r)
             \/ \E p \in Passengers : IssueRequestAdd(p)
    BY <2>3 DEF IssueRequestCheck, IssueRequestAdd
  <2>4. CASE UNCHANGED vars
    BY <2>4 DEF vars
  <2> QED
    BY <1>3, <2>1, <2>2, <2>3, <2>4 DEF Next, RunElevator
<1> QED
  BY <1>1, <1>2, <1>3 DEF HeadingConsistent, position

(* When the thread leaves a floor nobody aboard was bound for it. *)
LEMMA NobodyArriving ==
    ASSUME Inv, PassFloor \/ BeginBoarding \/ EndLoading,
           NEW p \in Riders, pc \in {"load_lock", "unload"}
    PROVE  pass[p].d_floor # current
<1>1. Riders = {} \/ riding[current] = <<>>
  <2>1. CASE PassFloor
    BY <2>1 DEF PassFloor, Inv, EmptyWhenParked
  <2>2. CASE BeginBoarding \/ EndLoading
    BY <2>2 DEF BeginBoarding, EndLoading, UnloadDone, Inv, LockDiscipline, TypeOK
  <2> QED
    BY <2>1, <2>2
<1>2. PICK i \in Floors : p \in ToSet(riding[i])
  BY DEF Riders
<1>3. pass[p].d_floor = i /\ riding[i] # <<>>
  BY <1>2 DEF Inv, ListsSound, ToSet
<1> QED
  BY <1>1, <1>3

LEMMA CourseStep == Inv /\ [Next]_vars => Course'
<1> SUFFICES ASSUME Inv, [Next]_vars, NEW p \in Riders' PROVE OnCourse(p)'
  BY DEF Course
<1>1. /\ current \in Int /\ next \in Int /\ direction \in {0, 1}
      /\ Riders' \subseteq Passengers
      /\ \A q \in Passengers : /\ pass[q].s_floor \in Floors /\ pass[q].s_floor \in Int
                               /\ pass[q].d_floor \in Floors /\ pass[q].d_floor \in Int
  <2>1. riding' \in [Floors -> Seq(Passengers)]
    BY TypeStep DEF Inv, TypeOK
  <2>2. \A i \in Floors : ToSet(riding'[i]) \subseteq Passengers
    BY <2>1 DEF ToSet
  <2>3. Riders' \subseteq Passengers
    BY <2>2 DEF Riders
  <2> QED
    BY <2>3, LimitsAssumption DEF Inv, TypeOK, passenger, Floors
<1> USE DEF Inv
<1>2. CASE MoveFloor
  <2>1. p \in Riders /\ pass' = pass /\ pc = "move_lock" /\ pc' = "load_lock"
    BY <1>2, QuietLeaves DEF Quiet, MoveFloor, LockForMoving
  <2>2. OnCourse(p)
    BY <2>1 DEF Course
  <2> DEFINE s == pass[p].s_floor
             d == pass[p].d_floor
  <2>3. ASSUME s < d PROVE s <= current' /\ (Arriving(p)' \/ (current' < d /\ direction' = 1))
    <3>1. s <= current /\ current < d /\ direction = 1
      BY <2>1, <2>2, <2>3 DEF OnCourse, Arriving
    <3>2. next = current + 1 /\ current' = next
      BY <1>1, <1>2, <3>1 DEF HeadingConsistent, MoveFloor
    <3>3. current' = d \/ (current' < d /\ next # Top)
      BY <1>1, <2>1, <3>1, <3>2, LimitsAssumption DEF Floors, Top
    <3> QED
      BY <1>1, <1>2, <2>1, <3>1, <3>2, <3>3 DEF MoveFloor, Ascending, Arriving
  <2>4. ASSUME d < s PROVE current' <= s /\ (Arriving(p)' \/ (d < current' /\ direction' = 0))
    <3>1. current <= s /\ d < current /\ direction = 0
      BY <2>1, <2>2, <2>4 DEF OnCourse, Arriving
    <3>2. next = current - 1 /\ current' = next
      BY <1>1, <1>2, <2>1, <3>1, LimitsAssumption DEF HeadingConsistent, MoveFloor, Floors
    <3>3. current' = d \/ (d < current' /\ next # 0)
      BY <1>1, <2>1, <3>1, <3>2, LimitsAssumption DEF Floors
    <3> QED
      BY <1>1, <1>2, <2>1, <3>1, <3>2, <3>3 DEF MoveFloor, Ascending, Arriving
  <2> QED
    BY <2>1, <2>3, <2>4 DEF OnCourse
<1>3. CASE StartElevator
  BY <1>3, QuietLeaves DEF StartElevator, MayStart, Quiet, EmptyWhenParked
<1>4. CASE Board
  <2> DEFINE q == waiting[current][ptr]
  <2>1. /\ Riders' = Riders \cup {q} /\ q \in Passengers
        /\ pass[q].s_floor = current
        /\ UNCHANGED <<pass, current, direction, pc>>
        /\ pc = "board"
        /\ pDirection(pass[q]) = direction
    BY <1>4, BoardEffect DEF Board, MayBoard, position
  <2>2. CASE p \in Riders
    BY <2>1, <2>2 DEF Course, OnCourse, Arriving
  <2>3. CASE p = q
    BY <1>1, <2>1, <2>3 DEF OnCourse, pDirection
  <2> QED
    BY <2>1, <2>2, <2>3
<1>5. CASE PassFloor \/ BeginBoarding \/ EndLoading
  <2>1. p \in Riders /\ UNCHANGED <<pass, current, direction>>
    BY <1>5, QuietLeaves DEF Quiet, PassFloor, BeginBoarding, EndLoading, position
  <2>2. ~Arriving(p)
    BY <1>5, <2>1, NobodyArriving DEF Arriving
  <2> QED
    BY <2>1, <2>2 DEF Course, OnCourse
<1>6. ASSUME \/ BeginLoading \/ Unload \/ StayOffline \/ GoIdle \/ GoOffline
             \/ StopElevator \/ UNCHANGED vars
             \/ \E q \in Passengers, r \in Requests : IssueRequestCheck(q, r)
             \/ \E q \in Passengers : IssueRequestAdd(q)
      PROVE  /\ p \in Riders
             /\ pass'[p] = pass[p]
             /\ UNCHANGED <<current, direction>>
             /\ pc \in {"load_lock", "unload"} => pc' \in {"load_lock", "unload"}
  <2> USE DEF position, thread
  <2>1. CASE BeginLoading \/ StayOffline \/ GoIdle \/ GoOffline \/ StopElevator \/ UNCHANGED vars
    <3>1. p \in Riders /\ pass' = pass
      BY <2>1, QuietLeaves DEF Quiet
    <3>2. /\ UNCHANGED <<current, direction>>
          /\ pc \in {"load_lock", "unload"} => pc' \in {"load_lock", "unload"}
      BY <2>1 DEF BeginLoading, StayOffline, GoIdle, GoOffline, StopElevator, vars
    <3> QED
      BY <3>1, <3>2
  <2>2. CASE Unload
    <3>1. p \in Riders
      BY <2>2, UnloadEffect
    <3> QED
      BY <2>2, <3>1 DEF Unload
  <2>3. ASSUME NEW q \in Passengers, NEW r \in Requests, IssueRequestCheck(q, r)
        PROVE  p \in Riders /\ pass'[p] = pass[p] /\ UNCHANGED <<current, direction, pc>>
    BY <2>3, CheckLeaves DEF IssueRequestCheck
  <2>4. ASSUME NEW q \in Passengers, IssueRequestAdd(q)
        PROVE  p \in Riders /\ pass'[p] = pass[p] /\ UNCHANGED <<current, direction, pc>>
    BY <2>4, AddEffect DEF IssueRequestAdd
  <2> QED
    BY <1>6, <2>1, <2>2, <2>3, <2>4
<1>7. ASSUME ~MoveFloor, ~StartElevator, ~Board, ~(PassFloor \/ BeginBoarding \/ EndLoading)
      PROVE  OnCourse(p)'
  <2>1. /\ p \in Riders /\ pass'[p] = pass[p] /\ UNCHANGED <<current, direction>>
        /\ pc \in {"load_lock", "unload"} => pc' \in {"load_lock", "unload"}
    BY <1>6, <1>7 DEF Next, RunElevator
  <2>2. OnCourse(p)
    BY <2>1 DEF Course
  <2> QED
    BY <2>1, <2>2 DEF OnCourse, Arriving
<1> QED
  BY <1>2, <1>3, <1>4, <1>5, <1>7

LEMMA InvInit == Init => Inv
<1> SUFFICES ASSUME Init PROVE Inv
  OBVIOUS
<1>1. TypeOK
  BY TypeInit
<1>2. Riders = {} /\ \A i \in Floors : ToSet(waiting[i]) = {} /\ Delivered(i) = {}
  BY DEF Init, Riders, ToSet, Delivered
<1>3. LockDiscipline /\ EmptyWhenParked /\ HeadingConsistent /\ Course
  BY <1>2 DEF Init, LockDiscipline, EmptyWhenParked, HeadingConsistent, Course
<1>4. ListsSound
  <2>1. \A i \in Floors : IsInjective(waiting[i]) /\ IsInjective(riding[i]) /\ ToSet(riding[i]) = {}
    BY DEF Init, IsInjective, ToSet
  <2> QED
    BY <1>2, <2>1 DEF Init, ListsSound
<1>5. \A f : Tally({}, f) = NoLoad
  <2>1. \A f, t : Cardinality(OfType({}, f, t)) = 0
    BY FS_EmptySet DEF OfType
  <2> QED
    BY <2>1, TallyIs DEF NoLoad
<1>6. LoadAccounting
  BY <1>2, <1>5, FS_EmptySet DEF Init, LoadAccounting
<1>7. CapacityRespected
  BY <1>2, <1>5, LimitsAssumption DEF CapacityRespected, NoLoad
<1> QED
  BY <1>1, <1>3, <1>4, <1>6, <1>7 DEF Inv

LEMMA InvStep == Inv /\ [Next]_vars => Inv'
BY TypeStep, LockStep, ListsStep, AccountingStep, CapacityStep, ParkedStep, HeadingStep,
   CourseStep DEF Inv

LEMMA InvAlways == Spec => []Inv
BY InvInit, InvStep, PTL DEF Spec

-----------------------------------------------------------------------------
(* What the invariant gives. *)

(* No node is lost, listed twice, listed after kfree, or on a list that    *)
(* runElevator would not look for it on.                                   *)
THEOREM ListsAlwaysSound == Spec => []ListsSound
BY InvAlways, PTL DEF Inv

(* The counters of addPass, movePass and delPass never drift from the      *)
(* lists, however loading, requests, stops and restarts interleave.        *)
THEOREM AccountingHolds == Spec => []LoadAccounting
BY InvAlways, PTL DEF Inv

(* Neither limit is ever exceeded, whatever MAX_W and MAX_P are. *)
THEOREM CapacityHolds == Spec => []CapacityRespected
BY InvAlways, PTL DEF Inv

(* An elevator that reports IDLE or OFFLINE is empty. *)
THEOREM ParkedIsEmpty == Spec => []EmptyWhenParked
BY InvAlways, PTL DEF Inv

(* next and direction agree, except after a restart from a descent. *)
THEOREM HeadingHolds == Spec => []HeadingConsistent
BY InvAlways, PTL DEF Inv

LEMMA CourseOnTheWay == Inv => OnTheWay
<1> SUFFICES ASSUME Inv, NEW p \in Riders
             PROVE  LET s == pass[p].s_floor
                        d == pass[p].d_floor
                    IN  \/ s <= current /\ current <= d
                        \/ d <= current /\ current <= s
                        \/ s = d
  BY DEF OnTheWay
<1>1. /\ OnCourse(p) /\ current \in Int
      /\ pass[p].s_floor \in Int /\ pass[p].d_floor \in Int
  BY RidersFinite, LimitsAssumption DEF Inv, Course, TypeOK, passenger, Floors
<1> QED
  BY <1>1 DEF OnCourse, Arriving

(* Nobody is carried away from, or past, their destination. *)
THEOREM AlwaysOnTheWay == Spec => []OnTheWay
BY InvAlways, CourseOnTheWay, PTL

LEMMA TeleportStep ==
    Inv /\ [Next]_vars => [Riders # {} => current' \in {current - 1, current, current + 1}]_vars
<1> SUFFICES ASSUME Inv, [Next]_vars, Riders # {}
             PROVE  current' \in {current - 1, current, current + 1}
  OBVIOUS
<1> USE DEF Inv
<1>1. CASE MoveFloor
  BY <1>1, LimitsAssumption DEF MoveFloor, HeadingConsistent, TypeOK, Floors
<1>2. CASE StartElevator
  BY <1>2 DEF StartElevator, MayStart, EmptyWhenParked
<1>3. ASSUME ~MoveFloor, ~StartElevator PROVE current' = current
  <2> USE DEF position
  <2>1. CASE PassFloor \/ BeginLoading \/ Unload \/ BeginBoarding \/ Board \/ EndLoading
    BY <2>1 DEF PassFloor, BeginLoading, Unload, BeginBoarding, Board, EndLoading
  <2>2. CASE StayOffline \/ GoIdle \/ GoOffline \/ StopElevator
    BY <2>2 DEF StayOffline, GoIdle, GoOffline, StopElevator
  <2>3. CASE \/ \E p \in Passengers, r \in Requests : IssueRequestCheck(p, r)
             \/ \E p \in Passengers : IssueRequestAdd(p)
    BY <2>3 DEF IssueRequestCheck, IssueRequestAdd
  <2>4. CASE UNCHANGED vars
    BY <2>4 DEF vars
  <2> QED
    BY <1>3, <2>1, <2>2, <2>3, <2>4 DEF Next, RunElevator
<1> QED
  BY <1>1, <1>2, <1>3

(* With someone aboard the elevator never jumps. *)
THEOREM NeverTeleports == Spec => NoTeleport
BY InvAlways, TeleportStep, PTL DEF Spec, NoTeleport

LEMMA BoardingStep ==
    Inv /\ [Next]_vars => [shutdown = 1 /\ shutdown' = 1 => Riders' \subseteq Riders]_vars
<1> SUFFICES ASSUME Inv, [Next]_vars, shutdown = 1 PROVE Riders' \subseteq Riders
  OBVIOUS
<1> USE DEF Inv
<1>1. CASE Quiet
  BY <1>1, QuietLeaves
<1>2. CASE Unload
  BY <1>2, UnloadEffect
<1>3. CASE Board
  BY <1>3 DEF Board, LockDiscipline
<1>4. CASE \E p \in Passengers, r \in Requests : IssueRequestCheck(p, r)
  BY <1>4, CheckLeaves
<1>5. CASE \E p \in Passengers : IssueRequestAdd(p)
  BY <1>5, AddEffect
<1> QED
  BY <1>1, <1>2, <1>3, <1>4, <1>5, StepCases

(* A stopped elevator takes nobody aboard. *)
THEOREM StopBarsBoarding == Spec => NoBoardingAfterStop
BY InvAlways, BoardingStep, PTL DEF Spec, NoBoardingAfterStop

LEMMA AppendKeepsOrder ==
    ASSUME NEW S, NEW s \in Seq(S), NEW x \in S, x \notin ToSet(s),
           NEW p \in ToSet(s), NEW q, Ahead(q, p, Append(s, x))
    PROVE  Ahead(q, p, s)
<1>1. /\ Len(s) \in Nat
      /\ DOMAIN s = 1 .. Len(s)
      /\ DOMAIN Append(s, x) = 1 .. Len(s) + 1
      /\ \A k \in 1 .. Len(s) : Append(s, x)[k] = s[k]
      /\ Append(s, x)[Len(s) + 1] = x
  OBVIOUS
<1>2. PICK j, k \in 1 .. Len(s) + 1 : j < k /\ Append(s, x)[j] = q /\ Append(s, x)[k] = p
  BY <1>1 DEF Ahead
<1>3. k # Len(s) + 1
  BY <1>1, <1>2
<1>4. j \in 1 .. Len(s) /\ k \in 1 .. Len(s)
  BY <1>1, <1>2, <1>3
<1> QED
  BY <1>1, <1>2, <1>4 DEF Ahead

LEMMA RemoveFirstKeepsOrder ==
    ASSUME NEW S, NEW s \in Seq(S), 1 <= Len(s), NEW p \in ToSet(RemoveAt(s, 1))
    PROVE  /\ Ahead(s[1], p, s)
           /\ \A q : Ahead(q, p, RemoveAt(s, 1)) => Ahead(q, p, s)
<1> DEFINE r == RemoveAt(s, 1)
<1>1. /\ r \in Seq(S)
      /\ Len(r) = Len(s) - 1
      /\ \A i \in 1 .. Len(s) - 1 : r[i] = s[i + 1]
  BY RemoveFirstFacts
<1> HIDE DEF r
<1>2. DOMAIN r = 1 .. Len(s) - 1 /\ DOMAIN s = 1 .. Len(s) /\ Len(s) \in Nat
  BY <1>1
<1>3. PICK m \in 1 .. Len(s) - 1 : r[m] = p
  BY <1>2 DEF ToSet, r
<1>4. 1 < m + 1 /\ m + 1 \in 1 .. Len(s) /\ 1 \in 1 .. Len(s) /\ s[m + 1] = p
  BY <1>1, <1>2, <1>3
<1>5. Ahead(s[1], p, s)
  BY <1>2, <1>4 DEF Ahead
<1>6. ASSUME NEW q, Ahead(q, p, r) PROVE Ahead(q, p, s)
  <2>1. PICK j, k \in 1 .. Len(s) - 1 : j < k /\ r[j] = q /\ r[k] = p
    BY <1>2, <1>6 DEF Ahead
  <2>2. /\ j + 1 \in 1 .. Len(s) /\ k + 1 \in 1 .. Len(s) /\ j + 1 < k + 1
        /\ s[j + 1] = q /\ s[k + 1] = p
    BY <1>1, <1>2, <2>1
  <2> QED
    BY <1>2, <2>2 DEF Ahead
<1> QED
  BY <1>5, <1>6 DEF r

(* One floor's part of FifoBoarding. *)
Fifo(old, new) ==
    \A p \in ToSet(old) \cap ToSet(new) :
        /\ \A q \in Passengers : Ahead(q, p, new) => Ahead(q, p, old)
        /\ \A q \in ToSet(old) \ ToSet(new) : Ahead(q, p, old)

LEMMA FifoStep == Inv /\ [Next]_vars => \A i \in Floors : Fifo(waiting[i], waiting'[i])
<1> SUFFICES ASSUME Inv, [Next]_vars, NEW i \in Floors PROVE Fifo(waiting[i], waiting'[i])
  OBVIOUS
<1> USE DEF Inv
<1>1. ASSUME waiting'[i] = waiting[i] PROVE Fifo(waiting[i], waiting'[i])
  BY <1>1 DEF Fifo
<1>2. CASE Board
  <2> DEFINE s == waiting[i]
  <2>1. movePass(waiting[current][ptr])
    BY <1>2, BoardEffect
  <2>2. ptr = 1 /\ 1 <= Len(waiting[current]) /\ current \in Floors
    BY <1>2 DEF Board, MayBoard, LockDiscipline, TypeOK
  <2>3. waiting'[i] = IF i = current THEN RemoveAt(s, 1) ELSE s
    BY <2>1, <2>2 DEF movePass, TypeOK
  <2>4. CASE i = current
    <3>1. s \in Seq(Passengers) /\ 1 <= Len(s) /\ IsInjective(s) /\ waiting'[i] = RemoveAt(s, 1)
      BY <2>2, <2>3, <2>4 DEF TypeOK, ListsSound
    <3>2. ToSet(RemoveAt(s, 1)) = ToSet(s) \ {s[1]}
      BY <3>1, RemoveFirstFacts
    <3>3. \A p \in ToSet(RemoveAt(s, 1)) :
             /\ Ahead(s[1], p, s)
             /\ \A q : Ahead(q, p, RemoveAt(s, 1)) => Ahead(q, p, s)
      BY <3>1, RemoveFirstKeepsOrder
    <3> QED
      BY <3>1, <3>2, <3>3 DEF Fifo
  <2> QED
    BY <1>1, <2>3, <2>4
<1>3. ASSUME NEW x \in Passengers, IssueRequestAdd(x) PROVE Fifo(waiting[i], waiting'[i])
  <2> DEFINE s == waiting[i]
  <2>1. s \in Seq(Passengers) /\ x \notin ToSet(s)
    BY <1>3, AddEffect DEF TypeOK
  <2>2. waiting'[i] = IF i = pass[x].s_floor THEN Append(s, x) ELSE s
    BY <1>3, AddEffect DEF IssueRequestAdd, addPass, TypeOK
  <2>3. CASE i = pass[x].s_floor
    <3>1. \A p \in ToSet(s) : \A q : Ahead(q, p, Append(s, x)) => Ahead(q, p, s)
      BY <2>1, AppendKeepsOrder
    <3>2. ToSet(s) \subseteq ToSet(Append(s, x))
      BY <2>1, AppendFacts
    <3> QED
      BY <2>2, <2>3, <3>1, <3>2 DEF Fifo
  <2> QED
    BY <1>1, <2>2, <2>3
<1>4. ASSUME Quiet \/ Unload \/ \E p \in Passengers, r \in Requests : IssueRequestCheck(p, r)
      PROVE  waiting' = waiting
  BY <1>4, QuietLeaves DEF Unload, IssueRequestCheck
<1> QED
  BY <1>1, <1>2, <1>3, <1>4, StepCases

(* Every floor is served in order of arrival, whatever the elevator does.  *)
THEOREM BoardingIsFifo == Spec => FifoBoarding
<1>1. Inv /\ [Next]_vars
        => [\A i \in Floors :
              \A p \in ToSet(waiting[i]) \cap ToSet(waiting'[i]) :
                 /\ \A q \in Passengers : Ahead(q, p, waiting'[i]) => Ahead(q, p, waiting[i])
                 /\ \A q \in ToSet(waiting[i]) \ ToSet(waiting'[i]) : Ahead(q, p, waiting[i])]_vars
  BY FifoStep DEF Fifo
<1> QED
  BY <1>1, InvAlways, PTL DEF Spec, FifoBoarding

-----------------------------------------------------------------------------
(* Elevator implements ElevatorService: under the invariant, every step of *)
(* the thread or of a system call is a step of the service or leaves it as *)
(* it is.                                                                  *)

(* What the mapping reads as trip and served. *)
NoTrip == [type |-> ADULT, s_floor |-> 0, d_floor |-> 0]
Trip == [p \in Passengers |-> IF node[p] \in {"listed", "freed"} THEN pass[p] ELSE NoTrip]
Served == {p \in Passengers : node[p] = "freed"}

LEMMA SameTally ==
    ASSUME NEW S, NEW f
    PROVE  Service!Tally(S, f) = Tally(S, f)
BY DEF Service!Tally, Tally, Service!P_TYPE, P_TYPE, Service!ADULT, ADULT,
   Service!Cardinality, Cardinality, Service!IsFiniteSet, IsFiniteSet,
   Service!CHILD, CHILD, Service!ROOM, ROOM, Service!BELL, BELL

LEMMA SameFloors == Service!Floors = Floors
BY DEF Service!Floors, Floors

LEMMA ServiceInit == Init => Service!Init
<1> SUFFICES ASSUME Init PROVE Service!Init
  OBVIOUS
<1>1. Riders = {}
  BY DEF Init, Riders, ToSet
<1> QED
  BY <1>1, SameFloors DEF Init, Service!Init, Service!NoTrip, Service!ADULT, ADULT

(* A step that leaves the lists alone is invisible or a move of the car.   *)
LEMMA QuietVisible ==
    ASSUME Quiet
    PROVE  waiting' = waiting /\ Trip' = Trip /\ Riders' = Riders /\ Served' = Served
BY QuietLeaves DEF Trip, Served

LEMMA OnTheWayNext == Inv' => OnTheWay'
BY CourseOnTheWay, PTL

LEMMA MoveImplements == Inv /\ [Next]_vars /\ MoveFloor => Service!Travel
<1> SUFFICES ASSUME Inv, [Next]_vars, MoveFloor PROVE Service!Travel
  OBVIOUS
<1>1. waiting' = waiting /\ Trip' = Trip /\ Riders' = Riders /\ Served' = Served
  BY QuietVisible DEF Quiet
<1>2. OnTheWay' /\ TypeOK'
  BY InvStep, OnTheWayNext DEF Inv
<1>3. current' \in Floors \cap {current - 1, current + 1}
  BY <1>2, LimitsAssumption DEF Inv, MoveFloor, HeadingConsistent, TypeOK, Floors
<1>4. \A p \in Riders : Trip[p] = pass[p] /\ p \in Passengers
  BY RidersFinite DEF Inv, ListsSound, Trip
<1>5. pass' = pass /\ shutdown' = shutdown
  BY DEF MoveFloor, lists
<1>6. \A p \in Riders : Service!OnWay(p, current')
  BY <1>1, <1>2, <1>4, <1>5 DEF OnTheWay, Service!OnWay, Trip
<1> QED
  BY <1>1, <1>3, <1>5, <1>6, SameFloors DEF Service!Travel, Trip, NoTrip, Served

LEMMA UnloadImplements ==
    ASSUME Inv, Unload
    PROVE  \E p \in Passengers : Service!Leave(p)
<1> USE DEF Inv
<1>1. PICK p \in Passengers : p = riding[current][ptr]
  BY DEF TypeOK, Unload
<1>2. /\ p \in Riders /\ pass[p].d_floor = current
      /\ delPass(p) /\ Riders' = Riders \ {p}
  BY <1>1, UnloadEffect
<1>3. UNCHANGED <<waiting, pass, current, shutdown>> /\ node' = [node EXCEPT ![p] = "freed"]
  BY <1>2 DEF Unload, position, delPass
<1>4. node[p] = "listed"
  BY <1>2 DEF ListsSound
<1>5. Trip' = Trip /\ Trip[p] = pass[p] /\ Served' = Served \cup {p}
  BY <1>3, <1>4 DEF Trip, Served, TypeOK
<1>6. Service!Leave(p)
  BY <1>2, <1>3, <1>5 DEF Service!Leave, Trip, NoTrip, Served
<1> QED
  BY <1>6

LEMMA BoardImplements ==
    ASSUME Inv, [Next]_vars, Board
    PROVE  Service!Board
<1> DEFINE s == waiting[current]
           p == s[ptr]
<1> USE DEF Inv
<1>1. /\ Riders' = Riders \cup {p} /\ p \in Passengers /\ movePass(p)
  BY BoardEffect
<1>2. /\ UNCHANGED <<pass, node, current, shutdown>>
      /\ shutdown = 0 /\ ptr = 1 /\ s \in Seq(Passengers) /\ 1 <= Len(s)
      /\ current \in Floors
  BY DEF Board, MayBoard, position, LockDiscipline, TypeOK
<1>3. Trip' = Trip /\ Served' = Served
  BY <1>2 DEF Trip, Served
<1>4. p = Head(s) /\ s # <<>>
  BY <1>2
<1>5. waiting' = [waiting EXCEPT ![current] = Tail(waiting[current])]
  <2>1. RemoveAt(s, 1) = Tail(s)
    <3>1. /\ RemoveAt(s, 1) \in Seq(Passengers)
          /\ Len(RemoveAt(s, 1)) = Len(s) - 1
          /\ \A i \in 1 .. Len(s) - 1 : RemoveAt(s, 1)[i] = s[i + 1]
      BY <1>2, RemoveFirstFacts
    <3>2. /\ Tail(s) \in Seq(Passengers)
          /\ Len(Tail(s)) = Len(s) - 1
          /\ \A i \in 1 .. Len(s) - 1 : Tail(s)[i] = s[i + 1]
      BY <1>2, <1>4, HeadTailProperties
    <3> QED
      BY <3>1, <3>2, SeqEqual
  <2> QED
    BY <1>1, <1>2, <2>1 DEF movePass
<1>6. Service!Within(Service!Tally(Riders', Trip))
  <2>1. CapacityRespected' /\ ListsSound' /\ TypeOK'
    BY CapacityStep, ListsStep, TypeStep
  <2>2. \A q \in Riders' : Trip[q] = pass[q]
    BY <1>1, <1>2, <2>1, RidersFinite DEF ListsSound, Trip
  <2>3. Tally(Riders', Trip) = Tally(Riders', pass)
    BY <2>2, TallySame
  <2> QED
    BY <1>2, <2>1, <2>3, SameTally DEF CapacityRespected, Service!Within
<1> HIDE DEF p, s
<1> QED
  BY <1>1, <1>2, <1>3, <1>4, <1>5, <1>6 DEF Service!Board, Trip, NoTrip, Served, s

LEMMA AddImplements ==
    ASSUME Inv, NEW p \in Passengers, IssueRequestAdd(p)
    PROVE  \E t \in Service!passenger : Service!Arrive(p, t)
<1> USE DEF Inv
<1>1. /\ p \notin Riders /\ Riders' = Riders
      /\ \A i \in Floors : p \notin ToSet(waiting[i])
  BY AddEffect
<1>2. /\ UNCHANGED <<pass, current, shutdown>>
      /\ node[p] = "private" /\ node' = [node EXCEPT ![p] = "listed"]
      /\ waiting' = [waiting EXCEPT ![pass[p].s_floor] = Append(@, p)]
  BY DEF IssueRequestAdd, addPass, position
<1>3. p \notin Served /\ Served' = Served
  BY <1>2 DEF Served, TypeOK
<1>4. Trip' = [Trip EXCEPT ![p] = pass[p]]
  BY <1>2 DEF Trip, TypeOK
<1>5. ~Service!InLine(p)
  BY <1>1, SameFloors DEF Service!InLine, ToSet
<1>6. pass[p] \in Service!passenger
  BY SameFloors DEF TypeOK, Service!passenger, passenger, Service!P_TYPE, P_TYPE,
     Service!ADULT, ADULT, Service!CHILD, CHILD, Service!ROOM, ROOM, Service!BELL, BELL
<1>7. PICK t \in Service!passenger : t = pass[p]
  BY <1>6
<1>8. Service!Arrive(p, t)
  BY <1>1, <1>2, <1>3, <1>4, <1>5, <1>7 DEF Service!Arrive, Trip, NoTrip, Served
<1> QED
  BY <1>8

LEMMA CheckInvisible ==
    ASSUME Inv, NEW p \in Passengers, NEW r \in Requests, IssueRequestCheck(p, r)
    PROVE  UNCHANGED Service!svars
<1> USE DEF Inv
<1>1. /\ UNCHANGED <<waiting, current, shutdown>> /\ Riders' = Riders
      /\ node[p] = "unused" /\ node' = [node EXCEPT ![p] = "private"]
  BY CheckLeaves DEF IssueRequestCheck, position
<1>2. \A q \in Passengers : q # p => pass'[q] = pass[q]
  BY DEF IssueRequestCheck, TypeOK
<1>3. Trip' = Trip /\ Served' = Served
  BY <1>1, <1>2 DEF Trip, Served, TypeOK
<1> QED
  BY <1>1, <1>3 DEF Service!svars, Trip, NoTrip, Served

LEMMA StartStopImplement ==
    ASSUME Inv
    PROVE  /\ StartElevator => Service!Restart
           /\ StopElevator => Service!Stop
<1>1. ASSUME StartElevator PROVE Service!Restart
  <2>1. waiting' = waiting /\ Trip' = Trip /\ Riders' = Riders /\ Served' = Served
    BY <1>1, QuietVisible DEF Quiet
  <2>2. Riders = {} /\ current' = 0 /\ shutdown' = 0
    BY <1>1 DEF StartElevator, MayStart, Inv, EmptyWhenParked
  <2> QED
    BY <2>1, <2>2 DEF Service!Restart, Trip, NoTrip, Served
<1>2. ASSUME StopElevator PROVE Service!Stop
  <2>1. waiting' = waiting /\ Trip' = Trip /\ Riders' = Riders /\ Served' = Served
    BY <1>2, QuietVisible DEF Quiet
  <2>2. current' = current /\ shutdown = 0 /\ shutdown' = 1
    BY <1>2 DEF StopElevator, position
  <2> QED
    BY <2>1, <2>2 DEF Service!Stop, Trip, NoTrip, Served
<1> QED
  BY <1>1, <1>2

(* The steps of the thread that passengers do not notice. *)
LEMMA ControlInvisible ==
    ASSUME \/ PassFloor \/ BeginLoading \/ BeginBoarding \/ EndLoading
           \/ StayOffline \/ GoIdle \/ GoOffline \/ UNCHANGED vars
    PROVE  UNCHANGED Service!svars
<1>1. waiting' = waiting /\ Trip' = Trip /\ Riders' = Riders /\ Served' = Served
  BY QuietVisible DEF Quiet
<1>2. current' = current /\ shutdown' = shutdown
  <2> USE DEF position
  <2>1. CASE PassFloor \/ BeginLoading \/ BeginBoarding \/ EndLoading
    BY <2>1 DEF PassFloor, BeginLoading, BeginBoarding, EndLoading
  <2>2. CASE StayOffline \/ GoIdle \/ GoOffline \/ UNCHANGED vars
    BY <2>2 DEF StayOffline, GoIdle, GoOffline, vars
  <2> QED
    BY <2>1, <2>2
<1> QED
  BY <1>1, <1>2 DEF Service!svars, Trip, NoTrip, Served

LEMMA ServiceStep == Inv /\ [Next]_vars => [Service!Next]_(Service!svars)
<1> SUFFICES ASSUME Inv, [Next]_vars PROVE Service!Next \/ UNCHANGED Service!svars
  OBVIOUS
<1>1. CASE MoveFloor
  BY <1>1, MoveImplements DEF Service!Next
<1>2. CASE Unload
  BY <1>2, UnloadImplements DEF Service!Next
<1>3. CASE Board
  BY <1>3, BoardImplements DEF Service!Next
<1>4. CASE \E p \in Passengers : IssueRequestAdd(p)
  BY <1>4, AddImplements DEF Service!Next
<1>5. CASE \E p \in Passengers, r \in Requests : IssueRequestCheck(p, r)
  BY <1>5, CheckInvisible
<1>6. CASE StartElevator \/ StopElevator
  BY <1>6, StartStopImplement DEF Service!Next
<1>7. CASE \/ PassFloor \/ BeginLoading \/ BeginBoarding \/ EndLoading
           \/ StayOffline \/ GoIdle \/ GoOffline \/ UNCHANGED vars
  BY <1>7, ControlInvisible
<1> QED
  BY <1>1, <1>2, <1>3, <1>4, <1>5, <1>6, <1>7 DEF Next, RunElevator

(* runElevator and the system calls keep every promise of ElevatorService  *)
(* to the passengers, for every instance.                                  *)
THEOREM ElevatorImplementsService == Spec => ImplementsService
<1>1. Spec => []Inv
  BY InvAlways
<1> QED
  BY <1>1, ServiceInit, ServiceStep, PTL DEF Spec, ImplementsService, Service!Spec

=============================================================================
