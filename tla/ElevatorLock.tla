----------------------------- MODULE ElevatorLock -----------------------------
(***************************************************************************)
(* The locked regions of part3/elevator taken apart into steps, and the    *)
(* idiom by which the code takes and leaves them:                          *)
(*                                                                         *)
(*     if (mutex_lock_interruptible(&e_tp.mutx) == 0)                      *)
(*         ... the region ...                                              *)
(*     mutex_unlock(&e_tp.mutx);                                           *)
(*                                                                         *)
(* A process that a signal interrupts skips the region and unlocks all the *)
(* same.  Module Elevator takes a system call's region for one step; the   *)
(* properties here say when that is right.  Which passengers the thread    *)
(* takes on a visit, and in which order, is Elevator's subject: here it    *)
(* may take any, and the states other than OFFLINE are one, "ACTIVE".      *)
(***************************************************************************)
EXTENDS Passenger, KernelMutex, Sequences, FiniteSetsExt

CONSTANTS Thread,      (* the kthread that executes runElevator            *)
          Passengers,  (* the structs kmalloc can return, each once: the
                          bound on the requests of a behaviour             *)
          Trip         (* what each struct is filled with                  *)

Callers == Tasks \ {Thread}

ASSUME LockAssumption ==
    /\ Thread \in Tasks \ Signalled
    /\ IsFiniteSet(Passengers)
    /\ Trip \in [Passengers -> passenger]

VARIABLES
    at,        (* where each task is                                       *)
    op,        (* what each task executes                                  *)
    mine,      (* the structs an issue_request of the task has allocated   *)
    page,      (* the lines an elevator_open of the task has printed       *)
    place,     (* where each passenger struct is                           *)
    hall,      (* the load counters of b.f[i]                              *)
    car,       (* the load counters of e                                   *)
    serviced,  (* b.f[i].serviced                                          *)
    status,    (* e.status                                                 *)
    shutdown,  (* e.shutdown                                               *)
    buffer,    (* the global message points to a buffer, and is not NULL   *)
    disturbed, (* history: a signal has interrupted somebody               *)
    failed     (* history: a kmalloc of elevator_open has failed           *)

lists   == <<place, hall, car, serviced>>
service == <<status, shutdown>>
memory  == <<buffer, failed>>
vars    == <<owner, at, op, mine, page, lists, service, disturbed, memory>>

(* A task is "idle", waits at "lock", is about to "unlock" or is in a       *)
(* region: at its start; in one of the two loops of the loading phase; or   *)
(* where a test has been made and not yet been acted upon.  At "oops" the   *)
(* kernel has killed it, and it never unlocks.                              *)
Region == {"in", "unload", "board", "act"}
Phases == {"load", "move"}

(* A struct is "unused", "private" to issue_request, "waiting" on a floor's *)
(* list, "boarding" between the updates of movePass, "riding", "leaving"    *)
(* between the updates of delPass, or "freed".                              *)
In(s) == {p \in Passengers : place[p] = s}

Init ==
    /\ owner = NoTask
    /\ at = [t \in Tasks |-> IF t = Thread THEN "lock" ELSE "idle"]
    /\ op = [t \in Tasks |-> IF t = Thread THEN "load" ELSE "elevator_open"]
    /\ mine = [t \in Tasks |-> {}]
    /\ page = [t \in Tasks |-> <<>>]
    /\ place = [p \in Passengers |-> "unused"]
    /\ hall = [i \in Floors |-> NoLoad]
    /\ car = NoLoad
    /\ serviced = [i \in Floors |-> 0]
    /\ status = "OFFLINE"
    /\ shutdown = 0
    /\ buffer = FALSE
    /\ disturbed = FALSE
    /\ failed = FALSE

Goto(t, where) == at' = [at EXCEPT ![t] = where]

-----------------------------------------------------------------------------
(* Taking and leaving a region. *)

(* Variant of Lock for the mutations of PageIsSnapshot: elevator_open      *)
(* prints without the mutex.                                               *)
LockUnlessOpen(t) ==
    /\ at[t] = "lock"
    /\ IF op[t] = "elevator_open" THEN UNCHANGED owner ELSE Acquire(t)
    /\ Goto(t, "in")
    /\ UNCHANGED <<op, mine, page, lists, service, disturbed, memory>>

(* Variant of Lock for the mutation of DecisionsFresh: start_elevator does *)
(* not wait for the mutex.                                                 *)
LockUnlessStart(t) ==
    /\ at[t] = "lock"
    /\ IF op[t] = "start_elevator" THEN UNCHANGED owner ELSE Acquire(t)
    /\ Goto(t, "in")
    /\ UNCHANGED <<op, mine, page, lists, service, disturbed, memory>>

Lock(t) ==
    /\ at[t] = "lock"
    /\ Acquire(t)
    /\ Goto(t, "in")
    /\ UNCHANGED <<op, mine, page, lists, service, disturbed, memory>>

(* The signal: the region is skipped. *)
Skip(t) ==
    /\ at[t] = "lock"
    /\ Interrupted(t)
    /\ Goto(t, "unlock")
    /\ UNCHANGED <<op, mine, page, lists, service, memory>>
    /\ disturbed' = TRUE

(* Variant of AfterUnlock for the mutation of CallsReturn: what printStats *)
(* returned is not looked at.                                              *)
AfterUnlockIgnoresPrinted(t) ==
    IF t = Thread \/ op[t] = "elevator_open" THEN "lock" ELSE "idle"

(* elevator_open goes back to lock until printStats has printed something; *)
(* the thread sleeps and goes on to its other phase; the rest return, and  *)
(* forget the struct they allocated.                                       *)
AfterUnlock(t) ==
    IF t = Thread \/ (op[t] = "elevator_open" /\ page[t] = <<>>) THEN "lock" ELSE "idle"

(* Variant of Leave for the mutation of NeverLeftLocked: start_elevator    *)
(* returns 1 without unlocking when the elevator already runs.             *)
LeaveUnlessActive(t) ==
    /\ at[t] = "unlock"
    /\ IF op[t] = "start_elevator" /\ status # "OFFLINE" THEN UNCHANGED owner ELSE Unlock
    /\ Goto(t, AfterUnlock(t))
    /\ op' = IF t = Thread THEN [op EXCEPT ![t] = CHOOSE o \in Phases : o # @] ELSE op
    /\ mine' = [mine EXCEPT ![t] = {}]
    /\ page' = [page EXCEPT ![t] = <<>>]
    /\ UNCHANGED <<lists, service, disturbed, memory>>

Leave(t) ==
    /\ at[t] = "unlock"
    /\ Unlock
    /\ Goto(t, AfterUnlock(t))
    /\ op' = IF t = Thread THEN [op EXCEPT ![t] = CHOOSE o \in Phases : o # @] ELSE op
    /\ mine' = [mine EXCEPT ![t] = {}]
    /\ page' = [page EXCEPT ![t] = <<>>]
    /\ UNCHANGED <<lists, service, disturbed, memory>>

-----------------------------------------------------------------------------
(* runElevator. *)

(* Variant of BeginLoading for the mutation of CountersExact: the mutex is *)
(* given up before the two loops.                                          *)
BeginLoadingUnlocks ==
    /\ at[Thread] = "in" /\ op[Thread] = "load"
    /\ Goto(Thread, IF status # "OFFLINE" THEN "unload" ELSE "unlock")
    /\ IF status # "OFFLINE" THEN Unlock ELSE UNCHANGED owner
    /\ UNCHANGED <<op, mine, page, lists, service, disturbed, memory>>

BeginLoading ==
    /\ at[Thread] = "in" /\ op[Thread] = "load"
    /\ Goto(Thread, IF status # "OFFLINE" THEN "unload" ELSE "unlock")
    /\ UNCHANGED <<owner, op, mine, page, lists, service, disturbed, memory>>

BetweenPassengers == In("boarding") \cup In("leaving") = {}

(* delPass: the counters of the elevator, then b.f[].serviced and kfree. *)
DelPassOut(p) ==
    /\ at[Thread] = "unload" /\ BetweenPassengers
    /\ place[p] = "riding"
    /\ place' = [place EXCEPT ![p] = "leaving"]
    /\ car' = CountOut(car, Trip[p].type)
    /\ UNCHANGED <<owner, at, op, mine, page, hall, serviced, service, disturbed, memory>>

DelPassIn(p) ==
    /\ place[p] = "leaving"
    /\ place' = [place EXCEPT ![p] = "freed"]
    /\ serviced' = [serviced EXCEPT ![Trip[p].s_floor] = @ + 1]
    /\ UNCHANGED <<owner, at, op, mine, page, hall, car, service, disturbed, memory>>

EndUnloading ==
    /\ at[Thread] = "unload" /\ BetweenPassengers
    /\ Goto(Thread, IF shutdown # 1 THEN "board" ELSE "unlock")
    /\ UNCHANGED <<owner, op, mine, page, lists, service, disturbed, memory>>

(* movePass: the counters of the floor, then those of the elevator. *)
MovePassOut(p) ==
    /\ at[Thread] = "board" /\ BetweenPassengers
    /\ place[p] = "waiting" /\ canFit(Trip[p].type, car)
    /\ place' = [place EXCEPT ![p] = "boarding"]
    /\ hall' = [hall EXCEPT ![Trip[p].s_floor] = CountOut(@, Trip[p].type)]
    /\ UNCHANGED <<owner, at, op, mine, page, car, serviced, service, disturbed, memory>>

MovePassIn(p) ==
    /\ place[p] = "boarding"
    /\ place' = [place EXCEPT ![p] = "riding"]
    /\ car' = CountIn(car, Trip[p].type)
    /\ UNCHANGED <<owner, at, op, mine, page, hall, serviced, service, disturbed, memory>>

EndLoading ==
    /\ at[Thread] = "board" /\ BetweenPassengers
    /\ Goto(Thread, "unlock")
    /\ UNCHANGED <<owner, op, mine, page, lists, service, disturbed, memory>>

(* The scan of the lists finds the elevator empty, someone waiting and the *)
(* elevator stopped: it is about to go out of service.                     *)
Drained == status # "OFFLINE" /\ In("riding") = {} /\ In("waiting") # {} /\ shutdown = 1

MoveScan ==
    /\ at[Thread] = "in" /\ op[Thread] = "move"
    /\ Goto(Thread, IF Drained THEN "act" ELSE "unlock")
    /\ UNCHANGED <<owner, op, mine, page, lists, service, disturbed, memory>>

GoOffline ==
    /\ at[Thread] = "act"
    /\ status' = "OFFLINE"
    /\ Goto(Thread, "unlock")
    /\ UNCHANGED <<owner, op, mine, page, lists, shutdown, disturbed, memory>>

RunElevator ==
    \/ \E p \in Passengers :
          MovePassOut(p) \/ MovePassIn(p) \/ DelPassOut(p) \/ DelPassIn(p)
    \/ BeginLoading \/ EndUnloading \/ EndLoading \/ MoveScan \/ GoOffline

-----------------------------------------------------------------------------
(* The system calls and the open of /proc/elevator. *)

Call(c, o) ==
    /\ at[c] = "idle"
    /\ Goto(c, "lock")
    /\ op' = [op EXCEPT ![c] = o]

(* issue_request up to the lock, for arguments in range. *)
IssueRequest(c) ==
    /\ Call(c, "issue_request")
    /\ shutdown = 0
    /\ \E p \in In("unused") :
          /\ place' = [place EXCEPT ![p] = "private"]
          /\ mine' = [mine EXCEPT ![c] = {p}]
    /\ UNCHANGED <<owner, page, hall, car, serviced, service, disturbed, memory>>

StartElevator(c) ==
    /\ Call(c, "start_elevator")
    /\ UNCHANGED <<owner, mine, page, lists, service, disturbed, memory>>

StopElevator(c) ==
    /\ Call(c, "stop_elevator")
    /\ UNCHANGED <<owner, mine, page, lists, service, disturbed, memory>>

(* message = kmalloc, with or without success, which nobody looks at yet. *)
ElevatorOpen(c) ==
    /\ Call(c, "elevator_open")
    /\ buffer' \in BOOLEAN
    /\ failed' = (failed \/ ~buffer')
    /\ UNCHANGED <<owner, mine, page, lists, service, disturbed>>

AddPass(c) ==
    /\ at[c] = "in" /\ op[c] = "issue_request"
    /\ \E p \in mine[c] :
          /\ place' = [place EXCEPT ![p] = "waiting"]
          /\ hall' = [hall EXCEPT ![Trip[p].s_floor] = CountIn(@, Trip[p].type)]
    /\ Goto(c, "unlock")
    /\ UNCHANGED <<owner, op, mine, page, car, serviced, service, disturbed, memory>>

(* The tests of start_elevator and stop_elevator, and what follows them. *)
TestStatus(c) ==
    /\ at[c] = "in" /\ op[c] = "start_elevator"
    /\ Goto(c, IF status = "OFFLINE" THEN "act" ELSE "unlock")
    /\ UNCHANGED <<owner, op, mine, page, lists, service, disturbed, memory>>

Restart(c) ==
    /\ at[c] = "act" /\ op[c] = "start_elevator"
    /\ status' = "ACTIVE"
    /\ shutdown' = 0
    /\ Goto(c, "unlock")
    /\ UNCHANGED <<owner, op, mine, page, lists, disturbed, memory>>

TestShutdown(c) ==
    /\ at[c] = "in" /\ op[c] = "stop_elevator"
    /\ Goto(c, IF shutdown = 0 THEN "act" ELSE "unlock")
    /\ UNCHANGED <<owner, op, mine, page, lists, service, disturbed, memory>>

SetShutdown(c) ==
    /\ at[c] = "act" /\ op[c] = "stop_elevator"
    /\ shutdown' = 1
    /\ Goto(c, "unlock")
    /\ UNCHANGED <<owner, op, mine, page, lists, status, disturbed, memory>>

(* What printStats prints of a load: passenger units, and half weight      *)
(* units as a whole number followed by ".5" or nothing.                    *)
Printed(load, done) ==
    [p_units |-> load.p_units, whole |-> load.w_units \div 2,
     half |-> load.w_units % 2 # 0, serviced |-> done]

(* printStats prints the elevator, then the floors from the top down, to   *)
(* where message pointed when it was called.                               *)
PrintLine(c) ==
    /\ at[c] = "in" /\ op[c] = "elevator_open"
    /\ page[c] = <<>> => buffer
    /\ LET n == Len(page[c])
           i == MAX_FLOOR - n
       IN  /\ page' = [page EXCEPT ![c] =
                          Append(@, IF n = 0 THEN Printed(car, 0)
                                    ELSE Printed(hall[i], serviced[i]))]
           /\ Goto(c, IF n = MAX_FLOOR THEN "unlock" ELSE "in")
    /\ UNCHANGED <<owner, op, mine, lists, service, disturbed, memory>>

(* printStats is called with NULL, its own or another open's. *)
PrintOopses(c) ==
    /\ at[c] = "in" /\ op[c] = "elevator_open"
    /\ page[c] = <<>> /\ ~buffer
    /\ Goto(c, "oops")
    /\ UNCHANGED <<owner, op, mine, page, lists, service, disturbed, memory>>

CallerStep(c) ==
    \/ AddPass(c) \/ TestStatus(c) \/ Restart(c) \/ TestShutdown(c) \/ SetShutdown(c)
    \/ PrintLine(c) \/ PrintOopses(c)

Next ==
    \/ RunElevator
    \/ \E t \in Tasks : Lock(t) \/ Skip(t) \/ Leave(t)
    \/ \E c \in Callers :
          \/ IssueRequest(c) \/ StartElevator(c) \/ StopElevator(c) \/ ElevatorOpen(c)
          \/ CallerStep(c)

Spec == Init /\ [][Next]_vars

(* Whoever is in a region goes on to leave it.  mutex_lock_interruptible   *)
(* returns in the end if the mutex is freed again and again, with the      *)
(* mutex, which the kernel hands over to its first waiter, or interrupted: *)
(* who has a signal pending has no place in the queue.  Nobody is obliged  *)
(* to make a call.                                                         *)
FairSpec ==
    /\ Spec
    /\ \A t \in Tasks : SF_vars(Lock(t) \/ Skip(t))
    /\ WF_vars(RunElevator \/ Leave(Thread))
    /\ \A c \in Callers : WF_vars(CallerStep(c) \/ Leave(c))

-----------------------------------------------------------------------------
(* Properties. *)

(* A line as its reader takes it: the load it stands for, in half units. *)
ReadBack(l) ==
    [p_units |-> l.p_units, w_units |-> 2 * l.whole + (IF l.half THEN 1 ELSE 0)]

(* The page elevator_open leaves in the buffer shows the elevator and all  *)
(* floors as they are at one moment, and to the half unit: nobody boards,  *)
(* leaves or arrives between its lines.  It does so until a signal has     *)
(* interrupted somebody, as the two properties after it do.                *)
PageIsSnapshot ==
    ~disturbed => \A c \in Callers :
        Len(page[c]) = MAX_FLOOR + 1 =>
            /\ ReadBack(page[c][1]) = [p_units |-> car.p_units, w_units |-> car.w_units]
            /\ \A i \in Floors :
                  LET l == page[c][MAX_FLOOR - i + 1]
                  IN  /\ ReadBack(l) = [p_units |-> hall[i].p_units, w_units |-> hall[i].w_units]
                      /\ l.serviced = serviced[i]

(* Whenever the mutex is free the counters agree with the lists: no task   *)
(* is in the middle of an update.  delPass and movePass take a passenger   *)
(* off its list last.                                                      *)
CountersExact ==
    ~disturbed /\ MutexFree =>
        /\ car = Tally(In("riding") \cup In("leaving"), Trip)
        /\ \A i \in Floors :
              /\ hall[i] = Tally({p \in In("waiting") \cup In("boarding") :
                                    Trip[p].s_floor = i}, Trip)
              /\ serviced[i] = Cardinality({p \in In("freed") : Trip[p].s_floor = i})

(* What a region has tested still holds when it acts on it: only one of    *)
(* two concurrent start_elevator finds the elevator OFFLINE, and the       *)
(* thread never goes OFFLINE under a start_elevator or with a rider.       *)
DecisionsFresh ==
    ~disturbed => \A t \in Tasks :
        at[t] = "act" =>
            IF t = Thread THEN Drained
            ELSE IF op[t] = "start_elevator" THEN status = "OFFLINE" ELSE shutdown = 0

(* A request that issue_request answers with 0 is on a floor's list: no    *)
(* struct is forgotten by the call that allocated it.                      *)
NoRequestLost ==
    \A p \in In("private") : \E c \in Callers : p \in mine[c]

(* Whoever owns the mutex is in a region or about to unlock, on every path *)
(* and under any signals, with one exception: an elevator_open that prints *)
(* through the NULL of a kmalloc that failed is killed with the mutex.     *)
NeverLeftLocked ==
    \A t \in Tasks : owner = t =>
        \/ at[t] \in Region \cup {"unlock"}
        \/ failed /\ at[t] = "oops" /\ op[t] = "elevator_open"

(* Every system call and every open of /proc/elevator returns, signals or  *)
(* not, unless the mutex has been left locked as above, or an open, which  *)
(* tries again when it was interrupted, is interrupted for ever.           *)
CallsReturn ==
    \A c \in Callers :
        \/ []<>(at[c] = "idle")
        \/ <>failed
        \/ []<><<Skip(c) /\ op[c] = "elevator_open">>_vars

=============================================================================
