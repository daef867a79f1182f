-------------------------- MODULE ElevatorLockProofs --------------------------
(***************************************************************************)
(* Proofs of the safety properties of ElevatorLock, for any number of      *)
(* tasks, any finite pool of structs, any trips, any number of floors and  *)
(* all limits.                                                             *)
(***************************************************************************)
EXTENDS ElevatorLock, PassengerTheorems

-----------------------------------------------------------------------------
(* The inductive invariant, in parts. *)

Calls  == {"issue_request", "start_elevator", "stop_elevator", "elevator_open"}
Places == {"unused", "private", "waiting", "boarding", "riding", "leaving", "freed"}
Line   == [p_units: Int, whole: Int, half: BOOLEAN, serviced: Nat]

(* Types, and where the thread and the callers may be: only the thread is  *)
(* in a loop of the loading phase, and it is never idle and never killed.  *)
LockTypeOK ==
    /\ owner \in Tasks \cup {NoTask}
    /\ at \in [Tasks -> Region \cup {"idle", "lock", "unlock", "oops"}]
    /\ at[Thread] \notin {"idle", "oops"}
    /\ \A c \in Callers : at[c] \notin {"unload", "board"}
    /\ op \in [Tasks -> Phases \cup Calls]
    /\ op[Thread] \in Phases
    /\ \A c \in Callers : op[c] \in Calls
    /\ mine \in [Tasks -> SUBSET Passengers]
    /\ page \in [Tasks -> Seq(Line)]
    /\ place \in [Passengers -> Places]
    /\ hall \in [Floors -> Load]
    /\ car \in Load
    /\ serviced \in [Floors -> Nat]
    /\ status \in {"OFFLINE", "ACTIVE"}
    /\ shutdown \in {0, 1}
    /\ disturbed \in BOOLEAN /\ buffer \in BOOLEAN /\ failed \in BOOLEAN

Holding(t) == at[t] \in Region \cup {"unlock"}

(* Until a signal interrupts somebody, whoever is in a region or about to  *)
(* unlock owns the mutex: the regions exclude each other.                  *)
Exclusive == ~disturbed => \A t \in Tasks : Holding(t) => owner = t

(* An open that is under way finds a buffer, or a kmalloc has failed.      *)
OpenBuffer ==
    \A c \in Callers : op[c] = "elevator_open" /\ at[c] # "idle" => buffer \/ failed

(* A passenger is between two updates only in the loop that makes them,    *)
(* one passenger at a time.                                                *)
OneInTransit ==
    /\ In("boarding") # {} => at[Thread] = "board"
    /\ In("leaving") # {} => at[Thread] = "unload"
    /\ \A p, q \in In("boarding") \cup In("leaving") : p = q

(* Until it is on a list, a struct belongs to one issue_request.           *)
OwnStruct ==
    /\ \A t \in Tasks : op[t] # "issue_request" \/ at[t] = "idle" => mine[t] = {}
    /\ \A t \in Tasks : \A p \in mine[t] :
          /\ place[p] # "unused"
          /\ at[t] \in {"lock", "in"} => place[p] = "private"
          /\ \A u \in Tasks : p \in mine[u] => t = u
          /\ \A q \in mine[t] : p = q

(* Until a signal interrupts somebody, a struct that is on no list yet     *)
(* belongs to a call that has still to put it there.                       *)
PrivateHeld ==
    ~disturbed => \A p \in In("private") :
        \E c \in Callers : p \in mine[c] /\ at[c] \in {"lock", "in"}

(* The counters at every moment: those of the floor are changed first, and *)
(* a passenger between two updates is counted nowhere.                     *)
CountersInv ==
    /\ car = Tally(In("riding"), Trip)
    /\ \A i \in Floors :
          /\ hall[i] = Tally({p \in In("waiting") : Trip[p].s_floor = i}, Trip)
          /\ serviced[i] = Cardinality({p \in In("freed") : Trip[p].s_floor = i})

(* An open has printed lines only inside its region, from the first on.    *)
PageProgress ==
    \A c \in Callers :
        /\ at[c] \in {"idle", "lock", "oops"} \/ op[c] # "elevator_open" => page[c] = <<>>
        /\ at[c] = "in" => Len(page[c]) <= MAX_FLOOR
        /\ Len(page[c]) <= MAX_FLOOR + 1

LineNow(n) ==
    IF n = 1 THEN Printed(car, 0)
    ELSE Printed(hall[MAX_FLOOR - n + 1], serviced[MAX_FLOOR - n + 1])

(* What an open has printed is still so. *)
PageCurrent ==
    ~disturbed => \A c \in Callers : \A n \in 1 .. Len(page[c]) : page[c][n] = LineNow(n)

LockInv ==
    /\ LockTypeOK /\ OpenBuffer /\ NeverLeftLocked /\ Exclusive /\ OneInTransit /\ OwnStruct
    /\ PrivateHeld /\ CountersInv /\ PageProgress /\ PageCurrent /\ DecisionsFresh

-----------------------------------------------------------------------------
(* Types. *)

LEMMA LockTypeInit == Init => LockTypeOK
<1> SUFFICES ASSUME Init PROVE LockTypeOK
  OBVIOUS
<1>1. NoLoad \in Load
  BY DEF NoLoad, Load
<1>2. /\ at \in [Tasks -> Region \cup {"idle", "lock", "unlock", "oops"}]
      /\ at[Thread] = "lock"
      /\ \A c \in Callers : at[c] = "idle"
      /\ op \in [Tasks -> Phases \cup Calls]
      /\ op[Thread] = "load"
      /\ \A c \in Callers : op[c] = "elevator_open"
  BY LockAssumption DEF Init, Callers, Phases, Calls
<1>3. mine \in [Tasks -> SUBSET Passengers] /\ page \in [Tasks -> Seq(Line)]
  BY DEF Init
<1>4. place \in [Passengers -> Places]
  BY DEF Init, Places
<1>5. hall \in [Floors -> Load] /\ car \in Load /\ serviced \in [Floors -> Nat]
  BY <1>1 DEF Init
<1> QED
  BY <1>2, <1>3, <1>4, <1>5 DEF Init, LockTypeOK, Phases, Calls

LEMMA TripFacts ==
    \A p \in Passengers : Trip[p].type \in P_TYPE /\ Trip[p].s_floor \in Floors
BY LockAssumption DEF passenger

LEMMA TripCounts ==
    ASSUME NEW load \in Load, NEW p \in Passengers
    PROVE  CountIn(load, Trip[p].type) \in Load /\ CountOut(load, Trip[p].type) \in Load
BY TripFacts, CountTypes

LEMMA PrintedType ==
    ASSUME NEW load \in Load, NEW done \in Nat
    PROVE  Printed(load, done) \in Line
<1>1. load.w_units \in Int /\ load.p_units \in Int
  BY DEF Load
<1>2. load.w_units \div 2 \in Int /\ (load.w_units % 2 # 0) \in BOOLEAN
  BY <1>1
<1> QED
  BY <1>1, <1>2 DEF Printed, Line

LEMMA RunElevatorType == LockTypeOK /\ RunElevator => LockTypeOK'
<1> SUFFICES ASSUME LockTypeOK, RunElevator PROVE LockTypeOK'
  OBVIOUS
<1> USE LockAssumption DEF lists, service, memory, Callers
<1>1. ASSUME NEW p \in Passengers, MovePassOut(p) PROVE LockTypeOK'
  BY <1>1, TripCounts, TripFacts DEF LockTypeOK, MovePassOut, Places
<1>2. ASSUME NEW p \in Passengers, MovePassIn(p) PROVE LockTypeOK'
  BY <1>2, TripCounts DEF LockTypeOK, MovePassIn, Places
<1>3. ASSUME NEW p \in Passengers, DelPassOut(p) PROVE LockTypeOK'
  BY <1>3, TripCounts DEF LockTypeOK, DelPassOut, Places
<1>4. ASSUME NEW p \in Passengers, DelPassIn(p) PROVE LockTypeOK'
  BY <1>4, TripFacts DEF LockTypeOK, DelPassIn, Places
<1>5. CASE BeginLoading \/ EndUnloading \/ EndLoading \/ MoveScan
  BY <1>5 DEF LockTypeOK, BeginLoading, EndUnloading, EndLoading, MoveScan, Goto, Region
<1>6. CASE GoOffline
  BY <1>6 DEF LockTypeOK, GoOffline, Goto, Region
<1> QED
  BY <1>1, <1>2, <1>3, <1>4, <1>5, <1>6 DEF RunElevator

LEMMA PrintLineType ==
    ASSUME LockTypeOK, PageProgress, NEW c \in Callers, PrintLine(c)
    PROVE  LockTypeOK'
<1> DEFINE n == Len(page[c])
           l == IF n = 0 THEN Printed(car, 0)
                ELSE Printed(hall[MAX_FLOOR - n], serviced[MAX_FLOOR - n])
<1>1. c \in Tasks /\ n \in Nat /\ n <= MAX_FLOOR
  BY DEF LockTypeOK, PageProgress, PrintLine, Callers
<1>2. l \in Line
  <2>1. CASE n = 0
    BY <2>1, PrintedType DEF LockTypeOK
  <2>2. CASE n # 0
    <3>1. MAX_FLOOR - n \in Floors
      BY <1>1, <2>2, LimitsAssumption DEF Floors
    <3> QED
      BY <2>2, <3>1, PrintedType DEF LockTypeOK
  <2> QED
    BY <2>1, <2>2
<1>3. page' = [page EXCEPT ![c] = Append(@, l)]
  BY DEF PrintLine
<1> HIDE DEF l
<1>4. page' \in [Tasks -> Seq(Line)]
  BY <1>1, <1>2, <1>3 DEF LockTypeOK
<1> QED
  BY <1>1, <1>4, LockAssumption 
     DEF PrintLine, LockTypeOK, Goto, Region, lists, service, memory, Callers

LEMMA CallerType ==
    ASSUME LockTypeOK, PageProgress, NEW c \in Callers,
           \/ IssueRequest(c) \/ StartElevator(c) \/ StopElevator(c) \/ ElevatorOpen(c)
           \/ CallerStep(c)
    PROVE  LockTypeOK'
<1> USE LockAssumption DEF lists, service, memory, Callers
<1>1. CASE IssueRequest(c)
  BY <1>1 DEF LockTypeOK, IssueRequest, Call, Goto, Calls, Places, In
<1>2. CASE StartElevator(c) \/ StopElevator(c)
  BY <1>2 DEF LockTypeOK, StartElevator, StopElevator, Call, Goto, Calls
<1>6. CASE ElevatorOpen(c)
  <2>1. buffer' \in BOOLEAN /\ failed' \in BOOLEAN
    BY <1>6 DEF ElevatorOpen
  <2> QED
    BY <1>6, <2>1 DEF LockTypeOK, ElevatorOpen, Call, Goto, Calls
<1>7. CASE PrintOopses(c)
  BY <1>7 DEF LockTypeOK, PrintOopses, Goto
<1>3. CASE AddPass(c)
  <2>1. PICK p \in mine[c] :
          /\ place' = [place EXCEPT ![p] = "waiting"]
          /\ hall' = [hall EXCEPT ![Trip[p].s_floor] = CountIn(@, Trip[p].type)]
    BY <1>3 DEF AddPass
  <2>2. p \in Passengers
    BY DEF LockTypeOK
  <2>3. hall' \in [Floors -> Load]
    BY <2>1, <2>2, TripCounts, TripFacts DEF LockTypeOK
  <2>4. place' \in [Passengers -> Places]
    BY <2>1, <2>2 DEF LockTypeOK, Places
  <2> QED
    BY <1>3, <2>3, <2>4 DEF LockTypeOK, AddPass, Goto
<1>4. CASE TestStatus(c) \/ TestShutdown(c)
  BY <1>4 DEF LockTypeOK, TestStatus, TestShutdown, Goto, Region
<1>5. CASE Restart(c) \/ SetShutdown(c)
  BY <1>5 DEF LockTypeOK, Restart, SetShutdown, Goto
<1> QED
  BY <1>1, <1>2, <1>3, <1>4, <1>5, <1>6, <1>7, PrintLineType DEF CallerStep

LEMMA LockLeaveType ==
    ASSUME LockTypeOK, NEW t \in Tasks, Lock(t) \/ Skip(t) \/ Leave(t)
    PROVE  LockTypeOK'
<1> USE LockAssumption, TasksAssumption DEF lists, service, memory, Callers
<1>1. CASE Lock(t)
  BY <1>1 DEF LockTypeOK, Lock, Acquire, Goto, Region
<1>2. CASE Skip(t)
  BY <1>2 DEF LockTypeOK, Skip, Interrupted, Goto
<1>3. CASE Leave(t)
  <2>1. /\ AfterUnlock(t) \in {"lock", "idle"}
        /\ t = Thread => AfterUnlock(t) = "lock"
    BY DEF AfterUnlock
  <2>2. (CHOOSE o \in Phases : o # op[t]) \in Phases
    BY DEF Phases
  <2>3. /\ op' \in [Tasks -> Phases \cup Calls]
        /\ op'[Thread] \in Phases
        /\ \A c \in Callers : op'[c] \in Calls
    <3> DEFINE next == CHOOSE o \in Phases : o # op[t]
    <3>1. next \in Phases /\ op' = IF t = Thread THEN [op EXCEPT ![t] = next] ELSE op
      BY <1>3, <2>2 DEF Leave
    <3> HIDE DEF next
    <3> QED
      BY <3>1 DEF LockTypeOK
  <2>4. mine' \in [Tasks -> SUBSET Passengers] /\ page' \in [Tasks -> Seq(Line)]
    BY <1>3 DEF LockTypeOK, Leave
  <2> QED
    BY <1>3, <2>1, <2>3, <2>4 DEF LockTypeOK, Leave, Unlock, Goto
<1> QED
  BY <1>1, <1>2, <1>3

-----------------------------------------------------------------------------
(* The mutex.  Only Lock, Skip, Leave and an oops enter or leave a region. *)

InCallOf(c) ==
    \/ IssueRequest(c) \/ StartElevator(c) \/ StopElevator(c) \/ ElevatorOpen(c)
    \/ CallerStep(c)

LEMMA RegionSteps ==
    ASSUME LockTypeOK, RunElevator \/ \E c \in Callers : InCallOf(c) /\ ~PrintOopses(c)
    PROVE  /\ UNCHANGED <<owner, disturbed>> /\ (failed => failed')
           /\ \A t \in Tasks : Holding(t)' <=> Holding(t)
           /\ \A t \in Tasks : at[t] = "oops" => at'[t] = "oops" /\ op'[t] = op[t]
<1> USE LockAssumption DEF Holding, Region, Goto
<1>1. CASE RunElevator
  <2>1. ASSUME NEW p \in Passengers,
               MovePassOut(p) \/ MovePassIn(p) \/ DelPassOut(p) \/ DelPassIn(p)
        PROVE  UNCHANGED <<owner, disturbed, at, op, failed>>
    BY <2>1 DEF MovePassOut, MovePassIn, DelPassOut, DelPassIn, memory
  <2>2. CASE BeginLoading \/ EndUnloading \/ EndLoading \/ MoveScan \/ GoOffline
    BY <2>2 DEF LockTypeOK, BeginLoading, EndUnloading, EndLoading, MoveScan, GoOffline, memory
  <2> QED
    BY <1>1, <2>1, <2>2 DEF RunElevator
<1>2. ASSUME NEW c \in Callers, InCallOf(c), ~PrintOopses(c)
      PROVE  /\ UNCHANGED <<owner, disturbed>> /\ (failed => failed')
             /\ \A t \in Tasks : Holding(t)' <=> Holding(t)
             /\ \A t \in Tasks : at[t] = "oops" => at'[t] = "oops" /\ op'[t] = op[t]
  <2>1. CASE IssueRequest(c) \/ StartElevator(c) \/ StopElevator(c) \/ ElevatorOpen(c)
    BY <2>1 DEF LockTypeOK, IssueRequest, StartElevator, StopElevator, ElevatorOpen, Call, memory
  <2>2. CASE AddPass(c) \/ TestStatus(c) \/ Restart(c) \/ TestShutdown(c) \/ SetShutdown(c)
    BY <2>2 DEF LockTypeOK, AddPass, TestStatus, Restart, TestShutdown, SetShutdown, memory
  <2>3. CASE PrintLine(c)
    <3>1. /\ at[c] = "in"
          /\ at' = [at EXCEPT ![c] = "in"] \/ at' = [at EXCEPT ![c] = "unlock"]
          /\ UNCHANGED <<owner, disturbed, op, failed>>
      BY <2>3 DEF PrintLine, memory
    <3> QED
      BY <3>1 DEF LockTypeOK
  <2> QED
    BY <1>2, <2>1, <2>2, <2>3 DEF InCallOf, CallerStep
<1> QED
  BY <1>1, <1>2

LEMMA OpenBufferStep ==
    ASSUME LockTypeOK, OpenBuffer, [Next]_vars
    PROVE  OpenBuffer'
<1> USE LockAssumption DEF OpenBuffer, Goto, Callers, memory
<1>1. CASE RunElevator
  <2>1. /\ UNCHANGED <<op, buffer, failed>>
        /\ \A c \in Callers : at'[c] = at[c]
    BY <1>1 DEF LockTypeOK, RunElevator, MovePassOut, MovePassIn, DelPassOut, DelPassIn,
       BeginLoading, EndUnloading, EndLoading, MoveScan, GoOffline
  <2> QED
    BY <2>1
<1>2. ASSUME NEW t \in Tasks, Lock(t) \/ Skip(t) \/ Leave(t) PROVE OpenBuffer'
  <2>1. /\ UNCHANGED <<buffer, failed>> /\ at[t] # "idle"
        /\ \A c \in Callers : op'[c] = op[c] /\ (c # t => at'[c] = at[c])
    BY <1>2 DEF LockTypeOK, Lock, Skip, Leave
  <2> QED
    BY <2>1
<1>3. ASSUME NEW c \in Callers, ElevatorOpen(c) PROVE OpenBuffer'
  BY <1>3 DEF ElevatorOpen
<1>4. ASSUME NEW c \in Callers, IssueRequest(c) \/ StartElevator(c) \/ StopElevator(c)
      PROVE  OpenBuffer'
  <2>1. /\ UNCHANGED <<buffer, failed>> /\ op'[c] # "elevator_open"
        /\ \A d \in Callers : d # c => op'[d] = op[d] /\ at'[d] = at[d]
    BY <1>4 DEF LockTypeOK, IssueRequest, StartElevator, StopElevator, Call
  <2> QED
    BY <2>1
<1>5. ASSUME NEW c \in Callers, CallerStep(c) PROVE OpenBuffer'
  <2>1. /\ UNCHANGED <<buffer, failed, op>> /\ at[c] # "idle"
        /\ \A d \in Callers : d # c => at'[d] = at[d]
    BY <1>5 DEF LockTypeOK, CallerStep, AddPass, TestStatus, Restart, TestShutdown,
       SetShutdown, PrintLine, PrintOopses
  <2> QED
    BY <2>1
<1>6. CASE UNCHANGED vars
  BY <1>6 DEF vars
<1> QED
  BY <1>1, <1>2, <1>3, <1>4, <1>5, <1>6 DEF Next

LEMMA MutexStep ==
    ASSUME LockTypeOK, OpenBuffer, NeverLeftLocked, Exclusive, [Next]_vars
    PROVE  NeverLeftLocked' /\ Exclusive'
<1>1. CASE RunElevator \/ \E c \in Callers : InCallOf(c) /\ ~PrintOopses(c)
  BY <1>1, RegionSteps DEF NeverLeftLocked, Exclusive, Holding
<1>6. ASSUME NEW c \in Callers, PrintOopses(c) PROVE NeverLeftLocked' /\ Exclusive'
  <2>1. /\ c \in Tasks /\ at' = [at EXCEPT ![c] = "oops"] /\ op[c] = "elevator_open"
        /\ UNCHANGED <<owner, op, disturbed, failed>> /\ failed
    BY <1>6 DEF PrintOopses, OpenBuffer, Goto, Callers, memory
  <2>2. \A t \in Tasks : IF t = c THEN at'[t] = "oops" ELSE at'[t] = at[t]
    BY <2>1 DEF LockTypeOK
  <2> QED
    BY <2>1, <2>2 DEF NeverLeftLocked, Exclusive, Holding, Region
<1>2. ASSUME NEW t \in Tasks, Lock(t) PROVE NeverLeftLocked' /\ Exclusive'
  BY <1>2, TasksAssumption
     DEF LockTypeOK, NeverLeftLocked, Exclusive, Holding, Lock, Acquire, MutexFree, Goto, Region
<1>3. ASSUME NEW t \in Tasks, Skip(t) PROVE NeverLeftLocked' /\ Exclusive'
  <2>1. /\ at[t] = "lock" /\ at' = [at EXCEPT ![t] = "unlock"] /\ disturbed'
        /\ UNCHANGED <<owner, op, failed>>
    BY <1>3 DEF Skip, Interrupted, Goto, memory
  <2>2. \A u \in Tasks : IF u = t THEN at'[u] = "unlock" ELSE at'[u] = at[u]
    BY <2>1 DEF LockTypeOK
  <2> QED
    BY <2>1, <2>2 DEF NeverLeftLocked, Exclusive
<1>4. ASSUME NEW t \in Tasks, Leave(t) PROVE NeverLeftLocked' /\ Exclusive'
  <2>1. at' = [at EXCEPT ![t] = "lock"] \/ at' = [at EXCEPT ![t] = "idle"]
    BY <1>4 DEF Leave, Goto, AfterUnlock
  <2>2. owner' = NoTask /\ at[t] = "unlock" /\ UNCHANGED disturbed
    BY <1>4 DEF Leave, Unlock
  <2> QED
    BY <2>1, <2>2, TasksAssumption
       DEF LockTypeOK, NeverLeftLocked, Exclusive, Holding, Region
<1>5. CASE UNCHANGED vars
  BY <1>5 DEF NeverLeftLocked, Exclusive, Holding, vars, memory
<1> QED
  BY <1>1, <1>2, <1>3, <1>4, <1>5, <1>6 DEF Next, InCallOf

-----------------------------------------------------------------------------
(* Passengers in transit, and structs not yet on a list. *)

LEMMA TransitStep ==
    ASSUME LockTypeOK, OneInTransit, [Next]_vars
    PROVE  OneInTransit'
<1> USE LockAssumption DEF OneInTransit, In, Goto
<1>1. ASSUME NEW p \in Passengers, MovePassOut(p) PROVE OneInTransit'
  BY <1>1 DEF LockTypeOK, MovePassOut, BetweenPassengers
<1>2. ASSUME NEW p \in Passengers, MovePassIn(p) PROVE OneInTransit'
  BY <1>2 DEF LockTypeOK, MovePassIn
<1>3. ASSUME NEW p \in Passengers, DelPassOut(p) PROVE OneInTransit'
  BY <1>3 DEF LockTypeOK, DelPassOut, BetweenPassengers
<1>4. ASSUME NEW p \in Passengers, DelPassIn(p) PROVE OneInTransit'
  BY <1>4 DEF LockTypeOK, DelPassIn
<1>5. CASE EndUnloading \/ EndLoading
  BY <1>5 DEF LockTypeOK, EndUnloading, EndLoading, BetweenPassengers, lists
<1>6. CASE BeginLoading \/ MoveScan \/ GoOffline
  BY <1>6 DEF LockTypeOK, BeginLoading, MoveScan, GoOffline, lists
<1>7. ASSUME NEW t \in Tasks, Lock(t) \/ Skip(t) \/ Leave(t) PROVE OneInTransit'
  BY <1>7 DEF LockTypeOK, Lock, Skip, Leave, lists
<1>8. ASSUME NEW c \in Callers, InCallOf(c) PROVE OneInTransit'
  <2>1. at'[Thread] = at[Thread]
    BY <1>8 DEF LockTypeOK, Callers, InCallOf, IssueRequest, StartElevator, StopElevator,
       ElevatorOpen, Call, CallerStep, AddPass, TestStatus, Restart, TestShutdown,
       SetShutdown, PrintLine, PrintOopses
  <2>2. \/ UNCHANGED place
        \/ \E p \in Passengers : \/ place' = [place EXCEPT ![p] = "private"]
                                 \/ place' = [place EXCEPT ![p] = "waiting"]
    BY <1>8 DEF LockTypeOK, Callers, InCallOf, IssueRequest, StartElevator, StopElevator,
       ElevatorOpen, CallerStep, AddPass, TestStatus, Restart, TestShutdown,
       SetShutdown, PrintLine, PrintOopses, lists
  <2> QED
    BY <2>1, <2>2 DEF LockTypeOK
<1>9. CASE UNCHANGED vars
  BY <1>9 DEF vars, lists
<1> QED
  BY <1>1, <1>2, <1>3, <1>4, <1>5, <1>6, <1>7, <1>8, <1>9 DEF Next, RunElevator, InCallOf

LEMMA OwnStructStep ==
    ASSUME LockTypeOK, OwnStruct, [Next]_vars
    PROVE  OwnStruct'
<1> USE LockAssumption DEF OwnStruct, In, Goto
<1>1. ASSUME NEW p \in Passengers,
             MovePassOut(p) \/ MovePassIn(p) \/ DelPassOut(p) \/ DelPassIn(p)
      PROVE  OwnStruct'
  BY <1>1 DEF LockTypeOK, MovePassOut, MovePassIn, DelPassOut, DelPassIn
<1> DEFINE Same ==
              /\ UNCHANGED <<mine, place>>
              /\ \A t \in Tasks :
                    /\ at'[t] \in {"lock", "in"} => at[t] \in {"lock", "in"} \/ mine[t] = {}
                    /\ op'[t] # "issue_request" \/ at'[t] = "idle"
                         => op[t] # "issue_request" \/ at[t] = "idle"
<1>0. Same => OwnStruct'
  OBVIOUS
<1>2. CASE BeginLoading \/ EndUnloading \/ EndLoading \/ MoveScan \/ GoOffline
  <2>1. Same
    BY <1>2 DEF LockTypeOK, BeginLoading, EndUnloading, EndLoading, MoveScan, GoOffline, lists
  <2> QED
    BY <1>0, <2>1
<1>3. ASSUME NEW t \in Tasks, Lock(t) \/ Skip(t) PROVE OwnStruct'
  <2>1. Same
    BY <1>3 DEF LockTypeOK, Lock, Skip, lists
  <2> QED
    BY <1>0, <2>1
<1>4. ASSUME NEW t \in Tasks, Leave(t) PROVE OwnStruct'
  <2>1. /\ mine' = [mine EXCEPT ![t] = {}]
        /\ \A u \in Tasks : u # t => at'[u] = at[u] /\ op'[u] = op[u]
        /\ place' = place
    BY <1>4 DEF LockTypeOK, Leave, lists
  <2> QED
    BY <2>1 DEF LockTypeOK
<1>5. ASSUME NEW c \in Callers, IssueRequest(c) PROVE OwnStruct'
  <2>1. PICK p \in Passengers : /\ place[p] = "unused"
                                /\ place' = [place EXCEPT ![p] = "private"]
                                /\ mine' = [mine EXCEPT ![c] = {p}]
    BY <1>5 DEF IssueRequest
  <2>2. \A t \in Tasks : p \notin mine[t]
    BY <2>1 DEF LockTypeOK
  <2> QED
    BY <1>5, <2>1, <2>2 DEF LockTypeOK, IssueRequest, Call, Callers
<1>6. ASSUME NEW c \in Callers, StartElevator(c) \/ StopElevator(c) \/ ElevatorOpen(c)
      PROVE  OwnStruct'
  <2>1. Same
    BY <1>6 DEF LockTypeOK, StartElevator, StopElevator, ElevatorOpen, Call, Callers, lists
  <2> QED
    BY <1>0, <2>1
<1>7. ASSUME NEW c \in Callers, AddPass(c) PROVE OwnStruct'
  BY <1>7 DEF LockTypeOK, AddPass, Callers
<1>8. ASSUME NEW c \in Callers,
             \/ TestStatus(c) \/ Restart(c) \/ TestShutdown(c) \/ SetShutdown(c)
             \/ PrintOopses(c)
      PROVE  OwnStruct'
  <2>1. Same
    BY <1>8 DEF LockTypeOK, TestStatus, Restart, TestShutdown, SetShutdown, PrintOopses,
       Callers, lists
  <2> QED
    BY <1>0, <2>1
<1>9. ASSUME NEW c \in Callers, PrintLine(c) PROVE OwnStruct'
  <2>1. /\ at' = [at EXCEPT ![c] = "in"] \/ at' = [at EXCEPT ![c] = "unlock"]
        /\ at[c] = "in" /\ UNCHANGED <<op, mine, place>>
    BY <1>9 DEF PrintLine, lists
  <2> QED
    BY <2>1 DEF LockTypeOK, Callers
<1>10. CASE UNCHANGED vars
  BY <1>10 DEF vars, lists
<1> QED
  BY <1>1, <1>2, <1>3, <1>4, <1>5, <1>6, <1>7, <1>8, <1>9, <1>10
     DEF Next, RunElevator, CallerStep

LEMMA PrivateHeldStep ==
    ASSUME LockTypeOK, OwnStruct, PrivateHeld, [Next]_vars
    PROVE  PrivateHeld'
<1> DEFINE Held(p) == \E c \in Callers : p \in mine[c] /\ at[c] \in {"lock", "in"}
<1> SUFFICES ASSUME ~disturbed', NEW p \in Passengers, place'[p] = "private" PROVE Held(p)'
  BY DEF PrivateHeld, In
<1>0. ~disturbed /\ (place[p] = "private" => Held(p))
  BY DEF Next, RunElevator, MovePassOut, MovePassIn, DelPassOut, DelPassIn, BeginLoading,
     EndUnloading, EndLoading, MoveScan, GoOffline, Lock, Skip, Leave, IssueRequest,
     StartElevator, StopElevator, ElevatorOpen, CallerStep, AddPass, TestStatus, Restart,
     TestShutdown, SetShutdown, PrintLine, PrintOopses, vars, PrivateHeld, In
(* The call that holds p keeps it while it waits for the mutex or has it.  *)
<1>1. ASSUME place[p] = "private",
             \A c \in Callers : at[c] \in {"lock", "in"} /\ p \in mine[c] =>
                 at'[c] \in {"lock", "in"} /\ mine'[c] = mine[c]
      PROVE  Held(p)'
  BY <1>0, <1>1
<1>2. CASE RunElevator
  <2>1. /\ place[p] = "private" /\ mine' = mine
        /\ \A c \in Callers : at'[c] = at[c]
    BY <1>2, LockAssumption
       DEF LockTypeOK, RunElevator, MovePassOut, MovePassIn, DelPassOut, DelPassIn,
       BeginLoading, EndUnloading, EndLoading, MoveScan, GoOffline, Goto, Callers, lists
  <2> QED
    BY <1>1, <2>1
<1>3. ASSUME NEW t \in Tasks, Lock(t) \/ Leave(t) PROVE Held(p)'
  BY <1>1, <1>3 DEF LockTypeOK, Lock, Leave, Goto, Callers, lists
<1>4. ASSUME NEW t \in Tasks, Skip(t) PROVE Held(p)'
  BY <1>4 DEF Skip
<1>5. ASSUME NEW c \in Callers, IssueRequest(c) PROVE Held(p)'
  <2>1. PICK q \in Passengers : /\ place[q] = "unused"
                                /\ place' = [place EXCEPT ![q] = "private"]
                                /\ mine' = [mine EXCEPT ![c] = {q}]
    BY <1>5 DEF IssueRequest, In
  <2>2. at[c] = "idle" /\ at' = [at EXCEPT ![c] = "lock"]
    BY <1>5 DEF IssueRequest, Call, Goto
  <2>3. CASE p = q
    BY <2>1, <2>2, <2>3 DEF LockTypeOK, Callers
  <2>4. CASE p # q
    BY <1>1, <2>1, <2>2, <2>4 DEF LockTypeOK, Callers
  <2> QED
    BY <2>3, <2>4
<1>6. ASSUME NEW c \in Callers, StartElevator(c) \/ StopElevator(c) \/ ElevatorOpen(c)
      PROVE  Held(p)'
  BY <1>1, <1>6 DEF LockTypeOK, StartElevator, StopElevator, ElevatorOpen, Call, Goto,
     Callers, lists
<1>7. ASSUME NEW c \in Callers, AddPass(c) PROVE Held(p)'
  <2>1. PICK q \in mine[c] : place' = [place EXCEPT ![q] = "waiting"]
    BY <1>7 DEF AddPass
  <2>2. p # q /\ place[p] = "private" /\ p \notin mine[c]
    BY <2>1 DEF LockTypeOK, OwnStruct, Callers
  <2> QED
    BY <1>1, <1>7, <2>2 DEF LockTypeOK, AddPass, Goto, Callers
<1>8. ASSUME NEW c \in Callers,
             \/ TestStatus(c) \/ Restart(c) \/ TestShutdown(c) \/ SetShutdown(c)
             \/ PrintLine(c) \/ PrintOopses(c)
      PROVE  Held(p)'
  <2>1. mine[c] = {}
    BY <1>8 DEF OwnStruct, Callers, TestStatus, Restart, TestShutdown, SetShutdown, PrintLine,
       PrintOopses
  <2>2. UNCHANGED <<place, mine>> /\ \A d \in Callers : d # c => at'[d] = at[d]
    BY <1>8 DEF LockTypeOK, TestStatus, Restart, TestShutdown, SetShutdown, PrintLine,
       PrintOopses, Goto, Callers, lists
  <2> QED
    BY <1>1, <2>1, <2>2
<1>9. CASE UNCHANGED vars
  BY <1>1, <1>9 DEF vars, lists
<1> QED
  BY <1>2, <1>3, <1>4, <1>5, <1>6, <1>7, <1>8, <1>9 DEF Next, CallerStep

-----------------------------------------------------------------------------
(* The counters. *)

OnFloor(S, i) == {p \in S : Trip[p].s_floor = i}

LEMMA FloorTallyAdd ==
    ASSUME NEW S \in SUBSET Passengers, NEW p \in Passengers \ S, NEW h \in [Floors -> Load],
           \A i \in Floors : h[i] = Tally(OnFloor(S, i), Trip)
    PROVE  \A i \in Floors :
               [h EXCEPT ![Trip[p].s_floor] = CountIn(@, Trip[p].type)][i]
                 = Tally(OnFloor(S \cup {p}, i), Trip)
<1> SUFFICES ASSUME NEW i \in Floors
             PROVE  [h EXCEPT ![Trip[p].s_floor] = CountIn(@, Trip[p].type)][i]
                      = Tally(OnFloor(S \cup {p}, i), Trip)
  OBVIOUS
<1>1. IsFiniteSet(OnFloor(S, i)) /\ p \notin OnFloor(S, i)
  BY LockAssumption, FS_Subset DEF OnFloor
<1>2. CASE Trip[p].s_floor = i
  <2>1. OnFloor(S \cup {p}, i) = OnFloor(S, i) \cup {p}
    BY <1>2 DEF OnFloor
  <2>2. Tally(OnFloor(S \cup {p}, i), Trip) = CountIn(Tally(OnFloor(S, i), Trip), Trip[p].type)
    <3>1. Trip[p].type \in P_TYPE
      BY TripFacts
    <3>2. Tally(OnFloor(S, i) \cup {p}, Trip) = CountIn(Tally(OnFloor(S, i), Trip), Trip[p].type)
      BY <1>1, <2>1, <3>1, TallyAdd
    <3> QED
      BY <2>1, <3>2
  <2> QED
    BY <1>2, <2>2
<1>3. CASE Trip[p].s_floor # i
  <2>1. OnFloor(S \cup {p}, i) = OnFloor(S, i)
    BY <1>3 DEF OnFloor
  <2> QED
    BY <1>3, <2>1
<1> QED
  BY <1>2, <1>3

LEMMA FloorTallyRemove ==
    ASSUME NEW S \in SUBSET Passengers, NEW p \in S, NEW h \in [Floors -> Load],
           \A i \in Floors : h[i] = Tally(OnFloor(S, i), Trip)
    PROVE  \A i \in Floors :
               [h EXCEPT ![Trip[p].s_floor] = CountOut(@, Trip[p].type)][i]
                 = Tally(OnFloor(S \ {p}, i), Trip)
<1> SUFFICES ASSUME NEW i \in Floors
             PROVE  [h EXCEPT ![Trip[p].s_floor] = CountOut(@, Trip[p].type)][i]
                      = Tally(OnFloor(S \ {p}, i), Trip)
  OBVIOUS
<1>1. IsFiniteSet(OnFloor(S, i))
  BY LockAssumption, FS_Subset DEF OnFloor
<1>2. CASE Trip[p].s_floor = i
  <2>1. p \in OnFloor(S, i) /\ OnFloor(S \ {p}, i) = OnFloor(S, i) \ {p}
    BY <1>2 DEF OnFloor
  <2>2. Tally(OnFloor(S \ {p}, i), Trip) = CountOut(Tally(OnFloor(S, i), Trip), Trip[p].type)
    <3>1. Trip[p].type \in P_TYPE
      BY TripFacts
    <3>2. Tally(OnFloor(S, i) \ {p}, Trip) = CountOut(Tally(OnFloor(S, i), Trip), Trip[p].type)
      BY <1>1, <2>1, <3>1, TallyRemove
    <3> QED
      BY <2>1, <3>2
  <2> QED
    BY <1>2, <2>2
<1>3. CASE Trip[p].s_floor # i
  <2>1. OnFloor(S \ {p}, i) = OnFloor(S, i)
    BY <1>3 DEF OnFloor
  <2> QED
    BY <1>3, <2>1
<1> QED
  BY <1>2, <1>3

LEMMA FloorCardAdd ==
    ASSUME NEW S \in SUBSET Passengers, NEW p \in Passengers \ S, NEW n \in [Floors -> Nat],
           \A i \in Floors : n[i] = Cardinality(OnFloor(S, i))
    PROVE  \A i \in Floors :
               [n EXCEPT ![Trip[p].s_floor] = @ + 1][i] = Cardinality(OnFloor(S \cup {p}, i))
<1> SUFFICES ASSUME NEW i \in Floors
             PROVE  [n EXCEPT ![Trip[p].s_floor] = @ + 1][i]
                      = Cardinality(OnFloor(S \cup {p}, i))
  OBVIOUS
<1>1. IsFiniteSet(OnFloor(S, i)) /\ p \notin OnFloor(S, i)
  BY LockAssumption, FS_Subset DEF OnFloor
<1>2. CASE Trip[p].s_floor = i
  <2>1. OnFloor(S \cup {p}, i) = OnFloor(S, i) \cup {p}
    BY <1>2 DEF OnFloor
  <2> QED
    BY <1>1, <1>2, <2>1, FS_AddElement
<1>3. CASE Trip[p].s_floor # i
  <2>1. OnFloor(S \cup {p}, i) = OnFloor(S, i)
    BY <1>3 DEF OnFloor
  <2> QED
    BY <1>3, <2>1
<1> QED
  BY <1>2, <1>3

LEMMA CountersIs ==
    CountersInv <=>
        /\ car = Tally(In("riding"), Trip)
        /\ \A i \in Floors : hall[i] = Tally(OnFloor(In("waiting"), i), Trip)
        /\ \A i \in Floors : serviced[i] = Cardinality(OnFloor(In("freed"), i))
BY DEF CountersInv, OnFloor

LEMMA CountersStep ==
    ASSUME LockTypeOK, OwnStruct, CountersInv, [Next]_vars
    PROVE  CountersInv'
<1> DEFINE W == In("waiting")
           R == In("riding")
           F == In("freed")
<1>0. /\ W \in SUBSET Passengers /\ R \in SUBSET Passengers /\ F \in SUBSET Passengers
      /\ IsFiniteSet(R)
      /\ hall \in [Floors -> Load] /\ serviced \in [Floors -> Nat]
      /\ car = Tally(R, Trip)
      /\ \A i \in Floors : hall[i] = Tally(OnFloor(W, i), Trip)
      /\ \A i \in Floors : serviced[i] = Cardinality(OnFloor(F, i))
  BY LockAssumption, FS_Subset, CountersIs DEF In, LockTypeOK
<1>1. ASSUME W' = W, R' = R, F' = F, UNCHANGED <<hall, car, serviced>>
      PROVE  CountersInv'
  BY <1>0, <1>1 DEF CountersInv, OnFloor
<1>2. ASSUME NEW p \in Passengers, MovePassOut(p) PROVE CountersInv'
  <2>1. /\ place[p] = "waiting" /\ place' = [place EXCEPT ![p] = "boarding"]
        /\ hall' = [hall EXCEPT ![Trip[p].s_floor] = CountOut(@, Trip[p].type)]
        /\ UNCHANGED <<car, serviced>>
    BY <1>2 DEF MovePassOut
  <2>2. p \in W /\ W' = W \ {p} /\ R' = R /\ F' = F
    BY <2>1 DEF LockTypeOK, In
  <2> HIDE DEF W, R, F
  <2>3. \A i \in Floors : hall'[i] = Tally(OnFloor(W', i), Trip)
    BY <1>0, <2>1, <2>2, FloorTallyRemove
  <2> QED
    BY <1>0, <2>1, <2>2, <2>3 DEF CountersInv, OnFloor, W, R, F
<1>3. ASSUME NEW p \in Passengers, MovePassIn(p) PROVE CountersInv'
  <2>1. /\ place[p] = "boarding" /\ place' = [place EXCEPT ![p] = "riding"]
        /\ car' = CountIn(car, Trip[p].type)
        /\ UNCHANGED <<hall, serviced>>
    BY <1>3 DEF MovePassIn
  <2>2. p \notin R /\ W' = W /\ R' = R \cup {p} /\ F' = F
    BY <2>1 DEF LockTypeOK, In
  <2> HIDE DEF W, R, F
  <2>3. car' = Tally(R', Trip)
    BY <1>0, <2>1, <2>2, TallyAdd, TripFacts
  <2> QED
    BY <1>0, <2>1, <2>2, <2>3 DEF CountersInv, OnFloor, W, R, F
<1>4. ASSUME NEW p \in Passengers, DelPassOut(p) PROVE CountersInv'
  <2>1. /\ place[p] = "riding" /\ place' = [place EXCEPT ![p] = "leaving"]
        /\ car' = CountOut(car, Trip[p].type)
        /\ UNCHANGED <<hall, serviced>>
    BY <1>4 DEF DelPassOut
  <2>2. p \in R /\ W' = W /\ R' = R \ {p} /\ F' = F
    BY <2>1 DEF LockTypeOK, In
  <2> HIDE DEF W, R, F
  <2>3. car' = Tally(R', Trip)
    BY <1>0, <2>1, <2>2, TallyRemove, TripFacts
  <2> QED
    BY <1>0, <2>1, <2>2, <2>3 DEF CountersInv, OnFloor, W, R, F
<1>5. ASSUME NEW p \in Passengers, DelPassIn(p) PROVE CountersInv'
  <2>1. /\ place[p] = "leaving" /\ place' = [place EXCEPT ![p] = "freed"]
        /\ serviced' = [serviced EXCEPT ![Trip[p].s_floor] = @ + 1]
        /\ UNCHANGED <<hall, car>>
    BY <1>5 DEF DelPassIn
  <2>2. p \notin F /\ W' = W /\ R' = R /\ F' = F \cup {p}
    BY <2>1 DEF LockTypeOK, In
  <2> HIDE DEF W, R, F
  <2>3. \A i \in Floors : serviced'[i] = Cardinality(OnFloor(F', i))
    BY <1>0, <2>1, <2>2, FloorCardAdd
  <2> QED
    BY <1>0, <2>1, <2>2, <2>3 DEF CountersInv, OnFloor, W, R, F
<1>6. ASSUME NEW c \in Callers, AddPass(c) PROVE CountersInv'
  <2>1. PICK p \in mine[c] :
          /\ place' = [place EXCEPT ![p] = "waiting"]
          /\ hall' = [hall EXCEPT ![Trip[p].s_floor] = CountIn(@, Trip[p].type)]
    BY <1>6 DEF AddPass
  <2>2. p \in Passengers /\ place[p] = "private" /\ UNCHANGED <<car, serviced>>
    BY <1>6 DEF LockTypeOK, OwnStruct, AddPass, Callers
  <2>3. p \notin W /\ W' = W \cup {p} /\ R' = R /\ F' = F
    BY <2>1, <2>2 DEF LockTypeOK, In
  <2> HIDE DEF W, R, F
  <2>4. \A i \in Floors : hall'[i] = Tally(OnFloor(W', i), Trip)
    BY <1>0, <2>1, <2>2, <2>3, FloorTallyAdd
  <2> QED
    BY <1>0, <2>2, <2>3, <2>4 DEF CountersInv, OnFloor, W, R, F
<1>7. ASSUME NEW c \in Callers, IssueRequest(c) PROVE CountersInv'
  <2>1. PICK p \in Passengers : /\ place[p] = "unused"
                                /\ place' = [place EXCEPT ![p] = "private"]
    BY <1>7 DEF IssueRequest, In
  <2>2. W' = W /\ R' = R /\ F' = F
    BY <2>1 DEF LockTypeOK, In
  <2> QED
    BY <1>1, <1>7, <2>2 DEF IssueRequest
<1>8. CASE UNCHANGED lists
  BY <1>1, <1>8 DEF lists, In
<1>9. CASE BeginLoading \/ EndUnloading \/ EndLoading \/ MoveScan \/ GoOffline
  BY <1>8, <1>9 DEF BeginLoading, EndUnloading, EndLoading, MoveScan, GoOffline
<1>10. ASSUME NEW t \in Tasks, Lock(t) \/ Skip(t) \/ Leave(t) PROVE CountersInv'
  BY <1>8, <1>10 DEF Lock, Skip, Leave
<1>11. ASSUME NEW c \in Callers,
              \/ StartElevator(c) \/ StopElevator(c) \/ ElevatorOpen(c) \/ TestStatus(c)
              \/ Restart(c) \/ TestShutdown(c) \/ SetShutdown(c) \/ PrintLine(c)
              \/ PrintOopses(c)
       PROVE  CountersInv'
  BY <1>8, <1>11 DEF StartElevator, StopElevator, ElevatorOpen, TestStatus, Restart,
     TestShutdown, SetShutdown, PrintLine, PrintOopses
<1>12. CASE UNCHANGED vars
  BY <1>8, <1>12 DEF vars
<1> QED
  BY <1>2, <1>3, <1>4, <1>5, <1>6, <1>7, <1>9, <1>10, <1>11, <1>12
     DEF Next, RunElevator, CallerStep

-----------------------------------------------------------------------------
(* The pages. *)

LEMMA PageProgressStep ==
    ASSUME LockTypeOK, PageProgress, [Next]_vars
    PROVE  PageProgress'
<1> USE LockAssumption, LimitsAssumption DEF PageProgress, Goto, Callers
<1>0. /\ Len(<<>>) = 0 /\ MAX_FLOOR \in Nat
      /\ \A c \in Callers : page[c] \in Seq(Line) /\ Len(page[c]) \in Nat
  BY DEF LockTypeOK
<1>1. CASE RunElevator
  <2>1. page' = page /\ op' = op /\ \A c \in Callers : at'[c] = at[c]
    BY <1>1 DEF LockTypeOK, RunElevator, MovePassOut, MovePassIn, DelPassOut, DelPassIn,
       BeginLoading, EndUnloading, EndLoading, MoveScan, GoOffline
  <2> QED
    BY <2>1
<1>2. ASSUME NEW t \in Tasks, Lock(t) PROVE PageProgress'
  BY <1>0, <1>2 DEF LockTypeOK, Lock
<1>3. ASSUME NEW t \in Tasks, Skip(t) PROVE PageProgress'
  BY <1>0, <1>3 DEF LockTypeOK, Skip
<1>4. ASSUME NEW t \in Tasks, Leave(t) PROVE PageProgress'
  <2>1. /\ page' = [page EXCEPT ![t] = <<>>]
        /\ \A c \in Callers : c # t => at'[c] = at[c] /\ op'[c] = op[c]
    BY <1>4 DEF LockTypeOK, Leave
  <2> QED
    BY <1>0, <2>1 DEF LockTypeOK
<1>5. ASSUME NEW c \in Callers,
             IssueRequest(c) \/ StartElevator(c) \/ StopElevator(c) \/ ElevatorOpen(c)
      PROVE  PageProgress'
  <2>1. /\ at[c] = "idle" /\ at' = [at EXCEPT ![c] = "lock"] /\ page' = page
        /\ \A d \in Callers : d # c => op'[d] = op[d]
    BY <1>5 DEF LockTypeOK, IssueRequest, StartElevator, StopElevator, ElevatorOpen, Call
  <2> QED
    BY <1>0, <2>1 DEF LockTypeOK
<1>6. ASSUME NEW c \in Callers,
             AddPass(c) \/ TestStatus(c) \/ Restart(c) \/ TestShutdown(c) \/ SetShutdown(c)
      PROVE  PageProgress'
  <2>1. /\ at' = [at EXCEPT ![c] = "unlock"] \/ at' = [at EXCEPT ![c] = "act"]
        /\ op' = op /\ page' = page
    BY <1>6 DEF AddPass, TestStatus, Restart, TestShutdown, SetShutdown
  <2> QED
    BY <1>0, <2>1 DEF LockTypeOK
<1>7. ASSUME NEW c \in Callers, PrintLine(c) PROVE PageProgress'
  <2>1. PICK l : page' = [page EXCEPT ![c] = Append(@, l)]
    BY <1>7 DEF PrintLine
  <2>2. /\ at[c] = "in" /\ op[c] = "elevator_open" /\ op' = op
        /\ at' = [at EXCEPT ![c] = IF Len(page[c]) = MAX_FLOOR THEN "unlock" ELSE "in"]
    BY <1>7 DEF PrintLine
  <2>3. Len(Append(page[c], l)) = Len(page[c]) + 1
    BY <1>0
  <2> QED
    BY <1>0, <2>1, <2>2, <2>3 DEF LockTypeOK
<1>9. ASSUME NEW c \in Callers, PrintOopses(c) PROVE PageProgress'
  <2>1. /\ at' = [at EXCEPT ![c] = "oops"] /\ page[c] = <<>>
        /\ op' = op /\ page' = page
    BY <1>9 DEF PrintOopses
  <2> QED
    BY <1>0, <2>1 DEF LockTypeOK
<1>8. CASE UNCHANGED vars
  BY <1>8 DEF vars
<1> QED
  BY <1>1, <1>2, <1>3, <1>4, <1>5, <1>6, <1>7, <1>8, <1>9 DEF Next, CallerStep

(* Whoever is in another region has no open with a page under way.         *)
LEMMA NoPageElsewhere ==
    ASSUME LockTypeOK, Exclusive, PageProgress, ~disturbed,
           NEW t \in Tasks, Holding(t), t = Thread \/ op[t] # "elevator_open"
    PROVE  \A c \in Callers : page[c] = <<>>
<1> SUFFICES ASSUME NEW c \in Callers, page[c] # <<>> PROVE FALSE
  OBVIOUS
<1>1. at[c] \notin {"idle", "lock", "oops"} /\ op[c] = "elevator_open"
  BY DEF PageProgress
<1>2. Holding(c)
  BY <1>1 DEF LockTypeOK, Holding, Callers
<1> QED
  BY <1>1, <1>2 DEF Exclusive, Callers

LEMMA PageCurrentStep ==
    ASSUME LockTypeOK, OneInTransit, Exclusive, PageProgress, PageCurrent, [Next]_vars
    PROVE  PageCurrent'
<1> SUFFICES ASSUME ~disturbed'
             PROVE  \A c \in Callers : \A n \in 1 .. Len(page'[c]) : page'[c][n] = LineNow(n)'
  BY DEF PageCurrent
<1>0. ~disturbed
  BY DEF Next, RunElevator, MovePassOut, MovePassIn, DelPassOut, DelPassIn, BeginLoading,
     EndUnloading, EndLoading, MoveScan, GoOffline, Lock, Skip, Leave, IssueRequest,
     StartElevator, StopElevator, ElevatorOpen, CallerStep, AddPass, TestStatus, Restart,
     TestShutdown, SetShutdown, PrintLine, PrintOopses, vars
<1>1. CASE page' = page /\ UNCHANGED <<hall, car, serviced>>
  BY <1>0, <1>1 DEF PageCurrent, LineNow
<1>2. CASE page' = page /\ \A c \in Callers : page[c] = <<>>
  BY <1>2
<1>3. ASSUME NEW p \in Passengers,
             MovePassOut(p) \/ MovePassIn(p) \/ DelPassOut(p) \/ DelPassIn(p)
      PROVE  PageCurrent'
  <2>1. at[Thread] \in {"board", "unload"} /\ page' = page
    BY <1>3 DEF OneInTransit, In, MovePassOut, MovePassIn, DelPassOut, DelPassIn
  <2>2. Holding(Thread) /\ Thread \in Tasks
    BY <2>1, LockAssumption DEF Holding, Region
  <2> QED
    BY <1>0, <1>2, <2>1, <2>2, NoPageElsewhere DEF PageCurrent
<1>4. CASE BeginLoading \/ EndUnloading \/ EndLoading \/ MoveScan \/ GoOffline
  BY <1>1, <1>4 DEF BeginLoading, EndUnloading, EndLoading, MoveScan, GoOffline, lists
<1>5. ASSUME NEW t \in Tasks, Lock(t) \/ Skip(t)
      PROVE  page' = page /\ UNCHANGED <<hall, car, serviced>>
  BY <1>5 DEF Lock, Skip, lists
<1>6. ASSUME NEW t \in Tasks, Leave(t) PROVE PageCurrent'
  <2>1. page' = [page EXCEPT ![t] = <<>>] /\ UNCHANGED <<hall, car, serviced>>
    BY <1>6 DEF Leave, lists
  <2>2. \A n : LineNow(n)' = LineNow(n)
    BY <2>1 DEF LineNow
  <2>3. \A c \in Callers : page'[c] = page[c] \/ page'[c] = <<>>
    BY <2>1 DEF LockTypeOK, Callers
  <2> QED
    BY <1>0, <2>2, <2>3 DEF PageCurrent
<1>7. ASSUME NEW c \in Callers, AddPass(c) PROVE PageCurrent'
  <2>1. Holding(c) /\ op[c] # "elevator_open" /\ page' = page /\ c \in Tasks
    BY <1>7 DEF AddPass, Holding, Region, Callers
  <2> QED
    BY <1>0, <1>2, <2>1, NoPageElsewhere DEF PageCurrent
<1>8. ASSUME NEW c \in Callers,
             \/ IssueRequest(c) \/ StartElevator(c) \/ StopElevator(c) \/ ElevatorOpen(c)
             \/ TestStatus(c) \/ Restart(c) \/ TestShutdown(c) \/ SetShutdown(c)
             \/ PrintOopses(c)
      PROVE  page' = page /\ UNCHANGED <<hall, car, serviced>>
  BY <1>8 DEF IssueRequest, StartElevator, StopElevator, ElevatorOpen, TestStatus, Restart,
     TestShutdown, SetShutdown, PrintOopses, lists
<1>9. ASSUME NEW c \in Callers, PrintLine(c) PROVE PageCurrent'
  <2> DEFINE k == Len(page[c])
             l == IF k = 0 THEN Printed(car, 0)
                  ELSE Printed(hall[MAX_FLOOR - k], serviced[MAX_FLOOR - k])
  <2>1. page' = [page EXCEPT ![c] = Append(@, l)] /\ UNCHANGED <<hall, car, serviced>>
    BY <1>9 DEF PrintLine, lists
  <2>2. c \in Tasks /\ page[c] \in Seq(Line) /\ k \in Nat
    BY DEF LockTypeOK, Callers
  <2>3. l = LineNow(k + 1)
    <3>1. (k + 1 = 1 <=> k = 0) /\ MAX_FLOOR - (k + 1) + 1 = MAX_FLOOR - k
      BY <2>2, LimitsAssumption
    <3> QED
      BY <3>1 DEF LineNow
  <2>4. \A n : LineNow(n)' = LineNow(n)
    BY <2>1 DEF LineNow
  <2> HIDE DEF l
  <2>5. /\ page'[c] = Append(page[c], l)
        /\ \A d \in Callers : d # c => page'[d] = page[d]
    BY <2>1, <2>2 DEF LockTypeOK, Callers
  <2>6. /\ Len(page'[c]) = k + 1
        /\ \A n \in 1 .. k : page'[c][n] = page[c][n]
        /\ page'[c][k + 1] = l
    BY <2>2, <2>5
  <2>7. \A n \in 1 .. k + 1 : n \in 1 .. k \/ n = k + 1
    BY <2>2
  <2> QED
    BY <1>0, <2>3, <2>4, <2>5, <2>6, <2>7 DEF PageCurrent
<1>10. CASE UNCHANGED vars
  BY <1>1, <1>10 DEF vars, lists
<1> QED
  BY <1>1, <1>3, <1>4, <1>5, <1>6, <1>7, <1>8, <1>9, <1>10
     DEF Next, RunElevator, CallerStep, PageCurrent

-----------------------------------------------------------------------------
(* The tests. *)

Fresh(t) ==
    at[t] = "act" =>
        IF t = Thread THEN Drained
        ELSE IF op[t] = "start_elevator" THEN status = "OFFLINE" ELSE shutdown = 0

LEMMA DecisionsStep ==
    ASSUME LockTypeOK, OneInTransit, OwnStruct, Exclusive, DecisionsFresh, [Next]_vars
    PROVE  DecisionsFresh'
<1> SUFFICES ASSUME ~disturbed' PROVE \A t \in Tasks : Fresh(t)'
  BY DEF DecisionsFresh, Fresh
<1>0. ~disturbed /\ \A t \in Tasks : Fresh(t)
  BY DEF Next, RunElevator, MovePassOut, MovePassIn, DelPassOut, DelPassIn, BeginLoading,
     EndUnloading, EndLoading, MoveScan, GoOffline, Lock, Skip, Leave, IssueRequest,
     StartElevator, StopElevator, ElevatorOpen, CallerStep, AddPass, TestStatus, Restart,
     TestShutdown, SetShutdown, PrintLine, PrintOopses, vars, DecisionsFresh, Fresh
(* A step that leaves what is tested alone may change where one task is.   *)
<1>1. ASSUME UNCHANGED <<status, shutdown>>,
             In("riding")' = In("riding"), In("waiting")' = In("waiting"),
             \A t \in Tasks : at'[t] = "act" => at[t] = "act" /\ op'[t] = op[t]
      PROVE  \A t \in Tasks : Fresh(t)'
  BY <1>0, <1>1 DEF Fresh, Drained
(* While one task is in its region no other is about to act.               *)
<1>2. ASSUME NEW t \in Tasks, Holding(t),
             \A u \in Tasks : u # t => at'[u] = at[u],
             at'[t] # "act"
      PROVE  \A u \in Tasks : Fresh(u)'
  <2>1. \A u \in Tasks : u # t => at[u] # "act"
    BY <1>0, <1>2 DEF Exclusive, Holding, Region
  <2> QED
    BY <1>2, <2>1 DEF Fresh
<1>3. ASSUME NEW p \in Passengers,
             MovePassOut(p) \/ MovePassIn(p) \/ DelPassOut(p) \/ DelPassIn(p)
      PROVE  \A t \in Tasks : Fresh(t)'
  <2>1. at[Thread] \in {"board", "unload"} /\ at' = at
    BY <1>3 DEF OneInTransit, In, MovePassOut, MovePassIn, DelPassOut, DelPassIn
  <2>2. Holding(Thread) /\ Thread \in Tasks /\ at'[Thread] # "act"
    BY <2>1, LockAssumption DEF Holding, Region
  <2> QED
    BY <1>2, <2>1, <2>2
<1>4. CASE BeginLoading \/ EndUnloading \/ EndLoading \/ GoOffline
  <2>1. /\ Thread \in Tasks /\ Holding(Thread)
        /\ \A u \in Tasks : u # Thread => at'[u] = at[u]
        /\ at'[Thread] # "act"
    BY <1>4, LockAssumption
       DEF BeginLoading, EndUnloading, EndLoading, GoOffline, LockTypeOK, Goto, Holding, Region
  <2> QED
    BY <1>2, <2>1
<1>5. CASE MoveScan
  <2>1. /\ Thread \in Tasks /\ Holding(Thread)
        /\ at' = [at EXCEPT ![Thread] = IF Drained THEN "act" ELSE "unlock"]
        /\ UNCHANGED <<status, shutdown>> /\ place' = place
    BY <1>5, LockAssumption DEF MoveScan, Goto, Holding, Region, lists, service
  <2>2. Drained' = Drained
    BY <2>1 DEF Drained, In
  <2>3. \A u \in Tasks : u # Thread => at[u] # "act"
    BY <1>0, <2>1 DEF Exclusive, Holding, Region
  <2> QED
    BY <2>1, <2>2, <2>3 DEF Fresh, LockTypeOK
<1>6. ASSUME NEW t \in Tasks, Lock(t) \/ Skip(t) PROVE \A u \in Tasks : Fresh(u)'
  <2>1. /\ UNCHANGED <<status, shutdown, place, op>>
        /\ \A u \in Tasks : at'[u] = "act" => at[u] = "act"
    BY <1>6 DEF Lock, Skip, Goto, lists, service, LockTypeOK
  <2> QED
    BY <1>1, <2>1 DEF In
<1>7. ASSUME NEW t \in Tasks, Leave(t) PROVE \A u \in Tasks : Fresh(u)'
  <2>1. AfterUnlock(t) # "act"
    BY DEF AfterUnlock
  <2>2. /\ Holding(t) /\ at'[t] # "act"
        /\ \A u \in Tasks : u # t => at'[u] = at[u]
    BY <1>7, <2>1 DEF Leave, Goto, Holding, LockTypeOK
  <2> QED
    BY <1>2, <2>2
<1>8. ASSUME NEW c \in Callers, IssueRequest(c) PROVE \A u \in Tasks : Fresh(u)'
  <2>1. PICK p \in Passengers : /\ place[p] = "unused"
                                /\ place' = [place EXCEPT ![p] = "private"]
    BY <1>8 DEF IssueRequest, In
  <2>2. In("riding")' = In("riding") /\ In("waiting")' = In("waiting")
    BY <2>1 DEF In, LockTypeOK
  <2>3. /\ UNCHANGED <<status, shutdown>>
        /\ \A u \in Tasks : at'[u] = "act" => at[u] = "act" /\ op'[u] = op[u]
    BY <1>8 DEF IssueRequest, Call, Goto, service, LockTypeOK, Callers
  <2> QED
    BY <1>1, <2>2, <2>3
<1>9. ASSUME NEW c \in Callers, StartElevator(c) \/ StopElevator(c) \/ ElevatorOpen(c)
      PROVE  \A u \in Tasks : Fresh(u)'
  <2>1. /\ UNCHANGED <<status, shutdown, place>>
        /\ \A u \in Tasks : at'[u] = "act" => at[u] = "act" /\ op'[u] = op[u]
    BY <1>9 DEF StartElevator, StopElevator, ElevatorOpen, Call, Goto, lists, service,
       LockTypeOK, Callers
  <2> QED
    BY <1>1, <2>1 DEF In
<1>10. ASSUME NEW c \in Callers,
              \/ AddPass(c) \/ Restart(c) \/ SetShutdown(c) \/ PrintLine(c)
              \/ PrintOopses(c)
       PROVE  \A u \in Tasks : Fresh(u)'
  <2>1. c \in Tasks /\ Holding(c) /\ at'[c] # "act"
    BY <1>10 DEF AddPass, Restart, SetShutdown, PrintLine, PrintOopses, Goto, Holding, Region,
       Callers, LockTypeOK
  <2>2. \A u \in Tasks : u # c => at'[u] = at[u]
    BY <1>10 DEF AddPass, Restart, SetShutdown, PrintLine, PrintOopses, Goto, LockTypeOK, Callers
  <2> QED
    BY <1>2, <2>1, <2>2
<1>11. ASSUME NEW c \in Callers, TestStatus(c) \/ TestShutdown(c)
       PROVE  \A u \in Tasks : Fresh(u)'
  <2>1. /\ c \in Tasks /\ c # Thread /\ Holding(c)
        /\ \A u \in Tasks : u # c => at'[u] = at[u]
        /\ UNCHANGED <<op, status, shutdown>>
        /\ at'[c] = "act" => IF op[c] = "start_elevator" THEN status = "OFFLINE" ELSE shutdown = 0
    BY <1>11 DEF TestStatus, TestShutdown, Goto, service, LockTypeOK, Callers, Holding, Region
  <2>2. \A u \in Tasks : u # c => at[u] # "act"
    BY <1>0, <2>1 DEF Exclusive, Holding, Region
  <2> QED
    BY <2>1, <2>2 DEF Fresh
<1>12. CASE UNCHANGED vars
  BY <1>1, <1>12 DEF vars, lists, service, In
<1> QED
  BY <1>3, <1>4, <1>5, <1>6, <1>7, <1>8, <1>9, <1>10, <1>11, <1>12
     DEF Next, RunElevator, CallerStep

-----------------------------------------------------------------------------
(* The theorems. *)

LEMMA LockInvInit == Init => LockInv
<1> SUFFICES ASSUME Init PROVE LockInv
  OBVIOUS
<1>1. NeverLeftLocked /\ OpenBuffer
  BY TasksAssumption, LockAssumption DEF Init, NeverLeftLocked, OpenBuffer, Callers
<1>2. Exclusive /\ DecisionsFresh
  BY DEF Init, Exclusive, DecisionsFresh, Holding, Region
<1>3. OneInTransit /\ OwnStruct /\ PrivateHeld
  BY DEF Init, OneInTransit, OwnStruct, PrivateHeld, In
<1>4. CountersInv
  <2>1. In("riding") = {} /\ In("waiting") = {} /\ In("freed") = {}
    BY DEF Init, In
  <2>2. \A t : OfType({}, Trip, t) = {}
    BY DEF OfType
  <2>3. Tally({}, Trip) = NoLoad
    BY <2>2, TallyIs, FS_EmptySet DEF NoLoad
  <2>4. \A i : OnFloor({}, i) = {}
    BY DEF OnFloor
  <2> QED
    BY <2>1, <2>3, <2>4, FS_EmptySet, CountersIs DEF Init
<1>5. PageProgress /\ PageCurrent
  <2>1. \A c \in Callers : page[c] = <<>> /\ Len(page[c]) = 0
    BY DEF Init, Callers
  <2> QED
    BY <2>1, LimitsAssumption DEF PageProgress, PageCurrent
<1> QED
  BY <1>1, <1>2, <1>3, <1>4, <1>5, LockTypeInit DEF LockInv

LEMMA LockInvStep == LockInv /\ [Next]_vars => LockInv'
<1> SUFFICES ASSUME LockInv, [Next]_vars PROVE LockInv'
  OBVIOUS
<1>1. LockTypeOK'
  <2>1. CASE UNCHANGED vars
    BY <2>1 DEF LockInv, LockTypeOK, vars, lists, service, memory
  <2> QED
    BY <2>1, RunElevatorType, CallerType, LockLeaveType DEF LockInv, Next
<1> QED
  BY <1>1, OpenBufferStep, MutexStep, TransitStep, OwnStructStep, PrivateHeldStep, CountersStep, PageProgressStep,
     PageCurrentStep, DecisionsStep
     DEF LockInv

(* The strengthened invariant: the regions exclude each other and a        *)
(* passenger is between two updates only inside one.                       *)
THEOREM LockInvariant == Spec => []LockInv
BY LockInvInit, LockInvStep, PTL DEF Spec

(* No path through a system call, an open of /proc/elevator or the thread  *)
(* leaves the mutex locked, whatever signals arrive, but the one on which  *)
(* printStats prints through the NULL of a kmalloc that failed.            *)
THEOREM MutexIsReleased == Spec => []NeverLeftLocked
<1>1. LockInv => NeverLeftLocked
  BY DEF LockInv
<1> QED
  BY <1>1, LockInvariant, PTL

(* start_elevator, stop_elevator and the thread act on tests that still    *)
(* hold, until a signal interrupts a process that waits for the mutex.     *)
THEOREM TestsStayTrue == Spec => []DecisionsFresh
<1>1. LockInv => DecisionsFresh
  BY DEF LockInv
<1> QED
  BY <1>1, LockInvariant, PTL

(* Only a signal loses a request: until one interrupts somebody, every     *)
(* struct that is on no list is still held by the issue_request that       *)
(* allocated it.                                                           *)
THEOREM OnlySignalsLoseRequests == Spec => [](~disturbed => NoRequestLost)
<1>1. LockInv => (~disturbed => NoRequestLost)
  BY DEF LockInv, PrivateHeld, NoRequestLost
<1> QED
  BY <1>1, LockInvariant, PTL

(* Whoever takes the mutex, which no signal has freed, finds the counters  *)
(* of the elevator and of every floor in agreement with the lists.         *)
THEOREM CountersAgree == Spec => []CountersExact
<1>1. LockInv => CountersExact
  <2> SUFFICES ASSUME LockInv, ~disturbed, MutexFree
               PROVE  /\ car = Tally(In("riding") \cup In("leaving"), Trip)
                      /\ \A i \in Floors :
                            /\ hall[i] = Tally({p \in In("waiting") \cup In("boarding") :
                                                  Trip[p].s_floor = i}, Trip)
                            /\ serviced[i] = Cardinality({p \in In("freed") :
                                                            Trip[p].s_floor = i})
    BY DEF CountersExact
  <2>1. at[Thread] \notin {"board", "unload"}
    BY LockAssumption, TasksAssumption DEF LockInv, Exclusive, Holding, Region, MutexFree
  <2>2. In("boarding") = {} /\ In("leaving") = {}
    BY <2>1 DEF LockInv, OneInTransit
  <2>3. In("riding") \cup In("leaving") = In("riding")
        /\ In("waiting") \cup In("boarding") = In("waiting")
    BY <2>2
  <2> QED
    BY <2>3 DEF LockInv, CountersInv
<1> QED
  BY <1>1, LockInvariant, PTL

(* The half units survive printing: what is read off a line is the load.   *)
LEMMA PrintedReadsBack ==
    ASSUME NEW load \in Load, NEW done \in Nat
    PROVE  /\ ReadBack(Printed(load, done)) = [p_units |-> load.p_units, w_units |-> load.w_units]
           /\ Printed(load, done).serviced = done
<1>1. load.w_units \in Int
  BY DEF Load
<1>2. \A w \in Int : 2 * (w \div 2) + (IF w % 2 # 0 THEN 1 ELSE 0) = w
  OBVIOUS
<1>3. 2 * (load.w_units \div 2) + (IF load.w_units % 2 # 0 THEN 1 ELSE 0) = load.w_units
  BY <1>1, <1>2
<1> QED
  BY <1>3 DEF Printed, ReadBack

(* The page an open leaves shows the elevator and all floors as they are   *)
(* at one moment, to the half unit, however many floors it prints.         *)
THEOREM PagesAreSnapshots == Spec => []PageIsSnapshot
<1>1. LockInv => PageIsSnapshot
  <2> SUFFICES ASSUME LockInv, ~disturbed, NEW c \in Callers, Len(page[c]) = MAX_FLOOR + 1
               PROVE  /\ ReadBack(page[c][1]) = [p_units |-> car.p_units, w_units |-> car.w_units]
                      /\ \A i \in Floors :
                            /\ ReadBack(page[c][MAX_FLOOR - i + 1])
                                 = [p_units |-> hall[i].p_units, w_units |-> hall[i].w_units]
                            /\ page[c][MAX_FLOOR - i + 1].serviced = serviced[i]
    BY DEF PageIsSnapshot
  <2>0. \A n \in 1 .. MAX_FLOOR + 1 : page[c][n] = LineNow(n)
    BY DEF LockInv, PageCurrent
  <2>1. 1 \in 1 .. MAX_FLOOR + 1 /\ page[c][1] = Printed(car, 0)
    BY <2>0, LimitsAssumption DEF LineNow
  <2>2. ASSUME NEW i \in Floors
        PROVE  page[c][MAX_FLOOR - i + 1] = Printed(hall[i], serviced[i])
    <3> DEFINE n == MAX_FLOOR - i + 1
    <3>1. n \in 1 .. MAX_FLOOR + 1 /\ n # 1 /\ MAX_FLOOR - n + 1 = i
      BY LimitsAssumption DEF Floors
    <3> QED
      BY <2>0, <3>1 DEF LineNow
  <2>3. car \in Load /\ \A i \in Floors : hall[i] \in Load /\ serviced[i] \in Nat
    BY DEF LockInv, LockTypeOK
  <2> QED
    BY <2>1, <2>2, <2>3, PrintedReadsBack
<1> QED
  BY <1>1, LockInvariant, PTL

=============================================================================
