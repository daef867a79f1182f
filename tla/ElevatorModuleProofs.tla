------------------------- MODULE ElevatorModuleProofs -------------------------
(***************************************************************************)
(* Proofs about the life of the elevator module, for any number of         *)
(* callers, of structs and of floors and any number of insmods and rmmods. *)
(***************************************************************************)
EXTENDS ElevatorModule, TLAPS

-----------------------------------------------------------------------------
(* The inductive invariant, in parts. *)

Starting == {"linked", "ready", "created", "mutexed"}
Ending   == {"stopping", "stopped", "unlinked", "destroyed", "removed"}
Stages   == {"out", "in"} \cup Starting \cup Ending

ModuleTypeOK ==
    /\ loader \in Stages
    /\ floor \in 0 .. MAX_FLOOR
    /\ STUB \subseteq Syscalls
    /\ at \in [Tasks -> {"none", "head", "user", "stub", "oops"} \cup Inside]
    /\ at[Thread] \in {"none", "head", "lock", "body"}
    /\ \A c \in Callers : at[c] \notin {"none", "head"}
    /\ op \in [Tasks -> Syscalls \cup {"elevator_open", "load", "move"}]
    /\ mine \in [Callers -> SUBSET Passengers]
    /\ place \in [Passengers -> {"unused", "private", "listed", "freed"}]
    /\ failed \in BOOLEAN /\ overlap \in BOOLEAN

(* What is there at each stage of insmod and rmmod: the thread runs only   *)
(* while the lists and the mutex are usable, and only a failed insmod      *)
(* leaves a pointer behind.                                                *)
StageInv ==
    /\ entry => loader \notin {"out", "linked", "ready", "removed"}
    /\ lists <=> loader \notin {"out", "linked"}
    /\ mutex <=> loader \in {"mutexed", "in", "stopping", "stopped", "unlinked"}
    /\ at[Thread] # "none" => loader \in {"in", "stopping"}
    /\ loader \in Starting \cup {"in", "stopping", "stopped"} => STUB = Syscalls
    /\ loader \in {"unlinked", "destroyed", "removed"} => STUB = {}
    /\ loader = "out" /\ ~failed => STUB = {}
    /\ loader \notin {"unlinked", "destroyed", "removed"} => floor = 0

(* Calls that do not overlap with insmod and rmmod are in the module only  *)
(* between the two, and come to grief only after a failed insmod, or as an *)
(* open without a buffer.                                                  *)
CallsApart ==
    ~overlap => \A c \in Callers :
        /\ at[c] \in Inside => loader = "in"
        /\ at[c] = "stub" => loader = "in" \/ (loader = "out" /\ failed)
        /\ at[c] = "stub" => op[c] \in Syscalls
        /\ at[c] = "oops" => failed \/ op[c] = "elevator_open"

(* The regions exclude each other. *)
RegionOwned ==
    ~overlap => \A t \in Tasks : at[t] \in {"body", "unlock"} => owner = t

(* A struct is held by a call, on a list or free; a list that is freed     *)
(* stays empty, since nobody puts a struct on it any more.                 *)
StructInv ==
    ~overlap =>
        /\ \A c \in Callers :
              at[c] \notin {"lock", "body"} \/ op[c] # "issue_request" => mine[c] = {}
        /\ \A p \in Passengers : place[p] = "private" => \E c \in Callers : p \in mine[c]
        /\ loader \in Starting \cup {"out", "destroyed", "removed"} =>
              \A p \in Passengers : place[p] # "listed"
        /\ loader = "unlinked" =>
              \A p \in Passengers : place[p] = "listed" => FloorOf[p] >= floor

ModuleInv == ModuleTypeOK /\ StageInv /\ CallsApart /\ RegionOwned /\ StructInv

LEMMA ModuleInvInit == Init => ModuleInv
<1> SUFFICES ASSUME Init PROVE ModuleInv
  OBVIOUS
<1>1. /\ at \in [Tasks -> {"none", "head", "user", "stub", "oops"} \cup Inside]
      /\ at[Thread] = "none" /\ \A c \in Callers : at[c] = "user"
  BY ModuleAssumption DEF Init, Callers
<1>2. ModuleTypeOK
  <2>1. /\ op \in [Tasks -> Syscalls \cup {"elevator_open", "load", "move"}]
        /\ mine \in [Callers -> SUBSET Passengers]
        /\ place \in [Passengers -> {"unused", "private", "listed", "freed"}]
    BY DEF Init
  <2>2. loader \in Stages /\ floor \in 0 .. MAX_FLOOR /\ STUB \subseteq Syscalls
    BY ModuleAssumption DEF Init, Stages
  <2>3. failed \in BOOLEAN /\ overlap \in BOOLEAN
    BY DEF Init
  <2> QED
    BY <1>1, <2>1, <2>2, <2>3 DEF ModuleTypeOK
<1>3. StageInv
  BY <1>1 DEF Init, StageInv, Starting
<1>4. CallsApart /\ StructInv
  BY <1>1 DEF Init, CallsApart, StructInv, Inside
<1>5. RegionOwned
  BY <1>1 DEF Init, RegionOwned
<1> QED
  BY <1>2, <1>3, <1>4, <1>5 DEF ModuleInv

-----------------------------------------------------------------------------
(* insmod and rmmod. *)

(* Calls that do not overlap are outside the module while it is loaded or  *)
(* unloaded.                                                               *)
LEMMA ApartWhen ==
    ASSUME ModuleInv, ~overlap, loader \notin {"in", "out"}, NEW c \in Callers
    PROVE  at[c] \in {"user", "oops"}
<1>1. at[c] \notin Inside \cup {"stub", "none", "head"}
  BY DEF ModuleInv, ModuleTypeOK, CallsApart
<1>2. at[c] \in {"none", "head", "user", "stub", "oops"} \cup Inside
  BY DEF ModuleInv, ModuleTypeOK, Callers
<1> QED
  BY <1>1, <1>2

LEMMA InsmodSteps ==
    ASSUME ModuleInv, LinkSyscalls \/ InitLists \/ ProcCreate \/ MutexInit \/ KthreadRun
    PROVE  ModuleInv'
<1> USE ModuleAssumption DEF Load, history
<1>0. /\ UNCHANGED <<floor, mine, place, failed>>
      /\ op' \in [Tasks -> Syscalls \cup {"elevator_open", "load", "move"}]
      /\ \A c \in Callers : op'[c] = op[c]
      /\ loader \in {"out"} \cup Starting
      /\ loader' \in {"in"} \cup Starting
      /\ STUB' \subseteq Syscalls
      /\ overlap' \in BOOLEAN
      /\ \A c \in Callers : at'[c] = at[c]
      /\ at' \in [Tasks -> {"none", "head", "user", "stub", "oops"} \cup Inside]
      /\ at'[Thread] \in {"none", "head"}
  BY DEF LinkSyscalls, InitLists, ProcCreate, MutexInit, KthreadRun, Starting, ModuleInv,
     ModuleTypeOK, StageInv, Goto, Callers
<1>1. ModuleTypeOK'
  BY <1>0 DEF ModuleInv, ModuleTypeOK, Stages, Starting
<1>2. StageInv'
  <2>1. CASE LinkSyscalls
    BY <2>1 DEF LinkSyscalls, ModuleInv, StageInv, Starting
  <2>2. CASE InitLists \/ ProcCreate \/ MutexInit
    BY <2>2 DEF InitLists, ProcCreate, MutexInit, ModuleInv, StageInv, Starting
  <2>3. CASE KthreadRun
    BY <2>3 DEF KthreadRun, ModuleInv, StageInv, Starting
  <2> QED
    BY <2>1, <2>2, <2>3
<1>3. ~overlap' => ~overlap /\ \A c \in Callers : at[c] \in {"user", "oops"}
  <2>1. CASE LinkSyscalls
    BY <2>1 DEF LinkSyscalls, Idle
  <2>2. CASE InitLists \/ ProcCreate \/ MutexInit \/ KthreadRun
    <3>1. overlap' = overlap /\ loader \in Starting
      BY <2>2 DEF InitLists, ProcCreate, MutexInit, KthreadRun, Starting
    <3> QED
      BY <3>1, ApartWhen DEF Starting
  <2> QED
    BY <2>1, <2>2
<1>4. CallsApart'
  BY <1>0, <1>3 DEF ModuleInv, CallsApart, Inside
<1>5. RegionOwned'
  BY <1>0, <1>3 DEF RegionOwned, Callers
<1>6. StructInv'
  BY <1>0, <1>3 DEF ModuleInv, StructInv, Starting
<1> QED
  BY <1>1, <1>2, <1>4, <1>5, <1>6 DEF ModuleInv

LEMMA RmmodSteps ==
    ASSUME ModuleInv, Exit \/ InitFails
    PROVE  ModuleInv'
<1> USE ModuleAssumption DEF Load, history, Unloaded, LastFloor
<1>0. /\ UNCHANGED <<owner, op, mine, at>>
      /\ loader \in {"in", "ready", "mutexed"} \cup Ending
      /\ loader' \in {"out"} \cup Ending
      /\ overlap' \in BOOLEAN /\ failed' \in BOOLEAN
      /\ STUB' \subseteq Syscalls
  BY DEF Exit, KthreadStop, ThreadStopped, UnlinkSyscalls, FreeFloor, MutexDestroy,
     RemoveProcEntry, ExitReturns, InitFails, ModuleInv, ModuleTypeOK, Ending
<1>f. floor' \in 0 .. MAX_FLOOR
  <2>1. floor \in 0 .. MAX_FLOOR /\ MAX_FLOOR \in Nat
    BY DEF ModuleInv, ModuleTypeOK
  <2>2. floor' \in {0, floor} \/ (floor' = floor + 1 /\ floor # MAX_FLOOR)
    BY DEF Exit, KthreadStop, ThreadStopped, UnlinkSyscalls, FreeFloor, MutexDestroy,
       RemoveProcEntry, ExitReturns, InitFails
  <2> QED
    BY <2>1, <2>2
<1>1. /\ place' \in [Passengers -> {"unused", "private", "listed", "freed"}]
      /\ \A p \in Passengers : place'[p] = place[p] \/ place'[p] = "freed"
  <2>1. CASE FreeFloor
    BY <2>1 DEF FreeFloor, ModuleInv, ModuleTypeOK
  <2>2. CASE ~FreeFloor
    <3>1. place' = place
      BY <2>2 DEF Exit, KthreadStop, ThreadStopped, UnlinkSyscalls, MutexDestroy,
         RemoveProcEntry, ExitReturns, InitFails
    <3> QED
      BY <3>1 DEF ModuleInv, ModuleTypeOK
  <2> QED
    BY <2>1, <2>2
<1>2. ModuleTypeOK'
  BY <1>0, <1>f, <1>1 DEF ModuleInv, ModuleTypeOK, Stages
<1>3. ~overlap' => ~overlap /\ \A c \in Callers : at[c] \in {"user", "oops"}
  <2>1. CASE KthreadStop
    BY <2>1 DEF KthreadStop, Idle
  <2>2. CASE ~KthreadStop
    <3>1. overlap' = overlap /\ loader \notin {"in", "out"}
      BY <2>2 DEF Exit, ThreadStopped, UnlinkSyscalls, FreeFloor, MutexDestroy,
         RemoveProcEntry, ExitReturns, InitFails
    <3> QED
      BY <3>1, ApartWhen
  <2> QED
    BY <2>1, <2>2
<1>4. StageInv'
  <2>1. CASE KthreadStop \/ ThreadStopped \/ UnlinkSyscalls
    BY <2>1 DEF KthreadStop, ThreadStopped, UnlinkSyscalls, ModuleInv, StageInv, Starting
  <2>2. CASE FreeFloor \/ MutexDestroy
    BY <2>2 DEF FreeFloor, MutexDestroy, ModuleInv, StageInv, Starting
  <2>3. CASE RemoveProcEntry \/ ExitReturns \/ InitFails
    BY <2>3 DEF RemoveProcEntry, ExitReturns, InitFails, ModuleInv, StageInv, Starting
  <2> QED
    BY <2>1, <2>2, <2>3 DEF Exit
<1>5. failed => failed'
  BY DEF Exit, KthreadStop, ThreadStopped, UnlinkSyscalls, FreeFloor, MutexDestroy,
     RemoveProcEntry, ExitReturns, InitFails
<1>6. CallsApart'
  BY <1>0, <1>3, <1>5 DEF ModuleInv, CallsApart, Inside
<1>7. RegionOwned'
  BY <1>0, <1>3 DEF ModuleInv, RegionOwned
<1>8. StructInv'
  <2> SUFFICES ASSUME ~overlap'
               PROVE  /\ loader' \in Starting \cup {"out", "destroyed", "removed"} =>
                            \A p \in Passengers : place'[p] # "listed"
                      /\ loader' = "unlinked" =>
                            \A p \in Passengers : place'[p] = "listed" => FloorOf[p] >= floor'
    BY <1>0, <1>1, <1>3 DEF ModuleInv, StructInv
  <2>0. ~overlap /\ floor \in 0 .. MAX_FLOOR
        /\ \A p \in Passengers : FloorOf[p] \in 0 .. MAX_FLOOR - 1
    BY <1>3 DEF ModuleInv, ModuleTypeOK
  <2>1. CASE KthreadStop \/ ThreadStopped
    BY <2>1 DEF KthreadStop, ThreadStopped, Starting
  <2>2. CASE UnlinkSyscalls
    BY <2>0, <2>2 DEF UnlinkSyscalls, ModuleInv, StageInv, Starting
  <2>3. CASE FreeFloor
    <3>1. \A p \in Passengers :
             place'[p] = "listed" => place[p] = "listed" /\ FloorOf[p] # floor
      BY <2>3 DEF FreeFloor
    <3>2. \A p \in Passengers : place[p] = "listed" => FloorOf[p] >= floor
      BY <2>0, <2>3 DEF FreeFloor, ModuleInv, StructInv
    <3> QED
      BY <2>0, <2>3, <3>1, <3>2 DEF FreeFloor, Starting
  <2>4. CASE MutexDestroy
    BY <2>0, <2>4 DEF MutexDestroy, ModuleInv, StructInv, Starting
  <2>5. CASE RemoveProcEntry \/ ExitReturns \/ InitFails
    BY <2>0, <2>5 DEF RemoveProcEntry, ExitReturns, InitFails, ModuleInv, StructInv, Starting
  <2> QED
    BY <2>1, <2>2, <2>3, <2>4, <2>5 DEF Exit
<1> QED
  BY <1>2, <1>4, <1>6, <1>7, <1>8 DEF ModuleInv

-----------------------------------------------------------------------------
(* The thread. *)

LEMMA ThreadSteps ==
    ASSUME ModuleInv, KThread
    PROVE  ModuleInv'
<1> USE ModuleAssumption, TasksAssumption DEF history, Goto, Acquire, Unlock, MutexFree
<1>0. /\ UNCHANGED <<loader, floor, STUB, entry, lists, mutex, mine, history>>
      /\ at[Thread] # "none"
      /\ \E w \in {"none", "head", "lock", "body"} : at' = [at EXCEPT ![Thread] = w]
      /\ op' = op \/ \E o \in {"load", "move"} : op' = [op EXCEPT ![Thread] = o]
  BY DEF KThread, ThreadTests, ThreadLocks, ThreadWorks
<1>1. /\ place' \in [Passengers -> {"unused", "private", "listed", "freed"}]
      /\ \A p \in Passengers : place'[p] = place[p] \/ place'[p] = "freed"
  BY DEF KThread, ThreadTests, ThreadLocks, ThreadWorks, ModuleInv, ModuleTypeOK
<1>2. \A c \in Callers : at'[c] = at[c] /\ op'[c] = op[c]
  BY <1>0 DEF ModuleInv, ModuleTypeOK, Callers
<1>3. ModuleTypeOK'
  BY <1>0, <1>1, <1>2 DEF ModuleInv, ModuleTypeOK, Inside
<1>4. StageInv' /\ CallsApart'
  BY <1>0, <1>2 DEF ModuleInv, StageInv, CallsApart
<1>5. RegionOwned'
  <2> SUFFICES ASSUME ~overlap PROVE \A t \in Tasks : at'[t] \in {"body", "unlock"} => owner' = t
    BY <1>0 DEF RegionOwned
  <2>1. \A t \in Tasks : at[t] \in {"body", "unlock"} => owner = t
    BY DEF ModuleInv, RegionOwned
  <2>2. CASE ThreadLocks
    BY <2>1, <2>2 DEF ThreadLocks, ModuleInv, ModuleTypeOK
  <2>3. CASE ThreadWorks
    BY <2>1, <2>3 DEF ThreadWorks, ModuleInv, ModuleTypeOK
  <2>4. CASE ThreadTests
    BY <2>1, <2>4 DEF ThreadTests, ModuleInv, ModuleTypeOK
  <2> QED
    BY <2>2, <2>3, <2>4 DEF KThread
<1>6. StructInv'
  BY <1>0, <1>1, <1>2 DEF ModuleInv, StructInv
<1> QED
  BY <1>3, <1>4, <1>5, <1>6 DEF ModuleInv

-----------------------------------------------------------------------------
(* The calls. *)

LEMMA CallSteps ==
    ASSUME ModuleInv, NEW c \in Callers, StubTests(c) \/ ElevatorOpen(c)
    PROVE  ModuleInv'
<1> USE ModuleAssumption DEF Goto, Callers, Called
<1>0. /\ UNCHANGED <<owner, loader, floor, STUB, entry, lists, mutex, mine, place, failed>>
      /\ at[c] = "user" /\ \E w \in {"stub", "lock"} : at' = [at EXCEPT ![c] = w]
      /\ overlap' \in BOOLEAN
      /\ ~overlap' => ~overlap /\ loader \in {"out", "in"}
  BY DEF StubTests, ElevatorOpen
<1>1. op' \in [Tasks -> Syscalls \cup {"elevator_open", "load", "move"}]
  <2>2. CASE ElevatorOpen(c)
    BY <2>2 DEF ElevatorOpen, ModuleInv, ModuleTypeOK
  <2>3. CASE StubTests(c)
    <3>1. PICK s \in STUB : op' = [op EXCEPT ![c] = s]
      BY <2>3 DEF StubTests
    <3>2. s \in Syscalls /\ op \in [Tasks -> Syscalls \cup {"elevator_open", "load", "move"}]
      BY DEF ModuleInv, ModuleTypeOK
    <3> QED
      BY <3>1, <3>2
  <2> QED
    BY <2>2, <2>3
<1>2. ModuleTypeOK'
  <2>1. at' \in [Tasks -> {"none", "head", "user", "stub", "oops"} \cup Inside]
    BY <1>0 DEF ModuleInv, ModuleTypeOK, Inside
  <2>2. at'[Thread] = at[Thread] /\ \A d \in Callers : at'[d] \notin {"none", "head"}
    BY <1>0 DEF ModuleInv, ModuleTypeOK
  <2> QED
    BY <1>0, <1>1, <2>1, <2>2 DEF ModuleInv, ModuleTypeOK
<1>3. StageInv'
  BY <1>0 DEF ModuleInv, ModuleTypeOK, StageInv
<1>4. CallsApart'
  <2>1. ~overlap' => (at'[c] = "stub" => loader = "in" \/ (loader = "out" /\ failed))
    BY <1>0 DEF StubTests, ElevatorOpen, ModuleInv, ModuleTypeOK, StageInv
  <2>2. ~overlap' => (at'[c] = "lock" => loader = "in")
    BY <1>0 DEF StubTests, ElevatorOpen, ModuleInv, ModuleTypeOK, StageInv
  <2> QED
    <3>1. at'[c] = "stub" => op'[c] \in Syscalls
      BY <1>0 DEF StubTests, ElevatorOpen, ModuleInv, ModuleTypeOK
    <3>2. \A d \in Callers : d # c => at'[d] = at[d] /\ op'[d] = op[d]
      BY <1>0 DEF StubTests, ElevatorOpen, ModuleInv, ModuleTypeOK
    <3> QED
      BY <1>0, <2>1, <2>2, <3>1, <3>2 DEF ModuleInv, ModuleTypeOK, CallsApart, Inside
<1>5. RegionOwned'
  BY <1>0 DEF ModuleInv, ModuleTypeOK, RegionOwned
<1>6. StructInv'
  <2>1. \A d \in Callers : d # c => at'[d] = at[d] /\ op'[d] = op[d]
    BY <1>0 DEF StubTests, ElevatorOpen, ModuleInv, ModuleTypeOK
  <2>2. ~overlap' => mine[c] = {}
    BY <1>0 DEF ModuleInv, StructInv
  <2> QED
    BY <1>0, <2>1, <2>2 DEF ModuleInv, StructInv
<1> QED
  BY <1>2, <1>3, <1>4, <1>5, <1>6 DEF ModuleInv

LEMMA InCallSteps ==
    ASSUME ModuleInv, NEW c \in Callers, InCall(c)
    PROVE  ModuleInv'
<1> USE ModuleAssumption, TasksAssumption
    DEF history, Goto, Acquire, Unlock, MutexFree, Callers
<1>0. /\ UNCHANGED <<loader, floor, STUB, entry, lists, mutex, op, history>>
      /\ at[c] \notin {"user", "oops"}
      /\ \E w \in {"func", "lock", "body", "unlock", "user", "oops"} :
            at' = [at EXCEPT ![c] = w]
  BY DEF InCall, StubCalls, Prepare, Refuse, LockRegion, Body, OpenOopses, Return
<1>1. /\ place' \in [Passengers -> {"unused", "private", "listed", "freed"}]
      /\ mine' \in [Callers -> SUBSET Passengers]
  BY DEF InCall, StubCalls, Prepare, Refuse, LockRegion, Body, OpenOopses, Return, ModuleInv,
     ModuleTypeOK
<1>2. ModuleTypeOK'
  <2>1. at' \in [Tasks -> {"none", "head", "user", "stub", "oops"} \cup Inside]
    BY <1>0 DEF ModuleInv, ModuleTypeOK, Inside
  <2>2. at'[Thread] = at[Thread] /\ \A d \in Callers : at'[d] \notin {"none", "head"}
    BY <1>0 DEF ModuleInv, ModuleTypeOK
  <2> QED
    BY <1>0, <1>1, <2>1, <2>2 DEF ModuleInv, ModuleTypeOK
<1>3. StageInv'
  BY <1>0 DEF ModuleInv, ModuleTypeOK, StageInv
<1>4. CallsApart'
  <2> SUFFICES ASSUME ~overlap
               PROVE  /\ at'[c] \in Inside => loader = "in"
                      /\ at'[c] # "stub"
                      /\ at'[c] = "oops" => failed \/ op[c] = "elevator_open"
    BY <1>0 DEF ModuleInv, ModuleTypeOK, CallsApart
  <2>0. /\ at[c] \in Inside => loader = "in"
        /\ at[c] = "stub" => loader = "in" \/ (loader = "out" /\ failed)
        /\ loader = "in" => lists /\ STUB = Syscalls
    BY DEF ModuleInv, CallsApart, StageInv
  <2>1. CASE StubCalls(c)
    <3>1. op[c] \in Syscalls
      BY <2>1 DEF StubCalls, ModuleInv, CallsApart
    <3> QED
      BY <2>0, <2>1, <3>1 DEF StubCalls, Present, Inside, ModuleInv, ModuleTypeOK
  <2>2. CASE Body(c)
    BY <2>0, <2>2 DEF Body, Inside, ModuleInv, ModuleTypeOK
  <2>3. CASE Prepare(c) \/ Refuse(c) \/ LockRegion(c) \/ Return(c)
    BY <2>0, <2>3 DEF Prepare, Refuse, LockRegion, Return, Inside, ModuleInv, ModuleTypeOK
  <2>4. CASE OpenOopses(c)
    BY <2>4 DEF OpenOopses, Inside, ModuleInv, ModuleTypeOK
  <2> QED
    BY <2>1, <2>2, <2>3, <2>4 DEF InCall
<1>5. RegionOwned'
  <2> SUFFICES ASSUME ~overlap PROVE \A t \in Tasks : at'[t] \in {"body", "unlock"} => owner' = t
    BY <1>0 DEF RegionOwned
  <2>1. \A t \in Tasks : at[t] \in {"body", "unlock"} => owner = t
    BY DEF ModuleInv, RegionOwned
  <2>2. CASE LockRegion(c)
    BY <2>1, <2>2 DEF LockRegion, ModuleInv, ModuleTypeOK
  <2>3. CASE Return(c)
    BY <2>1, <2>3 DEF Return, ModuleInv, ModuleTypeOK
  <2>4. CASE StubCalls(c) \/ Prepare(c) \/ Refuse(c) \/ Body(c) \/ OpenOopses(c)
    <3>1. /\ owner' = owner
          /\ at'[c] \in {"body", "unlock"} => at[c] \in {"body", "unlock"}
      BY <2>4 DEF StubCalls, Prepare, Refuse, Body, OpenOopses, ModuleInv, ModuleTypeOK
    <3> QED
      BY <1>0, <2>1, <3>1 DEF ModuleInv, ModuleTypeOK
  <2> QED
    BY <2>2, <2>3, <2>4 DEF InCall
<1>6. StructInv'
  <2> SUFFICES ASSUME ~overlap PROVE StructInv'
    BY <1>0 DEF StructInv
  <2>0. /\ \A d \in Callers :
              at[d] \notin {"lock", "body"} \/ op[d] # "issue_request" => mine[d] = {}
        /\ \A p \in Passengers : place[p] = "private" => \E d \in Callers : p \in mine[d]
        /\ loader \in Starting \cup {"out", "destroyed", "removed"} =>
              \A p \in Passengers : place[p] # "listed"
        /\ loader = "unlinked" =>
              \A p \in Passengers : place[p] = "listed" => FloorOf[p] >= floor
    BY DEF ModuleInv, StructInv
  <2>1. /\ at[c] \in Inside => loader = "in"
        /\ loader = "in" => lists
    BY DEF ModuleInv, CallsApart, StageInv
  <2>2. CASE StubCalls(c) \/ Refuse(c) \/ LockRegion(c) \/ Return(c) \/ OpenOopses(c)
    <3>1. /\ UNCHANGED <<place, mine>>
          /\ \/ op[c] # "issue_request"
             \/ at'[c] \notin {"lock", "body"} => at[c] \notin {"lock", "body"}
      BY <2>2 DEF StubCalls, Refuse, LockRegion, Return, OpenOopses, ModuleInv, ModuleTypeOK
    <3> QED
      BY <1>0, <2>0, <3>1 DEF StructInv, ModuleInv, ModuleTypeOK
  <2>3. CASE Prepare(c)
    <3>1. loader = "in" /\ mine[c] = {} /\ at' = [at EXCEPT ![c] = "lock"]
      BY <2>0, <2>1, <2>3 DEF Prepare, Inside
    <3>2. CASE UNCHANGED <<place, mine>>
      BY <1>0, <2>0, <3>1, <3>2 DEF StructInv, ModuleInv, ModuleTypeOK, Starting
    <3>3. CASE /\ op[c] = "issue_request"
               /\ \E p \in Passengers : /\ place' = [place EXCEPT ![p] = "private"]
                                        /\ mine' = [mine EXCEPT ![c] = {p}]
      BY <1>0, <2>0, <3>1, <3>3 DEF StructInv, ModuleInv, ModuleTypeOK, Starting
    <3> QED
      BY <2>3, <3>2, <3>3 DEF Prepare
  <2>4. CASE Body(c)
    <3>1. loader = "in" /\ lists
      BY <2>1, <2>4 DEF Body, Inside
    <3>2. /\ place' = [p \in Passengers |-> IF p \in mine[c] THEN "listed" ELSE place[p]]
          /\ mine' = [mine EXCEPT ![c] = {}]
          /\ at' = [at EXCEPT ![c] = "unlock"]
      BY <2>4, <3>1 DEF Body
    <3>3. \A p \in Passengers : place'[p] = "private" => place[p] = "private" /\ p \notin mine[c]
      BY <3>2
    <3>4. \A d \in Callers : d # c => mine'[d] = mine[d] /\ at'[d] = at[d]
      BY <3>2 DEF ModuleInv, ModuleTypeOK
    <3>5. mine'[c] = {}
      BY <3>2 DEF ModuleInv, ModuleTypeOK
    <3> QED
      BY <1>0, <2>0, <3>1, <3>3, <3>4, <3>5 DEF StructInv, Starting
  <2> QED
    BY <2>2, <2>3, <2>4 DEF InCall
<1> QED
  BY <1>2, <1>3, <1>4, <1>5, <1>6 DEF ModuleInv

LEMMA ModuleInvStep == ModuleInv /\ [Next]_vars => ModuleInv'
<1> SUFFICES ASSUME ModuleInv, [Next]_vars PROVE ModuleInv'
  OBVIOUS
<1>1. CASE UNCHANGED vars
  BY <1>1 DEF vars, history, ModuleInv, ModuleTypeOK, StageInv, CallsApart, RegionOwned,
     StructInv
<1> QED
  BY <1>1, InsmodSteps, RmmodSteps, ThreadSteps, CallSteps, InCallSteps DEF Next

-----------------------------------------------------------------------------
(* The theorems. *)

(* The inductive invariant: at every step of elevator_init, elevator_exit, *)
(* the thread and the calls, what they use is there.                       *)
THEOREM ModuleInvariant == Spec => []ModuleInv
BY ModuleInvInit, ModuleInvStep, PTL DEF Spec

(* No call through a STUB pointer, no open and no step of the thread meets *)
(* a module that is not in memory, and only an open without a buffer is    *)
(* killed, unless an insmod has failed or a call was under way during an   *)
(* insmod or rmmod.                                                        *)
THEOREM CodeIsPresent == Spec => []CodePresent
<1>1. ModuleInv => CodePresent
  <2> SUFFICES ASSUME ModuleInv, ~failed, ~overlap, NEW t \in Tasks
               PROVE  /\ at[t] = "oops" => op[t] = "elevator_open"
                      /\ at[t] \in Inside \cup {"head"} => Present
    BY DEF CodePresent
  <2>1. CASE t = Thread
    BY <2>1 DEF ModuleInv, ModuleTypeOK, StageInv, Present, Inside
  <2>2. CASE t \in Callers
    BY <2>2 DEF ModuleInv, ModuleTypeOK, CallsApart, Present
  <2> QED
    BY <2>1, <2>2 DEF Callers
<1> QED
  BY <1>1, ModuleInvariant, PTL

(* Whoever is in a locked region uses initialised lists and owns a mutex   *)
(* that is initialised and not destroyed, also after a failed insmod.      *)
THEOREM RegionsAreReady == Spec => []ReadyWhenUsed
<1>1. ModuleInv => ReadyWhenUsed
  <2> SUFFICES ASSUME ModuleInv, ~overlap, NEW t \in Tasks, at[t] = "body"
               PROVE  lists /\ mutex /\ owner = t
    BY DEF ReadyWhenUsed
  <2>1. owner = t
    BY DEF ModuleInv, RegionOwned
  <2>2. loader \in {"in", "stopping"}
    BY DEF ModuleInv, StageInv, CallsApart, Inside, Callers
  <2> QED
    BY <2>1, <2>2 DEF ModuleInv, StageInv
<1> QED
  BY <1>1, ModuleInvariant, PTL

(* An rmmod leaves no passenger behind, whatever was on the lists.         *)
THEOREM NodesAreFreed == Spec => []NodesFreed
<1>1. ModuleInv => NodesFreed
  <2> SUFFICES ASSUME ModuleInv, ~overlap, loader = "out", NEW p \in Passengers
               PROVE  place[p] \in {"unused", "freed"}
    BY DEF NodesFreed, Present
  <2>1. place[p] # "listed"
    BY DEF ModuleInv, StructInv
  <2>2. \A c \in Callers : mine[c] = {}
    BY DEF ModuleInv, CallsApart, StructInv, Inside
  <2> QED
    BY <2>1, <2>2 DEF ModuleInv, ModuleTypeOK, StructInv
<1> QED
  BY <1>1, ModuleInvariant, PTL

=============================================================================
