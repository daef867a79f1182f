---------------------------- MODULE ElevatorModule ----------------------------
(***************************************************************************)
(* The life of the elevator kernel module: elevator_init and elevator_exit *)
(* step by step, the stubs of part3/SystemCalls that call through the      *)
(* STUB pointers, and the system calls and opens of /proc/elevator that    *)
(* are under way meanwhile.  What the calls and the thread do to the       *)
(* elevator is left to the other modules: here a region only uses the      *)
(* lists and the mutex.  There are no signals.                             *)
(***************************************************************************)
EXTENDS Integers, KernelMutex

CONSTANTS Thread,      (* the kthread                                      *)
          Passengers,  (* the structs kmalloc can return, each once        *)
          MAX_FLOOR,
          FloorOf      (* the floor on whose lists each struct is put      *)

Callers  == Tasks \ {Thread}
Syscalls == {"issue_request", "start_elevator", "stop_elevator"}

ASSUME ModuleAssumption ==
    /\ Thread \in Tasks /\ Signalled = {}
    /\ MAX_FLOOR \in Nat \ {0}
    /\ FloorOf \in [Passengers -> 0 .. MAX_FLOOR - 1]

VARIABLES
    loader,  (* the last step of insmod or rmmod: "out", "linked", "ready",
                "created", "mutexed", "in", "stopping", "stopped",
                "unlinked", "destroyed" or "removed"                       *)
    floor,   (* the loop variable of elevator_exit                         *)
    STUB,    (* the system calls whose pointer is not NULL                 *)
    entry,   (* /proc/elevator exists                                      *)
    lists,   (* the list heads of e and b are initialised                  *)
    mutex,   (* e_tp.mutx is initialised and not destroyed                 *)
    at,      (* where each task is; "oops" when it has jumped to code, or
                followed a pointer, that is not there: the kernel kills it
                and goes on                                                *)
    op,      (* what each caller executes, and in which of its two regions
                the thread is, or is to be next                            *)
    mine,    (* the structs an issue_request has allocated                 *)
    place,   (* "unused", "private", "listed" or "freed", for each struct  *)
    failed,  (* history: an insmod has failed                              *)
    overlap  (* history: a call was under way during an insmod or rmmod    *)

history == <<failed, overlap>>
vars == <<owner, loader, floor, STUB, entry, lists, mutex, at, op, mine, place, history>>

(* The module's code and data are in memory. *)
Present == loader # "out"

(* A caller in the code of a stub, and one in the code of the module. *)
Inside == {"func", "lock", "body", "unlock"}
Idle   == \A c \in Callers : at[c] \in {"user", "oops"}

Init ==
    /\ owner = NoTask
    /\ loader = "out"
    /\ floor = 0
    /\ STUB = {}
    /\ entry = FALSE
    /\ lists = FALSE
    /\ mutex = FALSE
    /\ at = [t \in Tasks |-> IF t = Thread THEN "none" ELSE "user"]
    /\ op = [t \in Tasks |-> IF t = Thread THEN "load" ELSE "elevator_open"]
    /\ mine = [c \in Callers |-> {}]
    /\ place = [p \in Passengers |-> "unused"]
    /\ failed = FALSE
    /\ overlap = FALSE

Goto(t, where) == at' = [at EXCEPT ![t] = where]

-----------------------------------------------------------------------------
(* elevator_init. *)

Load(from, to) == loader = from /\ loader' = to

LinkSyscalls ==
    /\ Load("out", "linked")
    /\ STUB' = Syscalls
    /\ overlap' = (overlap \/ ~Idle)
    /\ UNCHANGED <<owner, floor, entry, lists, mutex, at, op, mine, place, failed>>

(* initElevator and initBuilding. *)
InitLists ==
    /\ Load("linked", "ready")
    /\ lists' = TRUE
    /\ UNCHANGED <<owner, floor, STUB, entry, mutex, at, op, mine, place, history>>

ProcCreate ==
    /\ Load("ready", "created")
    /\ entry' = TRUE
    /\ UNCHANGED <<owner, floor, STUB, lists, mutex, at, op, mine, place, history>>

(* initEThread: mutex_init, then kthread_run. *)
MutexInit ==
    /\ Load("created", "mutexed")
    /\ mutex' = TRUE
    /\ owner' = NoTask
    /\ UNCHANGED <<floor, STUB, entry, lists, at, op, mine, place, history>>

KthreadRun ==
    /\ Load("mutexed", "in")
    /\ Goto(Thread, "head")
    /\ op' = [op EXCEPT ![Thread] = "load"]
    /\ UNCHANGED <<owner, floor, STUB, entry, lists, mutex, mine, place, history>>

(* What the kernel frees with a module: its code and its data. *)
Unloaded == loader' = "out" /\ floor' = 0 /\ lists' = FALSE /\ mutex' = FALSE

(* No open is under way: remove_proc_entry waits for those that are, and   *)
(* so for ever if one of them was killed.                                  *)
OpensDone == \A c \in Callers : op[c] = "elevator_open" => at[c] = "user"

(* elevator_init returns an error, after remove_proc_entry. *)
InitFails ==
    /\ loader \in {"ready", "mutexed"}
    /\ Unloaded
    /\ entry' = FALSE
    /\ OpensDone
    /\ failed' = TRUE
    /\ UNCHANGED <<owner, STUB, at, op, mine, place, overlap>>

-----------------------------------------------------------------------------
(* elevator_exit. *)

(* Variant of KthreadStop for the mutation of ReadyWhenUsed: the mutex is  *)
(* destroyed before the thread is stopped.                                 *)
KthreadStopDestroysFirst ==
    /\ Load("in", "stopping")
    /\ mutex' = FALSE
    /\ overlap' = (overlap \/ ~Idle)
    /\ UNCHANGED <<owner, floor, STUB, entry, lists, at, op, mine, place, failed>>

(* kthread_stop, which waits for the thread to return. *)
KthreadStop ==
    /\ Load("in", "stopping")
    /\ overlap' = (overlap \/ ~Idle)
    /\ UNCHANGED <<owner, floor, STUB, entry, lists, mutex, at, op, mine, place, failed>>

ThreadStopped ==
    /\ Load("stopping", "stopped")
    /\ at[Thread] = "none"
    /\ UNCHANGED <<owner, floor, STUB, entry, lists, mutex, at, op, mine, place, history>>

(* Variant of UnlinkSyscalls for the mutation of CodePresent: two of the   *)
(* three pointers are cleared.                                             *)
UnlinkAllButStop ==
    /\ Load("stopped", "unlinked")
    /\ STUB' = {"stop_elevator"}
    /\ UNCHANGED <<owner, floor, entry, lists, mutex, at, op, mine, place, history>>

UnlinkSyscalls ==
    /\ Load("stopped", "unlinked")
    /\ STUB' = {}
    /\ UNCHANGED <<owner, floor, entry, lists, mutex, at, op, mine, place, history>>

(* Variant of LastFloor for the mutation of NodesFreed: the loop stops one *)
(* floor early.                                                            *)
LastFloorMissed == floor = MAX_FLOOR - 1

LastFloor == floor = MAX_FLOOR

(* One iteration of the loop that frees the nodes of e.p[i] and b.f[i]. *)
FreeFloor ==
    /\ loader = "unlinked" /\ ~LastFloor
    /\ place' = [p \in Passengers |->
                   IF place[p] = "listed" /\ FloorOf[p] = floor THEN "freed" ELSE place[p]]
    /\ floor' = floor + 1
    /\ UNCHANGED <<owner, loader, STUB, entry, lists, mutex, at, op, mine, history>>

MutexDestroy ==
    /\ LastFloor /\ Load("unlinked", "destroyed")
    /\ mutex' = FALSE
    /\ UNCHANGED <<owner, floor, STUB, entry, lists, at, op, mine, place, history>>

(* remove_proc_entry takes the entry away, so that nobody opens it again,  *)
(* and waits for the opens that are under way; then the kernel frees the   *)
(* module.                                                                 *)
RemoveProcEntry ==
    /\ Load("destroyed", "removed")
    /\ entry' = FALSE
    /\ UNCHANGED <<owner, floor, STUB, lists, mutex, at, op, mine, place, history>>

ExitReturns ==
    /\ loader = "removed" /\ OpensDone
    /\ Unloaded
    /\ UNCHANGED <<owner, STUB, entry, at, op, mine, place, history>>

-----------------------------------------------------------------------------
(* The kthread: the test for the stop, and two locked regions with a sleep *)
(* after the first.  A thread that has made the test waits for the mutex,  *)
(* twice, before it comes to the next.                                     *)

ThreadTests ==
    /\ at[Thread] = "head"
    /\ Goto(Thread, IF loader = "stopping" THEN "none" ELSE "lock")
    /\ UNCHANGED <<owner, loader, floor, STUB, entry, lists, mutex, op, mine, place, history>>

ThreadLocks ==
    /\ at[Thread] = "lock" /\ Acquire(Thread)
    /\ Goto(Thread, "body")
    /\ UNCHANGED <<loader, floor, STUB, entry, lists, mutex, op, mine, place, history>>

(* A region of runElevator, which may free passengers it delivers. *)
ThreadWorks ==
    /\ at[Thread] = "body"
    /\ \E S \in SUBSET {p \in Passengers : place[p] = "listed"} :
          place' = [p \in Passengers |-> IF p \in S THEN "freed" ELSE place[p]]
    /\ Unlock
    /\ Goto(Thread, IF op[Thread] = "load" THEN "lock" ELSE "head")
    /\ op' = [op EXCEPT ![Thread] = IF @ = "load" THEN "move" ELSE "load"]
    /\ UNCHANGED <<loader, floor, STUB, entry, lists, mutex, mine, history>>

-----------------------------------------------------------------------------
(* System calls and opens. *)

Called(c) ==
    /\ at[c] = "user"
    /\ overlap' = (overlap \/ loader \notin {"out", "in"})

(* The stub finds its pointer set; otherwise it returns -ENOSYS. *)
StubTests(c) ==
    /\ Called(c)
    /\ \E s \in STUB : op' = [op EXCEPT ![c] = s]
    /\ Goto(c, "stub")
    /\ UNCHANGED <<owner, loader, floor, STUB, entry, lists, mutex, mine, place, failed>>

(* The stub calls through the pointer, which the compiler may have kept    *)
(* from the test or may load again.                                        *)
StubCalls(c) ==
    /\ at[c] = "stub"
    /\ \E pointer \in {TRUE, op[c] \in STUB} :
          Goto(c, IF pointer /\ Present THEN "func" ELSE "oops")
    /\ UNCHANGED <<owner, loader, floor, STUB, entry, lists, mutex, op, mine, place, history>>

(* The call up to the lock: issue_request allocates its struct. *)
Prepare(c) ==
    /\ at[c] = "func"
    /\ IF op[c] = "issue_request"
       THEN \E p \in Passengers :
               /\ place[p] = "unused"
               /\ place' = [place EXCEPT ![p] = "private"]
               /\ mine' = [mine EXCEPT ![c] = {p}]
       ELSE UNCHANGED <<place, mine>>
    /\ Goto(c, "lock")
    /\ UNCHANGED <<owner, loader, floor, STUB, entry, lists, mutex, op, history>>

(* issue_request refuses: the elevator is stopped, or all structs are used. *)
Refuse(c) ==
    /\ at[c] = "func" /\ op[c] = "issue_request"
    /\ Goto(c, "user")
    /\ UNCHANGED <<owner, loader, floor, STUB, entry, lists, mutex, op, mine, place, history>>

ElevatorOpen(c) ==
    /\ Called(c) /\ entry
    /\ op' = [op EXCEPT ![c] = "elevator_open"]
    /\ Goto(c, "lock")
    /\ UNCHANGED <<owner, loader, floor, STUB, entry, lists, mutex, mine, place, failed>>

LockRegion(c) ==
    /\ at[c] = "lock" /\ Acquire(c)
    /\ Goto(c, "body")
    /\ UNCHANGED <<loader, floor, STUB, entry, lists, mutex, op, mine, place, history>>

(* addPass on list heads that are not initialised follows a NULL pointer. *)
Body(c) ==
    /\ at[c] = "body"
    /\ IF mine[c] # {} /\ ~lists
       THEN Goto(c, "oops") /\ UNCHANGED <<place, mine>>
       ELSE /\ place' = [p \in Passengers |-> IF p \in mine[c] THEN "listed" ELSE place[p]]
            /\ mine' = [mine EXCEPT ![c] = {}]
            /\ Goto(c, "unlock")
    /\ UNCHANGED <<owner, loader, floor, STUB, entry, lists, mutex, op, history>>

(* The open has got NULL from kmalloc and prints through it: it is killed  *)
(* with the mutex.                                                         *)
OpenOopses(c) ==
    /\ at[c] = "body" /\ op[c] = "elevator_open"
    /\ Goto(c, "oops")
    /\ UNCHANGED <<owner, loader, floor, STUB, entry, lists, mutex, op, mine, place, history>>

(* Variant of Return for the mutation of ExitEnds: start_elevator returns  *)
(* without unlocking.                                                      *)
ReturnUnlessStart(c) ==
    /\ at[c] = "unlock"
    /\ IF op[c] = "start_elevator" THEN UNCHANGED owner ELSE Unlock
    /\ Goto(c, "user")
    /\ UNCHANGED <<loader, floor, STUB, entry, lists, mutex, op, mine, place, history>>

Return(c) ==
    /\ at[c] = "unlock"
    /\ Unlock
    /\ Goto(c, "user")
    /\ UNCHANGED <<loader, floor, STUB, entry, lists, mutex, op, mine, place, history>>

Exit == KthreadStop \/ ThreadStopped \/ UnlinkSyscalls \/ FreeFloor \/ MutexDestroy
        \/ RemoveProcEntry \/ ExitReturns

KThread == ThreadTests \/ ThreadLocks \/ ThreadWorks

InCall(c) ==
    \/ StubCalls(c) \/ Prepare(c) \/ Refuse(c) \/ LockRegion(c) \/ Body(c) \/ OpenOopses(c)
    \/ Return(c)

Next ==
    \/ LinkSyscalls \/ InitLists \/ ProcCreate \/ MutexInit \/ KthreadRun \/ InitFails
    \/ Exit
    \/ KThread
    \/ \E c \in Callers : StubTests(c) \/ ElevatorOpen(c) \/ InCall(c)

Spec == Init /\ [][Next]_vars

(* rmmod, once begun, goes on, and so do the thread and the calls; and a   *)
(* task that waits for the mutex gets it if it is freed again and again,   *)
(* as the kernel hands a mutex over to its first waiter.                   *)
FairSpec ==
    /\ Spec
    /\ WF_vars(loader # "in" /\ Exit)
    /\ WF_vars(KThread) /\ SF_vars(ThreadLocks)
    /\ \A c \in Callers : WF_vars(InCall(c)) /\ SF_vars(LockRegion(c))

-----------------------------------------------------------------------------
(* Properties. *)

(* Nobody executes code of the module, the thread included, or uses its    *)
(* data, while the module is not in memory; a system call made then is     *)
(* answered by its stub.  That holds while no insmod fails, and, as the    *)
(* two properties after it, while insmod and rmmod do not overlap with     *)
(* calls.  Only an open without a buffer is killed, for its own reason.    *)
CodePresent ==
    ~failed /\ ~overlap =>
        /\ \A t \in Tasks : at[t] = "oops" => op[t] = "elevator_open"
        /\ (\E t \in Tasks : at[t] \in Inside \cup {"head"}) => Present

(* Whoever is in a locked region uses lists that are initialised and a     *)
(* mutex that is initialised, not destroyed, and theirs: the exit stops    *)
(* the thread before it takes anything away, and an insmod that succeeds   *)
(* after one that failed starts anew.                                      *)
ReadyWhenUsed ==
    ~overlap => \A t \in Tasks : at[t] = "body" => lists /\ mutex /\ owner = t

(* When the module is gone so is every passenger it allocated.             *)
NodesFreed ==
    ~overlap /\ ~Present => \A p \in Passengers : place[p] \in {"unused", "freed"}

(* rmmod comes to an end, whatever calls and opens are under way when it   *)
(* begins or come while it runs, and whatever an insmod before it has met  *)
(* with: kthread_stop waits for the thread, and remove_proc_entry for the  *)
(* opens, but none of them for a mutex that somebody keeps.  Only an open  *)
(* that was killed with the mutex keeps it.                                *)
ExitEnds ==
    (loader = "stopping")
        ~> (loader = "out" \/ \E c \in Callers : at[c] = "oops" /\ op[c] = "elevator_open")

=============================================================================
