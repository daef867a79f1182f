----------------------------- MODULE ElevatorProc -----------------------------
(***************************************************************************)
(* The readers of /proc/elevator.  ElevatorLock shows what a page is worth *)
(* and that the open returns; here it is one step, and the state of the    *)
(* elevator is a version number, so that a page tells when it was printed. *)
(***************************************************************************)
EXTENDS ProcEntry

CONSTANT MaxVersion  (* bound on the changes of the elevator               *)

ASSUME ElevatorProcAssumption == MaxVersion \in Nat

VARIABLES
    version,  (* the state of the elevator and the building                *)
    since     (* the version when each reader opened the entry             *)

vars == <<procVars, version, since>>

Init ==
    /\ ProcInit(0)
    /\ entry = TRUE
    /\ version = 1
    /\ since = [r \in Readers |-> 1]

(* No reader has been killed with the mutex. *)
MutexUsable == \A r \in Readers : at[r] # "oops"

(* A region of the thread or of a system call. *)
ElevatorChanges ==
    /\ MutexUsable
    /\ version < MaxVersion
    /\ version' = version + 1
    /\ UNCHANGED <<procVars, since>>

OpenAllocates(r) ==
    /\ OpenEntry(r, "print")
    /\ since' = [since EXCEPT ![r] = version]
    /\ UNCHANGED version

(* kmalloc fails, which elevator_open tests for after it has printed. *)
OpenGetsNull(r) == OpenEntryNull(r, "print") /\ UNCHANGED <<version, since>>

(* printStats(&b, message), in the locked region. *)
OpenPrints(r) ==
    /\ MutexUsable
    /\ Fill(r, "print", version, "open")
    /\ UNCHANGED <<version, since>>

(* The same through NULL: the kernel kills the reader, who never unlocks. *)
OpenOopses(r) ==
    /\ MutexUsable
    /\ at[r] = "print" /\ message = NULL
    /\ Goto(r, "oops")
    /\ UNCHANGED <<entry, message, read_p, live, text, got, shared, version, since>>

ElevatorRead(r) == ReadEntry(r, "copy") /\ UNCHANGED <<version, since>>
ReadCopies(r)   == CopyToUser(r, "copy", "open") /\ UNCHANGED <<version, since>>

ElevatorRelease(r) == ReleaseEntry(r) /\ UNCHANGED <<text, version, since>>

Handler(r) == OpenPrints(r) \/ OpenOopses(r) \/ ElevatorRead(r) \/ ReadCopies(r)

Next ==
    \/ ElevatorChanges
    \/ \E r \in Readers :
          OpenAllocates(r) \/ OpenGetsNull(r) \/ Handler(r) \/ ElevatorRelease(r)

Spec == Init /\ [][Next]_vars

(* cat goes on reading until it sees the end of file, and then closes, or  *)
(* reads on some more, but not for ever.                                   *)
FairSpec ==
    Spec /\ \A r \in Readers :
        WF_vars(Handler(r)) /\ SF_vars(at[r] = "eof" /\ ElevatorRelease(r))

-----------------------------------------------------------------------------
(* Properties. *)

(* A cat of /proc/elevator prints the entry: when it sees the end of file  *)
(* it has read exactly one page, and the page shows the elevator as it was *)
(* at some moment since the cat began, whatever the readers before it did. *)
(* One that reads on gets the page again, and the end of file again.       *)
CatShowsPage ==
    ~shared => \A r \in Readers :
        at[r] = "eof" => \E v \in since[r] .. version : got[r] = <<v>>

(* Every cat comes to an end, until kmalloc fails or two of them overlap.  *)
CatEnds ==
    \A r \in Readers :
        (at[r] # "closed") ~> (at[r] = "closed" \/ ~MutexUsable \/ shared)

=============================================================================
