---------------------------- MODULE ThreadExample ----------------------------
(***************************************************************************)
(* Examples 6 and 7 of the course material, from which the elevator takes  *)
(* its thread, its mutex and its way of locking: a thread increments the   *)
(* counters of an array for ever, one after the other, and an open of      *)
(* /proc/thread_example prints them.  Example 7 locks the two loops, and   *)
(* the two are otherwise the same program.                                 *)
(***************************************************************************)
EXTENDS ProcEntry, KernelMutex

CONSTANTS Thread,
          CNT_SIZE,
          MaxCycles  (* bound on the cycles of the thread                  *)

ASSUME ExampleAssumption ==
    /\ Tasks = Readers \cup {Thread} /\ Thread \notin Readers \cup Signalled
    /\ CNT_SIZE \in Nat \ {0} /\ MaxCycles \in Nat

VARIABLES
    loader,  (* "out", "created", "in" or "stopping"                       *)
    cnt,     (* thread1.cnt                                                *)
    run,     (* where the thread is                                        *)
    i,       (* its loop variable                                          *)
    row,     (* the loop variable of each open                             *)
    nobuf,   (* the readers whose open has got NULL for buf                *)
    locked,  (* FALSE: this is example 6; TRUE: example 7                  *)
    disturbed  (* history: a signal has interrupted an open, or mutex_init
                  has found the mutex held                                 *)

kind == <<locked, disturbed>>
opens == <<row, nobuf>>
vars == <<procVars, owner, loader, cnt, run, i, opens, kind>>

Init ==
    /\ ProcInit(<<>>)
    /\ entry = FALSE
    /\ owner = NoTask
    /\ loader = "out"
    /\ cnt = [k \in 0 .. CNT_SIZE - 1 |-> 0]
    /\ run = "none"
    /\ i = 0
    /\ row = [r \in Readers |-> 0]
    /\ nobuf = {}
    /\ locked \in BOOLEAN
    /\ disturbed = FALSE

-----------------------------------------------------------------------------
(* insmod and rmmod. *)

thread_init ==
    /\ loader = "out" /\ loader' = "created"
    /\ entry' = TRUE
    /\ cnt' = [k \in 0 .. CNT_SIZE - 1 |-> 0]
    /\ UNCHANGED <<message, read_p, live, text, at, got, shared, owner, run, i, opens, kind>>

(* The mutex of example 7 is initialised after the entry is created. *)
thread_init_parameter ==
    /\ loader = "created" /\ loader' = "in"
    /\ cnt' = [k \in 0 .. CNT_SIZE - 1 |-> 0]
    /\ owner' = NoTask
    /\ disturbed' = (disturbed \/ ~MutexFree)
    /\ run' = "head"
    /\ UNCHANGED <<procVars, i, opens, locked>>

thread_exit ==
    /\ loader = "in" /\ loader' = "stopping"
    /\ UNCHANGED <<procVars, owner, cnt, run, i, opens, kind>>

ThreadExitRemoves ==
    /\ loader = "stopping" /\ run = "none" /\ loader' = "out"
    /\ RemoveEntry /\ Forget(<<>>)
    /\ UNCHANGED <<owner, cnt, run, i, opens, kind>>

-----------------------------------------------------------------------------
(* thread_run. *)

RunTests ==
    /\ run = "head"
    /\ IF loader = "stopping" THEN run' = "none"
       ELSE cnt[0] < MaxCycles /\ run' = IF locked THEN "lock" ELSE "body"
    /\ i' = 0
    /\ UNCHANGED <<procVars, owner, loader, cnt, opens, kind>>

RunLocks ==
    /\ run = "lock" /\ Acquire(Thread)
    /\ run' = "body"
    /\ UNCHANGED <<procVars, loader, cnt, i, opens, kind>>

(* Variant of RunIncrements for the mutation of LagAtMostOne: the loop     *)
(* misses the last counter.                                                *)
RunIncrementsButLast ==
    /\ run = "body"
    /\ cnt' = [cnt EXCEPT ![i] = @ + 1]
    /\ i' = (i + 1) % (CNT_SIZE - 1)
    /\ run' = IF i + 1 < CNT_SIZE - 1 THEN "body" ELSE IF locked THEN "unlock" ELSE "head"
    /\ UNCHANGED <<procVars, owner, loader, opens, kind>>

RunIncrements ==
    /\ run = "body"
    /\ cnt' = [cnt EXCEPT ![i] = @ + 1]
    /\ i' = (i + 1) % CNT_SIZE
    /\ run' = IF i + 1 < CNT_SIZE THEN "body" ELSE IF locked THEN "unlock" ELSE "head"
    /\ UNCHANGED <<procVars, owner, loader, opens, kind>>

RunUnlocks ==
    /\ run = "unlock" /\ Unlock
    /\ run' = "head"
    /\ UNCHANGED <<procVars, loader, cnt, i, opens, kind>>

-----------------------------------------------------------------------------
(* The /proc handlers. *)

(* Every open allocates message, and a buf that it never frees and that is *)
(* left out of Buffers: all that is kept of it is whether there is one.    *)
(* Example 7 does not look, and goes on without.                           *)
OpenAllocates(r) ==
    /\ OpenEntry(r, "head") /\ FirstOverlap
    /\ nobuf' = nobuf \ {r} \/ (locked /\ nobuf' = nobuf \cup {r})
    /\ row' = [row EXCEPT ![r] = 0]
    /\ UNCHANGED <<owner, loader, cnt, run, i, kind>>

(* -ENOMEM: message is NULL, or buf is in example 6, which has not set     *)
(* message then.                                                           *)
OpenFails(r) ==
    /\ Enter(r)
    /\ read_p' = 1
    /\ message' = NULL \/ (~locked /\ UNCHANGED message)
    /\ UNCHANGED <<entry, live, text, at, got, owner, loader, cnt, run, i, opens, kind>>

(* The headline, with sprintf: what was in the buffer is gone. *)
OpenHeads(r) ==
    /\ Fill(r, "head", <<>>, IF locked THEN "lock" ELSE "print")
    /\ UNCHANGED <<owner, loader, cnt, run, i, opens, kind>>

(* Variant of OpenLocks for the mutation of ValuesSame: open does not wait *)
(* for the mutex.                                                          *)
OpenLocksNot(r) ==
    /\ at[r] = "lock"
    /\ Goto(r, "print")
    /\ UNCHANGED <<entry, message, read_p, live, text, got, shared, owner, loader, cnt, run, i,
                   opens, kind>>

OpenLocks(r) ==
    /\ at[r] = "lock" /\ Acquire(r)
    /\ Goto(r, "print")
    /\ UNCHANGED <<entry, message, read_p, live, text, got, shared, loader, cnt, run, i, opens,
                   kind>>

(* The signal. *)
OpenInterrupted(r) ==
    /\ at[r] = "lock" /\ Interrupted(r)
    /\ Goto(r, "minus")
    /\ disturbed' = TRUE
    /\ UNCHANGED <<entry, message, read_p, live, text, got, shared, loader, cnt, run, i, opens,
                   locked>>

(* A number is put at the end of message, wherever that points by now:     *)
(* the counter, or -1 if the open was interrupted.                         *)
OpenPrints(r) ==
    /\ r \notin nobuf
    /\ \E here \in {"print", "minus"} :
          Fill(r, here, Append(text[message], IF here = "print" THEN cnt[row[r]] ELSE -1),
               IF row[r] + 1 < CNT_SIZE THEN here ELSE IF locked THEN "unlock" ELSE "open")
    /\ row' = [row EXCEPT ![r] = @ + 1]
    /\ UNCHANGED <<owner, loader, cnt, run, i, nobuf, kind>>

(* buf is NULL, or message is by the open of another: the reader is        *)
(* killed, with the mutex if it has it.                                    *)
OpenOopses(r) ==
    /\ \/ at[r] \in {"print", "minus"} /\ r \in nobuf
       \/ at[r] \in {"head", "print", "minus"} /\ message = NULL
    /\ Goto(r, "oops")
    /\ UNCHANGED <<entry, message, read_p, live, text, got, shared, owner, loader, cnt, run, i,
                   opens, kind>>

OpenUnlocks(r) ==
    /\ at[r] = "unlock" /\ Unlock
    /\ Goto(r, "open")
    /\ UNCHANGED <<entry, message, read_p, live, text, got, shared, loader, cnt, run, i, opens, kind>>

thread_proc_read(r) ==
    /\ ReadEntry(r, "copy") \/ CopyToUser(r, "copy", "open")
    /\ UNCHANGED <<owner, loader, cnt, run, i, opens, kind>>

thread_proc_release(r) ==
    ReleaseEntry(r) /\ Forget(<<>>) /\ UNCHANGED <<owner, loader, cnt, run, i, opens, kind>>

-----------------------------------------------------------------------------

Next ==
    \/ thread_init \/ thread_init_parameter \/ thread_exit \/ ThreadExitRemoves
    \/ RunTests \/ RunLocks \/ RunIncrements \/ RunUnlocks
    \/ \E r \in Readers :
          \/ OpenAllocates(r) \/ OpenFails(r) \/ OpenLocks(r) \/ OpenInterrupted(r)
          \/ OpenHeads(r) \/ OpenPrints(r) \/ OpenOopses(r) \/ OpenUnlocks(r)
          \/ thread_proc_read(r) \/ thread_proc_release(r)

Spec == Init /\ [][Next]_vars

-----------------------------------------------------------------------------
(* Properties. *)

Pages == UNION {{got[r][n] : n \in DOMAIN got[r]} : r \in Readers}

(* Example 7 shows the whole array, with the same value in every place of  *)
(* it, until a signal or mutex_init has freed a mutex under its holder or  *)
(* two readers have used the one buffer.                                   *)
ValuesSame ==
    locked /\ ~disturbed /\ ~shared => \A p \in Pages :
        Len(p) = CNT_SIZE /\ \A j, k \in 1 .. CNT_SIZE : p[j] = p[k]

(* Example 6, and example 7 when a signal takes its lock away, show        *)
(* inconsistent values, but a later number on a page is never more than    *)
(* one cycle behind an earlier one: at any moment the counters differ by   *)
(* at most one, and while the page is printed they grow.  An interrupted   *)
(* open prints nothing but -1.  It is so until two readers print into one  *)
(* buffer.                                                                 *)
LagAtMostOne ==
    ~shared => \A p \in Pages : \A k \in 1 .. Len(p) : \A j \in 1 .. k - 1 : p[k] >= p[j] - 1

=============================================================================
