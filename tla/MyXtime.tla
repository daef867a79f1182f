------------------------------- MODULE MyXtime -------------------------------
(***************************************************************************)
(* The module of part2, my_xtime.c: a read of /proc/timed prints the time  *)
(* and how much of it has passed since the read before.  prev_t is used    *)
(* twice: it holds the time of the last read between the reads, and the    *)
(* difference while one of them prints.                                    *)
(***************************************************************************)
EXTENDS ProcEntry

CONSTANTS NSEC_PER_SEC, (* the units of a second, 10^9 in the kernel       *)
          ULONG_RANGE,  (* what %lu prints is modulo this                  *)
          Times         (* what the clock may show, in units               *)

ASSUME TimesAssumption ==
    /\ NSEC_PER_SEC \in Nat \ {0} /\ ULONG_RANGE \in Nat \ {0}
    /\ Times \subseteq Nat

VARIABLES
    now,     (* the kernel's clock                                         *)
    curr_t,
    prev_t,
    called,
    shown    (* the last two pages copied to a user since the module was
                loaded, the only one if there is one                       *)

timeVars == <<now, curr_t, prev_t, called, shown>>
vars     == <<procVars, timeVars>>

timespec(t) == [tv_sec |-> t \div NSEC_PER_SEC, tv_nsec |-> t % NSEC_PER_SEC]
value(ts)   == ts.tv_sec * NSEC_PER_SEC + ts.tv_nsec

(* timespec_sub borrows a second when the nanoseconds are negative. *)
timespec_sub(s, t) ==
    LET borrow == s.tv_nsec < t.tv_nsec
    IN  [tv_sec  |-> s.tv_sec - t.tv_sec - (IF borrow THEN 1 ELSE 0),
         tv_nsec |-> s.tv_nsec - t.tv_nsec + (IF borrow THEN NSEC_PER_SEC ELSE 0)]

(* What "%lu.%lu" prints: two numbers, neither signed nor padded. *)
Printed(ts) == [tv_sec |-> ts.tv_sec % ULONG_RANGE, tv_nsec |-> ts.tv_nsec]

Init ==
    /\ ProcInit([time |-> timespec(0), elapsed |-> {}])
    /\ entry = FALSE
    /\ now \in Times
    /\ curr_t = timespec(0)
    /\ prev_t = timespec(0)
    /\ called = 0
    /\ shown = <<>>

(* Time passes, or the clock, which is the wall clock, is set. *)
Clock ==
    /\ now' \in Times
    /\ UNCHANGED <<procVars, curr_t, prev_t, called, shown>>

myxtime_init ==
    /\ ~entry
    /\ entry' = TRUE
    /\ called' = 0
    /\ curr_t' = timespec(0) /\ prev_t' = timespec(0)
    /\ shown' = <<>>
    /\ UNCHANGED <<message, read_p, live, text, at, got, shared, now>>

myxtime_exit == entry /\ RemoveEntry /\ UNCHANGED <<text, timeVars>>

(* Variant of OpenFails for the mutation of BufferLive: the test for NULL  *)
(* does not return.                                                        *)
OpenFailsUnnoticed(r) == OpenEntryNull(r, "open") /\ UNCHANGED timeVars

(* kmalloc fails and open returns -ENOMEM. *)
OpenFails(r) == OpenEntryNull(r, "closed") /\ UNCHANGED timeVars

myxtime_proc_open(r) == OpenEntry(r, "open") /\ UNCHANGED timeVars

(* myxtime_proc_read: the flag; the current time; the elapsed time, except *)
(* in the first read; the copy; and the time to compare with next.         *)
myxtime_proc_read(r) == ReadEntry(r, "stamp") /\ UNCHANGED timeVars

ReadStamps(r) ==
    /\ Fill(r, "stamp", [time |-> Printed(timespec(now)), elapsed |-> {}], "elapse")
    /\ curr_t' = timespec(now)
    /\ UNCHANGED <<now, prev_t, called, shown>>

ReadElapses(r) ==
    LET diff == timespec_sub(curr_t, prev_t)
    IN  /\ Fill(r, "elapse",
                [text[message] EXCEPT !.elapsed = IF called # 0 THEN {Printed(diff)} ELSE {}],
                "copy")
        /\ prev_t' = IF called # 0 THEN diff ELSE prev_t
        /\ UNCHANGED <<now, curr_t, called, shown>>

ReadCopies(r) ==
    /\ CopyToUser(r, "copy", "store")
    /\ shown' = Append(IF Len(shown) = 2 THEN Tail(shown) ELSE shown, text[message])
    /\ UNCHANGED <<now, curr_t, prev_t, called>>

(* Variant of ReadStores for the mutation of ElapsedIsDifference: prev_t   *)
(* is set in the first read only.                                          *)
ReadStoresOnce(r) ==
    /\ at[r] = "store"
    /\ prev_t' = IF called = 0 THEN curr_t ELSE prev_t
    /\ called' = 1
    /\ Goto(r, "open")
    /\ UNCHANGED <<entry, message, read_p, live, text, got, shared, now, curr_t, shown>>

ReadStores(r) ==
    /\ at[r] = "store"
    /\ prev_t' = curr_t
    /\ called' = 1
    /\ Goto(r, "open")
    /\ UNCHANGED <<entry, message, read_p, live, text, got, shared, now, curr_t, shown>>

myxtime_proc_release(r) == ReleaseEntry(r) /\ UNCHANGED <<text, timeVars>>

Next ==
    \/ Clock \/ myxtime_init \/ myxtime_exit
    \/ \E r \in Readers :
          \/ myxtime_proc_open(r) \/ OpenFails(r) \/ myxtime_proc_release(r)
          \/ myxtime_proc_read(r) \/ ReadStamps(r) \/ ReadElapses(r) \/ ReadCopies(r)
          \/ ReadStores(r)

Spec == Init /\ [][Next]_vars

-----------------------------------------------------------------------------
(* Properties. *)

(* The elapsed time a page shows is the difference of its own time and the *)
(* time the page before it showed, whoever read that one and however long  *)
(* ago; the first page since the module was loaded shows none.  It is so   *)
(* while the clock is not set back and the readers come one after another. *)
ElapsedIsDifference ==
    ~shared =>
        /\ Len(shown) = 1 => shown[1].elapsed = {}
        /\ Len(shown) = 2 =>
              LET diff == value(shown[2].time) - value(shown[1].time)
              IN  diff >= 0 => \E d \in shown[2].elapsed : value(d) = diff

=============================================================================
