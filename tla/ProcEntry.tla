------------------------------ MODULE ProcEntry ------------------------------
(***************************************************************************)
(* A /proc entry the way example 2 of the course material does it, and all *)
(* modules of this repository after it: open allocates a buffer and keeps  *)
(* it in the global message, every other read hands the buffer out and the *)
(* reads between them report the end of file, by the global flag read_p,   *)
(* and release frees the buffer.  The modules that use these operators say *)
(* what they fill the buffer with.                                         *)
(*                                                                         *)
(* A reader is a process that opens the entry, reads it, until a read      *)
(* returns 0 as cat does, or less, or on from there, and closes it, any    *)
(* number of times.                                                        *)
(***************************************************************************)
EXTENDS Integers, Sequences, FiniteSets

CONSTANTS Readers,
          Buffers,  (* what kmalloc can return: the bound on live buffers  *)
          NULL

ASSUME BuffersAssumption == NULL \notin Buffers

VARIABLES
    entry,    (* the entry exists in /proc                                 *)
    message,  (* the global pointer: a member of Buffers, or NULL          *)
    read_p,   (* the global flag                                           *)
    live,     (* the buffers that are allocated                            *)
    text,     (* what each buffer holds                                    *)
    at,       (* where each reader is: "closed", "open" between two calls,
                 "eof" after a read that returned 0, inside a handler, or
                 "oops" when the kernel has killed it there                *)
    got,      (* what each reader that has the entry open has read since
                 it opened it, or since the end of file if it has read on:
                 the last MaxPages pages                                   *)
    shared    (* history: two readers have had the entry open at a time    *)

MaxPages == 2  (* enough to tell one page from more                         *)

procVars == <<entry, message, read_p, live, text, at, got, shared>>

ProcInit(blank) ==
    /\ message = NULL
    /\ read_p = 0
    /\ live = {}
    /\ text = [b \in Buffers |-> blank]
    /\ at = [r \in Readers |-> "closed"]
    /\ got = [r \in Readers |-> <<>>]
    /\ shared = FALSE

Goto(r, where) == at' = [at EXCEPT ![r] = where]

(* r enters an open. *)
Enter(r) ==
    /\ entry /\ at[r] = "closed"
    /\ shared' = (shared \/ \E q \in Readers : at[q] # "closed")

(* A bound, for the modules whose properties are about readers that come   *)
(* one after the other: an open that overlaps another is the last.         *)
FirstOverlap == ~shared

(* Variant of OpenEntry for the mutation of CatShowsPage: read_p keeps the *)
(* value the last reader left.                                             *)
OpenEntryKeepsFlag(r, then) ==
    /\ Enter(r)
    /\ \E b \in Buffers \ live : message' = b /\ live' = live \cup {b}
    /\ Goto(r, then)
    /\ got' = [got EXCEPT ![r] = <<>>]
    /\ UNCHANGED <<entry, read_p, text>>

(* The start of an open: the flag is set and the buffer allocated. *)
OpenEntry(r, then) ==
    /\ Enter(r)
    /\ read_p' = 1
    /\ \E b \in Buffers \ live : message' = b /\ live' = live \cup {b}
    /\ Goto(r, then)
    /\ got' = [got EXCEPT ![r] = <<>>]
    /\ UNCHANGED <<entry, text>>

(* The same, without memory: kmalloc returns NULL. *)
OpenEntryNull(r, then) ==
    /\ Enter(r)
    /\ read_p' = 1
    /\ message' = NULL
    /\ Goto(r, then)
    /\ UNCHANGED <<entry, live, text, got>>

(* sprintf into message, wherever it points by now. *)
Fill(r, here, page, then) ==
    /\ at[r] = here /\ message # NULL
    /\ text' = [text EXCEPT ![message] = page]
    /\ Goto(r, then)
    /\ UNCHANGED <<entry, message, read_p, live, got, shared>>

(* A reader that reads on after the end of file begins anew. *)
ReadsOn(r) ==
    /\ at[r] \in {"open", "eof"}
    /\ got' = IF at[r] = "eof" THEN [got EXCEPT ![r] = <<>>] ELSE got

(* Variant of ReadEntry for the mutation of CatEnds: read_p is tested but  *)
(* not flipped.                                                            *)
ReadEntryKeepsFlag(r, then) ==
    /\ ReadsOn(r)
    /\ Goto(r, IF read_p = 0 THEN "eof" ELSE then)
    /\ UNCHANGED <<entry, message, read_p, live, text, shared>>

(* Variant of ReadEntry for the mutation of BufferLive: the read that      *)
(* reports the end of file frees the buffer.                               *)
ReadEntryFrees(r, then) ==
    /\ ReadsOn(r)
    /\ read_p' = 1 - read_p
    /\ Goto(r, IF read_p = 0 THEN "eof" ELSE then)
    /\ live' = IF read_p = 0 THEN live \ {message} ELSE live
    /\ UNCHANGED <<entry, message, text, shared>>

(* The start of a read: it reports the end of file at every other call. *)
ReadEntry(r, then) ==
    /\ ReadsOn(r)
    /\ read_p' = 1 - read_p
    /\ Goto(r, IF read_p = 0 THEN "eof" ELSE then)
    /\ UNCHANGED <<entry, message, live, text, shared>>

(* copy_to_user from message, wherever it points by now: through NULL, the *)
(* reader goes no further.                                                 *)
CopyToUser(r, here, then) ==
    /\ at[r] = here /\ message # NULL
    /\ got' = [got EXCEPT ![r] =
                   Append(IF Len(@) = MaxPages THEN Tail(@) ELSE @, text[message])]
    /\ Goto(r, then)
    /\ UNCHANGED <<entry, message, read_p, live, text, shared>>

(* Variant of ReleaseEntry for the mutation of NothingLeaked: the buffer   *)
(* is freed only after a read to the end.                                  *)
ReleaseEntryAtEof(r) ==
    /\ at[r] \in {"open", "eof"}
    /\ live' = IF at[r] = "eof" THEN live \ {message} ELSE live
    /\ Goto(r, "closed")
    /\ got' = [got EXCEPT ![r] = <<>>]
    /\ UNCHANGED <<entry, message, read_p, shared>>

(* What is in a buffer that has been freed is unknown.  A module that need *)
(* not tell says so with junk; the others keep it as it was.               *)
Forget(junk) == text' = [b \in Buffers |-> IF b \in live' THEN text[b] ELSE junk]

(* close, by a reader at the end of file or one that has seen enough. *)
ReleaseEntry(r) ==
    /\ at[r] \in {"open", "eof"}
    /\ live' = live \ {message}
    /\ Goto(r, "closed")
    /\ got' = [got EXCEPT ![r] = <<>>]
    /\ UNCHANGED <<entry, message, read_p, shared>>

(* remove_proc_entry waits for the handlers that are running and then      *)
(* releases what is still open.                                            *)
RemoveEntry ==
    /\ \A r \in Readers : at[r] \in {"closed", "open", "eof"}
    /\ entry' = FALSE
    /\ live' = IF \A r \in Readers : at[r] = "closed" THEN live ELSE live \ {message}
    /\ at' = [r \in Readers |-> "closed"]
    /\ got' = [r \in Readers |-> <<>>]
    /\ UNCHANGED <<message, read_p, shared>>

-----------------------------------------------------------------------------
(* Properties. *)

(* The buffer a reader uses is allocated: what is read, printed, copied    *)
(* and freed has not been freed before, and is not the NULL of a kmalloc   *)
(* that failed.  Only an open that has still to print may have NULL, and   *)
(* one that prints without a test for it is killed ("oops").  This holds,  *)
(* as does the property after it, for readers one after the other, however *)
(* each of them ended.                                                     *)
BufferLive ==
    ~shared => \A r \in Readers : at[r] \notin {"closed", "oops"} =>
        message \in live \/ (at[r] = "print" /\ message = NULL)

(* No buffer is allocated but the one of the reader that has the entry     *)
(* open, also while a reader is killed for want of one: those before it    *)
(* have been freed.                                                        *)
NothingLeaked ==
    ~shared => live = IF \E r \in Readers : at[r] # "closed" THEN {message} \ {NULL} ELSE {}

=============================================================================
