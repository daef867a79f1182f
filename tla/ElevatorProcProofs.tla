-------------------------- MODULE ElevatorProcProofs --------------------------
(***************************************************************************)
(* Proofs about the readers of /proc/elevator, for any number of readers,  *)
(* of buffers and of changes of the elevator.                              *)
(***************************************************************************)
EXTENDS ElevatorProc, TLAPS

-----------------------------------------------------------------------------
(* The inductive invariant, in parts. *)

Using == {"open", "copy", "eof"}

ProcTypeOK ==
    /\ message \in Buffers \cup {NULL}
    /\ read_p \in {0, 1}
    /\ live \in SUBSET Buffers
    /\ text \in [Buffers -> Nat]
    /\ at \in [Readers -> Using \cup {"closed", "print", "oops"}]
    /\ got \in [Readers -> Seq(Nat)]
    /\ shared \in BOOLEAN
    /\ version \in Nat
    /\ since \in [Readers -> Nat]

(* Readers that come one after the other. *)
OneReader ==
    ~shared => \A q, r \in Readers : at[q] # "closed" /\ at[r] # "closed" => q = r

(* The one buffer is the one message points to: allocated from the open to *)
(* the close, and not at all if kmalloc failed.                            *)
OneBuffer ==
    ~shared =>
        /\ (\A r \in Readers : at[r] = "closed") => live = {}
        /\ \A r \in Readers : at[r] # "closed" => live = {message} \ {NULL}
        /\ \A r \in Readers : at[r] \in Using => message # NULL

(* How far a reader has come: read_p is set until it has read the page,    *)
(* and again from the end of file on.                                      *)
Progress(r) ==
    /\ since[r] <= version
    /\ at[r] = "print" /\ message # NULL => read_p = 1 /\ got[r] = <<>>
    /\ at[r] \in Using => text[message] \in since[r] .. version
    /\ at[r] = "open" => got[r] = IF read_p = 1 THEN <<>> ELSE <<text[message]>>
    /\ at[r] = "copy" => read_p = 0 /\ got[r] = <<>>
    /\ at[r] = "eof" => read_p = 1 /\ got[r] = <<text[message]>>

ReaderProgress == ~shared => \A r \in Readers : Progress(r)

ProcInv == ProcTypeOK /\ OneReader /\ OneBuffer /\ ReaderProgress

-----------------------------------------------------------------------------
(* The steps. *)

LEMMA ProcInvInit == Init => ProcInv
<1> SUFFICES ASSUME Init PROVE ProcInv
  OBVIOUS
<1>1. ProcTypeOK
  <2>1. at \in [Readers -> Using \cup {"closed", "print", "oops"}] /\ got \in [Readers -> Seq(Nat)]
    BY DEF Init, ProcInit
  <2> QED
    BY <2>1 DEF Init, ProcInit, ProcTypeOK
<1>2. OneReader /\ OneBuffer
  BY DEF Init, ProcInit, OneReader, OneBuffer, Using
<1>3. ReaderProgress
  BY DEF Init, ProcInit, ReaderProgress, Progress, Using
<1> QED
  BY <1>1, <1>2, <1>3 DEF ProcInv

LEMMA OpenStep ==
    ASSUME ProcInv, NEW r \in Readers, OpenAllocates(r) \/ OpenGetsNull(r)
    PROVE  ProcInv'
<1>1. ProcTypeOK'
  <2>1. shared' \in BOOLEAN
    BY DEF OpenAllocates, OpenGetsNull, OpenEntry, OpenEntryNull, Enter
  <2>2. CASE OpenAllocates(r)
    BY <2>1, <2>2 DEF ProcInv, ProcTypeOK, OpenAllocates, OpenEntry, Goto
  <2>3. CASE OpenGetsNull(r)
    BY <2>1, <2>3 DEF ProcInv, ProcTypeOK, OpenGetsNull, OpenEntryNull, Goto
  <2> QED
    BY <2>2, <2>3
<1>2. /\ at[r] = "closed" /\ at' = [at EXCEPT ![r] = "print"]
      /\ ~shared' => ~shared /\ \A q \in Readers : at[q] = "closed"
  BY DEF OpenAllocates, OpenGetsNull, OpenEntry, OpenEntryNull, Enter, Goto
<1>3. OneReader'
  BY <1>2 DEF ProcInv, ProcTypeOK, OneReader
<1>4. OneBuffer'
  <2> SUFFICES ASSUME ~shared'
               PROVE  live' = {message'} \ {NULL}
    BY <1>2 DEF OneBuffer, ProcInv, ProcTypeOK, Using
  <2>1. live = {}
    BY <1>2 DEF ProcInv, OneBuffer
  <2>2. CASE OpenAllocates(r)
    BY <2>1, <2>2, BuffersAssumption DEF OpenAllocates, OpenEntry
  <2>3. CASE OpenGetsNull(r)
    BY <2>1, <2>3 DEF OpenGetsNull, OpenEntryNull
  <2> QED
    BY <2>2, <2>3
<1>5. ReaderProgress'
  <2> SUFFICES ASSUME ~shared', NEW q \in Readers PROVE Progress(q)'
    BY DEF ReaderProgress
  <2>1. \A p \in Readers : Progress(p) /\ since[p] <= version
    BY <1>2 DEF ProcInv, ReaderProgress, Progress
  <2>2. at'[q] \in {"closed", "print"} /\ (at'[q] = "print" => q = r)
    BY <1>2 DEF ProcInv, ProcTypeOK
  <2>3. since'[q] <= version'
    <3>1. version' = version /\ (since' = since \/ since' = [since EXCEPT ![r] = version])
      BY DEF OpenAllocates, OpenGetsNull
    <3>2. version \in Nat /\ since \in [Readers -> Nat] /\ since[q] <= version
      BY <2>1 DEF ProcInv, ProcTypeOK
    <3> QED
      BY <3>1, <3>2
  <2>4. message' # NULL => read_p' = 1 /\ got'[r] = <<>>
    BY DEF ProcInv, ProcTypeOK, OpenAllocates, OpenGetsNull, OpenEntry, OpenEntryNull
  <2> QED
    BY <2>2, <2>3, <2>4 DEF Progress, Using
<1> QED
  BY <1>1, <1>3, <1>4, <1>5 DEF ProcInv

LEMMA PrintStep ==
    ASSUME ProcInv, NEW r \in Readers, OpenPrints(r)
    PROVE  ProcInv'
<1>1. /\ at[r] = "print" /\ message # NULL
      /\ text' = [text EXCEPT ![message] = version]
      /\ at' = [at EXCEPT ![r] = "open"]
      /\ UNCHANGED <<message, read_p, live, got, shared, version, since>>
  BY DEF OpenPrints, Fill, Goto
<1>2. ProcTypeOK' /\ OneReader'
  BY <1>1 DEF ProcInv, ProcTypeOK, OneReader, Using
<1>3. OneBuffer'
  BY <1>1 DEF ProcInv, ProcTypeOK, OneBuffer, Using
<1>4. ReaderProgress'
  <2> SUFFICES ASSUME ~shared, NEW q \in Readers PROVE Progress(q)'
    BY <1>1 DEF ReaderProgress
  <2>1. Progress(q) /\ Progress(r)
    BY DEF ProcInv, ReaderProgress
  <2>2. CASE q = r
    <3>1. text'[message'] = version /\ version \in since[q] .. version
      BY <1>1, <2>1 DEF ProcInv, ProcTypeOK, Progress
    <3>2. at'[q] = "open" /\ got'[q] = <<>> /\ read_p' = 1
      BY <1>1, <2>1, <2>2 DEF ProcInv, ProcTypeOK, Progress
    <3> QED
      BY <1>1, <2>1, <3>1, <3>2 DEF Progress
  <2>3. CASE q # r
    <3>1. at'[q] = "closed"
      BY <1>1, <2>3 DEF ProcInv, ProcTypeOK, OneReader
    <3> QED
      BY <1>1, <2>1, <3>1 DEF Progress, Using
  <2> QED
    BY <2>2, <2>3
<1> QED
  BY <1>2, <1>3, <1>4 DEF ProcInv

LEMMA ReadStep ==
    ASSUME ProcInv, NEW r \in Readers, ElevatorRead(r) \/ ReadCopies(r)
    PROVE  ProcInv'
<1>1. /\ at[r] \in Using
      /\ \E w \in Using : at' = [at EXCEPT ![r] = w]
      /\ UNCHANGED <<message, live, text, shared, version, since>>
  BY DEF ElevatorRead, ReadCopies, ReadEntry, ReadsOn, CopyToUser, Goto, Using
<1>2. ProcTypeOK'
  <2>1. read_p' \in {0, 1}
    BY DEF ProcInv, ProcTypeOK, ElevatorRead, ReadCopies, ReadEntry, CopyToUser
  <2>2. got' \in [Readers -> Seq(Nat)]
    <3>1. CASE ElevatorRead(r)
      BY <3>1 DEF ProcInv, ProcTypeOK, ElevatorRead, ReadEntry, ReadsOn
    <3>2. CASE ReadCopies(r)
      <4> DEFINE s == IF Len(got[r]) = MaxPages THEN Tail(got[r]) ELSE got[r]
      <4>1. got' = [got EXCEPT ![r] = Append(s, text[message])]
        BY <3>2 DEF ReadCopies, CopyToUser
      <4>2. got[r] \in Seq(Nat) /\ text[message] \in Nat
        BY <3>2 DEF ProcInv, ProcTypeOK, ReadCopies, CopyToUser
      <4>3. s \in Seq(Nat)
        BY <4>2 DEF MaxPages
      <4> HIDE DEF s
      <4> QED
        BY <4>1, <4>2, <4>3 DEF ProcInv, ProcTypeOK
    <3> QED
      BY <3>1, <3>2
  <2> QED
    BY <1>1, <2>1, <2>2 DEF ProcInv, ProcTypeOK
<1>3. OneReader' /\ OneBuffer'
  BY <1>1 DEF ProcInv, ProcTypeOK, OneReader, OneBuffer, Using
<1>4. ReaderProgress'
  <2> SUFFICES ASSUME ~shared, NEW q \in Readers PROVE Progress(q)'
    BY <1>1 DEF ReaderProgress
  <2>1. Progress(q) /\ Progress(r) /\ read_p \in {0, 1}
    BY DEF ProcInv, ProcTypeOK, ReaderProgress
  <2>2. CASE q # r
    <3>1. at[q] = "closed"
      BY <1>1, <2>2 DEF ProcInv, OneReader, Using
    <3>2. at'[q] = "closed"
      BY <1>1, <2>2, <3>1 DEF ProcInv, ProcTypeOK
    <3> QED
      BY <1>1, <2>1, <3>2 DEF Progress, Using
  <2>3. CASE q = r /\ ElevatorRead(r)
    <3>1. /\ at[q] \in {"open", "eof"} /\ read_p' = 1 - read_p
          /\ got'[q] = IF at[q] = "eof" THEN <<>> ELSE got[q]
          /\ at'[q] = IF read_p = 0 THEN "eof" ELSE "copy"
      BY <2>3 DEF ProcInv, ProcTypeOK, ElevatorRead, ReadEntry, ReadsOn, Goto
    <3> QED
      BY <1>1, <2>1, <3>1 DEF Progress, Using
  <2>4. CASE q = r /\ ReadCopies(r)
    <3>1. /\ at[q] = "copy" /\ at'[q] = "open" /\ read_p' = read_p
          /\ got'[q] = Append(IF Len(got[q]) = MaxPages THEN Tail(got[q]) ELSE got[q],
                              text[message])
      BY <2>4 DEF ProcInv, ProcTypeOK, ReadCopies, CopyToUser, Goto
    <3>2. got[q] = <<>> /\ read_p = 0
      BY <2>1, <3>1 DEF Progress
    <3>3. got'[q] = <<text[message]>>
      BY <3>1, <3>2 DEF MaxPages
    <3> QED
      BY <1>1, <2>1, <3>1, <3>2, <3>3 DEF Progress, Using
  <2> QED
    BY <2>2, <2>3, <2>4
<1> QED
  BY <1>2, <1>3, <1>4 DEF ProcInv

LEMMA CloseStep ==
    ASSUME ProcInv, NEW r \in Readers, ElevatorRelease(r) \/ OpenOopses(r)
    PROVE  ProcInv'
<1>1. /\ at[r] # "closed"
      /\ \E w \in {"closed", "oops"} : at' = [at EXCEPT ![r] = w]
      /\ UNCHANGED <<message, read_p, text, shared, version, since>>
      /\ got' = got \/ got' = [got EXCEPT ![r] = <<>>]
  BY DEF ElevatorRelease, OpenOopses, ReleaseEntry, Goto
<1>2. ProcTypeOK' /\ OneReader'
  <2>1. live' \in SUBSET Buffers
    BY DEF ProcInv, ProcTypeOK, ElevatorRelease, OpenOopses, ReleaseEntry
  <2>2. got' \in [Readers -> Seq(Nat)]
    <3>1. got \in [Readers -> Seq(Nat)] /\ <<>> \in Seq(Nat)
      BY DEF ProcInv, ProcTypeOK
    <3> QED
      BY <1>1, <3>1
  <2> QED
    BY <1>1, <2>1, <2>2 DEF ProcInv, ProcTypeOK, OneReader
<1>3. OneBuffer'
  <2>1. CASE OpenOopses(r)
    BY <2>1 DEF ProcInv, ProcTypeOK, OneBuffer, Using, OpenOopses, Goto
  <2>2. CASE ElevatorRelease(r)
    <3> SUFFICES ASSUME ~shared PROVE live' = {} /\ \A q \in Readers : at'[q] = "closed"
      BY <1>1 DEF OneBuffer, Using
    <3>1. live = {message} \ {NULL}
      BY <1>1 DEF ProcInv, OneBuffer
    <3> QED
      BY <2>2, <3>1
         DEF ProcInv, ProcTypeOK, OneReader, ElevatorRelease, ReleaseEntry, Goto
  <2> QED
    BY <2>1, <2>2
<1>4. ReaderProgress'
  BY <1>1 DEF ProcInv, ProcTypeOK, ReaderProgress, Progress, Using
<1> QED
  BY <1>2, <1>3, <1>4 DEF ProcInv

LEMMA ChangeStep ==
    ASSUME ProcInv, ElevatorChanges
    PROVE  ProcInv'
<1>1. version' = version + 1 /\ UNCHANGED <<procVars, since>>
  BY DEF ElevatorChanges
<1>2. ProcTypeOK' /\ OneReader' /\ OneBuffer'
  BY <1>1 DEF ProcInv, ProcTypeOK, OneReader, OneBuffer, procVars
<1>3. ReaderProgress'
  <2> SUFFICES ASSUME ~shared, NEW r \in Readers PROVE Progress(r)'
    BY <1>1 DEF ReaderProgress, procVars
  <2>1. Progress(r) /\ version \in Nat /\ since[r] \in Nat
    BY DEF ProcInv, ProcTypeOK, ReaderProgress
  <2>2. since[r] <= version + 1 /\ \A v \in since[r] .. version : v \in since[r] .. version + 1
    BY <2>1 DEF Progress
  <2> QED
    BY <1>1, <2>1, <2>2 DEF Progress, procVars
<1> QED
  BY <1>2, <1>3 DEF ProcInv

LEMMA ProcInvStep == ProcInv /\ [Next]_vars => ProcInv'
<1> SUFFICES ASSUME ProcInv, [Next]_vars PROVE ProcInv'
  OBVIOUS
<1>1. CASE UNCHANGED vars
  BY <1>1 DEF vars, procVars, ProcInv, ProcTypeOK, OneReader, OneBuffer, ReaderProgress, Progress
<1> QED
  BY <1>1, OpenStep, PrintStep, ReadStep, CloseStep, ChangeStep DEF Next, Handler

-----------------------------------------------------------------------------
(* The theorems. *)

(* The inductive invariant: message, the buffers, read_p and what each     *)
(* reader has read agree at every step of elevator_open, elevator_read and *)
(* elevator_release.                                                       *)
THEOREM ProcInvariant == Spec => []ProcInv
BY ProcInvInit, ProcInvStep, PTL DEF Spec

(* elevator_read and the kfree of elevator_release use a buffer that is    *)
(* allocated, and so does printStats unless kmalloc has just failed, while *)
(* the readers come one after the other.                                   *)
THEOREM BuffersAreLive == Spec => []BufferLive
<1>1. ProcInv => BufferLive
  <2> SUFFICES ASSUME ProcInv, ~shared, NEW r \in Readers,
                      at[r] \notin {"closed", "oops"}
               PROVE  message \in live \/ (at[r] = "print" /\ message = NULL)
    BY DEF BufferLive
  <2>1. at[r] \in Using \cup {"print"}
    BY DEF ProcInv, ProcTypeOK
  <2>2. live = {message} \ {NULL} /\ (at[r] \in Using => message # NULL)
    BY DEF ProcInv, OneBuffer
  <2> QED
    BY <2>1, <2>2
<1> QED
  BY <1>1, ProcInvariant, PTL

(* Every buffer elevator_open allocates is freed when the reader has gone, *)
(* and a reader that is killed because kmalloc has failed leaves none.     *)
THEOREM BuffersAreFreed == Spec => []NothingLeaked
<1>1. ProcInv => NothingLeaked
  BY DEF ProcInv, OneBuffer, NothingLeaked
<1> QED
  BY <1>1, ProcInvariant, PTL

(* A cat that sees the end of file has read one page, and a current one.   *)
THEOREM CatsShowPages == Spec => []CatShowsPage
<1>1. ProcInv => CatShowsPage
  BY DEF ProcInv, ReaderProgress, Progress, CatShowsPage, Using
<1> QED
  BY <1>1, ProcInvariant, PTL

=============================================================================
