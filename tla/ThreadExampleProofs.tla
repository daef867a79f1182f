------------------------- MODULE ThreadExampleProofs -------------------------
(***************************************************************************)
(* Proofs about examples 6 and 7 of the course material, for arrays of any *)
(* size, any number of cycles, readers and buffers.                        *)
(***************************************************************************)
EXTENDS ThreadExample, TLAPS

-----------------------------------------------------------------------------
(* Pages. *)

Lagging(p) == \A k \in 1 .. Len(p) : \A j \in 1 .. k - 1 : p[k] >= p[j] - 1
Whole(p)   == Len(p) = CNT_SIZE /\ \A j, k \in 1 .. CNT_SIZE : p[j] = p[k]

LagPages   == {p \in Seq(Int) : Lagging(p)}
WholePages == {p \in Seq(Int) : Whole(p)}

(* What has been copied is what was there to copy.                         *)
LEMMA CopiedPages ==
    ASSUME NEW S, NEW s \in Seq(S), NEW p \in S
    PROVE  Append(IF Len(s) = MaxPages THEN Tail(s) ELSE s, p) \in Seq(S)
<1>1. Len(s) = MaxPages => Tail(s) \in Seq(S)
  BY DEF MaxPages
<1> QED
  BY <1>1

LEMMA PagesIn ==
    ASSUME NEW S, got \in [Readers -> Seq(S)]
    PROVE  Pages \subseteq S
<1> SUFFICES ASSUME NEW r \in Readers, NEW n \in DOMAIN got[r] PROVE got[r][n] \in S
  BY DEF Pages
<1>1. got[r] \in Seq(S)
  OBVIOUS
<1> QED
  BY <1>1

(* A number that is not behind any on the page by more than one may follow. *)
LEMMA LaggingAppend ==
    ASSUME NEW p \in LagPages, NEW v \in Int, \A j \in 1 .. Len(p) : v >= p[j] - 1
    PROVE  Append(p, v) \in LagPages
<1>1. p \in Seq(Int) /\ Len(p) \in Nat
  BY DEF LagPages
<1>2. /\ Append(p, v) \in Seq(Int)
      /\ Len(Append(p, v)) = Len(p) + 1
      /\ \A j \in 1 .. Len(p) : Append(p, v)[j] = p[j]
      /\ Append(p, v)[Len(p) + 1] = v
  BY <1>1
<1>3. ASSUME NEW k \in 1 .. Len(p) + 1, NEW j \in 1 .. k - 1
      PROVE  Append(p, v)[k] >= Append(p, v)[j] - 1
  <2>1. CASE k = Len(p) + 1
    BY <1>1, <1>2, <2>1
  <2>2. CASE k # Len(p) + 1
    <3>1. k \in 1 .. Len(p) /\ j \in 1 .. Len(p)
      BY <1>1, <2>2
    <3> QED
      BY <1>2, <3>1 DEF LagPages, Lagging
  <2> QED
    BY <2>1, <2>2
<1> QED
  BY <1>2, <1>3 DEF LagPages, Lagging

-----------------------------------------------------------------------------
(* The inductive invariant of the counters and of what is printed. *)

Index == 0 .. CNT_SIZE - 1
Early == {"head", "lock", "print", "minus"}
Late  == {"unlock", "open", "copy", "eof", "oops"}

ExampleTypeOK ==
    /\ entry \in BOOLEAN
    /\ message \in Buffers \cup {NULL}
    /\ text \in [Buffers -> Seq(Int)]
    /\ at \in [Readers -> Early \cup Late \cup {"closed"}]
    /\ got \in [Readers -> Seq(Seq(Int))]
    /\ cnt \in [Index -> Nat]
    /\ run \in {"none", "head", "lock", "body", "unlock"}
    /\ i \in Index
    /\ row \in [Readers -> Nat]
    /\ \A r \in Readers : at[r] \in Early => row[r] \in Index
    /\ locked \in BOOLEAN /\ disturbed \in BOOLEAN /\ shared \in BOOLEAN

(* The entry is there, and may be open, from thread_init to thread_exit;   *)
(* the thread runs from thread_init_parameter on, which finds the counters *)
(* at zero.                                                                *)
LoaderInv ==
    /\ entry => loader # "out"
    /\ loader = "out" => \A r \in Readers : at[r] = "closed"
    /\ loader \in {"out", "created"} => run = "none"
    /\ loader = "created" => cnt = [k \in Index |-> 0]

(* The counters the thread has passed in this cycle are one ahead.         *)
CounterShape ==
    /\ run # "body" => i = 0
    /\ \A k \in Index : cnt[k] = cnt[CNT_SIZE - 1] + (IF k < i THEN 1 ELSE 0)

(* Readers that come one after the other, each with a buffer. *)
OneAtATime ==
    ~shared => \A r \in Readers : at[r] # "closed" =>
        message # NULL /\ \A q \in Readers : at[q] # "closed" => q = r

(* The counters are at most one behind what is in the buffer of r, which   *)
(* is all -1 if the open was interrupted.                                  *)
Ahead(r) ==
    at[r] \notin {"closed", "head", "oops"} =>
        /\ text[message] \in LagPages
        /\ \A n \in 1 .. Len(text[message]) : \A k \in Index : cnt[k] >= text[message][n] - 1
        /\ at[r] = "lock" => text[message] = <<>>
        /\ at[r] = "minus" => \A n \in 1 .. Len(text[message]) : text[message][n] = -1

PrintedAhead ==
    ~shared => got \in [Readers -> Seq(LagPages)] /\ \A r \in Readers : Ahead(r)

CounterInv == ExampleTypeOK /\ LoaderInv /\ CounterShape /\ OneAtATime /\ PrintedAhead

LEMMA EmptyPage ==
    <<>> \in Seq(Int) /\ <<>> \in LagPages /\ Len(<<>>) = 0 /\ \A S : <<>> \in Seq(S)
BY DEF LagPages, Lagging

LEMMA CounterInvInit == Init => CounterInv
<1> SUFFICES ASSUME Init PROVE CounterInv
  OBVIOUS
<1>0. CNT_SIZE \in Nat \ {0} /\ 0 \in Index /\ CNT_SIZE - 1 \in Index
  BY ExampleAssumption DEF Index
<1>1. /\ got \in [Readers -> Seq(Seq(Int))] /\ got \in [Readers -> Seq(LagPages)]
      /\ text \in [Buffers -> Seq(Int)]
  BY DEF Init, ProcInit
<1>2. cnt = [k \in Index |-> 0]
  BY DEF Init, Index
<1>3. ExampleTypeOK
  <2>1. /\ at \in [Readers -> Early \cup Late \cup {"closed"}] /\ row \in [Readers -> Nat]
        /\ \A r \in Readers : at[r] \notin Early
    BY DEF Init, ProcInit, Early
  <2>2. cnt \in [Index -> Nat] /\ i \in Index
    BY <1>0, <1>2 DEF Init
  <2> QED
    BY <1>1, <2>1, <2>2 DEF Init, ProcInit, ExampleTypeOK
<1>4. LoaderInv /\ OneAtATime /\ PrintedAhead
  BY <1>1 DEF Init, ProcInit, LoaderInv, OneAtATime, PrintedAhead, Ahead
<1>5. CounterShape
  BY <1>0, <1>2 DEF Init, CounterShape, Index
<1> QED
  BY <1>3, <1>4, <1>5 DEF CounterInv

(* Nothing is left to say of the pages when the entry is closed.           *)
LEMMA ClosedKeeps ==
    ASSUME \A r \in Readers : at'[r] = "closed", ~shared' => got' \in [Readers -> Seq(LagPages)]
    PROVE  OneAtATime' /\ PrintedAhead'
BY DEF OneAtATime, PrintedAhead, Ahead

LEMMA LoaderSteps ==
    ASSUME CounterInv, thread_init \/ thread_init_parameter \/ thread_exit \/ ThreadExitRemoves
    PROVE  CounterInv'
<1>0. CNT_SIZE \in Nat \ {0} /\ 0 \in Index /\ CNT_SIZE - 1 \in Index
  BY ExampleAssumption DEF Index
<1>1. CASE thread_init
  <2>1. cnt' = [k \in Index |-> 0]
    BY <1>1 DEF thread_init, Index
  <2>2. ExampleTypeOK'
    BY <1>1, <2>1 DEF thread_init, CounterInv, ExampleTypeOK, kind, opens
  <2>3. i = 0 /\ \A r \in Readers : at[r] = "closed"
    BY <1>1 DEF thread_init, CounterInv, LoaderInv, CounterShape
  <2>4. LoaderInv'
    BY <1>1, <2>1, <2>3 DEF thread_init, CounterInv, LoaderInv
  <2>5. OneAtATime' /\ PrintedAhead'
    BY <1>1, <2>3, ClosedKeeps DEF thread_init, CounterInv, PrintedAhead
  <2>6. CounterShape'
    BY <1>0, <1>1, <2>1, <2>3 DEF thread_init, CounterShape, Index
  <2> QED
    BY <2>2, <2>4, <2>5, <2>6 DEF CounterInv
<1>2. CASE thread_init_parameter
  <2>1. cnt' = cnt
    BY <1>2 DEF thread_init_parameter, CounterInv, LoaderInv, Index
  <2>2. ExampleTypeOK' /\ LoaderInv'
    BY <1>2, <2>1
       DEF thread_init_parameter, CounterInv, ExampleTypeOK, LoaderInv, procVars, opens
  <2>3. CounterShape' /\ OneAtATime' /\ PrintedAhead'
    BY <1>2, <2>1 DEF thread_init_parameter, CounterInv, LoaderInv, CounterShape, OneAtATime,
       PrintedAhead, Ahead, procVars
  <2> QED
    BY <2>2, <2>3 DEF CounterInv
<1>3. CASE thread_exit
  BY <1>3 DEF thread_exit, CounterInv, ExampleTypeOK, LoaderInv, CounterShape, OneAtATime,
     PrintedAhead, Ahead, procVars, kind, opens
<1>4. CASE ThreadExitRemoves
  <2>1. /\ at' = [r \in Readers |-> "closed"] /\ got' = [r \in Readers |-> <<>>]
        /\ entry' = FALSE /\ loader' = "out" /\ run = "none"
        /\ text' = [b \in Buffers |-> IF b \in live' THEN text[b] ELSE <<>>]
        /\ UNCHANGED <<message, shared, cnt, run, i, opens, kind>>
    BY <1>4 DEF ThreadExitRemoves, RemoveEntry, Forget
  <2>2. text' \in [Buffers -> Seq(Int)]
    BY <2>1, EmptyPage DEF CounterInv, ExampleTypeOK
  <2>3. /\ \A r \in Readers : at'[r] = "closed"
        /\ got' \in [Readers -> Seq(Seq(Int))] /\ got' \in [Readers -> Seq(LagPages)]
    BY <2>1
  <2>4. ExampleTypeOK'
    BY <2>1, <2>2, <2>3 DEF CounterInv, ExampleTypeOK, Early, kind, opens
  <2>5. LoaderInv' /\ CounterShape'
    BY <2>1, <2>3 DEF CounterInv, LoaderInv, CounterShape
  <2> QED
    BY <2>3, <2>4, <2>5, ClosedKeeps DEF CounterInv
<1> QED
  BY <1>1, <1>2, <1>3, <1>4

LEMMA IncrementStep ==
    ASSUME CounterInv, RunIncrements
    PROVE  CounterInv'
<1>0. /\ CNT_SIZE \in Nat \ {0} /\ i \in Index /\ cnt \in [Index -> Nat]
      /\ CNT_SIZE - 1 \in Index
  BY ExampleAssumption DEF Index, CounterInv, ExampleTypeOK
<1>1. /\ cnt' = [cnt EXCEPT ![i] = @ + 1] /\ run = "body"
      /\ i + 1 < CNT_SIZE => i' = i + 1 /\ run' = "body"
      /\ ~(i + 1 < CNT_SIZE) => i' = 0 /\ run' \in {"unlock", "head"} /\ i = CNT_SIZE - 1
  <2>1. i + 1 < CNT_SIZE => (i + 1) % CNT_SIZE = i + 1
    BY <1>0 DEF Index
  <2>2. ~(i + 1 < CNT_SIZE) => i + 1 = CNT_SIZE
    BY <1>0 DEF Index
  <2>3. CNT_SIZE % CNT_SIZE = 0
    BY <1>0
  <2> QED
    BY <1>0, <2>1, <2>2, <2>3 DEF RunIncrements, Index
<1>2. ExampleTypeOK'
  <2>1. i' \in Index /\ cnt' \in [Index -> Nat] /\ run' \in {"head", "body", "unlock"}
    BY <1>0, <1>1 DEF Index
  <2> QED
    BY <2>1 DEF CounterInv, ExampleTypeOK, RunIncrements, procVars, kind, opens
<1>3. LoaderInv' /\ OneAtATime'
  BY <1>1 DEF CounterInv, LoaderInv, OneAtATime, RunIncrements, procVars
<1>4. \A k \in Index : cnt'[k] >= cnt[k]
  BY <1>0, <1>1
<1>5. CounterShape'
  <2>1. \A k \in Index : cnt[k] = cnt[CNT_SIZE - 1] + (IF k < i THEN 1 ELSE 0)
    BY DEF CounterInv, CounterShape
  <2>2. CASE i + 1 < CNT_SIZE
    BY <1>0, <1>1, <2>1, <2>2 DEF CounterShape, Index
  <2>3. CASE ~(i + 1 < CNT_SIZE)
    BY <1>0, <1>1, <2>1, <2>3 DEF CounterShape, Index
  <2> QED
    BY <2>2, <2>3
<1>6. PrintedAhead'
  <2> SUFFICES ASSUME ~shared, NEW r \in Readers, at[r] \notin {"closed", "head", "oops"}
               PROVE  \A n \in 1 .. Len(text[message]) : \A k \in Index :
                            cnt'[k] >= text[message][n] - 1
    BY DEF CounterInv, PrintedAhead, Ahead, RunIncrements, procVars
  <2>1. /\ text[message] \in LagPages
        /\ \A n \in 1 .. Len(text[message]) : \A k \in Index : cnt[k] >= text[message][n] - 1
    BY DEF CounterInv, PrintedAhead, Ahead
  <2>2. \A n \in 1 .. Len(text[message]) : text[message][n] \in Int
    BY <2>1 DEF LagPages
  <2>3. \A k \in Index : cnt[k] \in Int /\ cnt'[k] \in Int
    BY <1>0, <1>1
  <2> QED
    BY <1>4, <2>1, <2>2, <2>3
<1> QED
  BY <1>2, <1>3, <1>5, <1>6 DEF CounterInv

LEMMA RunSteps ==
    ASSUME CounterInv, RunTests \/ RunLocks \/ RunUnlocks
    PROVE  CounterInv'
<1>1. /\ i' = i /\ run # "body"
      /\ UNCHANGED <<procVars, loader, cnt, opens, kind>>
      /\ run' \in {"none", "head", "lock", "body"}
      /\ run # "none"
  BY DEF RunTests, RunLocks, RunUnlocks, CounterInv, CounterShape
<1>2. ExampleTypeOK' /\ LoaderInv'
  BY <1>1 DEF CounterInv, ExampleTypeOK, LoaderInv, procVars, kind, opens
<1>3. CounterShape' /\ OneAtATime' /\ PrintedAhead'
  BY <1>1 DEF CounterInv, CounterShape, OneAtATime, PrintedAhead, Ahead, procVars
<1> QED
  BY <1>2, <1>3 DEF CounterInv

LEMMA OpenSteps ==
    ASSUME CounterInv, NEW r \in Readers, OpenAllocates(r) \/ OpenFails(r)
    PROVE  CounterInv'
<1>0. 0 \in Index
  BY ExampleAssumption DEF Index
<1>1. /\ shared' \in BOOLEAN /\ at[r] = "closed" /\ entry
      /\ ~shared' => ~shared /\ \A q \in Readers : at[q] = "closed"
  BY DEF OpenAllocates, OpenEntry, OpenFails, Enter
<1>2. CASE OpenAllocates(r)
  <2>1. /\ message' \in Buffers /\ at' = [at EXCEPT ![r] = "head"]
        /\ row' = [row EXCEPT ![r] = 0] /\ got' = [got EXCEPT ![r] = <<>>]
        /\ UNCHANGED <<entry, text, loader, cnt, run, i, kind>>
    BY <1>2 DEF OpenAllocates, OpenEntry, Goto
  <2>2. ExampleTypeOK'
    <3>1. got' \in [Readers -> Seq(Seq(Int))]
      BY <2>1 DEF CounterInv, ExampleTypeOK
    <3>2. at' \in [Readers -> Early \cup Late \cup {"closed"}] /\ row' \in [Readers -> Nat]
      BY <2>1 DEF CounterInv, ExampleTypeOK, Early
    <3>3. \A q \in Readers : at'[q] \in Early => row'[q] \in Index
      BY <1>0, <2>1 DEF CounterInv, ExampleTypeOK
    <3> QED
      BY <1>1, <2>1, <3>1, <3>2, <3>3 DEF CounterInv, ExampleTypeOK, kind
  <2>3. LoaderInv' /\ CounterShape'
    BY <1>1, <2>1 DEF CounterInv, LoaderInv, CounterShape
  <2>4. \A q \in Readers : at'[q] = IF q = r THEN "head" ELSE at[q]
    BY <2>1 DEF CounterInv, ExampleTypeOK
  <2>5. OneAtATime'
    BY <1>1, <2>1, <2>4, BuffersAssumption DEF OneAtATime
  <2>6. PrintedAhead'
    <3> SUFFICES ASSUME ~shared'
                 PROVE  got' \in [Readers -> Seq(LagPages)] /\ \A q \in Readers : Ahead(q)'
      BY DEF PrintedAhead
    <3>1. got' \in [Readers -> Seq(LagPages)]
      BY <1>1, <2>1 DEF CounterInv, PrintedAhead
    <3> QED
      BY <1>1, <2>4, <3>1 DEF Ahead
  <2> QED
    BY <2>2, <2>3, <2>5, <2>6 DEF CounterInv
<1>3. CASE OpenFails(r)
  <2>1. message' \in {message, NULL}
        /\ UNCHANGED <<entry, text, at, got, loader, cnt, run, i, opens, kind>>
    BY <1>3 DEF OpenFails
  <2>2. ExampleTypeOK' /\ LoaderInv' /\ CounterShape'
    BY <1>1, <2>1 DEF CounterInv, ExampleTypeOK, LoaderInv, CounterShape, kind, opens
  <2>3. OneAtATime' /\ PrintedAhead'
    BY <1>1, <2>1 DEF CounterInv, OneAtATime, PrintedAhead, Ahead
  <2> QED
    BY <2>2, <2>3 DEF CounterInv
<1> QED
  BY <1>2, <1>3

(* A step of a reader concerns, while readers come one after the other,    *)
(* no other.                                                               *)
LEMMA ReaderKeeps ==
    ASSUME CounterInv, NEW r \in Readers, at[r] # "closed",
           NEW w \in Early \cup Late \cup {"closed"}, at' = [at EXCEPT ![r] = w],
           UNCHANGED <<message, shared>>,
           ~shared => got' \in [Readers -> Seq(LagPages)] /\ Ahead(r)'
    PROVE  OneAtATime' /\ PrintedAhead'
<1>1. \A q \in Readers : q # r => at'[q] = at[q]
  BY DEF CounterInv, ExampleTypeOK
<1>2. ~shared => \A q \in Readers : q # r => at'[q] = "closed"
  BY <1>1 DEF CounterInv, OneAtATime
<1> QED
  BY <1>2 DEF CounterInv, OneAtATime, PrintedAhead, Ahead

(* What a reader puts into the buffer. *)
LEMMA PrintSteps ==
    ASSUME CounterInv, NEW r \in Readers, OpenHeads(r) \/ OpenPrints(r)
    PROVE  CounterInv'
<1>0. CNT_SIZE \in Nat \ {0} /\ CNT_SIZE - 1 \in Index /\ cnt \in [Index -> Nat]
  BY ExampleAssumption DEF Index, CounterInv, ExampleTypeOK
<1>1. /\ at[r] \in Early /\ message # NULL /\ message \in Buffers
      /\ UNCHANGED <<entry, message, got, shared, loader, cnt, run, i, kind>>
      /\ loader # "out" /\ row[r] \in Index
  BY DEF OpenHeads, OpenPrints, Fill, CounterInv, ExampleTypeOK, LoaderInv, Early, kind
<1>2. PICK page, w : /\ text' = [text EXCEPT ![message] = page]
                     /\ at' = [at EXCEPT ![r] = w]
                     /\ \/ /\ OpenHeads(r) /\ page = <<>> /\ w \in {"lock", "print"}
                           /\ row' = row
                        \/ /\ OpenPrints(r) /\ at[r] \in {"print", "minus"}
                           /\ page = Append(text[message],
                                            IF at[r] = "print" THEN cnt[row[r]] ELSE -1)
                           /\ w = IF row[r] + 1 < CNT_SIZE THEN at[r]
                                  ELSE IF locked THEN "unlock" ELSE "open"
                           /\ row' = [row EXCEPT ![r] = @ + 1]
  BY DEF OpenHeads, OpenPrints, Fill, Goto, opens
<1>3. /\ w \in Early \cup Late \cup {"closed"} /\ row' \in [Readers -> Nat]
      /\ \A q \in Readers : at'[q] \in Early => row'[q] \in Index
  <2>1. /\ at \in [Readers -> Early \cup Late \cup {"closed"}] /\ row \in [Readers -> Nat]
        /\ \A q \in Readers : at[q] \in Early => row[q] \in Index
    BY DEF CounterInv, ExampleTypeOK
  <2>2. w \in {"lock", "print", "minus", "unlock", "open"}
    BY <1>2
  <2>3. row[r] \in Nat /\ (row[r] + 1 < CNT_SIZE => row[r] + 1 \in Index)
    BY <1>0, <1>1 DEF Index
  <2>4. /\ at'[r] = w /\ \A q \in Readers : q # r => at'[q] = at[q]
        /\ row'[r] \in {row[r], row[r] + 1} /\ \A q \in Readers : q # r => row'[q] = row[q]
        /\ row' \in [Readers -> Nat]
    BY <1>2, <2>1, <2>3
  <2>5. w \in Early => row'[r] \in Index
    <3>1. CASE row' = row
      BY <1>1, <3>1
    <3>2. CASE row' = [row EXCEPT ![r] = @ + 1] /\ row' # row
      BY <1>2, <2>1, <2>3, <3>2 DEF Early
    <3> QED
      BY <1>2, <3>1, <3>2
  <2> QED
    BY <2>1, <2>2, <2>4, <2>5 DEF Early, Late
<1>4. page \in Seq(Int)
  <2>1. text[message] \in Seq(Int) /\ cnt[row[r]] \in Int
    BY <1>0, <1>1 DEF CounterInv, ExampleTypeOK
  <2>2. ASSUME NEW v \in Int PROVE Append(text[message], v) \in Seq(Int)
    BY <2>1
  <2>3. <<>> \in Seq(Int) /\ -1 \in Int
    OBVIOUS
  <2> QED
    BY <1>2, <2>1, <2>2, <2>3
<1>5. ExampleTypeOK'
  <2>1. text' \in [Buffers -> Seq(Int)]
    BY <1>2, <1>4 DEF CounterInv, ExampleTypeOK
  <2>2. at' \in [Readers -> Early \cup Late \cup {"closed"}]
    BY <1>2, <1>3 DEF CounterInv, ExampleTypeOK
  <2> QED
    BY <1>1, <1>3, <2>1, <2>2 DEF CounterInv, ExampleTypeOK, kind
<1>6. LoaderInv' /\ CounterShape'
  BY <1>1 DEF CounterInv, LoaderInv, CounterShape
<1>7. text'[message'] = page /\ at'[r] = w
  BY <1>1, <1>2 DEF CounterInv, ExampleTypeOK
<1>8. ASSUME ~shared PROVE Ahead(r)'
  <2>1. CASE OpenHeads(r) /\ page = <<>> /\ w \in {"lock", "print"}
    BY <1>7, <2>1, EmptyPage DEF Ahead
  <2>2. CASE OpenPrints(r) /\ at[r] \in {"print", "minus"}
             /\ page = Append(text[message], IF at[r] = "print" THEN cnt[row[r]] ELSE -1)
             /\ w \in {at[r], "unlock", "open"}
    <3> DEFINE p == text[message]
               v == IF at[r] = "print" THEN cnt[row[r]] ELSE -1
    <3>1. /\ p \in LagPages
          /\ \A n \in 1 .. Len(p) : \A k \in Index : cnt[k] >= p[n] - 1
          /\ at[r] = "minus" => \A n \in 1 .. Len(p) : p[n] = -1
      BY <1>8, <2>2 DEF CounterInv, PrintedAhead, Ahead
    <3>2. v \in Int /\ \A k \in Index : cnt[k] >= v - 1
      <4>1. cnt[row[r]] \in Nat /\ \A k \in Index : cnt[k] >= cnt[row[r]] - 1
        BY <1>0, <1>1 DEF CounterInv, CounterShape
      <4>2. \A k \in Index : cnt[k] >= -1 - 1
        BY <1>0
      <4> QED
        BY <4>1, <4>2
    <3>3. p \in Seq(Int) /\ Len(p) \in Nat
      BY <3>1 DEF LagPages
    <3>4. \A j \in 1 .. Len(p) : v >= p[j] - 1
      <4>1. CASE at[r] = "print"
        BY <1>1, <3>1, <4>1
      <4>2. CASE at[r] = "minus"
        BY <3>1, <4>2
      <4> QED
        BY <2>2, <4>1, <4>2
    <3> HIDE DEF p, v
    <3>5. page = Append(p, v) /\ page \in LagPages
      BY <2>2, <3>1, <3>2, <3>4, LaggingAppend DEF p, v
    <3>6. /\ Len(page) = Len(p) + 1
          /\ \A n \in 1 .. Len(p) : page[n] = p[n]
          /\ page[Len(p) + 1] = v
      BY <3>2, <3>3, <3>5
    <3>7. \A n \in 1 .. Len(page) : n \in 1 .. Len(p) \/ n = Len(p) + 1
      BY <3>3, <3>6
    <3>8. \A n \in 1 .. Len(page) : \A k \in Index : cnt[k] >= page[n] - 1
      BY <3>1, <3>2, <3>6, <3>7
    <3>9. at[r] = "minus" => \A n \in 1 .. Len(page) : page[n] = -1
      BY <3>1, <3>6, <3>7 DEF v
    <3> QED
      BY <1>1, <1>7, <2>2, <3>5, <3>8, <3>9 DEF Ahead
  <2> QED
    BY <1>2, <2>1, <2>2
<1>9. OneAtATime' /\ PrintedAhead'
  <2>1. ~shared => got' \in [Readers -> Seq(LagPages)]
    BY <1>1 DEF CounterInv, PrintedAhead
  <2>2. at[r] # "closed"
    BY <1>1 DEF Early
  <2> QED
    BY <1>1, <1>2, <1>3, <1>8, <2>1, <2>2, ReaderKeeps
<1> QED
  BY <1>5, <1>6, <1>9 DEF CounterInv

(* The steps of the handlers that do not print. *)
LEMMA HandlerSteps ==
    ASSUME CounterInv, NEW r \in Readers,
           \/ OpenLocks(r) \/ OpenInterrupted(r) \/ OpenOopses(r) \/ OpenUnlocks(r)
           \/ thread_proc_read(r)
    PROVE  CounterInv'
<1>1. /\ at[r] # "closed" /\ loader # "out" /\ disturbed' \in BOOLEAN
      /\ UNCHANGED <<entry, message, text, shared, loader, cnt, run, i, opens, locked>>
  BY DEF OpenLocks, OpenInterrupted, OpenOopses, OpenUnlocks, thread_proc_read, ReadEntry,
     ReadsOn, CopyToUser, CounterInv, ExampleTypeOK, LoaderInv, kind
<1>2. PICK w \in {"print", "minus", "open", "eof", "copy", "oops"} :
         /\ at' = [at EXCEPT ![r] = w] /\ (w \in {"print", "minus"} => at[r] = "lock")
         /\ w # "oops" => at[r] \notin {"head", "oops"}
  BY DEF OpenLocks, OpenInterrupted, OpenOopses, OpenUnlocks, thread_proc_read, ReadEntry,
     ReadsOn, CopyToUser, Goto
<1>3. \/ got' = got \/ got' = [got EXCEPT ![r] = <<>>]
      \/ /\ message # NULL /\ at[r] = "copy"
         /\ got' = [got EXCEPT ![r] =
                      Append(IF Len(@) = MaxPages THEN Tail(@) ELSE @, text[message])]
  BY DEF OpenLocks, OpenInterrupted, OpenOopses, OpenUnlocks, thread_proc_read, ReadEntry,
     ReadsOn, CopyToUser
<1>4. ASSUME NEW S, got \in [Readers -> Seq(S)],
             at[r] = "copy" /\ message # NULL => text[message] \in S
      PROVE  got' \in [Readers -> Seq(S)]
  <2>1. CASE got' = got \/ got' = [got EXCEPT ![r] = <<>>]
    BY <1>4, <2>1, EmptyPage
  <2>2. CASE message # NULL /\ at[r] = "copy"
             /\ got' = [got EXCEPT ![r] =
                          Append(IF Len(@) = MaxPages THEN Tail(@) ELSE @, text[message])]
    <3>1. Append(IF Len(got[r]) = MaxPages THEN Tail(got[r]) ELSE got[r], text[message])
            \in Seq(S)
      BY <1>4, <2>2, CopiedPages
    <3> QED
      BY <1>4, <2>2, <3>1
  <2> QED
    BY <1>3, <2>1, <2>2
<1>5. got' \in [Readers -> Seq(Seq(Int))]
  <2>1. got \in [Readers -> Seq(Seq(Int))] /\ (message # NULL => text[message] \in Seq(Int))
    BY DEF CounterInv, ExampleTypeOK
  <2> QED
    BY <1>4, <2>1
<1>6. /\ at'[r] = w /\ \A q \in Readers : q # r => at'[q] = at[q]
      /\ at' \in [Readers -> Early \cup Late \cup {"closed"}]
  BY <1>2 DEF CounterInv, ExampleTypeOK, Early, Late
<1>7. ExampleTypeOK'
  <2>1. \A q \in Readers : at'[q] \in Early => row'[q] \in Index
    BY <1>1, <1>2, <1>6 DEF CounterInv, ExampleTypeOK, Early, opens
  <2> QED
    BY <1>1, <1>5, <1>6, <2>1 DEF CounterInv, ExampleTypeOK, opens
<1>8. LoaderInv' /\ CounterShape'
  BY <1>1 DEF CounterInv, LoaderInv, CounterShape
<1>9. ASSUME ~shared PROVE got' \in [Readers -> Seq(LagPages)] /\ Ahead(r)'
  <2>1. got \in [Readers -> Seq(LagPages)] /\ Ahead(r)
    BY <1>9 DEF CounterInv, PrintedAhead
  <2>2. got' \in [Readers -> Seq(LagPages)]
    BY <1>4, <2>1 DEF Ahead
  <2>3. Ahead(r)'
    <3> SUFFICES ASSUME w # "oops" PROVE Ahead(r)'
      BY <1>6 DEF Ahead
    <3>1. /\ text[message] \in LagPages
          /\ \A n \in 1 .. Len(text[message]) : \A k \in Index : cnt[k] >= text[message][n] - 1
          /\ at[r] = "lock" => text[message] = <<>>
      BY <1>1, <1>2, <2>1 DEF Ahead
    <3> QED
      BY <1>1, <1>2, <1>6, <3>1, EmptyPage DEF Ahead
  <2> QED
    BY <2>2, <2>3
<1>10. OneAtATime' /\ PrintedAhead'
  <2>1. w \in Early \cup Late \cup {"closed"}
    BY DEF Early, Late
  <2> QED
    BY <1>1, <1>2, <1>9, <2>1, ReaderKeeps
<1> QED
  BY <1>7, <1>8, <1>10 DEF CounterInv

LEMMA ReleaseStep ==
    ASSUME CounterInv, NEW r \in Readers, thread_proc_release(r)
    PROVE  CounterInv'
<1>1. /\ at[r] # "closed" /\ at' = [at EXCEPT ![r] = "closed"]
      /\ got' = [got EXCEPT ![r] = <<>>]
      /\ text' = [b \in Buffers |-> IF b \in live' THEN text[b] ELSE <<>>]
      /\ UNCHANGED <<entry, message, shared, loader, cnt, run, i, opens, kind>>
  BY DEF thread_proc_release, ReleaseEntry, Forget, Goto
<1>2. text' \in [Buffers -> Seq(Int)]
  BY <1>1, EmptyPage DEF CounterInv, ExampleTypeOK
<1>3. /\ at'[r] = "closed" /\ at' \in [Readers -> Early \cup Late \cup {"closed"}]
      /\ \A q \in Readers : at'[q] \in {at[q], "closed"}
  BY <1>1 DEF CounterInv, ExampleTypeOK
<1>4. got' \in [Readers -> Seq(Seq(Int))]
  BY <1>1, EmptyPage DEF CounterInv, ExampleTypeOK
<1>5. ExampleTypeOK'
  BY <1>1, <1>2, <1>3, <1>4 DEF CounterInv, ExampleTypeOK, Early, opens, kind
<1>6. LoaderInv' /\ CounterShape'
  BY <1>1, <1>3 DEF CounterInv, LoaderInv, CounterShape
<1>7. ~shared => got' \in [Readers -> Seq(LagPages)] /\ Ahead(r)'
  BY <1>1, <1>3, EmptyPage DEF CounterInv, PrintedAhead, Ahead
<1>8. OneAtATime' /\ PrintedAhead'
  BY <1>1, <1>7, ReaderKeeps
<1> QED
  BY <1>5, <1>6, <1>8 DEF CounterInv

LEMMA CounterInvStep == CounterInv /\ [Next]_vars => CounterInv'
<1> SUFFICES ASSUME CounterInv, [Next]_vars PROVE CounterInv'
  OBVIOUS
<1>1. CASE UNCHANGED vars
  BY <1>1 DEF vars, procVars, kind, opens, CounterInv, ExampleTypeOK, LoaderInv, CounterShape,
     OneAtATime, PrintedAhead, Ahead
<1> QED
  BY <1>1, LoaderSteps, IncrementStep, RunSteps, OpenSteps, PrintSteps, HandlerSteps,
     ReleaseStep DEF Next

(* The inductive invariant of both examples, with and without the lock:    *)
(* the counters are at most one apart, and so is what a reader prints of   *)
(* them into a buffer of its own.                                          *)
THEOREM CounterInvariant == Spec => []CounterInv
BY CounterInvInit, CounterInvStep, PTL DEF Spec

(* However the loop of the thread and that of an open interleave, with or  *)
(* without the mutex and whatever signals come, a number on a page is at   *)
(* most one cycle behind those before it, until two readers overlap.       *)
THEOREM PagesLagAtMostOne == Spec => []LagAtMostOne
<1>1. CounterInv => LagAtMostOne
  <2> SUFFICES ASSUME CounterInv, ~shared, NEW p \in Pages PROVE Lagging(p)
    BY DEF LagAtMostOne, Lagging
  <2>1. p \in LagPages
    BY PagesIn DEF CounterInv, PrintedAhead
  <2> QED
    BY <2>1 DEF LagPages
<1> QED
  BY <1>1, CounterInvariant, PTL

-----------------------------------------------------------------------------
(* Example 7: what the mutex adds. *)

(* The two loops exclude each other. *)
Guarded ==
    locked /\ ~disturbed =>
        /\ run \in {"body", "unlock"} => owner = Thread
        /\ \A r \in Readers : at[r] \in {"print", "unlock"} => owner = r
        /\ \A r \in Readers : at[r] # "minus"

(* How far the open of r has come with the array. *)
Printing(r) ==
    /\ at[r] = "head" => row[r] = 0
    /\ at[r] = "lock" => text[message] = <<>> /\ row[r] = 0
    /\ at[r] = "print" => /\ Len(text[message]) = row[r]
                          /\ \A n \in 1 .. row[r] : text[message][n] = cnt[0]
    /\ at[r] \in {"unlock", "open", "copy", "eof"} => Whole(text[message])

WholeInv ==
    locked /\ ~disturbed /\ ~shared =>
        got \in [Readers -> Seq(WholePages)] /\ \A r \in Readers : Printing(r)

RegionInv == CounterInv /\ Guarded /\ WholeInv

LEMMA RegionInvInit == Init => RegionInv
<1> SUFFICES ASSUME Init PROVE RegionInv
  OBVIOUS
<1>1. got \in [Readers -> Seq(WholePages)]
  BY DEF Init, ProcInit
<1> QED
  BY <1>1, CounterInvInit
     DEF Init, ProcInit, RegionInv, Guarded, WholeInv, Printing

(* locked is fixed, and the history variables stay TRUE once they are.     *)
LEMMA HistorySteps ==
    ASSUME CounterInv, [Next]_vars
    PROVE  locked' = locked /\ (disturbed => disturbed') /\ (shared => shared')
<1> USE DEF kind, procVars
<1>1. CASE thread_init \/ thread_exit \/ ThreadExitRemoves
  BY <1>1 DEF thread_init, thread_exit, ThreadExitRemoves, RemoveEntry
<1>2. CASE thread_init_parameter
  BY <1>2 DEF thread_init_parameter
<1>3. CASE RunTests \/ RunLocks \/ RunIncrements \/ RunUnlocks
  BY <1>3 DEF RunTests, RunLocks, RunIncrements, RunUnlocks
<1>4. ASSUME NEW r \in Readers, OpenAllocates(r) \/ OpenFails(r)
      PROVE  locked' = locked /\ disturbed' = disturbed /\ (shared => shared')
  BY <1>4 DEF OpenAllocates, OpenEntry, OpenFails, Enter
<1>5. ASSUME NEW r \in Readers, OpenInterrupted(r)
      PROVE  locked' = locked /\ disturbed' /\ shared' = shared
  BY <1>5 DEF OpenInterrupted
<1>6. ASSUME NEW r \in Readers,
             \/ OpenLocks(r) \/ OpenHeads(r) \/ OpenPrints(r) \/ OpenOopses(r)
             \/ OpenUnlocks(r) \/ thread_proc_read(r) \/ thread_proc_release(r)
      PROVE  locked' = locked /\ disturbed' = disturbed /\ shared' = shared
  BY <1>6 DEF OpenLocks, OpenHeads, OpenPrints, OpenOopses, OpenUnlocks, thread_proc_read,
     thread_proc_release, Fill, ReadEntry, CopyToUser, ReleaseEntry
<1>7. CASE UNCHANGED vars
  BY <1>7 DEF vars
<1> QED
  BY <1>1, <1>2, <1>3, <1>4, <1>5, <1>6, <1>7 DEF Next

LEMMA GuardedStep ==
    ASSUME CounterInv, Guarded, [Next]_vars
    PROVE  Guarded'
<1> DEFINE Goal == /\ run' \in {"body", "unlock"} => owner' = Thread
                   /\ \A r \in Readers : at'[r] \in {"print", "unlock"} => owner' = r
                   /\ \A r \in Readers : at'[r] # "minus"
<1> SUFFICES ASSUME locked', ~disturbed' PROVE Goal
  BY DEF Guarded
<1> USE TasksAssumption, ExampleAssumption DEF Goto, MutexFree, Acquire, Unlock
<1>0. at \in [Readers -> Early \cup Late \cup {"closed"}]
  BY DEF CounterInv, ExampleTypeOK
<1>1. locked /\ ~disturbed
  BY HistorySteps
<1>2. /\ run \in {"body", "unlock"} => owner = Thread
      /\ \A r \in Readers : at[r] \in {"print", "unlock"} => owner = r
      /\ \A r \in Readers : at[r] # "minus"
      /\ \A r \in Readers : r \in Tasks /\ r # Thread
      /\ Thread \in Tasks
  BY <1>1 DEF Guarded
(* Who holds the mutex keeps it until it unlocks. *)
<1>3. ASSUME owner' = owner,
             run' \in {"body", "unlock"} => run \in {"body", "unlock"},
             \A r \in Readers :
                /\ at'[r] \in {"print", "unlock"} => at[r] \in {"print", "unlock"}
                /\ at'[r] # "minus"
      PROVE  Goal
  BY <1>2, <1>3
<1>4. CASE thread_init \/ thread_exit
  BY <1>2, <1>3, <1>4 DEF thread_init, thread_exit, procVars
<1>5. CASE thread_init_parameter
  BY <1>2, <1>5 DEF thread_init_parameter, procVars
<1>6. CASE ThreadExitRemoves
  BY <1>3, <1>6 DEF ThreadExitRemoves, RemoveEntry
<1>7. CASE RunTests \/ RunIncrements
  BY <1>1, <1>2, <1>3, <1>7 DEF RunTests, RunIncrements, procVars
<1>8. CASE RunLocks \/ RunUnlocks
  BY <1>2, <1>8 DEF RunLocks, RunUnlocks, procVars
<1>9. ASSUME NEW r \in Readers, OpenAllocates(r) \/ OpenFails(r) PROVE Goal
  BY <1>0, <1>1, <1>2, <1>3, <1>9 DEF OpenAllocates, OpenEntry, OpenFails
<1>10. ASSUME NEW r \in Readers, OpenLocks(r) \/ OpenUnlocks(r) PROVE Goal
  BY <1>0, <1>2, <1>10 DEF OpenLocks, OpenUnlocks
<1>11. ASSUME NEW r \in Readers, OpenInterrupted(r) PROVE FALSE
  BY <1>11 DEF OpenInterrupted
<1>12. ASSUME NEW r \in Readers, OpenHeads(r) \/ OpenPrints(r) \/ OpenOopses(r) PROVE Goal
  <2>1. /\ \A q \in Readers : q # r => at'[q] = at[q]
        /\ at'[r] \in {"print", "unlock"} => at[r] = "print"
        /\ at'[r] # "minus" /\ owner' = owner /\ run' = run
    <3>1. CASE OpenHeads(r)
      <4>1. at' = [at EXCEPT ![r] = "lock"] /\ owner' = owner /\ run' = run
        BY <1>1, <3>1 DEF OpenHeads, Fill
      <4> QED
        BY <1>0, <4>1
    <3>2. CASE OpenPrints(r)
      <4>1. /\ at[r] = "print" /\ owner' = owner /\ run' = run
            /\ at' = [at EXCEPT ![r] = IF row[r] + 1 < CNT_SIZE THEN "print" ELSE "unlock"]
        BY <1>1, <1>2, <3>2 DEF OpenPrints, Fill
      <4> QED
        BY <1>0, <4>1
    <3>3. CASE OpenOopses(r)
      BY <1>0, <3>3 DEF OpenOopses
    <3> QED
      BY <1>12, <3>1, <3>2, <3>3
  <2> QED
    BY <1>0, <1>2, <1>3, <2>1
<1>13. ASSUME NEW r \in Readers, thread_proc_read(r) \/ thread_proc_release(r) PROVE Goal
  BY <1>0, <1>1, <1>2, <1>3, <1>13
     DEF thread_proc_read, thread_proc_release, ReadEntry, CopyToUser, ReleaseEntry
<1>14. CASE UNCHANGED vars
  BY <1>2, <1>3, <1>14 DEF vars, procVars
<1> QED
  BY <1>4, <1>5, <1>6, <1>7, <1>8, <1>9, <1>10, <1>11, <1>12, <1>13, <1>14 DEF Next

LEMMA WholeStep ==
    ASSUME RegionInv, [Next]_vars
    PROVE  WholeInv'
<1> SUFFICES ASSUME locked', ~disturbed', ~shared'
             PROVE  got' \in [Readers -> Seq(WholePages)] /\ \A r \in Readers : Printing(r)'
  BY DEF WholeInv
<1> DEFINE Goal == got' \in [Readers -> Seq(WholePages)] /\ \A r \in Readers : Printing(r)'
<1> USE DEF Goto
<1>0. /\ at \in [Readers -> Early \cup Late \cup {"closed"}]
      /\ text \in [Buffers -> Seq(Int)] /\ message \in Buffers \cup {NULL}
      /\ row \in [Readers -> Nat] /\ cnt \in [Index -> Nat]
      /\ CNT_SIZE \in Nat \ {0}
  BY ExampleAssumption DEF RegionInv, CounterInv, ExampleTypeOK
<1>1. locked /\ ~disturbed /\ ~shared
  BY HistorySteps DEF RegionInv
<1>2. got \in [Readers -> Seq(WholePages)] /\ \A r \in Readers : Printing(r)
  BY <1>1 DEF RegionInv, WholeInv
<1>3. ASSUME UNCHANGED <<text, message, row, cnt, got>>,
             \A r \in Readers : at'[r] = at[r] \/ at'[r] = "closed"
      PROVE  Goal
  BY <1>2, <1>3 DEF Printing
<1>4. CASE thread_init
  <2>1. \A r \in Readers : at'[r] = "closed"
    BY <1>4 DEF thread_init, RegionInv, CounterInv, LoaderInv
  <2> QED
    BY <1>2, <1>4, <2>1 DEF thread_init, Printing
<1>5. CASE thread_init_parameter
  <2>1. cnt' = cnt
    BY <1>5 DEF thread_init_parameter, RegionInv, CounterInv, LoaderInv, Index
  <2> QED
    BY <1>3, <1>5, <2>1 DEF thread_init_parameter, procVars, opens
<1>6. CASE thread_exit \/ RunTests \/ RunLocks \/ RunUnlocks
  BY <1>3, <1>6 DEF thread_exit, RunTests, RunLocks, RunUnlocks, procVars, opens
<1>17. CASE ThreadExitRemoves
  BY <1>17, EmptyPage DEF ThreadExitRemoves, RemoveEntry, Printing
<1>7. CASE RunIncrements
  <2>1. owner = Thread
    BY <1>1, <1>7 DEF RunIncrements, RegionInv, Guarded
  <2>2. \A r \in Readers : at[r] # "print"
    BY <1>1, <2>1, ExampleAssumption DEF RegionInv, Guarded
  <2> QED
    BY <1>2, <1>7, <2>2 DEF RunIncrements, Printing, procVars, opens
<1>8. ASSUME NEW r \in Readers, OpenAllocates(r) PROVE Goal
  <2>2. /\ \A q \in Readers : at[q] = "closed"
        /\ at' = [at EXCEPT ![r] = "head"]
        /\ row' = [row EXCEPT ![r] = 0]
        /\ got' = [got EXCEPT ![r] = <<>>]
    BY <1>1, <1>8 DEF OpenAllocates, OpenEntry, Enter
  <2>3. <<>> \in Seq(WholePages)
    OBVIOUS
  <2>5. /\ at'[r] = "head" /\ row'[r] = 0
        /\ \A q \in Readers : q # r => at'[q] = "closed"
    BY <1>0, <2>2
  <2>6. got' \in [Readers -> Seq(WholePages)]
    BY <1>2, <2>2, <2>3
  <2> QED
    BY <2>5, <2>6 DEF Printing
<1>9. ASSUME NEW r \in Readers, OpenFails(r) PROVE Goal
  <2>1. \A q \in Readers : at[q] = "closed"
    BY <1>9 DEF OpenFails, Enter
  <2> QED
    BY <1>2, <1>9, <2>1 DEF OpenFails, Printing
(* A step of a handler concerns its own reader, the only one. *)
<1>10. ASSUME NEW r \in Readers, at[r] # "closed",
              \A q \in Readers : q # r => at'[q] = at[q],
              got' \in [Readers -> Seq(WholePages)], Printing(r)'
       PROVE  Goal
  <2>1. \A q \in Readers : q # r => at'[q] = "closed"
    BY <1>1, <1>10 DEF RegionInv, CounterInv, OneAtATime
  <2> QED
    BY <1>10, <2>1 DEF Printing
<1>11. ASSUME NEW r \in Readers, OpenLocks(r) PROVE Goal
  <2>1. /\ at[r] = "lock" /\ at'[r] = "print" /\ \A q \in Readers : q # r => at'[q] = at[q]
        /\ UNCHANGED <<text, message, row, cnt, got>>
    BY <1>0, <1>11 DEF OpenLocks, opens
  <2>2. text[message] = <<>> /\ row[r] = 0
    BY <1>2, <2>1 DEF Printing
  <2>3. Printing(r)'
    BY <2>1, <2>2 DEF Printing
  <2> QED
    BY <1>2, <1>10, <2>1, <2>3
<1>12. ASSUME NEW r \in Readers, OpenInterrupted(r) PROVE FALSE
  BY <1>12 DEF OpenInterrupted
<1>13. ASSUME NEW r \in Readers, OpenPrints(r) PROVE Goal
  <2> DEFINE p == text[message]
  <2>1. /\ at[r] = "print" /\ message # NULL /\ message \in Buffers
        /\ text' = [text EXCEPT ![message] = Append(p, cnt[row[r]])]
        /\ at' = [at EXCEPT ![r] = IF row[r] + 1 < CNT_SIZE THEN "print" ELSE "unlock"]
        /\ row' = [row EXCEPT ![r] = @ + 1]
        /\ UNCHANGED <<message, cnt, got>>
    BY <1>0, <1>1, <1>13 DEF OpenPrints, Fill, RegionInv, Guarded
  <2>2. row[r] \in Index /\ 0 \in Index /\ CNT_SIZE - 1 \in Index
    BY <1>0, <2>1 DEF RegionInv, CounterInv, ExampleTypeOK, Index, Early
  <2>3. owner = r /\ r # Thread
    BY <1>1, <2>1, ExampleAssumption DEF RegionInv, Guarded
  <2>4. i = 0
    BY <1>1, <2>3 DEF RegionInv, Guarded, CounterInv, CounterShape
  <2>5. cnt[row[r]] = cnt[0]
    BY <1>0, <2>2, <2>4 DEF RegionInv, CounterInv, CounterShape, Index
  <2>6. p \in Seq(Int) /\ Len(p) = row[r] /\ \A n \in 1 .. row[r] : p[n] = cnt[0]
    BY <1>0, <1>2, <2>1 DEF Printing
  <2>7. text'[message'] = Append(p, cnt[0])
    BY <1>0, <2>1, <2>5
  <2>8. /\ Len(text'[message']) = row[r] + 1
        /\ \A n \in 1 .. row[r] + 1 : text'[message'][n] = cnt[0]
    <3> HIDE DEF p
    <3>1. row[r] \in Nat /\ cnt[0] \in Int
      BY <1>0, <2>2
    <3>2. /\ Len(Append(p, cnt[0])) = row[r] + 1
          /\ \A n \in 1 .. row[r] : Append(p, cnt[0])[n] = p[n]
          /\ Append(p, cnt[0])[row[r] + 1] = cnt[0]
      BY <2>6, <3>1
    <3>3. \A n \in 1 .. row[r] + 1 : n \in 1 .. row[r] \/ n = row[r] + 1
      BY <3>1
    <3> QED
      BY <2>6, <2>7, <3>2, <3>3
  <2>9. /\ row'[r] = row[r] + 1
        /\ at'[r] = IF row[r] + 1 < CNT_SIZE THEN "print" ELSE "unlock"
        /\ \A q \in Readers : q # r => at'[q] = at[q]
    BY <1>0, <2>1
  <2>10. ~(row[r] + 1 < CNT_SIZE) => row[r] + 1 = CNT_SIZE
    BY <1>0, <2>2 DEF Index
  <2>11. Printing(r)'
    <3>1. CASE row[r] + 1 < CNT_SIZE
      BY <2>1, <2>8, <2>9, <3>1 DEF Printing
    <3>2. CASE ~(row[r] + 1 < CNT_SIZE)
      <4>1. Whole(text'[message'])
        BY <2>8, <2>10, <3>2 DEF Whole
      <4> QED
        BY <2>9, <3>2, <4>1 DEF Printing, Whole
    <3> QED
      BY <3>1, <3>2
  <2> QED
    BY <1>2, <1>10, <2>1, <2>9, <2>11
<1>14. ASSUME NEW r \in Readers, OpenUnlocks(r) \/ thread_proc_read(r) PROVE Goal
  <2>1. /\ at[r] \in {"unlock", "open", "copy", "eof"} /\ at'[r] \in {"open", "copy", "eof"}
        /\ \A q \in Readers : q # r => at'[q] = at[q]
        /\ UNCHANGED <<text, message, row, cnt>>
    BY <1>0, <1>14 DEF OpenUnlocks, thread_proc_read, ReadEntry, ReadsOn, CopyToUser, opens
  <2>2. Whole(text[message])
    BY <1>2, <2>1 DEF Printing
  <2>3. Printing(r)'
    BY <2>1, <2>2 DEF Printing, Whole
  <2>4. message \in Buffers /\ text[message] \in WholePages
    BY <1>0, <1>1, <2>1, <2>2 DEF RegionInv, CounterInv, OneAtATime, WholePages
  <2>5. Append(IF Len(got[r]) = MaxPages THEN Tail(got[r]) ELSE got[r], text[message])
          \in Seq(WholePages)
    BY <1>2, <2>4, CopiedPages
  <2>6. got' \in [Readers -> Seq(WholePages)]
    BY <1>2, <1>14, <2>5, EmptyPage
       DEF OpenUnlocks, thread_proc_read, ReadEntry, ReadsOn, CopyToUser
  <2> QED
    BY <1>10, <2>1, <2>3, <2>6
<1>15. ASSUME NEW r \in Readers, thread_proc_release(r) \/ OpenOopses(r) PROVE Goal
  <2>1. /\ at[r] # "closed" /\ at'[r] \in {"closed", "oops"}
        /\ \A q \in Readers : q # r => at'[q] = at[q]
        /\ got' = got \/ got' = [got EXCEPT ![r] = <<>>]
    BY <1>0, <1>15 DEF thread_proc_release, ReleaseEntry, OpenOopses
  <2>2. got' \in [Readers -> Seq(WholePages)]
    BY <1>2, <2>1, EmptyPage
  <2> QED
    BY <1>10, <2>1, <2>2 DEF Printing
<1>18. ASSUME NEW r \in Readers, OpenHeads(r) PROVE Goal
  <2>1. /\ at[r] = "head" /\ message # NULL /\ text' = [text EXCEPT ![message] = <<>>]
        /\ at' = [at EXCEPT ![r] = "lock"] /\ UNCHANGED <<message, row, got>>
    BY <1>1, <1>18 DEF OpenHeads, Fill, opens
  <2>2. row[r] = 0
    BY <1>2, <2>1 DEF Printing
  <2>3. /\ at'[r] = "lock" /\ text'[message'] = <<>>
        /\ \A q \in Readers : q # r => at'[q] = at[q]
    BY <1>0, <2>1
  <2>4. Printing(r)'
    BY <2>1, <2>2, <2>3 DEF Printing
  <2> QED
    BY <1>2, <1>10, <2>1, <2>3, <2>4
<1>16. CASE UNCHANGED vars
  BY <1>3, <1>16 DEF vars, procVars, opens
<1> QED
  BY <1>4, <1>5, <1>6, <1>7, <1>8, <1>9, <1>11, <1>12, <1>13, <1>14, <1>15, <1>16, <1>17,
     <1>18 DEF Next

LEMMA RegionInvStep == RegionInv /\ [Next]_vars => RegionInv'
BY CounterInvStep, GuardedStep, WholeStep DEF RegionInv

(* The inductive invariant of the locked example: the regions of thread.c  *)
(* exclude each other, and outside them the counters are equal.            *)
THEOREM RegionInvariant == Spec => []RegionInv
BY RegionInvInit, RegionInvStep, PTL DEF Spec

(* With the mutex of example 7 a reader that has the entry for itself sees *)
(* the whole array with one value in it, while no signal and no mutex_init *)
(* frees a mutex that is held.                                             *)
THEOREM LockedPagesAreUniform == Spec => []ValuesSame
<1>1. RegionInv => ValuesSame
  <2> SUFFICES ASSUME RegionInv, locked, ~disturbed, ~shared, NEW p \in Pages PROVE Whole(p)
    BY DEF ValuesSame, Whole
  <2>1. got \in [Readers -> Seq(WholePages)]
    BY DEF RegionInv, WholeInv
  <2>2. p \in WholePages
    BY <2>1, PagesIn
  <2> QED
    BY <2>2 DEF WholePages
<1> QED
  BY <1>1, RegionInvariant, PTL

=============================================================================
