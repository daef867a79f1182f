---------------------------- MODULE MyXtimeProofs ----------------------------
(***************************************************************************)
(* Proofs about /proc/timed, for any number of readers and of buffers, any *)
(* clock, any number of units to the second and any width of %lu.          *)
(***************************************************************************)
EXTENDS MyXtime, SequenceTheorems, TLAPS

-----------------------------------------------------------------------------
(* The arithmetic of struct timespec. *)

Stamps == [tv_sec : Nat, tv_nsec : 0 .. NSEC_PER_SEC - 1]

LEMMA DivMod ==
    ASSUME NEW x \in Int, NEW m \in Nat \ {0}
    PROVE  /\ x \div m \in Int /\ x % m \in 0 .. m - 1
           /\ x = (x \div m) * m + (x % m)
OBVIOUS

LEMMA ModIs ==
    ASSUME NEW x \in Int, NEW m \in Nat \ {0}, NEW q \in Int, NEW r \in 0 .. m - 1,
           x = q * m + r
    PROVE  x % m = r
OBVIOUS

(* The remainder of a difference is the difference of the remainders, if   *)
(* that is a remainder.                                                    *)
LEMMA ModDiff ==
    ASSUME NEW x \in Int, NEW y \in Int, NEW k \in Int, NEW m \in Nat \ {0},
           (x % m) - (y % m) - k \in 0 .. m - 1
    PROVE  (x - y - k) % m = (x % m) - (y % m) - k
<1> DEFINE q == (x \div m) - (y \div m)
           r == (x % m) - (y % m) - k
<1>1. /\ x \div m \in Int /\ x % m \in Int /\ x = (x \div m) * m + (x % m)
      /\ y \div m \in Int /\ y % m \in Int /\ y = (y \div m) * m + (y % m)
  BY DivMod
<1>2. q \in Int /\ r \in 0 .. m - 1 /\ x - y - k \in Int
  BY <1>1
<1>3. x - y - k = q * m + r
  BY <1>1
<1> HIDE DEF q, r
<1>4. (x - y - k) % m = r
  BY <1>2, <1>3, ModIs
<1> QED
  BY <1>4 DEF r

(* A product is positive only if its factor is. *)
LEMMA Positive ==
    ASSUME NEW a \in Int, NEW m \in Nat \ {0}, a * m > 0
    PROVE  a > 0
OBVIOUS

LEMMA StampsAre == \A t \in Nat : timespec(t) \in Stamps
<1> SUFFICES ASSUME NEW t \in Nat PROVE timespec(t) \in Stamps
  OBVIOUS
<1>1. NSEC_PER_SEC \in Nat \ {0}
  BY TimesAssumption
<1>2. t \div NSEC_PER_SEC \in Nat /\ t % NSEC_PER_SEC \in 0 .. NSEC_PER_SEC - 1
  BY <1>1
<1> QED
  BY <1>2 DEF timespec, Stamps

(* What "%lu.%lu" shows of the difference of two times is the difference   *)
(* of what it shows of them, if that is not negative: also when the        *)
(* nanoseconds are borrowed for and the seconds have wrapped around.       *)
LEMMA ElapsedShown ==
    ASSUME NEW s \in Stamps, NEW t \in Stamps,
           value(Printed(s)) - value(Printed(t)) >= 0
    PROVE  value(Printed(timespec_sub(s, t))) = value(Printed(s)) - value(Printed(t))
<1> DEFINE N == NSEC_PER_SEC
           R == ULONG_RANGE
           S == s.tv_sec
           T == t.tv_sec
           n == s.tv_nsec - t.tv_nsec
           a == S % R
           b == T % R
           k == IF s.tv_nsec < t.tv_nsec THEN 1 ELSE 0
<1>1. N \in Nat \ {0} /\ R \in Nat \ {0}
  BY TimesAssumption
<1>2. S \in Int /\ T \in Int /\ n \in 1 - N .. N - 1
  BY <1>1 DEF Stamps
<1>3. k \in Int /\ (n < 0 => k = 1) /\ (n >= 0 => k = 0)
  BY <1>1 DEF Stamps
<1>4. a \in 0 .. R - 1 /\ b \in 0 .. R - 1
  BY <1>1, <1>2, DivMod
<1>5. value(Printed(s)) - value(Printed(t)) = (a - b) * N + n
  <2>1. /\ value(Printed(s)) = a * N + s.tv_nsec
        /\ value(Printed(t)) = b * N + t.tv_nsec
    BY DEF value, Printed
  <2>2. s.tv_nsec \in Int /\ t.tv_nsec \in Int
    BY <1>1 DEF Stamps
  <2> HIDE DEF a, b, N
  <2> QED
    BY <1>1, <1>4, <2>1, <2>2
<1>6. value(Printed(timespec_sub(s, t))) = ((S - T - k) % R) * N + (n + k * N)
  <2>1. timespec_sub(s, t) = [tv_sec |-> S - T - k, tv_nsec |-> n + k * N]
    BY <1>1 DEF timespec_sub
  <2> HIDE DEF k, n
  <2> QED
    BY <2>1 DEF value, Printed
<1> HIDE DEF N, R, S, T, n, k
<1>7. a - b - k \in 0 .. R - 1 => (S - T - k) % R = a - b - k
  <2> SUFFICES ASSUME (S % R) - (T % R) - k \in 0 .. R - 1
               PROVE  (S - T - k) % R = (S % R) - (T % R) - k
    OBVIOUS
  <2>1. S \in Int /\ T \in Int /\ k \in Int /\ R \in Nat \ {0}
    BY <1>1, <1>2, <1>3
  <2> QED
    BY ONLY <2>1, (S % R) - (T % R) - k \in 0 .. R - 1, ModDiff
<1> HIDE DEF a, b
<1>8. a - b - k \in 0 .. R - 1
  <2>1. (a - b) * N + n >= 0
    BY <1>5
  <2>2. CASE n < 0
    <3>1. (a - b) * N > 0
      BY <1>1, <1>2, <1>4, <2>1, <2>2
    <3>2. a - b > 0
      <4>1. a - b \in Int
        BY <1>1, <1>4
      <4> QED
        BY <1>1, <4>1, <3>1, Positive
    <3> QED
      BY <1>1, <1>3, <1>4, <2>2, <3>2
  <2>3. CASE n >= 0
    <3>1. (a - b + 1) * N > 0
      BY <1>1, <1>2, <1>4, <2>1
    <3>2. a - b + 1 > 0
      BY <1>1, <1>4, <3>1, Positive
    <3> QED
      BY <1>1, <1>3, <1>4, <2>3, <3>2
  <2> QED
    BY <1>2, <2>2, <2>3
<1>9. (a - b - k) * N + (n + k * N) = (a - b) * N + n
  BY <1>1, <1>2, <1>3, <1>4
<1> QED
  BY <1>5, <1>6, <1>7, <1>8, <1>9

-----------------------------------------------------------------------------
(* The inductive invariant, in parts. *)

Spans == [tv_sec : Int, tv_nsec : Int]
Pages == [time : Spans, elapsed : SUBSET Spans]
Using == {"open", "eof", "stamp", "elapse", "copy", "store"}

TimeTypeOK ==
    /\ message \in Buffers \cup {NULL}
    /\ read_p \in {0, 1}
    /\ live \in SUBSET Buffers
    /\ text \in [Buffers -> Pages]
    /\ at \in [Readers -> Using \cup {"closed"}]
    /\ got \in [Readers -> Seq(Pages)]
    /\ shared \in BOOLEAN
    /\ now \in Nat
    /\ curr_t \in Stamps
    /\ prev_t \in Spans
    /\ called \in {0, 1}
    /\ shown \in Seq(Pages)

(* Readers that come one after the other, and only while there is an entry. *)
OneReader ==
    /\ ~entry => \A r \in Readers : at[r] = "closed"
    /\ ~shared => \A q, r \in Readers : at[q] # "closed" /\ at[r] # "closed" => q = r

(* The one buffer is the one message points to, from the open to the close. *)
OneBuffer ==
    ~shared =>
        /\ (\A r \in Readers : at[r] = "closed") => live = {}
        /\ \A r \in Readers : at[r] # "closed" => message \in Buffers /\ live = {message}

(* Page q, shown after page p, shows the time between them. *)
Follows(p, q) ==
    value(q.time) - value(p.time) >= 0 =>
        \E d \in q.elapsed : value(d) = value(q.time) - value(p.time)

ShownInv ==
    ~shared =>
        /\ Len(shown) <= 2
        /\ Len(shown) = 1 => shown[1].elapsed = {}
        /\ Len(shown) = 2 => Follows(shown[1], shown[2])

(* Until a read computes the difference, and after it has stored the time, *)
(* prev_t is the time of the last page shown.                              *)
Between == \A r \in Readers : at[r] \notin {"copy", "store"}

PrevInv ==
    ~shared /\ Between =>
        /\ prev_t \in Stamps
        /\ shown = <<>> => called = 0
        /\ shown # <<>> => called = 1 /\ shown[Len(shown)].time = Printed(prev_t)

(* What a read has in the buffer at each of its steps. *)
Reading(r) ==
    /\ at[r] \in {"elapse", "copy"} => text[message].time = Printed(curr_t)
    /\ at[r] = "copy" /\ shown = <<>> => text[message].elapsed = {}
    /\ at[r] = "copy" /\ shown # <<>> => Follows(shown[Len(shown)], text[message])
    /\ at[r] = "store" => shown # <<>> /\ shown[Len(shown)].time = Printed(curr_t)

ReadInv == ~shared => \A r \in Readers : Reading(r)

TimeInv == TimeTypeOK /\ OneReader /\ OneBuffer /\ ShownInv /\ PrevInv /\ ReadInv

LEMMA SpansAre == \A ts \in Stamps : ts \in Spans /\ Printed(ts) \in Spans
<1> SUFFICES ASSUME NEW ts \in Stamps PROVE ts \in Spans /\ Printed(ts) \in Spans
  OBVIOUS
<1>1. ULONG_RANGE \in Nat \ {0} /\ NSEC_PER_SEC \in Nat \ {0}
  BY TimesAssumption
<1>2. ts = [tv_sec |-> ts.tv_sec, tv_nsec |-> ts.tv_nsec] /\ ts.tv_sec \in Nat
  BY DEF Stamps
<1>3. ts.tv_nsec \in Int
  BY <1>1 DEF Stamps
<1>4. ts.tv_sec % ULONG_RANGE \in Int
  BY <1>1, <1>2
<1> QED
  BY <1>2, <1>3, <1>4 DEF Spans, Printed

LEMMA SubSpans ==
    ASSUME NEW s \in Stamps, NEW t \in Spans
    PROVE  timespec_sub(s, t) \in Spans /\ Printed(timespec_sub(s, t)) \in Spans
<1> DEFINE d == timespec_sub(s, t)
<1>1. ULONG_RANGE \in Nat \ {0} /\ NSEC_PER_SEC \in Nat \ {0}
  BY TimesAssumption
<1>2. s.tv_sec \in Int /\ s.tv_nsec \in Int /\ t.tv_sec \in Int /\ t.tv_nsec \in Int
  BY <1>1 DEF Stamps, Spans
<1>3. d \in Spans
  BY <1>1, <1>2 DEF timespec_sub, Spans
<1> HIDE DEF d
<1>4. d.tv_sec % ULONG_RANGE \in Int /\ d.tv_nsec \in Int
  BY <1>1, <1>3 DEF Spans
<1> QED
  BY <1>3, <1>4 DEF Spans, Printed, d

-----------------------------------------------------------------------------
(* The steps. *)

LEMMA TimeInvInit == Init => TimeInv
<1> SUFFICES ASSUME Init PROVE TimeInv
  OBVIOUS
<1>1. timespec(0) \in Stamps /\ timespec(0) \in Spans
  BY StampsAre, SpansAre
<1>2. TimeTypeOK
  <2>1. /\ at \in [Readers -> Using \cup {"closed"}]
        /\ got \in [Readers -> Seq(Pages)] /\ shown \in Seq(Pages)
    BY DEF Init, ProcInit
  <2>2. text \in [Buffers -> Pages]
    BY <1>1 DEF Init, ProcInit, Pages
  <2>3. now \in Nat
    BY TimesAssumption DEF Init
  <2> QED
    BY <1>1, <2>1, <2>2, <2>3 DEF Init, ProcInit, TimeTypeOK
<1>3. OneReader /\ OneBuffer
  BY DEF Init, ProcInit, OneReader, OneBuffer
<1>4. ShownInv /\ PrevInv
  BY <1>1 DEF Init, ShownInv, PrevInv
<1>5. ReadInv
  BY DEF Init, ProcInit, ReadInv, Reading
<1> QED
  BY <1>2, <1>3, <1>4, <1>5 DEF TimeInv

LEMMA ClockStep ==
    ASSUME TimeInv, Clock
    PROVE  TimeInv'
<1>1. now' \in Nat
  BY TimesAssumption DEF Clock
<1> QED
  BY <1>1 DEF Clock, procVars, TimeInv, TimeTypeOK, OneReader, OneBuffer, ShownInv, PrevInv,
     Between, ReadInv, Reading

LEMMA ModuleSteps ==
    ASSUME TimeInv, myxtime_init \/ myxtime_exit
    PROVE  TimeInv'
<1>1. CASE myxtime_init
  <2>1. /\ \A r \in Readers : at[r] = "closed"
        /\ UNCHANGED <<message, read_p, live, text, at, got, shared, now>>
        /\ called' = 0 /\ shown' = <<>>
        /\ curr_t' = timespec(0) /\ prev_t' = timespec(0) /\ entry' = TRUE
    BY <1>1 DEF myxtime_init, TimeInv, OneReader
  <2>2. timespec(0) \in Stamps /\ timespec(0) \in Spans
    BY StampsAre, SpansAre
  <2>3. TimeTypeOK'
    BY <2>1, <2>2 DEF TimeInv, TimeTypeOK
  <2>4. OneReader' /\ OneBuffer'
    BY <2>1 DEF TimeInv, OneReader, OneBuffer
  <2>5. ShownInv' /\ PrevInv'
    BY <2>1, <2>2 DEF ShownInv, PrevInv
  <2>6. ReadInv'
    BY <2>1 DEF ReadInv, Reading
  <2> QED
    BY <2>3, <2>4, <2>5, <2>6 DEF TimeInv
<1>2. CASE myxtime_exit
  <2>1. /\ \A r \in Readers : at[r] \in {"closed", "open", "eof"}
        /\ at' = [r \in Readers |-> "closed"]
        /\ live' = IF \A r \in Readers : at[r] = "closed" THEN live ELSE live \ {message}
        /\ got' = [r \in Readers |-> <<>>]
        /\ UNCHANGED <<message, read_p, text, shared, timeVars>>
    BY <1>2 DEF myxtime_exit, RemoveEntry
  <2>2. TimeTypeOK'
    <3>1. live' \in SUBSET Buffers /\ got' \in [Readers -> Seq(Pages)]
      BY <2>1 DEF TimeInv, TimeTypeOK
    <3> QED
      BY <2>1, <3>1 DEF TimeInv, TimeTypeOK, timeVars
  <2>3. OneReader'
    BY <2>1 DEF OneReader
  <2>4. OneBuffer'
    BY <2>1 DEF TimeInv, OneBuffer
  <2>5. ShownInv' /\ PrevInv' /\ ReadInv'
    BY <2>1 DEF TimeInv, ShownInv, PrevInv, Between, ReadInv, Reading, timeVars
  <2> QED
    BY <2>2, <2>3, <2>4, <2>5 DEF TimeInv
<1> QED
  BY <1>1, <1>2

LEMMA OpenSteps ==
    ASSUME TimeInv, NEW r \in Readers, myxtime_proc_open(r) \/ OpenFails(r)
    PROVE  TimeInv'
<1>1. /\ entry /\ at[r] = "closed"
      /\ \E w \in {"open", "closed"} : at' = [at EXCEPT ![r] = w]
      /\ shared' \in BOOLEAN
      /\ ~shared' => ~shared /\ \A q \in Readers : at[q] = "closed"
      /\ UNCHANGED <<entry, text, timeVars>>
  BY DEF myxtime_proc_open, OpenFails, OpenEntry, OpenEntryNull, Enter, Goto
<1>2. TimeTypeOK'
  <2>1. /\ message' \in Buffers \cup {NULL} /\ read_p' \in {0, 1}
        /\ live' \in SUBSET Buffers /\ got' \in [Readers -> Seq(Pages)]
    <3>1. CASE myxtime_proc_open(r)
      BY <3>1 DEF myxtime_proc_open, OpenEntry, TimeInv, TimeTypeOK
    <3>2. CASE OpenFails(r)
      BY <3>2 DEF OpenFails, OpenEntryNull, TimeInv, TimeTypeOK
    <3> QED
      BY <3>1, <3>2
  <2> QED
    BY <1>1, <2>1 DEF TimeInv, TimeTypeOK, Using, timeVars
<1>3. OneReader'
  BY <1>1 DEF TimeInv, TimeTypeOK, OneReader
<1>4. OneBuffer'
  <2> SUFFICES ASSUME ~shared' PROVE OneBuffer'
    BY DEF OneBuffer
  <2>1. live = {} /\ \A q \in Readers : at[q] = "closed"
    BY <1>1 DEF TimeInv, OneBuffer
  <2>2. CASE myxtime_proc_open(r)
    <3>1. /\ message' \in Buffers /\ live' = {message'}
          /\ at' = [at EXCEPT ![r] = "open"]
      BY <2>1, <2>2 DEF myxtime_proc_open, OpenEntry, Goto
    <3>2. at'[r] = "open"
      BY <3>1 DEF TimeInv, TimeTypeOK
    <3> QED
      BY <3>1, <3>2 DEF OneBuffer
  <2>3. CASE OpenFails(r)
    <3>1. live' = {} /\ at' = [at EXCEPT ![r] = "closed"]
      BY <2>1, <2>3 DEF OpenFails, OpenEntryNull, Goto
    <3> QED
      BY <2>1, <3>1 DEF OneBuffer, TimeInv, TimeTypeOK
  <2> QED
    BY <2>2, <2>3
<1>5. ShownInv'
  BY <1>1 DEF TimeInv, ShownInv, timeVars
<1>6. \A q \in Readers : at'[q] = at[q] \/ at'[q] = "open"
  BY <1>1 DEF TimeInv, TimeTypeOK
<1>7. PrevInv'
  BY <1>1, <1>6 DEF TimeInv, PrevInv, Between, timeVars
<1>8. ReadInv'
  <2> SUFFICES ASSUME ~shared', NEW q \in Readers PROVE Reading(q)'
    BY DEF ReadInv
  <2>1. at'[q] \in {"open", "closed"}
    BY <1>1, <1>6
  <2> QED
    BY <2>1 DEF Reading
<1> QED
  BY <1>2, <1>3, <1>4, <1>5, <1>7, <1>8 DEF TimeInv

(* A step of a reader who stays in the entry and leaves the buffer alone   *)
(* keeps the first three parts.                                            *)
LEMMA StaysIn ==
    ASSUME TimeInv, NEW r \in Readers, NEW w \in Using, at[r] # "closed",
           at' = [at EXCEPT ![r] = w], UNCHANGED <<entry, message, live, shared, now>>,
           read_p' \in {0, 1}, text' \in [Buffers -> Pages], got' \in [Readers -> Seq(Pages)],
           curr_t' \in Stamps, prev_t' \in Spans, called' \in {0, 1}, shown' \in Seq(Pages)
    PROVE  TimeTypeOK' /\ OneReader' /\ OneBuffer'
<1>1. at' \in [Readers -> Using \cup {"closed"}] /\ at'[r] # "closed"
  BY DEF TimeInv, TimeTypeOK, Using
<1>2. \A q \in Readers : q # r => at'[q] = at[q]
  BY DEF TimeInv, TimeTypeOK
<1>3. TimeTypeOK'
  BY <1>1 DEF TimeInv, TimeTypeOK
<1>4. OneReader'
  BY <1>1, <1>2 DEF TimeInv, OneReader
<1>5. OneBuffer'
  BY <1>1, <1>2 DEF TimeInv, OneBuffer
<1> QED
  BY <1>3, <1>4, <1>5

(* While one reader is in the entry the others are not. *)
LEMMA OthersOut ==
    ASSUME TimeInv, ~shared, NEW r \in Readers, at[r] # "closed", NEW q \in Readers, q # r
    PROVE  at[q] = "closed"
BY DEF TimeInv, OneReader

LEMMA ReadStep ==
    ASSUME TimeInv, NEW r \in Readers, myxtime_proc_read(r)
    PROVE  TimeInv'
<1>1. PICK w \in {"eof", "stamp"} :
         /\ at[r] \in {"open", "eof"} /\ at' = [at EXCEPT ![r] = w]
         /\ read_p' = 1 - read_p
         /\ got' = got \/ got' = [got EXCEPT ![r] = <<>>]
         /\ UNCHANGED <<entry, message, live, text, shared, timeVars>>
  BY DEF myxtime_proc_read, ReadEntry, ReadsOn, Goto
<1>2. read_p' \in {0, 1}
  BY <1>1 DEF TimeInv, TimeTypeOK
<1>3. TimeTypeOK' /\ OneReader' /\ OneBuffer'
  <2>1. /\ text' \in [Buffers -> Pages]
        /\ curr_t' \in Stamps /\ prev_t' \in Spans /\ called' \in {0, 1}
        /\ shown' \in Seq(Pages) /\ UNCHANGED now
    BY <1>1 DEF TimeInv, TimeTypeOK, timeVars
  <2>2. w \in Using /\ at[r] # "closed"
    BY <1>1 DEF Using
  <2>3. got \in [Readers -> Seq(Pages)] /\ <<>> \in Seq(Pages)
    BY DEF TimeInv, TimeTypeOK
  <2>4. got' \in [Readers -> Seq(Pages)]
    BY <1>1, <2>3
  <2> QED
    BY <1>1, <1>2, <2>1, <2>2, <2>4, StaysIn
<1>4. /\ \A q \in Readers : q # r => at'[q] = at[q]
      /\ at'[r] \in {"eof", "stamp"}
  BY <1>1 DEF TimeInv, TimeTypeOK
<1>5. ShownInv'
  BY <1>1 DEF TimeInv, ShownInv, timeVars
<1>6. PrevInv'
  BY <1>1, <1>4 DEF TimeInv, PrevInv, Between, timeVars
<1>7. ReadInv'
  BY <1>1, <1>4 DEF TimeInv, ReadInv, Reading, timeVars
<1> QED
  BY <1>3, <1>5, <1>6, <1>7 DEF TimeInv

LEMMA StampStep ==
    ASSUME TimeInv, NEW r \in Readers, ReadStamps(r)
    PROVE  TimeInv'
<1> DEFINE page == [time |-> Printed(timespec(now)), elapsed |-> {}]
<1>1. /\ at[r] = "stamp" /\ message # NULL /\ at' = [at EXCEPT ![r] = "elapse"]
      /\ text' = [text EXCEPT ![message] = page]
      /\ curr_t' = timespec(now)
      /\ UNCHANGED <<entry, message, read_p, live, got, shared, now, prev_t, called, shown>>
  BY DEF ReadStamps, Fill, Goto
<1>2. timespec(now) \in Stamps /\ Printed(timespec(now)) \in Spans
  BY StampsAre, SpansAre DEF TimeInv, TimeTypeOK
<1>3. page \in Pages
  BY <1>2 DEF Pages
<1>4. text' \in [Buffers -> Pages] /\ text'[message] = page
  BY <1>1, <1>3 DEF TimeInv, TimeTypeOK
<1>5. TimeTypeOK' /\ OneReader' /\ OneBuffer'
  <2>1. /\ read_p' \in {0, 1} /\ got' \in [Readers -> Seq(Pages)]
        /\ prev_t' \in Spans /\ called' \in {0, 1} /\ shown' \in Seq(Pages)
    BY <1>1 DEF TimeInv, TimeTypeOK
  <2>2. "elapse" \in Using /\ at[r] # "closed" /\ curr_t' \in Stamps
    BY <1>1, <1>2 DEF Using
  <2> QED
    BY <1>1, <1>4, <2>1, <2>2, StaysIn
<1>6. /\ \A q \in Readers : q # r => at'[q] = at[q]
      /\ at'[r] = "elapse"
  BY <1>1 DEF TimeInv, TimeTypeOK
<1>7. ShownInv'
  BY <1>1 DEF TimeInv, ShownInv
<1>8. PrevInv'
  BY <1>1, <1>6 DEF TimeInv, PrevInv, Between
<1>9. ReadInv'
  <2> SUFFICES ASSUME ~shared, NEW q \in Readers PROVE Reading(q)'
    BY <1>1 DEF ReadInv
  <2>1. CASE q = r
    BY <1>1, <1>4, <1>6, <2>1 DEF Reading
  <2>2. CASE q # r
    BY <1>1, <1>6, <2>2, OthersOut DEF Reading
  <2> QED
    BY <2>1, <2>2
<1> QED
  BY <1>5, <1>7, <1>8, <1>9 DEF TimeInv

(* The read computes the difference, in the place of the time before. *)
LEMMA ElapseStep ==
    ASSUME TimeInv, NEW r \in Readers, ReadElapses(r)
    PROVE  TimeInv'
<1> DEFINE diff == timespec_sub(curr_t, prev_t)
           e    == IF called # 0 THEN {Printed(diff)} ELSE {}
           page == [text[message] EXCEPT !.elapsed = e]
<1>1. /\ at[r] = "elapse" /\ message # NULL /\ at' = [at EXCEPT ![r] = "copy"]
      /\ text' = [text EXCEPT ![message] = page]
      /\ prev_t' = IF called # 0 THEN diff ELSE prev_t
      /\ UNCHANGED <<entry, message, read_p, live, got, shared, now, curr_t, called, shown>>
  BY DEF ReadElapses, Fill, Goto
<1>2. diff \in Spans /\ Printed(diff) \in Spans
  BY SubSpans DEF TimeInv, TimeTypeOK
<1>3. /\ message \in Buffers /\ text[message] \in Pages
      /\ text[message] = [time |-> text[message].time, elapsed |-> text[message].elapsed]
  BY <1>1 DEF TimeInv, TimeTypeOK, Pages
<1>4. page \in Pages /\ page.time = text[message].time /\ page.elapsed = e
  BY <1>2, <1>3 DEF Pages
<1> HIDE DEF page
<1>5. text' \in [Buffers -> Pages] /\ text'[message] = page
  BY <1>1, <1>3, <1>4 DEF TimeInv, TimeTypeOK
<1>6. TimeTypeOK' /\ OneReader' /\ OneBuffer'
  <2>1. /\ read_p' \in {0, 1} /\ got' \in [Readers -> Seq(Pages)] /\ curr_t' \in Stamps
        /\ called' \in {0, 1} /\ shown' \in Seq(Pages)
    BY <1>1 DEF TimeInv, TimeTypeOK
  <2>2. prev_t' \in Spans
    BY <1>1, <1>2 DEF TimeInv, TimeTypeOK
  <2>3. "copy" \in Using /\ at[r] # "closed"
    BY <1>1 DEF Using
  <2> QED
    BY <1>1, <1>5, <2>1, <2>2, <2>3, StaysIn
<1>7. /\ \A q \in Readers : q # r => at'[q] = at[q]
      /\ at'[r] = "copy"
  BY <1>1 DEF TimeInv, TimeTypeOK
<1>8. ShownInv'
  BY <1>1 DEF TimeInv, ShownInv
<1>9. PrevInv'
  BY <1>7 DEF PrevInv, Between
<1>10. ReadInv'
  <2> SUFFICES ASSUME ~shared, NEW q \in Readers PROVE Reading(q)'
    BY <1>1 DEF ReadInv
  <2>1. CASE q # r
    BY <1>1, <1>7, <2>1, OthersOut DEF Reading
  <2>2. CASE q = r
    <3>1. Between
      BY <1>1, OthersOut DEF Between
    <3>2. /\ prev_t \in Stamps
          /\ shown = <<>> => called = 0
          /\ shown # <<>> => called = 1 /\ shown[Len(shown)].time = Printed(prev_t)
      BY <3>1 DEF TimeInv, PrevInv
    <3>3. page.time = Printed(curr_t)
      BY <1>1, <1>4 DEF TimeInv, ReadInv, Reading
    <3>4. shown = <<>> => page.elapsed = {}
      BY <1>4, <3>2
    <3>5. shown # <<>> => Follows(shown[Len(shown)], page)
      <4> SUFFICES ASSUME shown # <<>>,
                          value(Printed(curr_t)) - value(Printed(prev_t)) >= 0
                   PROVE  \E d \in page.elapsed :
                             value(d) = value(Printed(curr_t)) - value(Printed(prev_t))
        BY <3>2, <3>3 DEF Follows
      <4>1. Printed(diff) \in page.elapsed
        BY <1>4, <3>2
      <4>2. curr_t \in Stamps
        BY DEF TimeInv, TimeTypeOK
      <4>3. value(Printed(diff)) = value(Printed(curr_t)) - value(Printed(prev_t))
        BY <3>2, <4>2, ElapsedShown
      <4> QED
        BY <4>1, <4>3
    <3> QED
      BY <1>1, <1>5, <1>7, <2>2, <3>3, <3>4, <3>5 DEF Reading
  <2> QED
    BY <2>1, <2>2
<1> QED
  BY <1>6, <1>8, <1>9, <1>10 DEF TimeInv

(* What is left of a sequence that is to keep two elements at most. *)
LEMMA Kept ==
    ASSUME NEW S, NEW s \in Seq(S), NEW u, u = IF Len(s) = 2 THEN Tail(s) ELSE s
    PROVE  /\ u \in Seq(S)
           /\ s # <<>> /\ Len(s) <= 2 => Len(u) = 1 /\ u[1] = s[Len(s)]
<1>1. CASE Len(s) = 2
  <2>1. /\ Tail(s) \in Seq(S) /\ Len(Tail(s)) = Len(s) - 1
        /\ \A i \in 1 .. Len(Tail(s)) : Tail(s)[i] = s[i + 1]
    BY <1>1, HeadTailProperties
  <2>2. u = Tail(s)
    BY <1>1
  <2>3. Len(u) = 1
    BY <1>1, <2>1, <2>2
  <2>4. u[1] = s[1 + 1]
    <3>1. 1 \in 1 .. Len(Tail(s))
      BY ONLY <2>2, <2>3
    <3> QED
      BY <2>1, <2>2, <3>1, Zenon
  <2>5. 1 + 1 = Len(s)
    BY <1>1
  <2> QED
    BY <2>1, <2>2, <2>3, <2>4, <2>5, Zenon
<1>2. CASE Len(s) # 2
  <2>1. u = s
    BY <1>2, Zenon
  <2>2. ASSUME s # <<>>, Len(s) <= 2 PROVE Len(s) = 1
    <3>1. Len(s) \in Nat
      OBVIOUS
    <3>2. Len(s) # 0
      BY <2>2
    <3>3. \A n \in Nat : n # 0 /\ n # 2 /\ n <= 2 => n = 1
      OBVIOUS
    <3> QED
      BY <1>2, <2>2, <3>1, <3>2, <3>3, Zenon
  <2> QED
    BY <2>1, <2>2, Zenon
<1> QED
  BY <1>1, <1>2

LEMMA Appended ==
    ASSUME NEW S, NEW s \in Seq(S), NEW x \in S
    PROVE  /\ Append(s, x) \in Seq(S) /\ Append(s, x) # <<>>
           /\ Len(Append(s, x)) = Len(s) + 1 /\ Append(s, x)[Len(s) + 1] = x
           /\ \A n \in 1 .. Len(s) : Append(s, x)[n] = s[n]
OBVIOUS

(* The page of the buffer becomes the last page shown. *)
LEMMA CopyStep ==
    ASSUME TimeInv, NEW r \in Readers, ReadCopies(r)
    PROVE  TimeInv'
<1> DEFINE page == text[message]
           rest == IF Len(shown) = 2 THEN Tail(shown) ELSE shown
           kept == IF Len(got[r]) = MaxPages THEN Tail(got[r]) ELSE got[r]
<1>1. /\ at[r] = "copy" /\ message # NULL /\ at' = [at EXCEPT ![r] = "store"]
      /\ got' = [got EXCEPT ![r] = Append(kept, page)]
      /\ shown' = Append(rest, page)
      /\ UNCHANGED <<entry, message, read_p, live, text, shared, now, curr_t, prev_t, called>>
  BY DEF ReadCopies, CopyToUser, Goto
<1>2. page \in Pages
  BY <1>1 DEF TimeInv, TimeTypeOK
<1> HIDE DEF page
<1>3. shown \in Seq(Pages) /\ got[r] \in Seq(Pages)
  BY DEF TimeInv, TimeTypeOK
<1>4. /\ rest \in Seq(Pages) /\ kept \in Seq(Pages)
      /\ shown # <<>> /\ Len(shown) <= 2 => Len(rest) = 1 /\ rest[1] = shown[Len(shown)]
  BY <1>3, Kept DEF MaxPages
<1> HIDE DEF rest, kept
<1>5. Append(rest, page) \in Seq(Pages) /\ Append(kept, page) \in Seq(Pages)
  BY <1>2, <1>4, Appended
<1>6. TimeTypeOK' /\ OneReader' /\ OneBuffer'
  <2>1. /\ read_p' \in {0, 1} /\ text' \in [Buffers -> Pages] /\ curr_t' \in Stamps
        /\ prev_t' \in Spans /\ called' \in {0, 1}
    BY <1>1 DEF TimeInv, TimeTypeOK
  <2>2. got' \in [Readers -> Seq(Pages)] /\ shown' \in Seq(Pages)
    BY <1>1, <1>5 DEF TimeInv, TimeTypeOK
  <2>3. "store" \in Using /\ at[r] # "closed"
    BY <1>1 DEF Using
  <2> QED
    BY <1>1, <2>1, <2>2, <2>3, StaysIn
<1>7. /\ \A q \in Readers : q # r => at'[q] = at[q]
      /\ at'[r] = "store"
  BY <1>1 DEF TimeInv, TimeTypeOK
<1>8. ~shared => Reading(r) /\ Len(shown) <= 2
  BY DEF TimeInv, ReadInv, ShownInv
<1>9. shown' # <<>> /\ shown'[Len(shown')] = page
  BY <1>1, <1>2, <1>4, Appended
<1>10. ShownInv'
  <2> SUFFICES ASSUME ~shared
               PROVE  /\ Len(shown') <= 2
                      /\ Len(shown') = 1 => shown'[1].elapsed = {}
                      /\ Len(shown') = 2 => Follows(shown'[1], shown'[2])
    BY <1>1 DEF ShownInv, Follows
  <2>1. CASE shown = <<>>
    <3>1. shown' = <<page>>
      BY <1>1, <2>1 DEF rest
    <3>2. page.elapsed = {}
      BY <1>1, <1>8, <2>1 DEF Reading, page
    <3> QED
      BY <3>1, <3>2
  <2>2. CASE shown # <<>>
    <3>1. Len(rest) = 1 /\ rest[1] = shown[Len(shown)]
      BY <1>4, <1>8, <2>2
    <3>2. Len(shown') = 2 /\ shown'[1] = shown[Len(shown)] /\ shown'[2] = page
      <4>1. /\ Len(shown') = Len(rest) + 1 /\ shown'[Len(rest) + 1] = page
            /\ \A n \in 1 .. Len(rest) : shown'[n] = rest[n]
        BY <1>1, <1>2, <1>4, Appended
      <4> QED
        BY <3>1, <4>1
    <3>3. Follows(shown[Len(shown)], page)
      BY <1>1, <1>8, <2>2 DEF Reading, page
    <3> QED
      BY <3>2, <3>3
  <2> QED
    BY <2>1, <2>2
<1>11. PrevInv'
  BY <1>7 DEF PrevInv, Between
<1>12. ReadInv'
  <2> SUFFICES ASSUME ~shared, NEW q \in Readers PROVE Reading(q)'
    BY <1>1 DEF ReadInv
  <2>1. CASE q # r
    BY <1>1, <1>7, <2>1, OthersOut DEF Reading
  <2>2. CASE q = r
    <3>1. page.time = Printed(curr_t)
      BY <1>1, <1>8 DEF Reading, page
    <3> QED
      BY <1>1, <1>7, <1>9, <2>2, <3>1 DEF Reading
  <2> QED
    BY <2>1, <2>2
<1> QED
  BY <1>6, <1>10, <1>11, <1>12 DEF TimeInv

(* The time of the page is kept for the next one. *)
LEMMA StoreStep ==
    ASSUME TimeInv, NEW r \in Readers, ReadStores(r)
    PROVE  TimeInv'
<1>1. /\ at[r] = "store" /\ at' = [at EXCEPT ![r] = "open"]
      /\ prev_t' = curr_t /\ called' = 1
      /\ UNCHANGED <<entry, message, read_p, live, text, got, shared, now, curr_t, shown>>
  BY DEF ReadStores, Goto
<1>2. TimeTypeOK' /\ OneReader' /\ OneBuffer'
  <2>1. /\ read_p' \in {0, 1} /\ text' \in [Buffers -> Pages]
        /\ got' \in [Readers -> Seq(Pages)] /\ curr_t' \in Stamps /\ shown' \in Seq(Pages)
    BY <1>1 DEF TimeInv, TimeTypeOK
  <2>2. prev_t' \in Spans
    BY <1>1, SpansAre DEF TimeInv, TimeTypeOK
  <2>3. "open" \in Using /\ at[r] # "closed" /\ called' \in {0, 1}
    BY <1>1 DEF Using
  <2> QED
    BY <1>1, <2>1, <2>2, <2>3, StaysIn
<1>3. /\ \A q \in Readers : q # r => at'[q] = at[q]
      /\ at'[r] = "open"
  BY <1>1 DEF TimeInv, TimeTypeOK
<1>4. ShownInv'
  BY <1>1 DEF TimeInv, ShownInv
<1>5. PrevInv'
  <2> SUFFICES ASSUME ~shared
               PROVE  curr_t \in Stamps /\ shown # <<>> /\ shown[Len(shown)].time = Printed(curr_t)
    BY <1>1 DEF PrevInv
  <2>1. Reading(r)
    BY DEF TimeInv, ReadInv
  <2> QED
    BY <1>1, <2>1 DEF Reading, TimeInv, TimeTypeOK
<1>6. ReadInv'
  BY <1>1, <1>3 DEF TimeInv, ReadInv, Reading
<1> QED
  BY <1>2, <1>4, <1>5, <1>6 DEF TimeInv

LEMMA ReleaseStep ==
    ASSUME TimeInv, NEW r \in Readers, myxtime_proc_release(r)
    PROVE  TimeInv'
<1>1. /\ at[r] \in {"open", "eof"} /\ at' = [at EXCEPT ![r] = "closed"]
      /\ live' = live \ {message} /\ got' = [got EXCEPT ![r] = <<>>]
      /\ UNCHANGED <<entry, message, read_p, text, shared, timeVars>>
  BY DEF myxtime_proc_release, ReleaseEntry, Goto
<1>2. /\ \A q \in Readers : q # r => at'[q] = at[q]
      /\ at'[r] = "closed"
  BY <1>1 DEF TimeInv, TimeTypeOK
<1>3. TimeTypeOK'
  BY <1>1 DEF TimeInv, TimeTypeOK, timeVars
<1>4. OneReader'
  BY <1>1, <1>2 DEF TimeInv, OneReader
<1>5. OneBuffer'
  <2> SUFFICES ASSUME ~shared PROVE live' = {} /\ \A q \in Readers : at'[q] = "closed"
    BY <1>1 DEF OneBuffer
  <2>1. live = {message}
    BY <1>1 DEF TimeInv, OneBuffer
  <2> QED
    BY <1>1, <1>2, <2>1, OthersOut
<1>6. ShownInv' /\ PrevInv'
  BY <1>1, <1>2 DEF TimeInv, ShownInv, PrevInv, Between, timeVars
<1>7. ReadInv'
  BY <1>1, <1>2 DEF TimeInv, ReadInv, Reading, timeVars
<1> QED
  BY <1>3, <1>4, <1>5, <1>6, <1>7 DEF TimeInv

LEMMA TimeInvStep == TimeInv /\ [Next]_vars => TimeInv'
<1> SUFFICES ASSUME TimeInv, [Next]_vars PROVE TimeInv'
  OBVIOUS
<1>1. CASE UNCHANGED vars
  BY <1>1 DEF vars, procVars, timeVars, TimeInv, TimeTypeOK, OneReader, OneBuffer, ShownInv,
     PrevInv, Between, ReadInv, Reading
<1> QED
  BY <1>1, ClockStep, ModuleSteps, OpenSteps, ReadStep, StampStep, ElapseStep, CopyStep,
     StoreStep, ReleaseStep DEF Next

-----------------------------------------------------------------------------
(* The theorems. *)

(* The inductive invariant: the text of the buffer, curr_t, prev_t, called *)
(* and the pages shown agree at every step of my_xtime.c.                  *)
THEOREM TimeInvariant == Spec => []TimeInv
BY TimeInvInit, TimeInvStep, PTL DEF Spec

(* The elapsed time on a page of /proc/timed is the difference of its time *)
(* and the time on the page before, as "%lu" prints them, for every clock, *)
(* with and without a borrow in timespec_sub, although prev_t holds that   *)
(* difference while the page is printed.                                   *)
THEOREM ElapsedTimes == Spec => []ElapsedIsDifference
<1>1. TimeInv => ElapsedIsDifference
  BY DEF TimeInv, ShownInv, Follows, ElapsedIsDifference
<1> QED
  BY <1>1, TimeInvariant, PTL

(* The reads and the release of /proc/timed use an allocated buffer, also  *)
(* after an open that returned -ENOMEM and after an rmmod.                 *)
THEOREM TimedBuffersAreLive == Spec => []BufferLive
<1>1. TimeInv => BufferLive
  BY DEF TimeInv, OneBuffer, BufferLive
<1> QED
  BY <1>1, TimeInvariant, PTL

(* No buffer of /proc/timed is left when no reader is, whoever closed it.  *)
THEOREM TimedBuffersAreFreed == Spec => []NothingLeaked
<1>1. TimeInv => NothingLeaked
  BY BuffersAssumption DEF TimeInv, OneBuffer, NothingLeaked
<1> QED
  BY <1>1, TimeInvariant, PTL

=============================================================================
