-------------------------- MODULE PassengerTheorems --------------------------
(***************************************************************************)
(* Facts about the lists and the load counters of the elevator, which the  *)
(* proofs about Elevator cite by name.                                     *)
(***************************************************************************)
EXTENDS Passenger, Sequences, SequencesExt, TLAPS, FiniteSetTheorems, SequenceTheorems

-----------------------------------------------------------------------------
(* Lists: appending a node adds it to the list's set and removing the      *)
(* first one takes it out; neither makes a node occur twice.               *)

LEMMA AppendFacts ==
    ASSUME NEW S, NEW s \in Seq(S), NEW p \in S
    PROVE  /\ Append(s, p) \in Seq(S)
           /\ ToSet(Append(s, p)) = ToSet(s) \cup {p}
           /\ IsInjective(s) /\ p \notin ToSet(s) => IsInjective(Append(s, p))
<1>1. /\ Append(s, p) \in Seq(S)
      /\ Len(Append(s, p)) = Len(s) + 1
      /\ \A i \in 1 .. Len(s) : Append(s, p)[i] = s[i]
      /\ Append(s, p)[Len(s) + 1] = p
      /\ DOMAIN s = 1 .. Len(s)
      /\ DOMAIN Append(s, p) = 1 .. Len(s) + 1
      /\ Len(s) \in Nat
  OBVIOUS
<1>2. ToSet(Append(s, p)) = ToSet(s) \cup {p}
  BY <1>1 DEF ToSet
<1>3. IsInjective(s) /\ p \notin ToSet(s) => IsInjective(Append(s, p))
  BY <1>1 DEF ToSet, IsInjective
<1> QED
  BY <1>1, <1>2, <1>3

LEMMA RemoveAtType ==
    ASSUME NEW S, NEW s \in Seq(S), NEW i \in 1 .. Len(s)
    PROVE  RemoveAt(s, i) \in Seq(S)
BY DEF RemoveAt

LEMMA RemoveFirstFacts ==
    ASSUME NEW S, NEW s \in Seq(S), 1 <= Len(s)
    PROVE  /\ s[1] \in S
           /\ s[1] \in ToSet(s)
           /\ RemoveAt(s, 1) \in Seq(S)
           /\ Len(RemoveAt(s, 1)) = Len(s) - 1
           /\ \A i \in 1 .. Len(s) - 1 : RemoveAt(s, 1)[i] = s[i + 1]
           /\ IsInjective(s) => /\ ToSet(RemoveAt(s, 1)) = ToSet(s) \ {s[1]}
                                /\ IsInjective(RemoveAt(s, 1))
<1> DEFINE r == RemoveAt(s, 1)
<1>1. /\ Len(s) \in Nat
      /\ DOMAIN s = 1 .. Len(s)
      /\ s[1] \in S
      /\ s[1] \in ToSet(s)
  BY DEF ToSet
<1>2. SubSeq(s, 1, 0) = <<>>
  OBVIOUS
<1>3. r = <<>> \o SubSeq(s, 2, Len(s))
  BY <1>2 DEF RemoveAt
<1>4. r = SubSeq(s, 2, Len(s))
  BY <1>1, <1>3
<1>5. /\ r \in Seq(S)
      /\ Len(r) = Len(s) - 1
      /\ DOMAIN r = 1 .. Len(s) - 1
      /\ \A i \in 1 .. Len(s) - 1 : r[i] = s[i + 1]
  <2> HIDE DEF r
  <2>1. \A i \in 2 .. Len(s) : s[i] \in S
    BY <1>1
  <2>2. /\ r \in Seq(S)
        /\ Len(r) = IF 2 <= Len(s) THEN Len(s) - 2 + 1 ELSE 0
        /\ \A i \in 1 .. Len(s) - 2 + 1 : r[i] = s[2 + i - 1]
    BY <1>1, <1>4, <2>1, SubSeqProperties
  <2>3. DOMAIN r = 1 .. Len(r)
    BY <2>2
  <2>4. Len(r) = Len(s) - 1
    <3>1. \A n \in Nat : 1 <= n => (IF 2 <= n THEN n - 2 + 1 ELSE 0) = n - 1
      OBVIOUS
    <3> QED
      BY ONLY <1>1, <2>2, <3>1, 1 <= Len(s)
  <2>5. Len(s) - 2 + 1 = Len(s) - 1 /\ \A i \in 1 .. Len(s) - 1 : 2 + i - 1 = i + 1
    BY <1>1
  <2> QED
    BY <2>2, <2>3, <2>4, <2>5
<1>6. ASSUME IsInjective(s)
      PROVE  ToSet(r) = ToSet(s) \ {s[1]} /\ IsInjective(r)
  <2> HIDE DEF r
  <2>1. ToSet(r) \subseteq ToSet(s) \ {s[1]}
    BY <1>1, <1>5, <1>6 DEF ToSet, IsInjective
  <2>2. ToSet(s) \ {s[1]} \subseteq ToSet(r)
    <3> SUFFICES ASSUME NEW k \in 1 .. Len(s), s[k] # s[1]
                 PROVE  s[k] \in ToSet(r)
      BY <1>1 DEF ToSet
    <3>1. k - 1 \in 1 .. Len(s) - 1 /\ r[k - 1] = s[k]
      BY <1>1, <1>5
    <3> QED
      BY <1>5, <3>1 DEF ToSet
  <2>3. IsInjective(r)
    BY <1>1, <1>5, <1>6 DEF IsInjective
  <2> QED
    BY <2>1, <2>2, <2>3
<1> QED
  BY <1>1, <1>5, <1>6

-----------------------------------------------------------------------------
(* Counters: a passenger joining or leaving a set changes its tally by     *)
(* exactly what addPass, movePass and delPass add or subtract.             *)

LEMMA CountTypes ==
    ASSUME NEW load \in Load, NEW t \in P_TYPE
    PROVE  CountIn(load, t) \in Load /\ CountOut(load, t) \in Load
BY DEF Load, CountIn, CountOut, getWeight, getPass, P_TYPE, ADULT, CHILD, ROOM, BELL

LEMMA CountInOut ==
    ASSUME NEW load \in Load, NEW t \in P_TYPE
    PROVE  CountOut(CountIn(load, t), t) = load
<1>1. /\ load = [w_units |-> load.w_units, p_units |-> load.p_units,
                 number |-> load.number]
      /\ load.w_units \in Int
      /\ load.p_units \in Int
      /\ load.number \in [P_TYPE -> Int]
  BY DEF Load
<1>2. getWeight(t) \in Int /\ getPass(t) \in Int
  BY DEF getWeight, getPass
<1>3. ASSUME NEW n \in [P_TYPE -> Int]
      PROVE  [[n EXCEPT ![t] = @ + 1] EXCEPT ![t] = @ - 1] = n
  <2> DEFINE m == [[n EXCEPT ![t] = @ + 1] EXCEPT ![t] = @ - 1]
  <2>1. m \in [P_TYPE -> Int] /\ \A u \in P_TYPE : m[u] = n[u]
    OBVIOUS
  <2> QED
    BY <2>1
<1>4. /\ (load.w_units + getWeight(t)) - getWeight(t) = load.w_units
      /\ (load.p_units + getPass(t)) - getPass(t) = load.p_units
  BY <1>1, <1>2
<1> QED
  BY <1>1, <1>3, <1>4 DEF CountIn, CountOut

OfType(S, f, t) == {p \in S : f[p].type = t}

LEMMA OfTypeAdd ==
    ASSUME NEW S, IsFiniteSet(S), NEW p, p \notin S, NEW f, NEW t
    PROVE  /\ Cardinality(OfType(S, f, t)) \in Nat
           /\ Cardinality(OfType(S \cup {p}, f, t))
                = Cardinality(OfType(S, f, t)) + (IF f[p].type = t THEN 1 ELSE 0)
<1>1. IsFiniteSet(OfType(S, f, t)) /\ p \notin OfType(S, f, t)
  BY FS_Subset DEF OfType
<1>2. Cardinality(OfType(S, f, t)) \in Nat
  BY <1>1, FS_CardinalityType
<1>3. CASE f[p].type = t
  <2>1. OfType(S \cup {p}, f, t) = OfType(S, f, t) \cup {p}
    BY <1>3 DEF OfType
  <2> QED
    BY <1>1, <1>2, <1>3, <2>1, FS_AddElement
<1>4. CASE f[p].type # t
  <2>1. OfType(S \cup {p}, f, t) = OfType(S, f, t)
    BY <1>4 DEF OfType
  <2> QED
    BY <1>2, <1>4, <2>1
<1> QED
  BY <1>3, <1>4

LEMMA TallyIs ==
    ASSUME NEW S, NEW f
    PROVE  Tally(S, f) =
             LET n(t) == Cardinality(OfType(S, f, t))
             IN  [w_units |-> 2 * n(ADULT) + n(CHILD) + 4 * n(ROOM) + 8 * n(BELL),
                  p_units |-> n(ADULT) + n(CHILD) + 2 * n(ROOM) + 2 * n(BELL),
                  number  |-> [t \in P_TYPE |-> n(t)]]
BY DEF Tally, OfType

LEMMA TallyType ==
    ASSUME NEW S, IsFiniteSet(S), NEW f
    PROVE  Tally(S, f) \in Load
<1>1. \A t : Cardinality(OfType(S, f, t)) \in Nat
  BY FS_Subset, FS_CardinalityType DEF OfType
<1> QED
  BY <1>1, TallyIs DEF Load, P_TYPE, ADULT, CHILD, ROOM, BELL

LEMMA TallyAdd ==
    ASSUME NEW S, IsFiniteSet(S), NEW p, p \notin S, NEW f, f[p].type \in P_TYPE
    PROVE  Tally(S \cup {p}, f) = CountIn(Tally(S, f), f[p].type)
<1> DEFINE n(t) == Cardinality(OfType(S, f, t))
           m(t) == Cardinality(OfType(S \cup {p}, f, t))
<1>1. \A t : n(t) \in Nat /\ m(t) = n(t) + (IF f[p].type = t THEN 1 ELSE 0)
  BY OfTypeAdd
<1>2. Tally(S, f) = [w_units |-> 2 * n(ADULT) + n(CHILD) + 4 * n(ROOM) + 8 * n(BELL),
                     p_units |-> n(ADULT) + n(CHILD) + 2 * n(ROOM) + 2 * n(BELL),
                     number  |-> [t \in P_TYPE |-> n(t)]]
  BY TallyIs
<1>3. Tally(S \cup {p}, f)
        = [w_units |-> 2 * m(ADULT) + m(CHILD) + 4 * m(ROOM) + 8 * m(BELL),
           p_units |-> m(ADULT) + m(CHILD) + 2 * m(ROOM) + 2 * m(BELL),
           number  |-> [t \in P_TYPE |-> m(t)]]
  BY TallyIs
<1> HIDE DEF n, m
<1>4. [t \in P_TYPE |-> m(t)] = [[t \in P_TYPE |-> n(t)] EXCEPT ![f[p].type] = @ + 1]
  BY <1>1
<1> QED
  BY <1>1, <1>2, <1>3, <1>4
     DEF CountIn, getWeight, getPass, P_TYPE, ADULT, CHILD, ROOM, BELL

LEMMA TallyRemove ==
    ASSUME NEW S, IsFiniteSet(S), NEW p \in S, NEW f, f[p].type \in P_TYPE
    PROVE  Tally(S \ {p}, f) = CountOut(Tally(S, f), f[p].type)
<1>1. IsFiniteSet(S \ {p}) /\ p \notin S \ {p} /\ S = (S \ {p}) \cup {p}
  BY FS_Subset
<1>2. Tally(S, f) = CountIn(Tally(S \ {p}, f), f[p].type)
  BY <1>1, TallyAdd
<1> QED
  BY <1>1, <1>2, TallyType, CountInOut

LEMMA TallySame ==
    ASSUME NEW S, NEW f, NEW g, \A p \in S : f[p] = g[p]
    PROVE  Tally(S, f) = Tally(S, g)
<1>1. \A t : OfType(S, f, t) = OfType(S, g, t)
  BY DEF OfType
<1> QED
  BY <1>1, TallyIs

=============================================================================
