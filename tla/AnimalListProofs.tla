--------------------------- MODULE AnimalListProofs ---------------------------
(***************************************************************************)
(* Proofs about the list of animals, for any number of readers that come   *)
(* one after the other, of buffers and of opens, and for every MAX_ANIMALS *)
(* and ENTRY_SIZE with room for the page, 50 and 1000 in the code among    *)
(* them.                                                                   *)
(***************************************************************************)
EXTENDS AnimalList, TLAPS

-----------------------------------------------------------------------------
(* Sums and digits. *)

LEMMA AnimalsAre ==
    /\ Types = {0, 1, 2}
    /\ Animal[0] = [length |-> 2, weight |-> 1, chars |-> 7]
    /\ Animal[1] = [length |-> 18, weight |-> 160, chars |-> 3]
    /\ Animal[2] = [length |-> 28, weight |-> 1200, chars |-> 3]
BY SMT DEF Animal, Types

LEMMA TotalsAre ==
    ASSUME NEW seen \in [Types -> Nat]
    PROVE  TotalsOf(seen) = [total_cnt    |-> seen[0] + seen[1] + seen[2],
                             total_length |-> seen[0] * 2 + seen[1] * 18 + seen[2] * 28,
                             total_weight |-> seen[0] + seen[1] * 160 + seen[2] * 1200]
<1>1. seen[0] \in Nat /\ seen[1] \in Nat /\ seen[2] \in Nat
  BY AnimalsAre
<1>2. /\ Total(seen, [t \in Types |-> 1]) = seen[0] + seen[1] + seen[2]
      /\ Total(seen, [t \in Types |-> Animal[t].length])
           = seen[0] * 2 + seen[1] * 18 + seen[2] * 28
      /\ Total(seen, [t \in Types |-> Animal[t].weight])
           = seen[0] + seen[1] * 160 + seen[2] * 1200
  BY <1>1, AnimalsAre, SMT DEF Total
<1> QED
  BY <1>2, SMT DEF TotalsOf

LEMMA LeastOfNine ==
    ASSUME NEW S \in SUBSET (1 .. 9), 9 \in S
    PROVE  \E x \in S : \A y \in S : x <= y
<1>1. CASE 1 \in S
  BY <1>1
<1>2. CASE 1 \notin S /\ 2 \in S
  BY <1>2
<1>3. CASE 1 \notin S /\ 2 \notin S /\ 3 \in S
  BY <1>3
<1>4. CASE 1 \notin S /\ 2 \notin S /\ 3 \notin S /\ 4 \in S
  BY <1>4
<1>5. CASE 1 \notin S /\ 2 \notin S /\ 3 \notin S /\ 4 \notin S /\ 5 \in S
  BY <1>5
<1>6. CASE 1 \notin S /\ 2 \notin S /\ 3 \notin S /\ 4 \notin S /\ 5 \notin S
  <2>1. S \subseteq 6 .. 9
    BY <1>6
  <2>2. CASE 6 \in S
    BY <2>1, <2>2
  <2>3. CASE 6 \notin S /\ 7 \in S
    BY <2>1, <2>3
  <2>4. CASE 6 \notin S /\ 7 \notin S
    BY <2>1, <2>4
  <2> QED
    BY <2>2, <2>3, <2>4
<1> QED
  BY <1>1, <1>2, <1>3, <1>4, <1>5, <1>6

LEMMA DigitsAre ==
    ASSUME NEW n \in Nat, n < Powers[9]
    PROVE  Digits(n) \in 1 .. 9
<1> DEFINE S == {k \in 1 .. 9 : n < Powers[k]}
<1>1. S \in SUBSET (1 .. 9)
  OBVIOUS
<1>2. 9 \in S
  OBVIOUS
<1> HIDE DEF S
<1>3. \E x \in S : \A y \in S : x <= y
  BY <1>1, <1>2, LeastOfNine
<1>4. Min(S) \in S
  BY <1>3 DEF Min
<1> QED
  BY <1>1, <1>4 DEF Digits, S

-----------------------------------------------------------------------------
(* The inductive invariant, in parts, which holds until two readers        *)
(* overlap.                                                                *)

Totals == [total_cnt : Nat, total_length : Nat, total_weight : Nat]
Pages  == [totals : Totals, seen : [Types -> Nat], len : Nat]
Using  == {"open", "copy", "eof"}
States == Using \cup {"closed", "add", "insert", "count", "print", "head", "names"}

AnimalTypeOK ==
    /\ message \in Buffers \cup {NULL}
    /\ text \in [Buffers -> Pages]
    /\ at \in [Readers -> States]
    /\ got \in [Readers -> Seq(Pages)]
    /\ animals \in Totals
    /\ list \in [Types -> Nat]
    /\ adding \in [Readers -> [type : Types, totals : Totals]]
    /\ loader \in {"out", "in", "exiting"}
    /\ gone \in 0 .. 3
    /\ late \in [Types -> Nat]

(* One reader at a time, which has a buffer. *)
OneReader ==
    /\ \A q, r \in Readers : at[q] # "closed" /\ at[r] # "closed" => q = r
    /\ \A r \in Readers : at[r] # "closed" => message \in Buffers

NoneAt(where) == \A r \in Readers : at[r] # where

(* The list is never longer than the counter says, but for the animal that *)
(* is still to be counted, and no animal is longer or heavier than a dog.  *)
CountInv ==
    /\ list[0] + list[1] + list[2] <= animals.total_cnt + 1
    /\ NoneAt("count") => list[0] + list[1] + list[2] <= animals.total_cnt
    /\ animals.total_cnt <= MAX_ANIMALS
    /\ animals.total_length <= 28 * animals.total_cnt
    /\ animals.total_weight <= 1200 * animals.total_cnt
    /\ \A r \in Readers : at[r] \in {"insert", "count"} => animals.total_cnt < MAX_ANIMALS

(* What has been printed of the page, which 94 bytes are kept for before   *)
(* the names.                                                              *)
Headed(p) == p.len <= 94 /\ p.seen = NoAnimals /\ p.totals = animals

PrintInv ==
    /\ \A b \in Buffers : text[b].len < ENTRY_SIZE
    /\ \A r \in Readers : at[r] = "head" => text[message] = BlankPage
    /\ \A r \in Readers : at[r] = "names" => Headed(text[message])

(* The exit has deleted the first types, apart from late animals. *)
ExitInv ==
    /\ entry => loader # "out"
    /\ loader = "in" => gone = 0
    /\ loader = "out" => \A r \in Readers : at[r] = "closed" /\ got[r] = <<>>
    /\ \A t \in Types : loader = "out" \/ (loader = "exiting" /\ t < gone) =>
          list[t] <= late[t]

Plus(totals, t) ==
    [total_cnt    |-> totals.total_cnt + 1,
     total_length |-> totals.total_length + Animal[t].length,
     total_weight |-> totals.total_weight + Animal[t].weight]

(* Pages that show what they add up to: the page of the list, once the     *)
(* last animal is counted, the one in the buffer once it is printed, and   *)
(* those a reader has.                                                     *)
Sound == {p \in Pages : p.totals = TotalsOf(p.seen)}

SoundInv ==
    loader = "in" =>
        /\ NoneAt("count") => animals = TotalsOf(list)
        /\ \A r \in Readers : at[r] = "count" =>
              TotalsOf(list) = Plus(animals, adding[r].type)
        /\ \A r \in Readers : at[r] \in Using => text[message] \in Sound
        /\ got \in [Readers -> Seq(Sound)]

(* Nobody changes the totals under the open that counts. *)
ReadInv == \A r \in Readers : at[r] = "count" => adding[r].totals = animals

ApartInv ==
    /\ AnimalTypeOK /\ OneReader /\ CountInv /\ PrintInv /\ ExitInv /\ ReadInv /\ SoundInv

AnimalInv == ~shared => ApartInv

(* What print_animals writes fits: the lines with the numbers, ...         *)
LEMMA HeadFits ==
    ASSUME AnimalTypeOK, CountInv
    PROVE  HeadLength \in 0 .. 94
<1>1. /\ animals.total_cnt \in Nat /\ animals.total_length \in Nat
      /\ animals.total_weight \in Nat
  BY DEF AnimalTypeOK, Totals
<1>2. Powers[9] \in Nat
  BY SMT DEF Powers
<1>3. /\ animals.total_cnt < Powers[9] /\ animals.total_length < Powers[9]
      /\ animals.total_weight < Powers[9]
  BY <1>1, <1>2, AnimalAssumption, SMT DEF CountInv
<1>4. /\ Digits(animals.total_cnt) \in 1 .. 9 /\ Digits(animals.total_length) \in 1 .. 9
      /\ Digits(animals.total_weight) \in 1 .. 9
  BY <1>1, <1>3, DigitsAre
<1> QED
  BY <1>4, SMT DEF HeadLength

(* ... and the names. *)
LEMMA NamesFit ==
    ASSUME AnimalTypeOK, CountInv, NoneAt("count")
    PROVE  NamesLength \in Nat /\ 94 + NamesLength < ENTRY_SIZE
<1> DEFINE n == list[0] + list[1] + list[2]
           names == list[0] * 8 + list[1] * 4 + list[2] * 4
           lines == IF n > 0 THEN (n - 1) \div 5 ELSE 0
<1>1. list[0] \in Nat /\ list[1] \in Nat /\ list[2] \in Nat
  BY DEF AnimalTypeOK, Types
<1>2. animals.total_cnt \in Nat
  BY DEF AnimalTypeOK, Totals
<1>3. n \in Nat /\ n <= MAX_ANIMALS
  BY <1>1, <1>2, AnimalAssumption, SMT DEF CountInv
<1>4. names \in Nat /\ names <= 8 * n
  BY <1>1
<1>5. lines \in Nat /\ lines <= n
  BY <1>3
<1>6. NamesLength = names + lines + 1
  <2>1. /\ Total(list, [t \in Types |-> 1]) = n
        /\ Total(list, [t \in Types |-> Animal[t].chars + 1]) = names
    BY <1>1, AnimalsAre, SMT DEF Total
  <2> DEFINE ones == Total(list, [t \in Types |-> 1])
             text_of == Total(list, [t \in Types |-> Animal[t].chars + 1])
  <2>2. NamesLength = text_of + (IF ones > 0 THEN (ones - 1) \div 5 ELSE 0) + 1
    BY Zenon DEF NamesLength
  <2>3. ones = n /\ text_of = names
    BY <2>1
  <2> HIDE DEF n, names, ones, text_of
  <2> QED
    BY <2>2, <2>3, Zenon
<1> HIDE DEF n, names, lines
<1> QED
  BY <1>3, <1>4, <1>5, <1>6, AnimalAssumption, SMT

-----------------------------------------------------------------------------
(* The module. *)

LEMMA NothingIs ==
    /\ NoTotals \in Totals /\ NoAnimals \in [Types -> Nat]
    /\ NoTotals = TotalsOf(NoAnimals)
    /\ \A t \in Types : NoAnimals[t] = 0
<1>1. NoAnimals \in [Types -> Nat] /\ \A t \in Types : NoAnimals[t] = 0
  BY DEF NoAnimals
<1>2. NoAnimals[0] = 0 /\ NoAnimals[1] = 0 /\ NoAnimals[2] = 0
  BY <1>1, AnimalsAre
<1>3. NoTotals = TotalsOf(NoAnimals)
  <2>1. /\ Total(NoAnimals, [t \in Types |-> 1]) = 0
        /\ Total(NoAnimals, [t \in Types |-> Animal[t].length]) = 0
        /\ Total(NoAnimals, [t \in Types |-> Animal[t].weight]) = 0
    BY <1>2, AnimalsAre, SMT DEF Total
  <2> QED
    BY <2>1, Zenon DEF TotalsOf, NoTotals
<1>4. NoTotals \in Totals
  BY DEF NoTotals, Totals
<1> QED
  BY <1>1, <1>3, <1>4

LEMMA BlankIs ==
    /\ BlankPage \in Pages /\ Garbage \in Pages
    /\ BlankPage.len = 0 /\ BlankPage.seen = NoAnimals
    /\ 0 < ENTRY_SIZE /\ Garbage.len < ENTRY_SIZE
    /\ Nothing \in [type : Types, totals : Totals]
<1>1. ENTRY_SIZE - 1 \in Nat
  BY AnimalAssumption, SMT
<1>2. BlankPage \in Pages /\ BlankPage.len = 0 /\ BlankPage.seen = NoAnimals
  BY NothingIs DEF BlankPage, Pages
<1>3. Garbage \in Pages /\ Garbage.len = ENTRY_SIZE - 1
  BY <1>1, <1>2 DEF Garbage, Pages
<1>4. Nothing \in [type : Types, totals : Totals]
  BY NothingIs, AnimalsAre DEF Nothing
<1> QED
  BY <1>1, <1>2, <1>3, <1>4, AnimalAssumption, SMT

LEMMA AnimalInvInit == Init => AnimalInv
<1> SUFFICES ASSUME Init PROVE ApartInv
  BY DEF AnimalInv
<1>1. /\ message = NULL /\ text = [b \in Buffers |-> Garbage]
      /\ at = [r \in Readers |-> "closed"] /\ got = [r \in Readers |-> <<>>]
      /\ entry = FALSE /\ animals = NoTotals /\ list = NoAnimals
      /\ adding = [r \in Readers |-> Nothing]
      /\ loader = "out" /\ gone = 0 /\ late = NoAnimals
  BY DEF Init, ProcInit
<1>2. /\ at \in [Readers -> States] /\ got \in [Readers -> Seq(Pages)]
      /\ \A r \in Readers : at[r] = "closed" /\ got[r] = <<>>
  BY <1>1 DEF States
<1>3. AnimalTypeOK
  <2>1. text \in [Buffers -> Pages] /\ adding \in [Readers -> [type : Types, totals : Totals]]
    BY <1>1, BlankIs
  <2>2. gone \in 0 .. 3
    BY <1>1
  <2> QED
    BY <1>1, <1>2, <2>1, <2>2, NothingIs DEF AnimalTypeOK
<1>4. OneReader /\ ReadInv /\ SoundInv
  BY <1>1, <1>2 DEF OneReader, ReadInv, SoundInv
<1>5. CountInv
  BY <1>1, <1>2, NothingIs, AnimalsAre, AnimalAssumption, SMT DEF CountInv, NoTotals
<1>6. PrintInv
  BY <1>1, <1>2, BlankIs DEF PrintInv
<1>7. ExitInv
  BY <1>1, <1>2, NothingIs DEF ExitInv
<1> QED
  BY <1>3, <1>4, <1>5, <1>6, <1>7 DEF ApartInv

LEMMA InitStep ==
    ASSUME ApartInv, animal_init
    PROVE  ApartInv'
<1>1. /\ loader = "out" /\ loader' = "in" /\ animals' = NoTotals /\ list' = NoAnimals
      /\ gone' = 0 /\ late' = NoAnimals
      /\ UNCHANGED <<message, live, text, at, got, adding>>
      /\ \A r \in Readers : at[r] = "closed" /\ got[r] = <<>>
  BY DEF animal_init, ApartInv, ExitInv
<1>2. AnimalTypeOK'
  BY <1>1, NothingIs DEF ApartInv, AnimalTypeOK
<1>3. CountInv'
  BY <1>1, NothingIs, AnimalsAre, AnimalAssumption, SMT DEF CountInv, NoTotals
<1>4. PrintInv' /\ OneReader' /\ ReadInv'
  BY <1>1 DEF ApartInv, PrintInv, OneReader, ReadInv
<1>5. got' \in [Readers -> Seq(Sound)]
  <2>1. got \in [Readers -> Seq(Pages)]
    BY DEF ApartInv, AnimalTypeOK
  <2>2. <<>> \in Seq(Sound)
    OBVIOUS
  <2>3. \A r \in Readers : got[r] \in Seq(Sound)
    BY <1>1, <2>2
  <2> QED
    BY <1>1, <2>1, <2>3
<1>6. ExitInv' /\ SoundInv'
  BY <1>1, <1>5, NothingIs DEF ExitInv, SoundInv, Using
<1> QED
  BY <1>2, <1>3, <1>4, <1>6 DEF ApartInv

LEMMA DeleteStep ==
    ASSUME ApartInv, delete_animals
    PROVE  ApartInv'
<1>1. /\ gone \in Types /\ loader \in {"in", "exiting"} /\ loader' = "exiting"
      /\ list' = [list EXCEPT ![gone] = 0] /\ gone' = gone + 1
      /\ UNCHANGED <<procVars, animals, adding, late>>
  BY AnimalsAre DEF delete_animals, ApartInv, ExitInv
<1>2. AnimalTypeOK'
  <2>1. list' \in [Types -> Nat]
    BY <1>1 DEF ApartInv, AnimalTypeOK
  <2>2. gone' \in 0 .. 3
    BY <1>1, AnimalsAre
  <2> QED
    BY <1>1, <2>1, <2>2 DEF ApartInv, AnimalTypeOK, procVars
<1>3. CountInv'
  <2>1. /\ list[0] \in Nat /\ list[1] \in Nat /\ list[2] \in Nat
        /\ list'[0] \in {0, list[0]} /\ list'[1] \in {0, list[1]} /\ list'[2] \in {0, list[2]}
    BY <1>1, AnimalsAre DEF ApartInv, AnimalTypeOK
  <2>2. animals.total_cnt \in Nat
    BY DEF ApartInv, AnimalTypeOK, Totals
  <2>3. list'[0] + list'[1] + list'[2] <= list[0] + list[1] + list[2]
    BY <2>1
  <2>4. /\ list'[0] + list'[1] + list'[2] <= animals.total_cnt + 1
        /\ NoneAt("count") => list'[0] + list'[1] + list'[2] <= animals.total_cnt
    BY <2>1, <2>2, <2>3 DEF ApartInv, CountInv
  <2> QED
    BY <1>1, <2>4 DEF ApartInv, CountInv, NoneAt, procVars
<1>4. PrintInv' /\ OneReader' /\ ReadInv' /\ SoundInv'
  BY <1>1 DEF ApartInv, PrintInv, Headed, OneReader, ReadInv, SoundInv, procVars
<1>5. ExitInv'
  <2>1. \A t \in Types : t < gone' => list'[t] <= late'[t]
    <3> SUFFICES ASSUME NEW t \in Types, t < gone + 1 PROVE list'[t] <= late[t]
      BY <1>1
    <3>1. CASE t = gone
      BY <1>1, <3>1 DEF ApartInv, AnimalTypeOK
    <3>2. CASE t # gone
      <4>1. t < gone /\ loader = "exiting"
        BY <1>1, <3>2, AnimalsAre DEF ApartInv, ExitInv
      <4> QED
        BY <1>1, <3>2, <4>1 DEF ApartInv, AnimalTypeOK, ExitInv
    <3> QED
      BY <3>1, <3>2
  <2> QED
    BY <1>1, <2>1 DEF ApartInv, ExitInv, procVars
<1> QED
  BY <1>2, <1>3, <1>4, <1>5 DEF ApartInv

(* What Forget leaves in the buffers. *)
LEMMA Forgotten ==
    ASSUME ApartInv, Forget(Garbage)
    PROVE  /\ text' \in [Buffers -> Pages]
           /\ \A b \in Buffers : text'[b].len < ENTRY_SIZE
BY BlankIs DEF Forget, ApartInv, AnimalTypeOK, PrintInv

LEMMA ExitStep ==
    ASSUME ApartInv, animal_exit
    PROVE  ApartInv'
<1>1. /\ loader = "exiting" /\ gone = 3 /\ loader' = "out" /\ entry' = FALSE
      /\ at' = [r \in Readers |-> "closed"] /\ got' = [r \in Readers |-> <<>>]
      /\ UNCHANGED <<message, animals, list, adding, gone, late>>
      /\ NoneAt("count")
  BY DEF animal_exit, AllDeleted, RemoveEntry, NoneAt
<1>2. /\ text' \in [Buffers -> Pages]
      /\ \A b \in Buffers : text'[b].len < ENTRY_SIZE
  BY Forgotten DEF animal_exit
<1>3. /\ at' \in [Readers -> States] /\ got' \in [Readers -> Seq(Pages)]
      /\ \A r \in Readers : at'[r] = "closed" /\ got'[r] = <<>>
  BY <1>1 DEF States
<1>4. AnimalTypeOK'
  BY <1>1, <1>2, <1>3 DEF ApartInv, AnimalTypeOK
<1>5. CountInv'
  BY <1>1, <1>3 DEF ApartInv, CountInv
<1>6. PrintInv' /\ OneReader' /\ ReadInv' /\ SoundInv'
  BY <1>1, <1>2, <1>3 DEF PrintInv, OneReader, ReadInv, SoundInv
<1>7. ExitInv'
  BY <1>1, <1>3, AnimalsAre DEF ApartInv, ExitInv
<1> QED
  BY <1>4, <1>5, <1>6, <1>7 DEF ApartInv

-----------------------------------------------------------------------------
(* The reader. *)

(* A reader that goes on is the only one. *)
LEMMA ReaderMoves ==
    ASSUME ApartInv, NEW r \in Readers, at[r] # "closed", NEW w \in States,
           Goto(r, w), UNCHANGED message
    PROVE  /\ at' \in [Readers -> States] /\ at'[r] = w
           /\ \A q \in Readers : q # r => at[q] = "closed" /\ at'[q] = "closed"
           /\ loader # "out" /\ message \in Buffers /\ OneReader'
<1>1. at' \in [Readers -> States] /\ at'[r] = w
  BY DEF ApartInv, AnimalTypeOK, Goto
<1>2. \A q \in Readers : q # r => at[q] = "closed"
  BY DEF ApartInv, OneReader
<1>3. \A q \in Readers : q # r => at'[q] = "closed"
  BY <1>2 DEF ApartInv, AnimalTypeOK, Goto
<1>4. loader # "out" /\ message \in Buffers
  BY DEF ApartInv, ExitInv, OneReader
<1>5. OneReader'
  BY <1>1, <1>3, <1>4 DEF OneReader
<1> QED
  BY <1>1, <1>2, <1>3, <1>4, <1>5

LEMMA OpenStep ==
    ASSUME ApartInv, NEW r \in Readers, animal_proc_open(r), ~shared'
    PROVE  ApartInv'
<1>1. /\ entry /\ at' = [at EXCEPT ![r] = "add"] /\ message' \in Buffers
      /\ got' = [got EXCEPT ![r] = <<>>] /\ UNCHANGED <<entry, text, moduleVars>>
      /\ \A q \in Readers : at[q] = "closed"
  BY DEF animal_proc_open, OpenEntry, Enter, Goto
<1>2. at' \in [Readers -> States] /\ at'[r] = "add"
  BY <1>1 DEF ApartInv, AnimalTypeOK, States
<1>3. \A q \in Readers : q # r => at'[q] = "closed"
  BY <1>1 DEF ApartInv, AnimalTypeOK
<1>4. \A q \in Readers : at'[q] \in {"add", "closed"}
  BY <1>2, <1>3
<1>5. ASSUME NEW S, got \in [Readers -> Seq(S)] PROVE got' \in [Readers -> Seq(S)]
  <2>1. <<>> \in Seq(S)
    OBVIOUS
  <2> QED
    BY <1>1, <1>5, <2>1
<1>6. AnimalTypeOK' /\ OneReader'
  <2>1. got' \in [Readers -> Seq(Pages)]
    BY <1>5 DEF ApartInv, AnimalTypeOK
  <2> QED
    BY <1>1, <1>2, <1>3, <2>1 DEF ApartInv, AnimalTypeOK, OneReader, moduleVars
<1>7. NoneAt("count") /\ NoneAt("count")'
  BY <1>1, <1>4 DEF NoneAt
<1>8. CountInv'
  BY <1>1, <1>4, <1>7 DEF ApartInv, CountInv, moduleVars
<1>9. PrintInv' /\ ReadInv'
  BY <1>1, <1>4 DEF ApartInv, PrintInv, ReadInv
<1>10. ExitInv'
  BY <1>1 DEF ApartInv, ExitInv, moduleVars
<1>11. SoundInv'
  BY <1>1, <1>4, <1>5, <1>7 DEF ApartInv, SoundInv, moduleVars, Using
<1> QED
  BY <1>6, <1>8, <1>9, <1>10, <1>11 DEF ApartInv

LEMMA OpenFailsStep ==
    ASSUME ApartInv, NEW r \in Readers, OpenFails(r), ~shared'
    PROVE  ApartInv'
<1>1. /\ at' = [at EXCEPT ![r] = "closed"] /\ message' = NULL
      /\ UNCHANGED <<entry, text, got, moduleVars>>
      /\ \A q \in Readers : at[q] = "closed"
  BY DEF OpenFails, OpenEntryNull, Enter, Goto
<1>2. at' = at
  BY <1>1 DEF ApartInv, AnimalTypeOK
<1> QED
  BY <1>1, <1>2 DEF ApartInv, AnimalTypeOK, OneReader, NoneAt, CountInv, PrintInv, ExitInv,
     ReadInv, SoundInv, Using, moduleVars

(* The steps of an open that only decide where it goes on. *)
LEMMA QuietMove ==
    ASSUME ApartInv, NEW r \in Readers, at[r] \in {"add", "print"},
           NEW w \in {"insert", "print", "closed"},
           w = "insert" => animals.total_cnt < MAX_ANIMALS,
           OpenGoes(r, at[r], w), UNCHANGED moduleVars
    PROVE  ApartInv'
<1>1. Goto(r, w) /\ UNCHANGED <<entry, message, text, got, moduleVars>>
  BY DEF OpenGoes
<1>2. w \in States /\ at[r] # "closed"
  BY DEF States
<1>3. /\ at' \in [Readers -> States] /\ at'[r] = w
      /\ \A q \in Readers : q # r => at[q] = "closed" /\ at'[q] = "closed"
      /\ loader # "out" /\ message \in Buffers /\ OneReader'
  BY <1>1, <1>2, ReaderMoves
<1>4. \A q \in Readers : at'[q] \in {"insert", "print", "closed"}
  BY <1>3
<1>5. NoneAt("count") /\ NoneAt("count")'
  <2>1. NoneAt("count")
    BY <1>3 DEF NoneAt
  <2>2. NoneAt("count")'
    BY <1>4 DEF NoneAt
  <2> QED
    BY <2>1, <2>2
<1>6. AnimalTypeOK'
  BY <1>1, <1>3 DEF ApartInv, AnimalTypeOK, moduleVars
<1>7. CountInv'
  <2>1. \A q \in Readers : at'[q] \in {"insert", "count"} => animals.total_cnt < MAX_ANIMALS
    BY <1>3
  <2> QED
    BY <1>1, <1>5, <2>1 DEF ApartInv, CountInv, moduleVars
<1>8. PrintInv' /\ ReadInv'
  BY <1>1, <1>4 DEF ApartInv, PrintInv, ReadInv
<1>9. ExitInv'
  BY <1>1, <1>3 DEF ApartInv, ExitInv, moduleVars
<1>10. SoundInv'
  BY <1>1, <1>4, <1>5 DEF ApartInv, SoundInv, moduleVars, Using
<1> QED
  BY <1>3, <1>6, <1>7, <1>8, <1>9, <1>10 DEF ApartInv

LEMMA QuietSteps ==
    ASSUME ApartInv, NEW r \in Readers, add_animal(r) \/ PrintFails(r)
    PROVE  ApartInv'
<1>1. CASE animals.total_cnt < MAX_ANIMALS /\ OpenGoes(r, "add", "insert") /\ UNCHANGED moduleVars
  <2>1. at[r] = "add"
    BY <1>1 DEF OpenGoes
  <2> QED
    BY <1>1, <2>1, QuietMove
<1>2. CASE OpenGoes(r, "add", "print") /\ UNCHANGED moduleVars
  <2>1. at[r] = "add"
    BY <1>2 DEF OpenGoes
  <2> QED
    BY <1>2, <2>1, QuietMove
<1>3. CASE OpenGoes(r, "print", "closed") /\ UNCHANGED moduleVars
  <2>1. at[r] = "print"
    BY <1>3 DEF OpenGoes
  <2> QED
    BY <1>3, <2>1, QuietMove
<1> QED
  BY <1>1, <1>2, <1>3 DEF add_animal, PrintFails

(* One more animal of some type on the list. *)
LEMMA OneMore ==
    ASSUME NEW seen \in [Types -> Nat], NEW more \in [Types -> Nat], NEW t \in Types
    PROVE  more = [seen EXCEPT ![t] = @ + 1] =>
               /\ more[0] + more[1] + more[2] = seen[0] + seen[1] + seen[2] + 1
               /\ TotalsOf(more) = Plus(TotalsOf(seen), t)
<1>1. /\ seen[0] \in Nat /\ seen[1] \in Nat /\ seen[2] \in Nat
      /\ t \in {0, 1, 2}
  BY AnimalsAre
<1> DEFINE n == seen[0] + seen[1] + seen[2]
           l == seen[0] * 2 + seen[1] * 18 + seen[2] * 28
           w == seen[0] + seen[1] * 160 + seen[2] * 1200
<1>2. TotalsOf(seen) = [total_cnt |-> n, total_length |-> l, total_weight |-> w]
  BY TotalsAre
<1>3. TotalsOf(more) = [total_cnt    |-> more[0] + more[1] + more[2],
                        total_length |-> more[0] * 2 + more[1] * 18 + more[2] * 28,
                        total_weight |-> more[0] + more[1] * 160 + more[2] * 1200]
  BY TotalsAre
<1>4. Plus(TotalsOf(seen), t) =
        [total_cnt |-> n + 1, total_length |-> l + Animal[t].length,
         total_weight |-> w + Animal[t].weight]
  BY <1>2 DEF Plus
<1> SUFFICES ASSUME more = [seen EXCEPT ![t] = @ + 1]
             PROVE  /\ more[0] + more[1] + more[2] = n + 1
                    /\ TotalsOf(more) = Plus(TotalsOf(seen), t)
  OBVIOUS
<1>5. CASE t = 0
  <2>1. more[0] = seen[0] + 1 /\ more[1] = seen[1] /\ more[2] = seen[2]
    BY <1>5, AnimalsAre
  <2>2. /\ more[0] + more[1] + more[2] = n + 1
        /\ more[0] * 2 + more[1] * 18 + more[2] * 28 = l + 2
        /\ more[0] + more[1] * 160 + more[2] * 1200 = w + 1
    BY <1>1, <2>1, SMT
  <2> HIDE DEF n, l, w
  <2>3. TotalsOf(more) = Plus(TotalsOf(seen), t)
    BY <1>3, <1>4, <1>5, <2>2, AnimalsAre
  <2> QED
    BY <2>2, <2>3
<1>6. CASE t = 1
  <2>1. more[0] = seen[0] /\ more[1] = seen[1] + 1 /\ more[2] = seen[2]
    BY <1>6, AnimalsAre
  <2>2. /\ more[0] + more[1] + more[2] = n + 1
        /\ more[0] * 2 + more[1] * 18 + more[2] * 28 = l + 18
        /\ more[0] + more[1] * 160 + more[2] * 1200 = w + 160
    BY <1>1, <2>1, SMT
  <2> HIDE DEF n, l, w
  <2>3. TotalsOf(more) = Plus(TotalsOf(seen), t)
    BY <1>3, <1>4, <1>6, <2>2, AnimalsAre
  <2> QED
    BY <2>2, <2>3
<1>7. CASE t = 2
  <2>1. more[0] = seen[0] /\ more[1] = seen[1] /\ more[2] = seen[2] + 1
    BY <1>7, AnimalsAre
  <2>2. /\ more[0] + more[1] + more[2] = n + 1
        /\ more[0] * 2 + more[1] * 18 + more[2] * 28 = l + 28
        /\ more[0] + more[1] * 160 + more[2] * 1200 = w + 1200
    <3>1. more[2] * 28 = seen[2] * 28 + 28 /\ more[2] * 1200 = seen[2] * 1200 + 1200
      BY <1>1, <2>1, SMT
    <3> QED
      BY <1>1, <2>1, <3>1, SMT
  <2> HIDE DEF n, l, w
  <2>3. TotalsOf(more) = Plus(TotalsOf(seen), t)
    BY <1>3, <1>4, <1>7, <2>2, AnimalsAre
  <2> QED
    BY <2>2, <2>3
<1> QED
  BY <1>1, <1>5, <1>6, <1>7

LEMMA InsertStep ==
    ASSUME ApartInv, NEW r \in Readers, AddInserts(r)
    PROVE  ApartInv'
<1>1. /\ at[r] = "insert" /\ Goto(r, "count")
      /\ UNCHANGED <<entry, message, text, got, animals, loader, gone>>
  BY DEF AddInserts, OpenGoes
<1>2. PICK t \in Types :
          /\ list' = [list EXCEPT ![t] = @ + 1]
          /\ late' = IF loader = "exiting" THEN [late EXCEPT ![t] = @ + 1] ELSE late
          /\ adding' = [adding EXCEPT ![r] = [type |-> t, totals |-> animals]]
  BY DEF AddInserts
<1>3. "count" \in States /\ at[r] # "closed"
  BY <1>1 DEF States
<1>4. /\ at' \in [Readers -> States] /\ at'[r] = "count"
      /\ \A q \in Readers : q # r => at[q] = "closed" /\ at'[q] = "closed"
      /\ loader # "out" /\ message \in Buffers /\ OneReader'
  BY <1>1, <1>3, ReaderMoves
<1>5. NoneAt("count") /\ \A q \in Readers : at'[q] \in {"count", "closed"}
  <2>1. NoneAt("count")
    BY <1>1, <1>4 DEF NoneAt
  <2> QED
    BY <1>4, <2>1
<1>6. /\ list \in [Types -> Nat] /\ list' \in [Types -> Nat] /\ late' \in [Types -> Nat]
      /\ adding' \in [Readers -> [type : Types, totals : Totals]]
      /\ adding'[r] = [type |-> t, totals |-> animals]
  BY <1>2 DEF ApartInv, AnimalTypeOK
<1>7. /\ list'[0] + list'[1] + list'[2] = list[0] + list[1] + list[2] + 1
      /\ TotalsOf(list') = Plus(TotalsOf(list), t)
  BY <1>2, <1>6, OneMore
<1>8. AnimalTypeOK'
  BY <1>1, <1>4, <1>6 DEF ApartInv, AnimalTypeOK
<1>9. CountInv'
  <2>1. /\ list[0] + list[1] + list[2] \in Nat /\ animals.total_cnt \in Nat
        /\ list[0] + list[1] + list[2] <= animals.total_cnt
    <3>1. list[0] \in Nat /\ list[1] \in Nat /\ list[2] \in Nat
      BY <1>6, AnimalsAre
    <3>2. animals.total_cnt \in Nat
      BY DEF ApartInv, AnimalTypeOK, Totals
    <3>3. list[0] + list[1] + list[2] <= animals.total_cnt
      BY <1>5 DEF ApartInv, CountInv
    <3> QED
      BY <3>1, <3>2, <3>3
  <2>2. list'[0] + list'[1] + list'[2] <= animals.total_cnt + 1
    BY <1>7, <2>1
  <2>3. ~NoneAt("count")'
    BY <1>4 DEF NoneAt
  <2>4. animals.total_cnt < MAX_ANIMALS
    BY <1>1 DEF ApartInv, CountInv
  <2> QED
    BY <1>1, <2>2, <2>3, <2>4 DEF ApartInv, CountInv
<1>10. PrintInv'
  BY <1>1, <1>5 DEF ApartInv, PrintInv
<1>11. ReadInv'
  BY <1>1, <1>4, <1>6 DEF ReadInv
<1>12. ExitInv'
  <2>1. ASSUME NEW u \in Types, loader = "exiting", u < gone
        PROVE  list'[u] <= late'[u]
    <3>1. list[u] <= late[u] /\ list[u] \in Nat /\ late[u] \in Nat
      BY <2>1 DEF ApartInv, ExitInv, AnimalTypeOK
    <3>2. \/ list'[u] = list[u] /\ late'[u] = late[u]
          \/ list'[u] = list[u] + 1 /\ late'[u] = late[u] + 1
      BY <1>2, <2>1 DEF ApartInv, AnimalTypeOK
    <3> QED
      BY <3>1, <3>2
  <2> QED
    BY <1>1, <1>4, <2>1 DEF ApartInv, ExitInv
<1>13. SoundInv'
  <2>1. ASSUME loader = "in" PROVE TotalsOf(list') = Plus(animals, adding'[r].type)
    BY <1>5, <1>6, <1>7, <2>1 DEF ApartInv, SoundInv
  <2>2. ~NoneAt("count")'
    BY <1>4 DEF NoneAt
  <2>3. loader = "in" => got \in [Readers -> Seq(Sound)]
    BY DEF ApartInv, SoundInv
  <2> QED
    BY <1>1, <1>4, <1>5, <2>1, <2>2, <2>3 DEF SoundInv, Using
<1> QED
  BY <1>4, <1>8, <1>9, <1>10, <1>11, <1>12, <1>13 DEF ApartInv

LEMMA CountStep ==
    ASSUME ApartInv, NEW r \in Readers, AddCounts(r)
    PROVE  ApartInv'
<1> DEFINE t == adding[r].type
<1>1. /\ at[r] = "count" /\ Goto(r, "print")
      /\ adding' = [adding EXCEPT ![r] = Nothing]
      /\ UNCHANGED <<entry, message, text, got, list, loader, gone, late>>
  BY DEF AddCounts, OpenGoes
<1>2. animals' = Plus(animals, t)
  <2>1. adding[r].totals = animals
    BY <1>1 DEF ApartInv, ReadInv
  <2>2. animals' \in [total_cnt    : {animals.total_cnt + 1},
                      total_length : {animals.total_length + Animal[t].length},
                      total_weight : {animals.total_weight + Animal[t].weight}]
    BY <2>1 DEF AddCounts
  <2> QED
    BY <2>2 DEF Plus
<1>3. t \in Types
  BY DEF ApartInv, AnimalTypeOK
<1> HIDE DEF t
<1>4. "print" \in States /\ at[r] # "closed"
  BY <1>1 DEF States
<1>5. /\ at' \in [Readers -> States] /\ at'[r] = "print"
      /\ \A q \in Readers : q # r => at[q] = "closed" /\ at'[q] = "closed"
      /\ loader # "out" /\ message \in Buffers /\ OneReader'
  BY <1>1, <1>4, ReaderMoves
<1>6. \A q \in Readers : at'[q] \in {"print", "closed"}
  BY <1>5
<1>7. /\ animals.total_cnt \in Nat /\ animals.total_length \in Nat
      /\ animals.total_weight \in Nat
      /\ Animal[t].length \in 0 .. 28 /\ Animal[t].weight \in 0 .. 1200
  <2>1. /\ animals.total_cnt \in Nat /\ animals.total_length \in Nat
        /\ animals.total_weight \in Nat
    BY DEF ApartInv, AnimalTypeOK, Totals
  <2>2. t = 0 \/ t = 1 \/ t = 2
    BY <1>3, AnimalsAre
  <2>3. Animal[t].length \in 0 .. 28 /\ Animal[t].weight \in 0 .. 1200
    BY <2>2, AnimalsAre, SMT
  <2> QED
    BY <2>1, <2>3
<1>8. /\ animals'.total_cnt = animals.total_cnt + 1
      /\ animals'.total_length = animals.total_length + Animal[t].length
      /\ animals'.total_weight = animals.total_weight + Animal[t].weight
      /\ animals' \in Totals
  <2>1. /\ animals'.total_cnt = animals.total_cnt + 1
        /\ animals'.total_length = animals.total_length + Animal[t].length
        /\ animals'.total_weight = animals.total_weight + Animal[t].weight
    BY <1>2 DEF Plus
  <2>2. /\ animals.total_cnt + 1 \in Nat
        /\ animals.total_length + Animal[t].length \in Nat
        /\ animals.total_weight + Animal[t].weight \in Nat
    <3> DEFINE dm == Animal[t].length
               dw == Animal[t].weight
    <3>1. dm \in 0 .. 28 /\ dw \in 0 .. 1200
      BY <1>7
    <3> HIDE DEF dm, dw
    <3>2. dm \in Nat /\ dw \in Nat
      BY <3>1, SMT
    <3>3. animals.total_length + dm \in Nat /\ animals.total_weight + dw \in Nat
      BY <1>7, <3>2
    <3> QED
      BY <1>7, <3>3 DEF dm, dw
  <2>3. animals' \in Totals
    BY <1>2, <2>2 DEF Plus, Totals
  <2> QED
    BY <2>1, <2>3
<1>9. AnimalTypeOK'
  <2>1. adding' \in [Readers -> [type : Types, totals : Totals]]
    BY <1>1, BlankIs DEF ApartInv, AnimalTypeOK
  <2> QED
    BY <1>1, <1>5, <1>8, <2>1 DEF ApartInv, AnimalTypeOK
<1>10. CountInv'
  <2>1. /\ list[0] + list[1] + list[2] <= animals.total_cnt + 1
        /\ animals.total_cnt < MAX_ANIMALS
        /\ animals.total_length <= 28 * animals.total_cnt
        /\ animals.total_weight <= 1200 * animals.total_cnt
        /\ MAX_ANIMALS \in Nat
    BY <1>1, AnimalAssumption, SMT DEF ApartInv, CountInv
  <2>2. list[0] \in Nat /\ list[1] \in Nat /\ list[2] \in Nat
    BY AnimalsAre DEF ApartInv, AnimalTypeOK
  <2>3. /\ list[0] + list[1] + list[2] <= animals'.total_cnt
        /\ list[0] + list[1] + list[2] <= animals'.total_cnt + 1
        /\ animals'.total_cnt <= MAX_ANIMALS
        /\ animals'.total_length <= 28 * animals'.total_cnt
        /\ animals'.total_weight <= 1200 * animals'.total_cnt
    <3> DEFINE n == animals.total_cnt
               m == animals.total_length
               w == animals.total_weight
               dm == Animal[t].length
               dw == Animal[t].weight
    <3>1. /\ n \in Nat /\ m \in Nat /\ w \in Nat /\ dm \in 0 .. 28 /\ dw \in 0 .. 1200
          /\ n < MAX_ANIMALS /\ m <= 28 * n /\ w <= 1200 * n
          /\ list[0] + list[1] + list[2] <= n + 1
      BY <1>7, <2>1
    <3>2. /\ animals'.total_cnt = n + 1 /\ animals'.total_length = m + dm
          /\ animals'.total_weight = w + dw
      BY <1>8
    <3> HIDE DEF n, m, w, dm, dw
    <3>3. /\ n + 1 <= MAX_ANIMALS
          /\ m + dm <= 28 * (n + 1) /\ w + dw <= 1200 * (n + 1)
          /\ list[0] + list[1] + list[2] <= (n + 1) + 1
      BY <2>1, <2>2, <3>1, SMT
    <3> QED
      BY <3>1, <3>2, <3>3
  <2> QED
    BY <1>1, <1>6, <2>3 DEF CountInv
<1>11. PrintInv' /\ ReadInv'
  BY <1>1, <1>6 DEF ApartInv, PrintInv, ReadInv
<1>12. ExitInv'
  BY <1>1, <1>5 DEF ApartInv, ExitInv
<1>13. SoundInv'
  <2>1. loader = "in" => TotalsOf(list) = animals'
    BY <1>1, <1>2 DEF ApartInv, SoundInv, t
  <2>2. loader = "in" => got \in [Readers -> Seq(Sound)]
    BY DEF ApartInv, SoundInv
  <2> QED
    BY <1>1, <1>6, <2>1, <2>2 DEF SoundInv, Using
<1> QED
  BY <1>5, <1>9, <1>10, <1>11, <1>12, <1>13 DEF ApartInv

(* The steps of print_animals. *)
LEMMA PagePrinted ==
    ASSUME ApartInv, NEW r \in Readers, at[r] \in {"print", "head", "names"},
           NEW w \in {"head", "names", "open"}, NEW page \in Pages, page.len < ENTRY_SIZE,
           w = "head" => page = BlankPage, w = "names" => Headed(page),
           w = "open" /\ loader = "in" => page \in Sound,
           Fill(r, at[r], page, w), UNCHANGED moduleVars
    PROVE  ApartInv'
<1>1. /\ Goto(r, w) /\ text' = [text EXCEPT ![message] = page]
      /\ UNCHANGED <<entry, message, got, moduleVars>>
  BY DEF Fill
<1>2. w \in States /\ at[r] # "closed"
  BY DEF States, Using
<1>3. /\ at' \in [Readers -> States] /\ at'[r] = w
      /\ \A q \in Readers : q # r => at[q] = "closed" /\ at'[q] = "closed"
      /\ loader # "out" /\ message \in Buffers /\ OneReader'
  BY <1>1, <1>2, ReaderMoves
<1>4. /\ text' \in [Buffers -> Pages] /\ text'[message] = page
      /\ \A b \in Buffers : b # message => text'[b] = text[b]
  BY <1>1, <1>3 DEF ApartInv, AnimalTypeOK
<1>5. NoneAt("count") /\ \A q \in Readers : at'[q] \in {w, "closed"}
  <2>1. NoneAt("count")
    BY <1>3 DEF NoneAt
  <2> QED
    BY <1>3, <2>1
<1>6. AnimalTypeOK'
  BY <1>1, <1>3, <1>4 DEF ApartInv, AnimalTypeOK, moduleVars
<1>7. CountInv'
  BY <1>1, <1>5 DEF ApartInv, CountInv, moduleVars
<1>8. PrintInv'
  <2>1. \A b \in Buffers : text'[b].len < ENTRY_SIZE
    BY <1>4 DEF ApartInv, PrintInv
  <2>2. Headed(page)' <=> Headed(page)
    BY <1>1 DEF Headed, moduleVars
  <2> QED
    BY <1>1, <1>3, <1>4, <1>5, <2>1, <2>2 DEF PrintInv, Headed
<1>9. ReadInv'
  BY <1>5 DEF ReadInv
<1>10. ExitInv'
  BY <1>1, <1>3 DEF ApartInv, ExitInv, moduleVars
<1>11. SoundInv'
  BY <1>1, <1>4, <1>5 DEF ApartInv, SoundInv, moduleVars, Using
<1> QED
  BY <1>3, <1>6, <1>7, <1>8, <1>9, <1>10, <1>11 DEF ApartInv

LEMMA PrintStep ==
    ASSUME ApartInv, NEW r \in Readers, print_animals(r)
    PROVE  ApartInv'
<1>1. Fill(r, "print", BlankPage, "head") /\ UNCHANGED moduleVars /\ at[r] = "print"
  BY DEF print_animals, Fill
<1> QED
  BY <1>1, BlankIs, PagePrinted

LEMMA HeadStep ==
    ASSUME ApartInv, NEW r \in Readers, PrintHead(r)
    PROVE  ApartInv'
<1> DEFINE page == [totals |-> animals, seen |-> text[message].seen,
                    len |-> text[message].len + HeadLength]
<1>1. Fill(r, "head", page, "names") /\ UNCHANGED moduleVars /\ at[r] = "head"
  BY DEF PrintHead, Fill
<1>2. text[message] = BlankPage /\ HeadLength \in 0 .. 94
  BY <1>1, HeadFits DEF ApartInv, PrintInv
<1>3. page = [totals |-> animals, seen |-> NoAnimals, len |-> 0 + HeadLength]
  <2>1. text[message] \in Pages /\ text[message].seen = NoAnimals /\ text[message].len = 0
    BY <1>2, BlankIs
  <2> QED
    BY <2>1
<1> HIDE DEF page
<1>4. page \in Pages /\ Headed(page)
  <2>1. 0 + HeadLength \in Nat /\ 0 + HeadLength <= 94
    BY <1>2
  <2>2. animals \in Totals
    BY DEF ApartInv, AnimalTypeOK
  <2> QED
    BY <1>3, <2>1, <2>2, NothingIs DEF Pages, Headed
<1>5. page.len < ENTRY_SIZE
  <2>1. page.len \in Nat /\ page.len <= 94
    BY <1>4 DEF Pages, Headed
  <2> QED
    BY <2>1, AnimalAssumption, SMT
<1> QED
  BY <1>1, <1>4, <1>5, PagePrinted

LEMMA NamesStep ==
    ASSUME ApartInv, NEW r \in Readers, PrintNames(r)
    PROVE  ApartInv'
<1> DEFINE p == text[message]
           both == [t \in Types |-> p.seen[t] + list[t]]
           page == [totals |-> p.totals, seen |-> both, len |-> p.len + NamesLength]
<1>1. Fill(r, "names", page, "open") /\ UNCHANGED moduleVars /\ at[r] = "names"
  BY DEF PrintNames, Fill
<1>2. message \in Buffers /\ NoneAt("count")
  BY <1>1 DEF ApartInv, OneReader, NoneAt
<1>3. Headed(p) /\ p \in Pages /\ list \in [Types -> Nat]
  BY <1>1, <1>2 DEF ApartInv, PrintInv, AnimalTypeOK
<1>4. both = list
  <2>1. \A t \in Types : p.seen[t] = 0 /\ list[t] \in Nat
    BY <1>3, NothingIs DEF Headed
  <2>2. \A t \in Types : p.seen[t] + list[t] = list[t]
    BY <2>1
  <2>3. list = [t \in Types |-> list[t]]
    BY <1>3
  <2> QED
    BY <2>2, <2>3
<1>5. page = [totals |-> animals, seen |-> both, len |-> p.len + NamesLength]
  BY <1>3 DEF Headed
<1>6. NamesLength \in Nat /\ 94 + NamesLength < ENTRY_SIZE
  BY <1>2, NamesFit DEF ApartInv
<1>7. p.len + NamesLength \in Nat /\ p.len + NamesLength < ENTRY_SIZE
  <2>1. p.len \in Nat /\ p.len <= 94
    BY <1>3 DEF Headed, Pages
  <2> HIDE DEF p
  <2> QED
    BY <1>6, <2>1, AnimalAssumption, SMT
<1> HIDE DEF page, both, p
<1>8. page \in Pages /\ page.len < ENTRY_SIZE
  <2>1. animals \in Totals
    BY DEF ApartInv, AnimalTypeOK
  <2> QED
    BY <1>3, <1>4, <1>5, <1>7, <2>1 DEF Pages
<1>9. loader = "in" => page \in Sound
  <2>1. loader = "in" => animals = TotalsOf(list)
    BY <1>2 DEF ApartInv, SoundInv
  <2> QED
    BY <1>4, <1>5, <1>8, <2>1 DEF Sound
<1> QED
  BY <1>1, <1>8, <1>9, PagePrinted

(* An open that is alone has its buffer. *)
LEMMA OopsStep ==
    ASSUME ApartInv, NEW r \in Readers, PrintOopses(r)
    PROVE  FALSE
<1>1. message = NULL /\ at[r] # "closed"
  BY DEF PrintOopses, OpenGoes
<1> QED
  BY <1>1, BuffersAssumption DEF ApartInv, OneReader

(* What a reader keeps of its pages, and the page it gets. *)
LEMMA PagesKept ==
    ASSUME NEW S, NEW s \in Seq(S), NEW x \in S
    PROVE  Append(IF Len(s) = MaxPages THEN Tail(s) ELSE s, x) \in Seq(S)
<1>1. CASE Len(s) = MaxPages
  BY <1>1 DEF MaxPages
<1>2. CASE Len(s) # MaxPages
  BY <1>2
<1> QED
  BY <1>1, <1>2

(* The steps of a reader that has the page. *)
LEMMA PageUsed ==
    ASSUME ApartInv, NEW r \in Readers, at[r] \in Using, NEW w \in Using, Goto(r, w),
           got' \in [Readers -> Seq(Pages)],
           loader = "in" => got' \in [Readers -> Seq(Sound)],
           UNCHANGED <<entry, message, text, moduleVars>>
    PROVE  ApartInv'
<1>1. w \in States /\ at[r] # "closed"
  BY DEF States, Using
<1>2. /\ at' \in [Readers -> States] /\ at'[r] = w
      /\ \A q \in Readers : q # r => at[q] = "closed" /\ at'[q] = "closed"
      /\ loader # "out" /\ message \in Buffers /\ OneReader'
  BY <1>1, ReaderMoves
<1>3. NoneAt("count") /\ \A q \in Readers : at'[q] \in Using \cup {"closed"}
  <2>1. NoneAt("count")
    BY <1>2 DEF NoneAt, Using
  <2> QED
    BY <1>2, <2>1
<1>4. AnimalTypeOK'
  BY <1>2 DEF ApartInv, AnimalTypeOK, moduleVars
<1>5. CountInv'
  BY <1>3 DEF ApartInv, CountInv, moduleVars, Using
<1>6. PrintInv' /\ ReadInv'
  BY <1>3 DEF ApartInv, PrintInv, ReadInv, Using
<1>7. ExitInv'
  BY <1>2 DEF ApartInv, ExitInv, moduleVars
<1>8. SoundInv'
  <2>1. loader = "in" => animals = TotalsOf(list) /\ text[message] \in Sound
    BY <1>3 DEF ApartInv, SoundInv
  <2> QED
    BY <1>3, <2>1 DEF SoundInv, moduleVars, Using
<1> QED
  BY <1>2, <1>4, <1>5, <1>6, <1>7, <1>8 DEF ApartInv

LEMMA ReadStep ==
    ASSUME ApartInv, NEW r \in Readers, animal_proc_read(r)
    PROVE  ApartInv'
<1>1. /\ got \in [Readers -> Seq(Pages)]
      /\ loader = "in" => got \in [Readers -> Seq(Sound)]
  BY DEF ApartInv, AnimalTypeOK, SoundInv
<1>2. CASE ReadEntry(r, "copy")
  <2>1. at[r] \in Using /\ UNCHANGED <<entry, message, text, moduleVars>>
    BY <1>2 DEF ReadEntry, ReadsOn, animal_proc_read, Using
  <2>2. ASSUME NEW S, got \in [Readers -> Seq(S)] PROVE got' \in [Readers -> Seq(S)]
    <3>1. <<>> \in Seq(S)
      OBVIOUS
    <3>2. got' = got \/ got' = [got EXCEPT ![r] = <<>>]
      BY <1>2 DEF ReadEntry, ReadsOn
    <3> QED
      BY <2>2, <3>1, <3>2
  <2>3. Goto(r, "eof") \/ Goto(r, "copy")
    BY <1>2 DEF ReadEntry
  <2>4. "eof" \in Using /\ "copy" \in Using
    BY DEF Using
  <2>5. got' \in [Readers -> Seq(Pages)] /\ (loader = "in" => got' \in [Readers -> Seq(Sound)])
    BY <1>1, <2>2
  <2>6. CASE Goto(r, "eof")
    BY <2>1, <2>4, <2>5, <2>6, PageUsed
  <2>7. CASE Goto(r, "copy")
    BY <2>1, <2>4, <2>5, <2>7, PageUsed
  <2> QED
    BY <2>3, <2>6, <2>7
<1>3. CASE CopyToUser(r, "copy", "open")
  <2> DEFINE kept == IF Len(got[r]) = MaxPages THEN Tail(got[r]) ELSE got[r]
  <2>1. /\ at[r] \in Using /\ Goto(r, "open") /\ message \in Buffers
        /\ got' = [got EXCEPT ![r] = Append(kept, text[message])]
        /\ UNCHANGED <<entry, message, text, moduleVars>>
    BY <1>3 DEF CopyToUser, animal_proc_read, Using, ApartInv, OneReader
  <2>2. ASSUME NEW S, got \in [Readers -> Seq(S)], text[message] \in S
        PROVE  got' \in [Readers -> Seq(S)]
    <3>1. Append(kept, text[message]) \in Seq(S)
      BY <2>2, PagesKept
    <3> HIDE DEF kept
    <3> QED
      BY <2>1, <2>2, <3>1
  <2>3. got' \in [Readers -> Seq(Pages)]
    <3>1. text[message] \in Pages
      BY <2>1 DEF ApartInv, AnimalTypeOK
    <3> QED
      BY <1>1, <2>2, <3>1
  <2>4. loader = "in" => got' \in [Readers -> Seq(Sound)]
    <3>1. loader = "in" => text[message] \in Sound
      BY <2>1 DEF ApartInv, SoundInv
    <3> QED
      BY <1>1, <2>2, <3>1
  <2>5. "open" \in Using
    BY DEF Using
  <2> QED
    BY <2>1, <2>3, <2>4, <2>5, PageUsed
<1> QED
  BY <1>2, <1>3 DEF animal_proc_read

LEMMA ReleaseStep ==
    ASSUME ApartInv, NEW r \in Readers, animal_proc_release(r)
    PROVE  ApartInv'
<1>1. /\ at[r] \in {"open", "eof"} /\ Goto(r, "closed") /\ got' = [got EXCEPT ![r] = <<>>]
      /\ UNCHANGED <<entry, message, moduleVars>> /\ Forget(Garbage)
  BY DEF animal_proc_release, ReleaseEntry
<1>2. "closed" \in States /\ at[r] # "closed"
  BY <1>1 DEF States
<1>3. /\ at' \in [Readers -> States] /\ at'[r] = "closed"
      /\ \A q \in Readers : q # r => at[q] = "closed" /\ at'[q] = "closed"
      /\ loader # "out" /\ message \in Buffers /\ OneReader'
  BY <1>1, <1>2, ReaderMoves
<1>4. NoneAt("count") /\ \A q \in Readers : at'[q] = "closed"
  <2>1. NoneAt("count")
    BY <1>1, <1>3 DEF NoneAt
  <2> QED
    BY <1>3, <2>1
<1>5. ASSUME NEW S, got \in [Readers -> Seq(S)] PROVE got' \in [Readers -> Seq(S)]
  <2>1. <<>> \in Seq(S)
    OBVIOUS
  <2> QED
    BY <1>1, <1>5, <2>1
<1>6. /\ text' \in [Buffers -> Pages]
      /\ \A b \in Buffers : text'[b].len < ENTRY_SIZE
  BY <1>1, Forgotten
<1>7. AnimalTypeOK'
  <2>1. got' \in [Readers -> Seq(Pages)]
    BY <1>5 DEF ApartInv, AnimalTypeOK
  <2> QED
    BY <1>1, <1>3, <1>6, <2>1 DEF ApartInv, AnimalTypeOK, moduleVars
<1>8. CountInv'
  BY <1>1, <1>4 DEF ApartInv, CountInv, moduleVars
<1>9. PrintInv' /\ ReadInv'
  BY <1>4, <1>6 DEF PrintInv, ReadInv
<1>10. ExitInv'
  BY <1>1, <1>3 DEF ApartInv, ExitInv, moduleVars
<1>11. SoundInv'
  BY <1>1, <1>4, <1>5 DEF ApartInv, SoundInv, moduleVars, Using
<1> QED
  BY <1>3, <1>7, <1>8, <1>9, <1>10, <1>11 DEF ApartInv

-----------------------------------------------------------------------------
(* The theorems. *)

LEMMA AnimalInvStep == AnimalInv /\ [Next]_vars => AnimalInv'
<1> SUFFICES ASSUME AnimalInv, [Next]_vars, ~shared' PROVE ApartInv'
  BY DEF AnimalInv
<1>1. ~shared
  BY DEF Next, vars, procVars, animal_init, delete_animals, animal_exit, RemoveEntry,
     animal_proc_open, OpenEntry, OpenFails, OpenEntryNull, Enter, add_animal, AddInserts,
     AddCounts, PrintFails, print_animals, PrintHead, PrintNames, PrintOopses, OpenGoes,
     Fill, animal_proc_read, ReadEntry, CopyToUser, animal_proc_release, ReleaseEntry
<1>2. ApartInv
  BY <1>1 DEF AnimalInv
<1>3. CASE UNCHANGED vars
  BY <1>2, <1>3 DEF vars, procVars, moduleVars, ApartInv, AnimalTypeOK, OneReader, NoneAt,
     CountInv, Headed, PrintInv, ExitInv, ReadInv, SoundInv
<1>4. CASE Next
  BY <1>2, <1>4, InitStep, DeleteStep, ExitStep, OpenStep, OpenFailsStep, QuietSteps,
     InsertStep, CountStep, PrintStep, HeadStep, NamesStep, OopsStep, ReadStep,
     ReleaseStep DEF Next
<1> QED
  BY <1>3, <1>4

(* The inductive invariant: as long as opens come one after the other, the *)
(* list, the totals, the buffers, the pages and the stage of the exit      *)
(* agree at every step of random_animals.c.                                *)
THEOREM AnimalInvariant == Spec => []AnimalInv
BY AnimalInvInit, AnimalInvStep, PTL DEF Spec

(* The strcats of print_animals stay inside the buffer animal_proc_open    *)
(* allocates, whatever animals are drawn and deleted meanwhile, as long as *)
(* opens come one after the other; also with the 50 animals and 1000 bytes *)
(* of the code, which TLC does not try.                                    *)
THEOREM MessagesFit == Spec => []MessageFits
<1>1. AnimalInv => MessageFits
  BY DEF AnimalInv, ApartInv, PrintInv, MessageFits
<1> QED
  BY <1>1, AnimalInvariant, PTL

(* The totals a reader sees are those of the animals on the same page, as  *)
(* long as opens come one after the other and the module stays.            *)
THEOREM TotalsAgree == Spec => []TotalsMatch
<1>1. AnimalInv => TotalsMatch
  <2> SUFFICES ASSUME AnimalInv, loader = "in", ~shared, NEW r \in Readers,
                      NEW n \in DOMAIN got[r]
               PROVE  got[r][n].totals = TotalsOf(got[r][n].seen)
    BY DEF TotalsMatch
  <2>1. got[r] \in Seq(Sound)
    BY DEF AnimalInv, ApartInv, SoundInv
  <2>2. got[r][n] \in Sound
    BY <2>1
  <2> QED
    BY <2>2 DEF Sound
<1> QED
  BY <1>1, AnimalInvariant, PTL

(* animal_exit frees all animals but as many as opens add behind it.       *)
THEOREM AnimalsAreFreed == Spec => []AnimalsFreed
<1>1. AnimalInv => AnimalsFreed
  BY DEF AnimalInv, ApartInv, ExitInv, AnimalsFreed
<1> QED
  BY <1>1, AnimalInvariant, PTL

=============================================================================
