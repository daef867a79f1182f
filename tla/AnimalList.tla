------------------------------ MODULE AnimalList ------------------------------
(***************************************************************************)
(* Example 4 of the course material, random_animals.c: every open of       *)
(* /proc/animal_list adds a random animal to a list and prints the list,   *)
(* and the exit frees it, one type of animal after the other.  No lock     *)
(* protects the list, the totals or the buffer, so that opens that overlap *)
(* run into each other.  The order of the animals is left out: the list is *)
(* the number of each type.                                                *)
(***************************************************************************)
EXTENDS ProcEntry, FiniteSetsExt

CONSTANTS MAX_ANIMALS,
          ENTRY_SIZE,
          MaxShared  (* bound: an open overlaps another only while no more
                        animals than this have been counted                *)

(* NUM_ANIMAL_TYPES is 3, and chars is the length of the name. *)
Types == 0 .. 2
Animal ==
    [t \in Types |-> [length |-> <<2, 18, 28>>[t + 1],
                      weight |-> <<1, 160, 1200>>[t + 1],
                      chars  |-> <<7, 3, 3>>[t + 1]]]

(* Where the numbers begin that %d prints with a digit more. *)
Powers == <<10, 100, 1000, 10000, 100000, 1000000, 10000000, 100000000, 1000000000>>

(* 50 animals and a buffer of 1000 bytes in the code: the weight of as     *)
(* many dogs has nine digits at most, and there are 9 bytes for each       *)
(* animal and 95 for the rest of the page.                                 *)
ASSUME AnimalAssumption ==
    /\ MAX_ANIMALS \in Nat /\ 1200 * MAX_ANIMALS < Powers[9]
    /\ ENTRY_SIZE \in Nat /\ ENTRY_SIZE > 95 + 9 * MAX_ANIMALS
    /\ MaxShared \in Nat

VARIABLES
    animals, (* the totals: total_cnt, total_length and total_weight       *)
    list,    (* how many of each type                                      *)
    adding,  (* what the add_animal of each open has in hand: the type of
                the animal, and the totals as it has read them             *)
    loader,  (* "out", "in" or "exiting"                                   *)
    gone,    (* how many types the exit has deleted                        *)
    late     (* history: how many of each type were added during the exit  *)

moduleVars == <<animals, list, adding, loader, gone, late>>
vars       == <<procVars, moduleVars>>

NoAnimals == [t \in Types |-> 0]
NoTotals  == [total_cnt |-> 0, total_length |-> 0, total_weight |-> 0]
BlankPage == [totals |-> NoTotals, seen |-> NoAnimals, len |-> 0]
Nothing   == [type |-> 0, totals |-> NoTotals]

(* What is in a buffer that nobody has initialised, or that has been       *)
(* freed: no zero byte before its last.                                    *)
Garbage == [BlankPage EXCEPT !.len = ENTRY_SIZE - 1]

(* What the animals of a list come to, given what one of each type does. *)
Total(seen, each) == seen[0] * each[0] + seen[1] * each[1] + seen[2] * each[2]

Init ==
    /\ ProcInit(Garbage)
    /\ entry = FALSE
    /\ animals = NoTotals
    /\ list = NoAnimals
    /\ adding = [r \in Readers |-> Nothing]
    /\ loader = "out"
    /\ gone = 0
    /\ late = NoAnimals

(* The entry is taken not to be opened before animal_init returns. *)
animal_init ==
    /\ loader = "out" /\ loader' = "in"
    /\ entry' = TRUE
    /\ animals' = NoTotals
    /\ list' = NoAnimals
    /\ gone' = 0
    /\ late' = NoAnimals
    /\ UNCHANGED <<message, read_p, live, text, at, got, shared, adding>>

(* delete_animals for one type after the other; it leaves the totals alone. *)
delete_animals ==
    /\ loader = "in" \/ (loader = "exiting" /\ gone \in Types)
    /\ loader' = "exiting"
    /\ list' = [list EXCEPT ![gone] = 0]
    /\ gone' = gone + 1
    /\ UNCHANGED <<procVars, animals, adding, late>>

(* Variant of AllDeleted for the mutation of AnimalsFreed: the dogs are    *)
(* forgotten.                                                              *)
AllDeletedButDogs == gone = 2

AllDeleted == gone = 3

animal_exit ==
    /\ loader = "exiting" /\ AllDeleted /\ loader' = "out"
    /\ RemoveEntry /\ Forget(Garbage)
    /\ UNCHANGED <<animals, list, adding, gone, late>>

-----------------------------------------------------------------------------
(* The /proc handlers. *)

(* Steps of an open that leave its buffer alone. *)
OpenGoes(r, here, then) ==
    /\ at[r] = here
    /\ Goto(r, then)
    /\ UNCHANGED <<entry, message, read_p, live, text, got, shared>>

animal_proc_open(r) ==
    /\ OpenEntry(r, "add") /\ FirstOverlap
    /\ shared' => animals.total_cnt <= MaxShared
    /\ UNCHANGED moduleVars

(* kmalloc fails for message, and nothing is added. *)
OpenFails(r) ==
    /\ OpenEntryNull(r, "closed")
    /\ shared' => shared \/ animals.total_cnt <= MaxShared
    /\ UNCHANGED moduleVars

(* Variant of add_animal for the mutation of TotalsMatch: an animal that   *)
(* no longer fits is counted.                                              *)
add_animal_counts_all(r) ==
    /\ OpenGoes(r, "add", IF animals.total_cnt < MAX_ANIMALS THEN "insert" ELSE "count")
    /\ UNCHANGED moduleVars

(* Nothing is added when the list is full, or when kmalloc fails, which    *)
(* animal_proc_open does not look at.                                      *)
add_animal(r) ==
    /\ \/ animals.total_cnt < MAX_ANIMALS /\ OpenGoes(r, "add", "insert")
       \/ OpenGoes(r, "add", "print")
    /\ UNCHANGED moduleVars

(* list_add_tail of the animal that was drawn, its links set at once.      *)
AddInserts(r) ==
    /\ OpenGoes(r, "insert", "count")
    /\ \E t \in Types :
          /\ list' = [list EXCEPT ![t] = @ + 1]
          /\ late' = IF loader = "exiting" THEN [late EXCEPT ![t] = @ + 1] ELSE late
          /\ adding' = [adding EXCEPT ![r] = [type |-> t, totals |-> animals]]
    /\ UNCHANGED <<animals, loader, gone>>

(* Each total is added to as it was read or as it is by now: what other    *)
(* opens have added in between may be lost.                                *)
AddCounts(r) ==
    LET sums  == {adding[r].totals, animals}
        added == Animal[adding[r].type]
    IN  /\ OpenGoes(r, "count", "print")
        /\ animals' \in [total_cnt    : {s.total_cnt + 1 : s \in sums},
                         total_length : {s.total_length + added.length : s \in sums},
                         total_weight : {s.total_weight + added.weight : s \in sums}]
        /\ adding' = [adding EXCEPT ![r] = Nothing]
        /\ UNCHANGED <<list, loader, gone, late>>

(* kmalloc fails for buf: open fails, and message is not freed. *)
PrintFails(r) == OpenGoes(r, "print", "closed") /\ UNCHANGED moduleVars

(* Variant of print_animals for the mutation of MessageFits: the buffer is *)
(* not emptied before the first strcat.                                    *)
print_animals_appends(r) == OpenGoes(r, "print", "head") /\ UNCHANGED moduleVars

(* The buffer is emptied.  This and what follows goes to message, wherever *)
(* that points by now, and the strcats append to what they find there.     *)
print_animals(r) == Fill(r, "print", BlankPage, "head") /\ UNCHANGED moduleVars

Digits(n) == Min({k \in 1 .. 9 : n < Powers[k]})

(* Three lines with a number and one without. *)
HeadLength == 17 + Digits(animals.total_cnt) + 18 + Digits(animals.total_length)
                 + 18 + Digits(animals.total_weight) + 14

PrintHead(r) ==
    /\ LET page == text[message]
       IN  Fill(r, "head", [totals |-> animals, seen |-> page.seen,
                            len |-> page.len + HeadLength], "names")
    /\ UNCHANGED moduleVars

(* The names with a space each, a newline after every five of them and one *)
(* at the end.                                                             *)
NamesLength ==
    LET n == Total(list, [t \in Types |-> 1])
    IN  Total(list, [t \in Types |-> Animal[t].chars + 1])
          + (IF n > 0 THEN (n - 1) \div 5 ELSE 0) + 1

PrintNames(r) ==
    /\ LET page == text[message]
       IN  Fill(r, "names", [totals |-> page.totals,
                             seen |-> [t \in Types |-> page.seen[t] + list[t]],
                             len |-> page.len + NamesLength], "open")
    /\ UNCHANGED moduleVars

(* The open of another has set message to NULL: the reader is killed.      *)
PrintOopses(r) ==
    /\ message = NULL
    /\ \E here \in {"print", "head", "names"} : OpenGoes(r, here, "oops")
    /\ UNCHANGED moduleVars

animal_proc_read(r) ==
    /\ ReadEntry(r, "copy") \/ CopyToUser(r, "copy", "open")
    /\ UNCHANGED moduleVars

animal_proc_release(r) == ReleaseEntry(r) /\ Forget(Garbage) /\ UNCHANGED moduleVars

-----------------------------------------------------------------------------

Next ==
    \/ animal_init \/ delete_animals \/ animal_exit
    \/ \E r \in Readers :
          \/ animal_proc_open(r) \/ OpenFails(r) \/ add_animal(r) \/ AddInserts(r)
          \/ AddCounts(r) \/ PrintFails(r) \/ print_animals(r) \/ PrintHead(r)
          \/ PrintNames(r) \/ PrintOopses(r) \/ animal_proc_read(r) \/ animal_proc_release(r)

Spec == Init /\ [][Next]_vars

-----------------------------------------------------------------------------
(* Properties. *)

(* The totals of the animals on a page. *)
TotalsOf(seen) ==
    [total_cnt    |-> Total(seen, [t \in Types |-> 1]),
     total_length |-> Total(seen, [t \in Types |-> Animal[t].length]),
     total_weight |-> Total(seen, [t \in Types |-> Animal[t].weight])]

(* The totals on every page are those of the animals listed on it, also    *)
(* when the list is full and animals are turned away.  Only a page of an   *)
(* open during the exit may differ, or one of a reader who gets the buffer *)
(* of another.                                                             *)
TotalsMatch ==
    loader = "in" /\ ~shared => \A r \in Readers : \A n \in DOMAIN got[r] :
        got[r][n].totals = TotalsOf(got[r][n].seen)

(* The page and the zero byte after it fit into the buffer of ENTRY_SIZE   *)
(* bytes, whatever animals the list is filled with, as long as the opens   *)
(* come one after the other: those that overlap all append to one buffer,  *)
(* and may all pass the test for a full list.                              *)
MessageFits == ~shared => \A b \in Buffers : text[b].len < ENTRY_SIZE

(* When the module is gone the animals have been freed, of each type all   *)
(* but as many as opens have added during the exit.                        *)
AnimalsFreed == loader = "out" /\ ~shared => \A t \in Types : list[t] <= late[t]

=============================================================================
