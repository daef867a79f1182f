---------------------------- MODULE MCElevatorLock ----------------------------
(* Instances of ElevatorLock for TLC. *)
EXTENDS ElevatorLock, TLC

CONSTANTS kthread, c1, c2, p1, p2

AllTasks    == {kthread, c1, c2}
TwoCallers  == {c1, c2}
TwoStructs  == {p1, p2}
OneStruct   == {p1}

(* A child, whose weight is half a unit, and an adult, from two floors. *)
ChildAndAdult ==
    p1 :> [type |-> CHILD, s_floor |-> 0, d_floor |-> 1]
    @@ p2 :> [type |-> ADULT, s_floor |-> 1, d_floor |-> 0]

ChildOnly == p1 :> ChildAndAdult[p1]

(* The callers may be exchanged. *)
CallersSymmetry == Permutations(TwoCallers)

=============================================================================
