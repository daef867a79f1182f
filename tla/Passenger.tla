------------------------------ MODULE Passenger ------------------------------
(***************************************************************************)
(* The passengers of part3/elevator/elevator.h: their types, what each     *)
(* type weighs, the capacity test, and the load counters that the elevator *)
(* and every floor keep.  Weights are in half units, as in the code, so    *)
(* that a child (0.5) is an integer.                                       *)
(***************************************************************************)
EXTENDS Integers, FiniteSets

CONSTANTS MAX_FLOOR,  (* number of floors; 10 in the code                  *)
          MAX_W,      (* weight limit in half units; 30 in the code        *)
          MAX_P       (* limit on passenger units; 10 in the code          *)

ASSUME LimitsAssumption ==
    /\ MAX_FLOOR \in Nat /\ MAX_FLOOR >= 2
    /\ MAX_W \in Nat
    /\ MAX_P \in Nat

(* Array indices of b.f[] and e.p[]: floor 1 of the building is index 0.   *)
Floors == 0 .. MAX_FLOOR - 1
Top    == MAX_FLOOR - 1

(* typedef enum { ADULT, CHILD, ROOM, BELL } P_TYPE *)
ADULT  == 0
CHILD  == 1
ROOM   == 2
BELL   == 3
P_TYPE == {ADULT, CHILD, ROOM, BELL}

(* The fields of struct passenger_type, its list node apart. *)
passenger == [type: P_TYPE, s_floor: Floors, d_floor: Floors]

getPass(t) ==
    IF t \in {CHILD, ADULT} THEN 1 ELSE IF t \in {ROOM, BELL} THEN 2 ELSE -1

getWeight(t) ==
    IF t = CHILD THEN 1
    ELSE IF t = ADULT THEN 2
    ELSE IF t = ROOM THEN 4
    ELSE IF t = BELL THEN 8 ELSE -1

(* 1 for a passenger going up, 0 otherwise: a trip to the floor it starts  *)
(* on counts as going down.                                                *)
pDirection(p) == IF p.d_floor > p.s_floor THEN 1 ELSE 0

-----------------------------------------------------------------------------
(***************************************************************************)
(* The counters w_units, p_units and adult/child/room/bell, which struct   *)
(* elevator_type and struct floors_type share.  number[t] is the counter   *)
(* of type t.                                                              *)
(***************************************************************************)
Load == [w_units: Int, p_units: Int, number: [P_TYPE -> Int]]

NoLoad == [w_units |-> 0, p_units |-> 0, number |-> [t \in P_TYPE |-> 0]]

(* A passenger of type t is counted in (addPass, movePass). *)
CountIn(load, t) ==
    [w_units |-> load.w_units + getWeight(t),
     p_units |-> load.p_units + getPass(t),
     number  |-> [load.number EXCEPT ![t] = @ + 1]]

(* Variant of CountOut for the mutation of LoadAccounting: p_units is kept. *)
CountOutKeepsUnits(load, t) ==
    [w_units |-> load.w_units - getWeight(t),
     p_units |-> load.p_units,
     number  |-> [load.number EXCEPT ![t] = @ - 1]]

(* A passenger of type t is counted out (movePass, delPass). *)
CountOut(load, t) ==
    [w_units |-> load.w_units - getWeight(t),
     p_units |-> load.p_units - getPass(t),
     number  |-> [load.number EXCEPT ![t] = @ - 1]]

(* Variant of canFit for the mutation of CapacityRespected: the test of    *)
(* hasSpace, which ignores what the next passenger weighs.                 *)
canFitHasSpace(t, load) == load.w_units < MAX_W /\ load.p_units < MAX_P

canFit(t, load) ==
    /\ getWeight(t) + load.w_units <= MAX_W
    /\ getPass(t) + load.p_units <= MAX_P

(* The counters a set S of passengers amounts to, f[p] being the struct    *)
(* of p: the reference the running counters are compared with.             *)
Tally(S, f) ==
    LET n(t) == Cardinality({p \in S : f[p].type = t})
    IN  [w_units |-> 2 * n(ADULT) + n(CHILD) + 4 * n(ROOM) + 8 * n(BELL),
         p_units |-> n(ADULT) + n(CHILD) + 2 * n(ROOM) + 2 * n(BELL),
         number  |-> [t \in P_TYPE |-> n(t)]]

=============================================================================
