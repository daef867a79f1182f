------------------------------ MODULE MCElevator ------------------------------
(* Instances of Elevator for TLC. *)
EXTENDS Elevator

CONSTANTS p1, p2, p3

TwoPassengers   == {p1, p2}
ThreePassengers == {p1, p2, p3}

(* The structs of the pool are interchangeable. *)
PassengersSymmetry == Permutations(ThreePassengers)

Request(t, s, d) == [p_type |-> t + 1, s_floor |-> s, d_floor |-> d]

(* Trips in both directions, to and from both ends, one to the floor it    *)
(* starts on, and a bellhop heavy enough to leave others waiting; the rest *)
(* are refused by the range checks.                                        *)
MixedRequests ==
    {Request(BELL, 1, 4), Request(ADULT, 1, 2), Request(CHILD, 4, 1),
     Request(ROOM, 2, 3), Request(CHILD, 3, 3), Request(ADULT, 3, 2)}
    \cup {Request(-1, 1, 2), Request(4, 1, 2), Request(ADULT, 0, 2),
          Request(ADULT, 1, 5)}

(* What producer.c issues: trips between different floors. *)
ProducerRequests ==
    {Request(BELL, 1, 3), Request(ROOM, 1, 2), Request(BELL, 4, 2),
     Request(CHILD, 2, 1), Request(ADULT, 2, 4)}

(* A trip to the floor it starts on, which issue_request accepts too. *)
GroundFloorRequests == {Request(ADULT, 1, 1), Request(ADULT, 1, 2)}

=============================================================================
