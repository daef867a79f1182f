------------------------------ MODULE MCMyXtime ------------------------------
(* An instance of MyXtime for TLC. *)
EXTENDS MyXtime

CONSTANTS r1, b1, b2

OneReader  == {r1}
TwoBuffers == {b1, b2}

(* With 100 units to the second: differences of more and of less than a    *)
(* second, and of exactly one, with and without a borrow.                  *)
FiveTimes == {95, 103, 150, 205, 305}

=============================================================================
