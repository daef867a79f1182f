----------------------------- MODULE MCAnimalList -----------------------------
(* Instances of AnimalList for TLC. *)
EXTENDS AnimalList, TLC

CONSTANTS r1, r2, b1, b2

TwoReaders == {r1, r2}
TwoBuffers == {b1, b2}

ReadersBuffers == Permutations(TwoReaders) \cup Permutations(TwoBuffers)

=============================================================================
