--------------------------- MODULE MCThreadExample ---------------------------
(* Instances of ThreadExample for TLC. *)
EXTENDS ThreadExample, TLC

CONSTANTS kthread, r1, r2, b1, b2

TwoReaders == {r1, r2}
AllTasks   == {kthread, r1, r2}
TwoBuffers == {b1, b2}

ReadersBuffers == Permutations(TwoReaders) \cup Permutations(TwoBuffers)

=============================================================================
