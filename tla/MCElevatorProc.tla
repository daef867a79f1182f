---------------------------- MODULE MCElevatorProc ----------------------------
(* An instance of ElevatorProc for TLC. *)
EXTENDS ElevatorProc

CONSTANTS r1, r2, b1, b2

TwoReaders == {r1, r2}
TwoBuffers == {b1, b2}

=============================================================================
