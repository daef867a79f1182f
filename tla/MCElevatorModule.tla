--------------------------- MODULE MCElevatorModule ---------------------------
(* An instance of ElevatorModule for TLC. *)
EXTENDS ElevatorModule, TLC

CONSTANTS kthread, c1, c2, p1, p2

AllTasks   == {kthread, c1, c2}
Nobody     == {}
TwoStructs == {p1, p2}

(* One struct on each of two floors. *)
TwoFloors  == p1 :> 0 @@ p2 :> 1

=============================================================================
