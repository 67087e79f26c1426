------------------------- MODULE MCSimulationClock -------------------------
(* A small instance of SimulationClock for TLC. *)
EXTENDS SimulationClock

TwoPriorities == {10, 100}
=============================================================================
