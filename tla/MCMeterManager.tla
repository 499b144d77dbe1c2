--------------------------- MODULE MCMeterManager ---------------------------
(* A small instance of MeterManager for safety.                            *)
EXTENDS MeterManager, TLC

Symmetry == Permutations(Meters) \cup Permutations(Slots) \cup Permutations(Jobs)
=============================================================================
