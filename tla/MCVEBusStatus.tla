----------------------------- MODULE MCVEBusStatus ----------------------------
(* VEBusStatus for TLC: the values and phases are interchangeable.           *)
EXTENDS VEBusStatus, TLC

DataSymmetry == Permutations(Values) \cup Permutations(Phases) \cup Permutations(Readers)
===============================================================================
