--------------------------- MODULE MCVEBusRequests ----------------------------
(* VEBusRequests for TLC: the keys are interchangeable model values.         *)
EXTENDS VEBusRequests, TLC

KeySymmetry == Permutations(Keys)
===============================================================================
