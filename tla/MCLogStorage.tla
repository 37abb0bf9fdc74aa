------------------------------ MODULE MCLogStorage ------------------------------
(* LogStorage with two tasks that fill the ring and go round.  The tasks are  *)
(* interchangeable.                                                          *)
EXTENDS LogStorage, TLC

Symmetry == Permutations(Tasks)
=================================================================================
