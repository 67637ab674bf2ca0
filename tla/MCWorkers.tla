------------------------------ MODULE MCWorkers ------------------------------
(* Model values of Workers for TLC.                                          *)
EXTENDS Workers, TLC
Symmetry == Permutations(Session)
=============================================================================
