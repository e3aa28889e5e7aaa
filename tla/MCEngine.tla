------------------------------ MODULE MCEngine ------------------------------
(* Engine for TLC, with interchangeable sessions.                           *)
EXTENDS Engine, TLC

Symmetry == Permutations(Sessions)
=============================================================================
