----------------------------- MODULE MCRowLocks -----------------------------
(* RowLocks for TLC.  Its main run checks liveness, so there is no          *)
(* symmetry.                                                                *)
EXTENDS RowLocks
=============================================================================
