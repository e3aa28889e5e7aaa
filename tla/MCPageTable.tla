---------------------------- MODULE MCPageTable ----------------------------
(* PageTable for TLC.                                                       *)
EXTENDS PageTable
=============================================================================
