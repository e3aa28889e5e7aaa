---------------------------- MODULE MCBackupGate ----------------------------
(* BackupGate for TLC.  Its runs check liveness, so there is no symmetry.   *)
EXTENDS BackupGate
=============================================================================
