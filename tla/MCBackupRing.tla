---------------------------- MODULE MCBackupRing ----------------------------
(* BackupRing for TLC: a ring of two generations, so that the third capture
   prunes. *)
EXTENDS BackupRing

=============================================================================
