-------------------------- MODULE MCRestoreJournal --------------------------
(* RestoreJournal for TLC: two attempts over three launches, so that one crash falls
   between the commits of a restore and another between those of its resolution. *)
EXTENDS RestoreJournal

=============================================================================
