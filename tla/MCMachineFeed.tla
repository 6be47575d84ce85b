--------------------------- MODULE MCMachineFeed ---------------------------
(* MachineFeed for TLC: two sessions, so that a $-id can come to name the other one. *)
EXTENDS MachineFeed

=============================================================================
