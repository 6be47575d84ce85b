-------------------------- MODULE MCExecutionLedger --------------------------
(* ExecutionLedger for TLC: three pieces of work over four launches, two of them
   ended by a quit and one by a crash. *)
EXTENDS ExecutionLedger

=============================================================================
