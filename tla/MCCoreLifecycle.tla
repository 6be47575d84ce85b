--------------------------- MODULE MCCoreLifecycle ---------------------------
(***************************************************************************)
(* CoreLifecycle for TLC: one window, one insider, one verb, and up to two *)
(* cores in one process.                                                   *)
(***************************************************************************)
EXTENDS CoreLifecycle
=============================================================================
