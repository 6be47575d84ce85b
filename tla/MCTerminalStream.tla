-------------------------- MODULE MCTerminalStream --------------------------
(* TerminalStream for TLC: watermarks of one and two units, so that a pause needs
   three units in flight and its end needs every one acknowledged. *)
EXTENDS TerminalStream

=============================================================================
