--------------------------- MODULE MCSessionCore ---------------------------
(* SessionCore for TLC: the calls in flight are interchangeable, so the safety
   runs explore them up to renaming. *)
EXTENDS SessionCore, TLC

CallSymmetry == Permutations(Calls)

=============================================================================
