------------------------- MODULE MCSessionRunner -------------------------
(* SessionRunner on a few calls, interchangeable within each kind. *)
EXTENDS SessionRunner, TLC

Symmetry ==
  Permutations(Prompts) \cup Permutations(Shells) \cup Permutations(Cancels)

=============================================================================
