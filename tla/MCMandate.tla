------------------------------ MODULE MCMandate ------------------------------
(* Small instances of Mandate. *)
EXTENDS Mandate, TLC

Symmetry == Permutations(Rows) \cup Permutations(Pages) \cup Permutations(Chains)
==============================================================================
