------------------------------ MODULE MCCheckout ------------------------------
(* Small instances of Checkout. *)
EXTENDS Checkout, TLC

Symmetry == Permutations(Sessions) \cup Permutations(Tabs) \cup Permutations(Chains)
            \cup Permutations(Rows) \cup Permutations(Sweeps)
==============================================================================
