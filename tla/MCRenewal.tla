------------------------------ MODULE MCRenewal ------------------------------
(* Small instances of Renewal. *)
EXTENDS Renewal, TLC

CONSTANTS c1, c2

\* On c1 a grant covers only the lower price, once per period; on c2 it covers the
\* higher price, and the lower one twice.
MCCap == (c1 :> 1) @@ (c2 :> 2)

\* One chain, which covers the lower price and not the one a change may list.
MCCapOne == c2 :> 2

Symmetry == Permutations(Ticks) \cup Permutations(Rows)
==============================================================================
