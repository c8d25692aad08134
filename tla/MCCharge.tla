------------------------------- MODULE MCCharge -------------------------------
(* A small instance of Charge: two requests, of one key or of two. *)
EXTENDS Charge, TLC

CONSTANTS c1, c2, r1, k1

\* Two chains whose grants cover the whole ceiling each; the one on c2 was signed for
\* direct settlement.
MCCap  == (c1 :> 1) @@ (c2 :> 1)
MCPins == (c1 :> FALSE) @@ (c2 :> TRUE)

\* The keys differ in nothing but their names: r1 may as well carry k1.
MCInit == Init /\ ask[r1].key = k1
MCFairSpec == MCInit /\ [][Next]_vars /\ Fairness
==============================================================================
