----------------------------- MODULE MCDelegate -----------------------------
(* Three renewals and a checkout of two payers; the second pays for the last *)
(* renewal and for the checkout.                                             *)
EXTENDS Delegate

CONSTANTS n1, n2, n3, o1, p1, p2

MCPayerOf == [i \in Items |-> IF i \in {n1, n2} THEN p1 ELSE p2]
=============================================================================
