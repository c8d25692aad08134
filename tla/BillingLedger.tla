---------------------------- MODULE BillingLedger ----------------------------
(***************************************************************************)
(* What the renewal engine promises, with no pass, claim or bridge in      *)
(* sight: money is collected from a subscriber, and a collected amount     *)
(* buys exactly one billing period.  No period is credited before the      *)
(* money for it was collected, no amount is credited twice, and a period   *)
(* end never moves except by one period per credit.                        *)
(*                                                                         *)
(* Money collected and never credited is allowed: the ledger is about what *)
(* the subscriber is given for it (Renewal.PulledOncePerPeriod is about    *)
(* what is taken).                                                         *)
(***************************************************************************)
EXTENDS Integers

CONSTANTS
    Subs,        \* subscriptions
    Amounts,     \* the amounts a period may be collected at
    FirstEnd     \* the end of the period the checkout paid for

VARIABLES
    collected,   \* [Subs -> Nat]: money taken from the subscriber's wallet
    credited,    \* [Subs -> Nat]: money recorded as a renewal payment
    paidThrough  \* [Subs -> Nat]: the end of the last paid period

ledgerVars == <<collected, credited, paidThrough>>

Init ==
    /\ collected = [s \in Subs |-> 0]
    /\ credited = [s \in Subs |-> 0]
    /\ paidThrough = [s \in Subs |-> FirstEnd]

Collect(s) ==
    /\ \E a \in Amounts : collected' = [collected EXCEPT ![s] = @ + a]
    /\ UNCHANGED <<credited, paidThrough>>

\* The whole of what was collected may be credited and no more: an amount
\* credited twice, or before its money moved, is not a step of this module.
Credit(s) ==
    /\ \E a \in Amounts :
          /\ credited[s] + a <= collected[s]
          /\ credited' = [credited EXCEPT ![s] = @ + a]
    /\ paidThrough' = [paidThrough EXCEPT ![s] = @ + 1]
    /\ UNCHANGED collected

Next == \E s \in Subs : Collect(s) \/ Credit(s)

Spec == Init /\ [][Next]_ledgerVars
==============================================================================
