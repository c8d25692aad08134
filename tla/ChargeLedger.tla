----------------------------- MODULE ChargeLedger -----------------------------
(***************************************************************************)
(* What the charge API promises a developer, with no key table, executor   *)
(* or bridge in sight: a charge is made for a request, an idempotency key  *)
(* collects at most once, a charge is reported succeeded only after its    *)
(* money was collected, and a reported outcome never changes.              *)
(*                                                                         *)
(* A charge that was collected may still be reported failed: what          *)
(* executeCharge's catch assumes of a redeem that threw is no part of the  *)
(* promise, because the code cannot keep it.                               *)
(***************************************************************************)
CONSTANTS
    Requests,    \* POST /v1/charges, each of which makes one charge or none
    Keys         \* the values of the Idempotency-Key header

VARIABLES
    keyOf,       \* [Requests -> Keys]: the key sent with each; never changes
    status,      \* [Requests -> {"none", "pending", "succeeded", "failed"}]
    collected    \* the requests whose charge took the subscriber's money

ledgerVars == <<keyOf, status, collected>>

Init ==
    /\ keyOf \in [Requests -> Keys]
    /\ status = [r \in Requests |-> "none"]
    /\ collected = {}

Become(r, s) == status' = [status EXCEPT ![r] = s] /\ UNCHANGED <<keyOf, collected>>

Promise(r) == status[r] = "none" /\ Become(r, "pending")

\* Once for all the requests that carry the key.
Collect(r) ==
    /\ status[r] = "pending"
    /\ \A q \in collected : keyOf[q] # keyOf[r]
    /\ collected' = collected \cup {r}
    /\ UNCHANGED <<keyOf, status>>

Succeed(r) == status[r] = "pending" /\ r \in collected /\ Become(r, "succeeded")
Fail(r)    == status[r] = "pending" /\ Become(r, "failed")

Next == \E r \in Requests : Promise(r) \/ Collect(r) \/ Succeed(r) \/ Fail(r)

Spec == Init /\ [][Next]_ledgerVars
==============================================================================
