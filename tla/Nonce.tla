--------------------------------- MODULE Nonce ---------------------------------
(***************************************************************************)
(* Transaction nonces of one relayer key on one chain (lib/chain/nonce.ts):*)
(* the counter in relayer_nonces that the senders of every process draw    *)
(* from, the operator's script that re-anchors it                          *)
(* (scripts/nonce-reanchor.ts), and the one send that takes the node's     *)
(* count instead: a fee to the treasury (lib/chain/fee-payout.ts).         *)
(*                                                                         *)
(* The node is external: it keeps what it was sent until it is mined in    *)
(* nonce order, and may drop any of it.  A transaction is its nonce.  A    *)
(* send that throws is told apart by the text of its error: ambiguous when *)
(* mayHaveBroadcast knows the text, definite otherwise.  The node may hold *)
(* the transaction in either case; only the ambiguous one is kept.         *)
(***************************************************************************)
EXTENDS Integers, FiniteSets

CONSTANTS
    Senders,      \* sends under way together, in whatever process
    MaxNonce,     \* bound: nonces
    MaxLost,      \* bound: requests, answers, releases, processes and transactions lost,
                  \* and nonces misread
    MaxAnchors,   \* bound: runs of the script that delete the row
    MaxPayouts    \* bound: fees sent to the treasury

ASSUME BoundsAssumption ==
    MaxNonce \in Nat /\ MaxLost \in Nat /\ MaxAnchors \in Nat /\ MaxPayouts \in Nat

VARIABLES
    stored,       \* the RelayerNonce row: nextNonce, or NoRow
    sender,       \* the sends
    script,       \* the script
    payout,       \* the send of a fee
    mined,        \* chain: the transaction count at latest
    pool,         \* chain: nonces the node holds and has not mined
    lost,         \* how many of MaxLost have happened
    kept,         \* history: reservations a definite failure could not hand back
    anchors,      \* how often the script has deleted the row
    fees,         \* how many fees were sent
    careless,     \* history: either was done while a send was under way, or one was queued
    misread       \* history: nonces the node took and whose error read as definite

vars == <<stored, sender, script, payout, mined, pool, lost, kept, anchors, fees, careless,
          misread>>

Nonces == 0..(MaxNonce - 1)
Counts == 0..MaxNonce
NoRow == -1

Idle == [at |-> "idle"]
SenderRecords == {Idle} \cup [at : {"read"}, pending : Counts]
                        \cup [at : {"held", "refused"}, nonce : Nonces]

Unread == -1
Seen == Counts \cup {Unread}
PayoutRecords == {Idle} \cup [at : {"read"}, pending : Counts]
Ready == [at |-> "ready"]
ScriptRecords == {Idle, Ready} \cup [at : {"reading"}, stored : Counts, latest : Seen, pending : Seen]

MayErr == lost + Cardinality(misread) < MaxLost
Lose == MayErr /\ lost' = lost + 1

\* eth_getTransactionCount: at "pending" the node counts on to the first gap.
IsPending(p) == p >= mined /\ p \notin pool /\ \A n \in mined..(p - 1) : n \in pool

Reserved(s) == sender[s].at \in {"held", "refused"}

---------------------------------------------------------------------------
(* allocateNonce: the count is read before the upsert, which is atomic. *)

ReadPending(s) ==
    /\ sender[s] = Idle
    /\ \E p \in Counts : IsPending(p) /\ sender' = [sender EXCEPT ![s] = [at |-> "read", pending |-> p]]
    /\ UNCHANGED <<stored, script, payout, mined, pool, lost, kept, anchors, fees, careless,
                   misread>>

\* The nonce handed out: GREATEST of the row and the count, or the count alone.
GivenBefore(p) == IF stored # NoRow /\ stored > p THEN stored ELSE p - 1
Given(p) == IF stored # NoRow /\ stored > p THEN stored ELSE p

Allocate(s) ==
    /\ sender[s].at = "read"
    /\ Given(sender[s].pending) < MaxNonce
    /\ stored' = Given(sender[s].pending) + 1
    /\ sender' = [sender EXCEPT ![s] = [at |-> "held", nonce |-> Given(sender[s].pending)]]
    /\ UNCHANGED <<script, payout, mined, pool, lost, kept, anchors, fees, careless,
                   misread>>

\* The statement fails, or its answer is lost.
AllocateThrows(s) ==
    /\ sender[s].at = "read"
    /\ \/ UNCHANGED <<stored, lost>>
       \/ Lose /\ Given(sender[s].pending) < MaxNonce /\ stored' = Given(sender[s].pending) + 1
    /\ sender' = [sender EXCEPT ![s] = Idle]
    /\ UNCHANGED <<script, payout, mined, pool, kept, anchors, fees, careless,
                   misread>>

---------------------------------------------------------------------------
(* withNonce: the send, and what its failure does with the reservation. *)

Known(n) == n < mined \/ n \in pool

\* The node holds the transaction; it keeps one that it already has under that nonce.
Taken(n) == pool' = IF Known(n) THEN pool ELSE pool \cup {n}

\* It answers, or its answer is lost in a way that mayHaveBroadcast takes as sent.
Broadcast(s) ==
    /\ sender[s].at = "held"
    /\ Taken(sender[s].nonce)
    /\ sender' = [sender EXCEPT ![s] = Idle]
    /\ UNCHANGED <<stored, script, payout, mined, lost, kept, anchors, fees, careless,
                   misread>>

\* A failure mayHaveBroadcast does not recognise, of a transaction the node never had.
Refuse(s) ==
    /\ sender[s].at = "held"
    /\ sender' = [sender EXCEPT ![s].at = "refused"]
    /\ UNCHANGED <<stored, script, payout, mined, pool, lost, kept, anchors, fees, careless,
                   misread>>

\* The same of one the node took, before a gateway answered in its place, say.
RefuseSent(s) ==
    /\ sender[s].at = "held"
    /\ MayErr
    /\ Taken(sender[s].nonce)
    /\ sender' = [sender EXCEPT ![s].at = "refused"]
    /\ misread' = misread \cup {sender[s].nonce}
    /\ UNCHANGED <<stored, script, payout, mined, lost, kept, anchors, fees, careless>>

\* releaseNonce writes only while nothing has been allocated since.
HandedOut(n) == stored > n
Releasable(n) == stored = n + 1

ReturnedNext(n) == n + 1
Returned(n) == n

Release(s) ==
    /\ sender[s].at = "refused"
    /\ IF Releasable(sender[s].nonce)
          THEN stored' = Returned(sender[s].nonce) /\ UNCHANGED kept
          ELSE kept' = kept + 1 /\ UNCHANGED stored
    /\ sender' = [sender EXCEPT ![s] = Idle]
    /\ UNCHANGED <<script, payout, mined, pool, lost, anchors, fees, careless,
                   misread>>

\* The reservation is kept though nothing was sent: an ambiguous failure of a request
\* that never arrived, a release that fails, a process that stops.
SenderStops(s) ==
    /\ Reserved(s)
    /\ Lose
    /\ sender' = [sender EXCEPT ![s] = Idle]
    /\ UNCHANGED <<stored, script, payout, mined, pool, kept, anchors, fees, careless,
                   misread>>

---------------------------------------------------------------------------
(* scripts/nonce-reanchor.ts --write, one run at a time: the row, then both counts *)
(* at once, then the delete by key.  Nothing else deletes a row: resetNonce has no  *)
(* caller but a check script with a key of its own.                                 *)

ScriptRow ==
    /\ script = Idle /\ stored # NoRow /\ anchors < MaxAnchors
    /\ script' = [at |-> "reading", stored |-> stored, latest |-> Unread, pending |-> Unread]
    /\ UNCHANGED <<stored, sender, payout, mined, pool, lost, kept, anchors, fees, careless,
                   misread>>

\* latest == pending is taken for an empty mempool; a row that does not pass is left alone.
Safe(r) == r.latest = r.pending /\ r.stored > r.pending

Judged(r) == IF Unread \in {r.latest, r.pending} THEN r ELSE IF Safe(r) THEN Ready ELSE Idle

ScriptLatest ==
    /\ script.at = "reading" /\ script.latest = Unread
    /\ script' = Judged([script EXCEPT !.latest = mined])
    /\ UNCHANGED <<stored, sender, payout, mined, pool, lost, kept, anchors, fees, careless,
                   misread>>

ScriptPending ==
    /\ script.at = "reading" /\ script.pending = Unread
    /\ \E p \in Counts : IsPending(p) /\ script' = Judged([script EXCEPT !.pending = p])
    /\ UNCHANGED <<stored, sender, payout, mined, pool, lost, kept, anchors, fees, careless,
                   misread>>

Quiet == pool = {} /\ \A s \in Senders : sender[s] = Idle

Reanchor ==
    /\ script = Ready
    /\ script' = Idle
    /\ stored' = NoRow
    /\ anchors' = anchors + 1
    /\ careless' = (careless \/ ~Quiet)
    /\ UNCHANGED <<sender, payout, mined, pool, lost, kept, fees, misread>>

---------------------------------------------------------------------------
(* payFeeToTreasury, for a settlement account that is a key of its own: no counter, *)
(* so the node's count at the moment of the send.  Its failures are swallowed.      *)

PayoutRead ==
    /\ payout = Idle /\ fees < MaxPayouts
    /\ \E p \in Counts : IsPending(p) /\ payout' = [at |-> "read", pending |-> p]
    /\ UNCHANGED <<stored, sender, script, mined, pool, lost, kept, anchors, fees, careless,
                   misread>>

\* Nobody is about to use the nonce, and it is the chain's next one.
InTurn(n) == Quiet /\ n = mined

PayoutSend ==
    /\ payout.at = "read" /\ payout.pending < MaxNonce
    /\ ~Known(payout.pending)
    /\ pool' = pool \cup {payout.pending}
    /\ fees' = fees + 1
    /\ careless' = (careless \/ ~InTurn(payout.pending))
    /\ payout' = Idle
    /\ UNCHANGED <<stored, sender, script, mined, lost, kept, anchors, misread>>

PayoutFails ==
    /\ payout.at = "read"
    /\ payout' = Idle
    /\ UNCHANGED <<stored, sender, script, mined, pool, lost, kept, anchors, fees, careless,
                   misread>>

---------------------------------------------------------------------------
(* The chain. *)

Mine ==
    /\ mined \in pool
    /\ mined' = mined + 1
    /\ pool' = pool \ {mined}
    /\ UNCHANGED <<stored, sender, script, payout, lost, kept, anchors, fees, careless,
                   misread>>

Drop(n) ==
    /\ n \in pool
    /\ Lose
    /\ pool' = pool \ {n}
    /\ UNCHANGED <<stored, sender, script, payout, mined, kept, anchors, fees, careless,
                   misread>>

---------------------------------------------------------------------------
Init ==
    /\ stored = NoRow
    /\ sender = [s \in Senders |-> Idle]
    /\ script = Idle
    /\ payout = Idle
    /\ mined = 0
    /\ pool = {}
    /\ lost = 0
    /\ kept = 0
    /\ anchors = 0
    /\ fees = 0
    /\ careless = FALSE
    /\ misread = {}

SenderStep(s) ==
    \/ ReadPending(s) \/ Allocate(s) \/ AllocateThrows(s)
    \/ Broadcast(s) \/ Refuse(s) \/ RefuseSent(s) \/ Release(s) \/ SenderStops(s)

ScriptStep == ScriptRow \/ ScriptLatest \/ ScriptPending \/ Reanchor

PayoutStep == PayoutRead \/ PayoutSend \/ PayoutFails

Next ==
    \/ \E s \in Senders : SenderStep(s)
    \/ ScriptStep
    \/ PayoutStep
    \/ Mine
    \/ \E n \in Nonces : Drop(n)

Spec == Init /\ [][Next]_vars

\* A send that has begun ends, and the chain mines what is next.
FairSpec == Spec /\ (\A s \in Senders : WF_vars(SenderStep(s))) /\ WF_vars(Mine)

---------------------------------------------------------------------------
(* Type invariant. *)
TypeOK ==
    /\ stored \in Counts \cup {NoRow}
    /\ sender \in [Senders -> SenderRecords]
    /\ script \in ScriptRecords
    /\ payout \in PayoutRecords
    /\ mined \in Counts
    /\ pool \subseteq Nonces
    /\ lost \in 0..MaxLost
    /\ kept \in Nat
    /\ anchors \in 0..MaxAnchors
    /\ fees \in 0..MaxPayouts
    /\ careless \in BOOLEAN
    /\ misread \subseteq Nonces

(* schema.prisma:788 promises that two senders are never given the same     *)
(* nonce.  As long as neither the script was run nor a fee was sent beside  *)
(* them, two sends under way hold different ones, and neither was sent      *)
(* before, except a nonce that was handed back though the node had it: an   *)
(* error text that mayHaveBroadcast (nonce.ts:103) does not match says      *)
(* nothing of what the node took.                                           *)
NeverTwice ==
    careless \/ \A s \in Senders : Reserved(s) =>
        /\ Known(sender[s].nonce) => sender[s].nonce \in misread
        /\ \A t \in Senders \ {s} : Reserved(t) => sender[t].nonce # sender[s].nonce

(* Every nonce below the counter that nobody holds, that is not queued and  *)
(* was not mined, and so stalls all later ones, was lost, or came back too  *)
(* late to be handed out again.                                             *)
Holes == {n \in Nonces : n < stored /\ ~Known(n) /\ \A s \in Senders : Reserved(s) => sender[s].nonce # n}
HolesHaveACause == Cardinality(Holes) <= lost + kept

(* While nothing was lost or kept, what the node holds is mined; nor was    *)
(* anything misread: a nonce handed back over what the node has lets those  *)
(* below it come back too, and nobody need send them again.                 *)
SentIsMined ==
    \A n \in Nonces : (n \in pool) ~> (mined > n \/ lost + kept > 0 \/ careless \/ misread # {})
==============================================================================
