-------------------------------- MODULE Charge --------------------------------
(***************************************************************************)
(* One-off charges against a mandate: POST /v1/charges (routes/charges.ts, *)
(* lib/idempotency.ts), the detached execution (billing/direct-charge.ts), *)
(* and the pass that resumes its bridges every five minutes from the       *)
(* billing process (scheduler.ts, bridge.ts).  The API process and the     *)
(* billing process share the database and the settlement account on each   *)
(* chain, and no lock.                                                     *)
(*                                                                         *)
(* One mandate: charges of different mandates meet only in the settlement  *)
(* account.  Time is counted in periods of the mandate, and Tick opens a   *)
(* new period of every on-chain enforcer with it.  A write that throws has *)
(* not been made.                                                          *)
(*                                                                         *)
(* Abstracted: the platform fee travels with the burn; attesting and       *)
(* minting are one step with the settlement (CCTP accepts a message once); *)
(* what the wallet holds on a chain is left open, so "insufficient funds"  *)
(* is always a possible answer, and so is a chain that has the money.      *)
(***************************************************************************)
EXTENDS Integers, Sequences, Functions

CONSTANTS
    Requests,     \* POST /v1/charges, retries of a lost one included
    Keys,         \* values of the Idempotency-Key header
    Chains,       \* the chains the mandate's subscriber granted
    Passes,       \* executions of the resume job that may be alive at once
    Amounts,      \* what a request may ask for
    MaxAmount,    \* the mandate's ceiling per period
    Cap,          \* [Chains -> Nat]: the signed cap of each grant, per period
    PinsPayees,   \* [Chains -> BOOLEAN]: was the grant signed for direct settlement
    Horizon,      \* bound: the clock stops here
    MaxEvents     \* bound: revokes, expiries, restarts and lost receipts in all

ASSUME AmountsAssumption == Amounts \subseteq Nat \ {0}
ASSUME CeilingAssumption == MaxAmount \in Nat
ASSUME ChainsAssumption == Chains # {}
ASSUME CapsAssumption == Cap \in [Chains -> Nat]
ASSUME PinsAssumption == PinsPayees \in [Chains -> BOOLEAN]
ASSUME PassesAssumption == "api" \notin Passes
ASSUME BoundsAssumption == Horizon \in Nat /\ MaxEvents \in Nat

VARIABLES
    now,          \* the current period
    events,       \* how many of MaxEvents have happened
    direct,       \* DIRECT_SETTLEMENT_ENABLED in the API process
    mandate,      \* the Mandate row's status
    grant,        \* its RenewalDelegation row on each chain
    disabled,     \* on chain: the delegations disabled in the subscriber's wallet
    spent,        \* on chain: what each grant's enforcer let through this period
    pool,         \* on chain: the USDC of the settlement account
    ask,          \* what each request asks for: never changes
    key,          \* the IdempotencyKey rows
    charge,       \* the Charge row each request made
    at,           \* in the API process: where each request, then its execution, is
    chain,        \* the chain planned for each charge, later in its bridge row
    row,          \* the status of each charge's BridgeTransfer row
    drive,        \* in memory: what each driver knows of the rows it drives
    pulls,        \* history: the periods in which each charge was pulled
    burns         \* history: how often each charge was burned

client  == <<key, charge, at>>
onChain == <<disabled, spent, pool>>
bridge  == <<row, drive>>
hist    == <<pulls, burns>>
vars    == <<now, events, direct, mandate, grant, onChain, ask, client, chain,
             bridge, hist>>

Periods == 0..Horizon
Never   == -1                       \* no redeem recorded
Drivers == {"api"} \cup Passes      \* executeCharge's own tail, and the resume passes

GrantRecords == [status : {"active", "revoked"}, last : Periods \cup {Never}]

KeyFree    == [status |-> "none"]
KeyRecords == {KeyFree} \cup [status : {"in_flight", "completed"}, owner : Requests]

NoCharge      == [status |-> "none"]
ChargeRecords == {NoCharge} \cup [status : {"pending", "succeeded", "failed"},
                                  created : Periods]

Steps == {"idle",                               \* not sent, or free to be sent again
          "claimed", "refused", "reserved",     \* the request
          "planning", "redeeming", "failing",   \* executeCharge, up to the redeem
          "pulled", "stamped",                  \* after it, towards a bridge row
          "paid", "settling",                   \* after it, settled directly
          "over"}                               \* finished or forgotten

Amount(r) == ask[r].amount
KeyRow(r) == key[ask[r].key]

Event == events < MaxEvents /\ events' = events + 1

Goto(r, from, to) == at[r] = from /\ at' = [at EXCEPT ![r] = to]

---------------------------------------------------------------------------
(* The request (the API process). *)

\* Variant: a key that is in flight is taken over, its owner presumed dead.
Unfinished(r) == KeyRow(r).status # "completed"

\* claimKey: the unique (merchant, key) row.
MayClaim(r) == KeyRow(r) = KeyFree

ClaimKey(r) ==
    /\ Goto(r, "idle", "claimed")
    /\ MayClaim(r)
    /\ key' = [key EXCEPT ![ask[r].key] = [status |-> "in_flight", owner |-> r]]
    /\ UNCHANGED <<now, events, direct, mandate, grant, onChain, ask, charge, chain,
                   bridge, hist>>

\* Somebody has the key: replayed, or refused as in flight or as another body.
KeyTaken(r) ==
    /\ Goto(r, "idle", "over")
    /\ ~MayClaim(r)
    /\ UNCHANGED <<now, events, direct, mandate, grant, onChain, ask, key, charge, chain,
                   bridge, hist>>

\* Variant: only what was collected counts.
SucceededOnly == {"succeeded"}

\* periodCommitted: a whitelist, so that a failed charge frees its share.
Counted == {"pending", "succeeded"}

CommittedBy(p) == {q \in Requests : charge[q].status \in Counted /\ charge[q].created >= p}

Total(S) == SumFunctionOnSet([q \in Requests |-> Amount(q)], S)

\* The check and the insert are one serializable transaction.
Reserve(r) ==
    /\ Goto(r, "claimed", "reserved")
    /\ mandate = "active"
    /\ Total(CommittedBy(now)) + Amount(r) <= MaxAmount
    /\ charge' = [charge EXCEPT ![r] = [status |-> "pending", created |-> now]]
    /\ UNCHANGED <<now, events, direct, mandate, grant, onChain, ask, key, chain,
                   bridge, hist>>

\* The transaction says no (not active, over the ceiling), or throws (P2034 when two
\* of them collide, a lost connection): always possible, and both release the key.
RefuseReserve(r) ==
    /\ Goto(r, "claimed", "refused")
    /\ UNCHANGED <<now, events, direct, mandate, grant, onChain, ask, key, charge, chain,
                   bridge, hist>>

\* The client is free to send the same key again.
ReleaseKey(r) ==
    /\ Goto(r, "refused", "idle")
    /\ key' = [key EXCEPT ![ask[r].key] = KeyFree]
    /\ UNCHANGED <<now, events, direct, mandate, grant, onChain, ask, charge, chain,
                   bridge, hist>>

CompleteKey(r) ==
    /\ Goto(r, "reserved", "planning")
    /\ key' = [key EXCEPT ![ask[r].key].status = "completed"]
    /\ UNCHANGED <<now, events, direct, mandate, grant, onChain, ask, charge, chain,
                   bridge, hist>>

\* releaseKey or completeKey throws: a 500, and the key row stays in flight.
KeyWriteThrows(r) ==
    /\ at[r] \in {"refused", "reserved"}
    /\ at' = [at EXCEPT ![r] = "over"]
    /\ UNCHANGED <<now, events, direct, mandate, grant, onChain, ask, key, charge, chain,
                   bridge, hist>>

---------------------------------------------------------------------------
(* executeCharge, detached in the API process. *)

\* planCharge's checks on the mandate; the charge's own row is not counted.
MayCharge(r) ==
    /\ mandate = "active"
    /\ Total(CommittedBy(now) \ {r}) + Amount(r) <= MaxAmount

\* Active grants whose cap covers the amount and whose period has no recorded redeem.
Usable(r) ==
    {c \in Chains : /\ grant[c].status = "active"
                    /\ Cap[c] >= Amount(r)
                    /\ grant[c].last # now}

\* The usable delegations that the chain, when it answers, says are disabled.
SeenDisabled(r) == SUBSET (Usable(r) \cap disabled)

RevokeRows(C) ==
    grant' = [c \in Chains |-> IF c \in C THEN [grant[c] EXCEPT !.status = "revoked"]
                                          ELSE grant[c]]

Plan(r) ==
    /\ Goto(r, "planning", "redeeming")
    /\ MayCharge(r)
    /\ \E seen \in SeenDisabled(r) :
          /\ RevokeRows(seen)
          /\ \E c \in Usable(r) \ seen : chain' = [chain EXCEPT ![r] = c]
    /\ UNCHANGED <<now, events, direct, mandate, onChain, ask, key, charge, bridge, hist>>

\* planCharge throws: a refusal, funds included, or a read that failed.
PlanRefused(r) ==
    /\ Goto(r, "planning", "failing")
    /\ \E seen \in SeenDisabled(r) :
          /\ seen # {} => MayCharge(r)
          /\ RevokeRows(seen)
    /\ UNCHANGED <<now, events, direct, mandate, onChain, ask, key, charge, chain,
                   bridge, hist>>

\* On chain: the enforcer sums what it lets through in a period, a disabled delegation
\* reverts, and so does a call that pays anybody but the payees the grant pins.
Redeemable(r) ==
    /\ chain[r] \notin disabled
    /\ spent[chain[r]] + Amount(r) <= Cap[chain[r]]
    /\ direct = PinsPayees[chain[r]]

\* Without direct settlement the money goes to the settlement account.
MoneyMoves(r) ==
    /\ spent' = [spent EXCEPT ![chain[r]] = @ + Amount(r)]
    /\ pool' = IF direct THEN pool ELSE [pool EXCEPT ![chain[r]] = @ + Amount(r)]
    /\ pulls' = [pulls EXCEPT ![r] = Append(@, now)]

Redeem(r) ==
    /\ Goto(r, "redeeming", IF direct THEN "paid" ELSE "pulled")
    /\ Redeemable(r)
    /\ MoneyMoves(r)
    /\ UNCHANGED <<now, events, direct, mandate, grant, disabled, ask, key, charge, chain,
                   bridge, burns>>

\* It landed, and waiting for its receipt threw.
RedeemSeenAsFailed(r) ==
    /\ Event
    /\ Goto(r, "redeeming", "failing")
    /\ Redeemable(r)
    /\ MoneyMoves(r)
    /\ UNCHANGED <<now, direct, mandate, grant, disabled, ask, key, charge, chain,
                   bridge, burns>>

RedeemFails(r) ==
    /\ Goto(r, "redeeming", "failing")
    /\ UNCHANGED <<now, events, direct, mandate, grant, onChain, ask, key, charge, chain,
                   bridge, hist>>

\* Variants: a failed charge is planned again; its step is confused with its status.
PlannedAgain == "planning"
FailedStep   == "failed"

\* failCharge is the end of an execution.
AfterFailure == "over"

FailCharge(r) ==
    /\ Goto(r, "failing", AfterFailure)
    /\ charge' = [charge EXCEPT ![r].status = "failed"]
    /\ UNCHANGED <<now, events, direct, mandate, grant, onChain, ask, key, chain,
                   bridge, hist>>

\* The grant row is stamped, revoked or not.
Stamp(r) ==
    /\ \/ Goto(r, "pulled", "stamped")
       \/ Goto(r, "paid", "settling")
    /\ grant' = [grant EXCEPT ![chain[r]].last = now]
    /\ UNCHANGED <<now, events, direct, mandate, onChain, ask, key, charge, chain,
                   bridge, hist>>

SettleDirect(r) ==
    /\ Goto(r, "settling", "over")
    /\ charge' = [charge EXCEPT ![r].status = "succeeded"]
    /\ UNCHANGED <<now, events, direct, mandate, grant, onChain, ask, key, chain,
                   bridge, hist>>

\* Direct settlement stamps and settles inside the redeem's own try.
DirectWriteThrows(r) ==
    /\ at[r] \in {"paid", "settling"}
    /\ at' = [at EXCEPT ![r] = "failing"]
    /\ UNCHANGED <<now, events, direct, mandate, grant, onChain, ask, key, charge, chain,
                   bridge, hist>>

OpenBridge(r) ==
    /\ Goto(r, "stamped", "over")
    /\ row' = [row EXCEPT ![r] = "pulled"]
    /\ drive' = [drive EXCEPT !["api"][r] = "pulled"]
    /\ UNCHANGED <<now, events, direct, mandate, grant, onChain, ask, key, charge, chain,
                   hist>>

\* A read or a write that nobody catches: loadCharge's, failCharge's, the stamp's, the
\* bridge row's.  (The unhandled rejection may end the process: RestartApi.)
ExecutionDies(r) ==
    /\ at[r] \in {"planning", "failing", "pulled", "stamped"}
    /\ at' = [at EXCEPT ![r] = "over"]
    /\ UNCHANGED <<now, events, direct, mandate, grant, onChain, ask, key, charge, chain,
                   bridge, hist>>

---------------------------------------------------------------------------
(* resumeChargeBridges and advanceBridge.  A driver acts on the status it  *)
(* read: "pulled" it will burn, "burnt" it has burned and not recorded,    *)
(* "burned" and "attest" it will mint.                                     *)

\* Variant: a burn without its mint is not looked for.
UnburnedOnly == {"pulled"}

\* The query of resumeChargeBridges.
Resumable == {"pulled", "burned"}

ListRows(p) ==
    /\ \A r \in Requests : drive[p][r] = "off"
    /\ \E r \in Requests : row[r] \in Resumable
    /\ drive' = [drive EXCEPT ![p] =
                    [r \in Requests |-> IF row[r] \in Resumable THEN row[r] ELSE "off"]]
    /\ UNCHANGED <<now, events, direct, mandate, grant, onChain, ask, client, chain, row,
                   hist>>

\* A pass drives one row at a time; each execution drives its own.
Turn(d, r) ==
    d = "api" \/ \A q \in Requests \ {r} : drive[d][q] \notin {"burnt", "attest"}

Knows(d, r, from, to) ==
    /\ drive[d][r] \in from
    /\ Turn(d, r)
    /\ drive' = [drive EXCEPT ![d][r] = to]

\* depositForBurn needs the amount in the settlement account, whoever it came from.
BurnLands(r) ==
    /\ pool[chain[r]] >= Amount(r)
    /\ pool' = [pool EXCEPT ![chain[r]] = @ - Amount(r)]
    /\ burns' = [burns EXCEPT ![r] = @ + 1]

Burn(d, r) ==
    /\ Knows(d, r, {"pulled"}, "burnt")
    /\ BurnLands(r)
    /\ UNCHANGED <<now, events, direct, mandate, grant, disabled, spent, ask, client, chain,
                   row, pulls>>

\* It landed, and waiting for its receipt threw.
BurnSeenAsFailed(d, r) ==
    /\ Event
    /\ Knows(d, r, {"pulled"}, "off")
    /\ BurnLands(r)
    /\ UNCHANGED <<now, direct, mandate, grant, disabled, spent, ask, client, chain, row,
                   pulls>>

\* By id, whatever the row has become since the driver read it.
RecordBurn(d, r) ==
    /\ Knows(d, r, {"burnt"}, "attest")
    /\ row' = [row EXCEPT ![r] = "burned"]
    /\ UNCHANGED <<now, events, direct, mandate, grant, onChain, ask, client, chain, hist>>

\* recordChargeSettled: the charge and its row in one transaction.
MintAndSettle(d, r) ==
    /\ Knows(d, r, {"burned", "attest"}, "off")
    /\ row' = [row EXCEPT ![r] = "minted"]
    /\ charge' = [charge EXCEPT ![r].status = "succeeded"]
    /\ UNCHANGED <<now, events, direct, mandate, grant, onChain, ask, key, at, chain, hist>>

\* A stall is logged: the charge stays pending, for the passes to finish.
AfterStall(d, r) == at

\* A burn or a mint that fails, an attestation that is pending, a write that throws.
Stall(d, r) ==
    /\ Knows(d, r, {"pulled", "burnt", "burned", "attest"}, "off")
    /\ at' = AfterStall(d, r)
    /\ UNCHANGED <<now, events, direct, mandate, grant, onChain, ask, key, charge, chain,
                   row, hist>>

\* Reading the charge of the next row is outside the loop's try: its throw ends the pass.
PassAborts(p) ==
    /\ \E r \in Requests : drive[p][r] \in Resumable
    /\ \A r \in Requests : drive[p][r] \notin {"burnt", "attest"}
    /\ drive' = [drive EXCEPT ![p] = [r \in Requests |-> "off"]]
    /\ UNCHANGED <<now, events, direct, mandate, grant, onChain, ask, client, chain, row,
                   hist>>

---------------------------------------------------------------------------
(* Everybody else. *)

\* DELETE /v1/mandates/:id, and the payer's portal: mandate and grants in one transaction.
RevokeMandate ==
    /\ Event
    /\ mandate # "revoked"
    /\ mandate' = "revoked"
    /\ RevokeRows(Chains)
    /\ UNCHANGED <<now, direct, onChain, ask, client, chain, bridge, hist>>

\* runMandateExpiryOnce leaves the grants alone.
ExpireMandate ==
    /\ Event
    /\ mandate = "active"
    /\ mandate' = "expired"
    /\ UNCHANGED <<now, direct, grant, onChain, ask, client, chain, bridge, hist>>

Disable(c) ==
    /\ Event
    /\ c \notin disabled
    /\ disabled' = disabled \cup {c}
    /\ UNCHANGED <<now, direct, mandate, grant, spent, pool, ask, client, chain, bridge,
                   hist>>

\* The API process forgets its requests and executions, and may start with the flag on.
RestartApi ==
    /\ Event
    /\ at' = [r \in Requests |-> IF at[r] = "idle" THEN "idle" ELSE "over"]
    /\ drive' = [drive EXCEPT !["api"] = [r \in Requests |-> "off"]]
    /\ direct' \in {direct, TRUE}
    /\ UNCHANGED <<now, mandate, grant, onChain, ask, key, charge, chain, row, hist>>

RestartBilling ==
    /\ Event
    /\ drive' = [d \in Drivers |-> IF d = "api" THEN drive[d] ELSE [r \in Requests |-> "off"]]
    /\ UNCHANGED <<now, direct, mandate, grant, onChain, ask, client, chain, row, hist>>

Tick ==
    /\ now < Horizon
    /\ now' = now + 1
    /\ spent' = [c \in Chains |-> 0]
    /\ UNCHANGED <<events, direct, mandate, grant, disabled, pool, ask, client, chain,
                   bridge, hist>>

---------------------------------------------------------------------------

Init ==
    /\ now = 0
    /\ events = 0
    /\ direct \in BOOLEAN
    /\ mandate = "active"
    /\ grant = [c \in Chains |-> [status |-> "active", last |-> Never]]
    /\ disabled = {}
    /\ spent = [c \in Chains |-> 0]
    /\ pool = [c \in Chains |-> 0]
    /\ ask \in [Requests -> [key : Keys, amount : Amounts]]
    /\ key = [k \in Keys |-> KeyFree]
    /\ charge = [r \in Requests |-> NoCharge]
    /\ at = [r \in Requests |-> "idle"]
    /\ chain = [r \in Requests |-> CHOOSE c \in Chains : TRUE]    \* until it is planned
    /\ row = [r \in Requests |-> "none"]
    /\ drive = [d \in Drivers |-> [r \in Requests |-> "off"]]
    /\ pulls = [r \in Requests |-> <<>>]
    /\ burns = [r \in Requests |-> 0]

RequestStep(r) ==
    \/ ClaimKey(r) \/ KeyTaken(r) \/ Reserve(r) \/ RefuseReserve(r)
    \/ ReleaseKey(r) \/ CompleteKey(r) \/ KeyWriteThrows(r)

ExecutionStep(r) ==
    \/ Plan(r) \/ PlanRefused(r)
    \/ Redeem(r) \/ RedeemSeenAsFailed(r) \/ RedeemFails(r) \/ FailCharge(r)
    \/ Stamp(r) \/ SettleDirect(r) \/ DirectWriteThrows(r)
    \/ OpenBridge(r) \/ ExecutionDies(r)

DriveStep(d, r) ==
    \/ Burn(d, r) \/ BurnSeenAsFailed(d, r) \/ RecordBurn(d, r)
    \/ MintAndSettle(d, r) \/ Stall(d, r)

PassStep(p) == ListRows(p) \/ PassAborts(p)

Others ==
    \/ RevokeMandate \/ ExpireMandate
    \/ \E c \in Chains : Disable(c)
    \/ RestartApi \/ RestartBilling \/ Tick

Next ==
    \/ \E r \in Requests : RequestStep(r) \/ ExecutionStep(r)
    \/ \E d \in Drivers, r \in Requests : DriveStep(d, r)
    \/ \E p \in Passes : PassStep(p)
    \/ Others

Spec == Init /\ [][Next]_vars

\* What a driver has begun goes on until it stalls or its process stops, and the resume job
\* fires every five minutes; no burn, no record of one and no mint that is attempted pass
\* after pass fails every time.
Fairness ==
    /\ \A d \in Drivers, r \in Requests : WF_vars(DriveStep(d, r))
    /\ \A p \in Passes :
          /\ WF_vars(ListRows(p))
          /\ \A r \in Requests :
                /\ SF_vars(Burn(p, r))
                /\ SF_vars(RecordBurn(p, r))
                /\ SF_vars(MintAndSettle(p, r))

FairSpec == Spec /\ Fairness

---------------------------------------------------------------------------
(* Properties. *)

TypeOK ==
    /\ now \in Periods
    /\ events \in 0..MaxEvents
    /\ direct \in BOOLEAN
    /\ mandate \in {"active", "revoked", "expired"}
    /\ grant \in [Chains -> GrantRecords]
    /\ disabled \subseteq Chains
    /\ spent \in [Chains -> Nat]
    /\ pool \in [Chains -> Nat]
    /\ ask \in [Requests -> [key : Keys, amount : Amounts]]
    /\ key \in [Keys -> KeyRecords]
    /\ charge \in [Requests -> ChargeRecords]
    /\ at \in [Requests -> Steps]
    /\ chain \in [Requests -> Chains]
    /\ row \in [Requests -> {"none", "pulled", "burned", "minted"}]
    /\ drive \in [Drivers -> [Requests -> {"off", "pulled", "burnt", "burned", "attest"}]]
    /\ pulls \in [Requests -> Seq(Periods)]
    /\ burns \in [Requests -> Nat]

\* However often a client sends a key, concurrently, after a 409, after a 500 or over a
\* restart of the API, the subscriber is debited for it once at most.
KeyPaidOnce ==
    \A r, q \in Requests :
        /\ Len(pulls[r]) <= 1
        /\ (pulls[r] # <<>> /\ pulls[q] # <<>> /\ ask[r].key = ask[q].key) => r = q

\* The charges made in a period and not failed stay within the mandate's ceiling,
\* however many requests reserve against it at once.
CeilingHolds ==
    \A p \in Periods :
        Total({r \in Requests : charge[r].status \in {"pending", "succeeded"}
                                /\ charge[r].created = p}) <= MaxAmount

\* A charge whose money is in flight is never reported failed: whatever stalls its
\* bridge, it stays pending until a driver settles it.
RowNeverFailed ==
    \A r \in Requests : row[r] # "none" => charge[r].status \in {"pending", "succeeded"}

\* r's burn landed and nobody holds it to record it: a receipt that did not come, a record
\* that threw, a restart between the two.
BurnUnrecorded(r) ==
    row[r] = "pulled" /\ burns[r] > 0 /\ \A d \in Drivers : drive[d][r] # "burnt"

\* The money pulled for r is gone: its own burn was not recorded, or it paid for the second
\* burn of another charge.
Stranded(r) ==
    /\ row[r] = "pulled" /\ pool[chain[r]] < Amount(r)
    /\ \/ BurnUnrecorded(r)
       \/ burns[r] = 0 /\ \E q \in Requests : chain[q] = chain[r] /\ burns[q] > 1

\* A recorded burn is minted in the end, whatever stalls on the way.  A row not burned yet
\* is minted too, unless it is stranded (direct-charge.ts:491-493: without the resume pass a
\* charge whose mint failed would sit pending for ever with the money already pulled).
InFlightIsSettled ==
    \A r \in Requests :
        /\ row[r] = "burned" ~> row[r] = "minted"
        /\ row[r] = "pulled" ~> row[r] = "minted" \/ Stranded(r)

\* The API implements the ledger: a key collects once, only collected charges succeed,
\* and a reported outcome is final.
Ledger == INSTANCE ChargeLedger
    WITH keyOf <- [r \in Requests |-> ask[r].key],
         status <- [r \in Requests |-> charge[r].status],
         collected <- {r \in Requests : pulls[r] # <<>>}
ImplementsChargeLedger == Ledger!Spec
==============================================================================
