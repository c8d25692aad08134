------------------------------- MODULE Renewal -------------------------------
(***************************************************************************)
(* The hosted renewal engine: the daily billing pass of                    *)
(* apps/api/src/billing (scheduler.ts, engine.ts, delegated-renewal.ts,    *)
(* claims.ts, bridge.ts) against the tables it shares with the customer    *)
(* portal and the merchant API.                                            *)
(*                                                                         *)
(* One action per awaited step of the pass, so that portal requests, price *)
(* changes, process restarts and the clock interleave between them.        *)
(*                                                                         *)
(* Time is counted in billing periods: `now' is the number of the current  *)
(* one, a period end is due once it is at most `now', and Tick also opens  *)
(* a new period of every on-chain enforcer.  Any number of passes may run  *)
(* within one unit.                                                        *)
(*                                                                         *)
(* Abstracted: several redeems sharing one batch transaction are redeemed  *)
(* one by one; the platform fee travels with the amount; a CCTP mint is    *)
(* idempotent on chain and is part of the step that settles; the Arc       *)
(* branch is left out (no Arc grant exists: delegated-renewal.ts:473).     *)
(***************************************************************************)
EXTENDS Integers, FiniteSets

CONSTANTS
    Subs,        \* subscriptions, each on a plan of its own
    Chains,      \* source chains a subscriber may grant
    Ticks,       \* cron executions that may be alive at once
    Rows,        \* slots for BridgeTransfer rows that are not yet minted
    Prices,      \* the prices a plan may list
    Cap,         \* [Chains -> Nat]: the signed per-period cap of a grant
    MaxRetries,  \* MAX_RENEWAL_RETRIES
    Wallet,      \* bound: what a subscriber holds over all chains, to begin with
    Horizon,     \* bound: the clock stops here
    MaxEvents    \* bound: requests, expiries and restarts in all

ASSUME PricesAssumption == Prices \subseteq Nat \ {0}
ASSUME CapAssumption == Cap \in [Chains -> Nat]
ASSUME MaxRetriesAssumption == MaxRetries \in Nat \ {0, 1}
ASSUME WalletAssumption == Wallet \in Nat
ASSUME HorizonAssumption == Horizon \in Nat
ASSUME MaxEventsAssumption == MaxEvents \in Nat

VARIABLES
    now,          \* the current period
    events,       \* how many of MaxEvents have happened
    sub,          \* the Subscription rows (with their plan's archived flag)
    grant,        \* the hosted RenewalDelegation rows, one per chain
    spent,        \* on chain: what each signed context let through this period
    claims,       \* the RenewalClaim rows: <<subscription, period key>>
    bridge,       \* the BridgeTransfer rows still in flight
    portal,       \* grant-revoke requests between their two writes
    passRunning,  \* the scheduler's overlap guard
    direct,       \* DIRECT_SETTLEMENT, read from the environment at start
    pass,         \* [Ticks -> phase]
    dun,          \* the subscriptions each pass is about to dun, as it read them
    job,          \* what each pass holds in memory about each other subscription
    collected,    \* history: money taken from the subscriber
    credited,     \* history: money recorded as renewal payments
    pulledKeys    \* history: the period keys money was taken for

db    == <<sub, grant, claims, bridge>>
inMem == <<passRunning, direct, pass, dun, job>>
hist  == <<collected, credited, pulledKeys>>
vars  == <<now, events, db, spent, portal, inMem, hist>>

FirstEnd == 1
Never    == -1      \* no redeem recorded
NotListed == -1     \* the pass does not dun the subscription

Ids == 0..MaxEvents \* of grant rows and of signed contexts: 0, then the events

Statuses == {"trialing", "active", "past_due", "cancelled"}

SubRecords ==
    [status : Statuses, periodEnd : Nat, retryCount : Nat,
     price : Prices, plan : {"open", "closing", "closed"}]

\* The newest grant on a chain: its row, and the context signed for it.  `expired' is
\* a grant whose expiry has passed: nothing rewrites its status.
GrantRecords ==
    [status : {"active", "revoked"}, expired : BOOLEAN,
     last : Nat \cup {Never}, row : Ids, context : Ids]

NoGrant == [status |-> "none"]      \* the chain is not in a pass's group

\* The rows a pass never sees again (minted) leave their slot.
NoRow == [status |-> "none"]
RowRecords ==
    [status : {"pulled", "burned"}, sub : Subs, chain : Chains, mandate : Ids,
     key : Nat, amount : Prices]

(***************************************************************************)
(* What a pass holds about one subscription.  `sub' is the row as the pass *)
(* read it, `group' the grants it read, `mandate' the one it chose.        *)
(***************************************************************************)
Out == [at |-> "out"]
JobRecords ==
         {Out}
    \cup [at : {"trial"}]
    \cup [at : {"prepare", "select"}, sub : SubRecords,
          group : [Chains -> GrantRecords \cup {NoGrant}]]
    \cup [at : {"ready", "pulled"}, sub : SubRecords, chain : Chains,
          mandate : GrantRecords]
    \cup [at : {"burn", "attest"}, sub : SubRecords, row : Rows,
          resume : BOOLEAN]

Phases == {"idle", "trials", "reading", "collect"}

At(t, s, places) == job[t][s].at \in places
InFlight(r) == bridge[r].status # "none"

Event == events < MaxEvents /\ events' = events + 1

\* No subscription is in the middle of a phase's loop body.
LoopFree(t) == \A s \in Subs : ~At(t, s, {"select", "burn", "attest"})

NoneAt(t, places) == \A s \in Subs : ~At(t, s, places)

\* Every active grant of s on the chains C becomes revoked.
RevokeOf(s, C) ==
    grant' = [grant EXCEPT ![s] = [c \in Chains |->
                 IF c \in C THEN [grant[s][c] EXCEPT !.status = "revoked"]
                 ELSE grant[s][c]]]

Stay(t, s, j) == job' = [job EXCEPT ![t][s] = j]

Drop(t, s) == Stay(t, s, Out)
------------------------------------------------------------------------------
Init ==
    /\ now = 0
    /\ events = 0
    /\ sub \in [Subs -> [status : {"trialing", "active"}, periodEnd : {FirstEnd},
                         retryCount : {0}, price : Prices, plan : {"open"}]]
    /\ grant = [s \in Subs |-> [c \in Chains |->
                    [status |-> "active", expired |-> FALSE, last |-> Never,
                     row |-> 0, context |-> 0]]]
    /\ spent = [s \in Subs |-> [c \in Chains |-> [i \in Ids |-> 0]]]
    /\ claims = {}
    /\ bridge = [r \in Rows |-> NoRow]
    /\ portal = [s \in Subs |-> FALSE]
    /\ passRunning = FALSE
    /\ direct = FALSE
    /\ pass = [t \in Ticks |-> "idle"]
    /\ dun = [t \in Ticks |-> [s \in Subs |-> NotListed]]
    /\ job = [t \in Ticks |-> [s \in Subs |-> Out]]
    /\ collected = [s \in Subs |-> 0]
    /\ credited = [s \in Subs |-> 0]
    /\ pulledKeys = [s \in Subs |-> {}]
------------------------------------------------------------------------------
(* The scheduler: one daily job, trials first, then reconciliation, then   *)
(* the renewals.  passRunning keeps a job from overlapping itself.         *)

\* Variant: no guard; node-cron starts the job again while it runs.
MayOverlap == TRUE

MayStart == ~passRunning

\* transitionTrials reads its list when the pass starts.
\* A portal request is answered long before the next pass is due.
CronTick(t) ==
    /\ MayStart
    /\ pass[t] = "idle"
    /\ \A s \in Subs : ~portal[s]
    /\ passRunning' = TRUE
    /\ pass' = [pass EXCEPT ![t] = "trials"]
    /\ job' = [job EXCEPT ![t] = [s \in Subs |->
                  IF sub[s].status = "trialing" /\ sub[s].periodEnd <= now
                  THEN [at |-> "trial"] ELSE Out]]
    /\ UNCHANGED <<now, events, db, spent, portal, direct, dun, hist>>

\* The status is written without looking at the row again.
TransitionTrial(t, s) ==
    /\ At(t, s, {"trial"})
    /\ sub' = [sub EXCEPT ![s].status = "active"]
    /\ Drop(t, s)
    /\ UNCHANGED <<now, events, grant, claims, bridge, spent, portal, passRunning,
                   direct, pass, dun, hist>>

\* A database error ends transitionTrials; the scheduler catches it and goes on.
TrialsThrow(t) ==
    /\ \E s \in Subs : At(t, s, {"trial"})
    /\ job' = [job EXCEPT ![t] = [s \in Subs |-> Out]]
    /\ UNCHANGED <<now, events, db, spent, portal, passRunning, direct, pass, dun, hist>>

\* Reconciliation found the delegation disabled in the subscriber's wallet.
ReconcileGrant(t, s, c) ==
    /\ pass[t] = "trials"
    /\ NoneAt(t, {"trial"})
    /\ grant[s][c].status = "active" /\ ~grant[s][c].expired
    /\ Event
    /\ grant' = [grant EXCEPT ![s][c].status = "revoked"]
    /\ UNCHANGED <<now, sub, claims, bridge, spent, portal, inMem, hist>>

(* The two queries runDelegatedRenewalsOnce starts with.  A grant revoked    *)
(* between them puts its subscription on both lists.                       *)
Chargeable(s) ==
    /\ sub[s].status \in {"active", "past_due"}
    /\ sub[s].periodEnd <= now
    /\ sub[s].plan = "open"

Redeemable(s) ==
    {c \in Chains : grant[s][c].status = "active" /\ ~grant[s][c].expired}

\* The checks prepareRenewal makes on the subscription are made on the row read
\* here, so a subscription that fails them is out from here on.
ReadGrants(t) ==
    /\ pass[t] = "trials"
    /\ NoneAt(t, {"trial"})
    /\ pass' = [pass EXCEPT ![t] = "reading"]
    /\ job' = [job EXCEPT ![t] = [s \in Subs |->
          IF Chargeable(s) /\ Redeemable(s) # {}
          THEN [at |-> "prepare", sub |-> sub[s],
                group |-> [c \in Chains |->
                    IF c \in Redeemable(s) THEN grant[s][c] ELSE NoGrant]]
          ELSE Out]]
    /\ UNCHANGED <<now, events, db, spent, portal, passRunning, direct, dun, hist>>

\* Variant: a sweep driven by grants alone.
GrantDrivenOnly(s) == FALSE

Grantless(s) == Chargeable(s) /\ \A c \in Chains : grant[s][c].status # "active"

ReadGrantless(t) ==
    /\ pass[t] = "reading"
    /\ pass' = [pass EXCEPT ![t] = "collect"]
    /\ dun' = [dun EXCEPT ![t] = [s \in Subs |->
          IF Grantless(s) THEN sub[s].retryCount ELSE NotListed]]
    /\ UNCHANGED <<now, events, db, spent, portal, passRunning, direct, job, hist>>

\* The pass is over and what it held in memory is gone.
PassOver(t) ==
    /\ passRunning' = FALSE
    /\ pass' = [pass EXCEPT ![t] = "idle"]
    /\ dun' = [dun EXCEPT ![t] = [s \in Subs |-> NotListed]]
    /\ job' = [job EXCEPT ![t] = [s \in Subs |-> Out]]

\* A throw outside prepareRenewal's own catch ends the whole pass.
PassThrows(t) ==
    /\ \/ pass[t] \in {"trials", "reading"} /\ NoneAt(t, {"trial"})
       \/ pass[t] = "collect" /\ \E s \in Subs : dun[t][s] # NotListed
    /\ PassOver(t)
    /\ UNCHANGED <<now, events, db, spent, portal, direct, hist>>

EndPass(t) ==
    /\ pass[t] = "collect"
    /\ \A s \in Subs : dun[t][s] = NotListed /\ job[t][s] = Out
    /\ PassOver(t)
    /\ UNCHANGED <<now, events, db, spent, portal, direct, hist>>
------------------------------------------------------------------------------
(* Dunning: markRenewalFailed, on the retryCount as the pass read it.      *)

\* Variant: the limit is noticed one attempt late.
RetriesOverspent(attempts) == attempts > MaxRetries

RetriesSpent(attempts) == attempts >= MaxRetries

\* The last attempt cancels, and then revokes the grants in a second write, which
\* may fail.
MarkRenewalFailed(s, retryCount) ==
    LET attempts == retryCount + 1 IN
    IF RetriesSpent(attempts)
    THEN /\ sub' = [sub EXCEPT ![s] = [@ EXCEPT !.status = "cancelled",
                                              !.retryCount = attempts]]
         /\ RevokeOf(s, Chains) \/ UNCHANGED grant
    ELSE /\ sub' = [sub EXCEPT ![s] = [@ EXCEPT !.status = "past_due",
                                              !.retryCount = attempts]]
         /\ UNCHANGED grant

DunGrantless(t, s) ==
    /\ pass[t] = "collect"
    /\ dun[t][s] # NotListed
    /\ MarkRenewalFailed(s, dun[t][s])
    /\ dun' = [dun EXCEPT ![t][s] = NotListed]
    /\ UNCHANGED <<now, events, claims, bridge, spent, portal, passRunning, direct,
                   pass, job, hist>>

\* The row is written and then its webhook cannot be: nothing catches that before
\* the scheduler does, and the pass is over.
DunThrows(t, s) ==
    /\ pass[t] = "collect"
    /\ dun[t][s] # NotListed
    /\ MarkRenewalFailed(s, dun[t][s])
    /\ PassOver(t)
    /\ UNCHANGED <<now, events, claims, bridge, spent, portal, direct, hist>>
------------------------------------------------------------------------------
(* Phase one: prepareRenewal, one subscription at a time.                  *)

KeyOf(row) == row.periodEnd     \* periodKeyFor

\* releaseClaim's own failure is swallowed, and then the claim stays.
ReleaseClaim(t, s) ==
    claims' \in {claims, claims \ {<<s, KeyOf(job[t][s].sub)>>}}

Covering(t, s) ==
    {c \in Chains : job[t][s].group[c] # NoGrant /\ Cap[c] >= job[t][s].sub.price}

\* Variant: a row waiting for its attestation is not looked for.
UnburnedBridges(s) == {r \in Rows : bridge[r].status = "pulled" /\ bridge[r].sub = s}

PendingBridges(s) == {r \in Rows : InFlight(r) /\ bridge[r].sub = s}

\* Resume a bridge that is in flight before any fresh pull.
LookUpPending(t, s) ==
    /\ At(t, s, {"prepare"})
    /\ pass[t] = "collect"
    /\ \A v \in Subs : dun[t][v] = NotListed
    /\ LoopFree(t)
    /\ \/ \E r \in PendingBridges(s) :
            Stay(t, s, [at |-> IF bridge[r].status = "pulled" THEN "burn" ELSE "attest",
                        sub |-> job[t][s].sub, row |-> r, resume |-> TRUE])
       \/ /\ PendingBridges(s) = {}
          /\ Stay(t, s, [at |-> "select", sub |-> job[t][s].sub,
                         group |-> job[t][s].group])
    /\ UNCHANGED <<now, events, db, spent, portal, passRunning, direct, pass, dun, hist>>

\* Variant: a price above every cap is dunned like an empty wallet.
OverCapDunned(s, retryCount) == MarkRenewalFailed(s, retryCount)

\* The price exceeds every signed cap: only the subscriber can help, and nothing
\* is written.
OverCapOutcome(s, retryCount) == UNCHANGED <<sub, grant>>

OverCap(t, s) ==
    /\ At(t, s, {"select"})
    /\ Covering(t, s) = {}
    /\ OverCapOutcome(s, job[t][s].sub.retryCount)
    /\ Drop(t, s)
    /\ UNCHANGED <<now, events, claims, bridge, spent, portal, passRunning,
                   direct, pass, dun, hist>>

\* No covering chain holds a full period.  If a write after the row's fails, the
\* catch below releases the period's claim.
Insufficient(t, s) ==
    /\ At(t, s, {"select"})
    /\ Covering(t, s) # {}
    /\ MarkRenewalFailed(s, job[t][s].sub.retryCount)
    /\ ReleaseClaim(t, s)
    /\ Drop(t, s)
    /\ UNCHANGED <<now, events, bridge, spent, portal, passRunning, direct,
                   pass, dun, hist>>

\* The covering chain that holds a full period is claimed, unless its grant was
\* redeemed in this period already or the billing period is claimed.
ClaimPeriod(t, s) ==
    LET key == <<s, KeyOf(job[t][s].sub)>> IN
    /\ At(t, s, {"select"})
    /\ \E c \in Covering(t, s) :
          IF job[t][s].group[c].last = now \/ key \in claims
          THEN /\ Drop(t, s)
               /\ UNCHANGED claims
          ELSE /\ claims' = claims \cup {key}
               /\ Stay(t, s, [at |-> "ready", sub |-> job[t][s].sub, chain |-> c,
                              mandate |-> job[t][s].group[c]])
    /\ UNCHANGED <<now, events, sub, grant, bridge, spent, portal, passRunning, direct,
                   pass, dun, hist>>

\* The catch releases the period's claim whether or not this pass took it.
PrepareThrows(t, s) ==
    /\ At(t, s, {"select"})
    /\ ReleaseClaim(t, s)
    /\ Drop(t, s)
    /\ UNCHANGED <<now, events, sub, grant, bridge, spent, portal, passRunning, direct,
                   pass, dun, hist>>
------------------------------------------------------------------------------
(* Phase two: redeemPrepared, with the context as the pass read it.  The   *)
(* transaction lands only if the context has not expired and its enforcer  *)
(* still has room; the caller may see a landed one as failed (a receipt    *)
(* that never came, a batch whose event was not found).                    *)

RedeemPhase(t, s) == At(t, s, {"ready"}) /\ NoneAt(t, {"prepare"}) /\ LoopFree(t)

Lands(t, s) ==
    LET c == job[t][s].chain
        i == job[t][s].mandate.context
        amount == job[t][s].sub.price IN
    /\ grant[s][c].context = i => ~grant[s][c].expired
    /\ spent[s][c][i] + amount <= Cap[c]
    /\ collected[s] + amount <= Wallet
    /\ spent' = [spent EXCEPT ![s][c][i] = @ + amount]
    /\ collected' = [collected EXCEPT ![s] = @ + amount]
    /\ pulledKeys' = [pulledKeys EXCEPT ![s] = @ \cup {KeyOf(job[t][s].sub)}]
    /\ UNCHANGED credited

Redeem(t, s) ==
    /\ RedeemPhase(t, s)
    /\ Lands(t, s)
    /\ Stay(t, s, [job[t][s] EXCEPT !.at = "pulled"])
    /\ UNCHANGED <<now, events, db, portal, passRunning, direct, pass, dun>>

RedeemSeenAsFailed(t, s) ==
    /\ RedeemPhase(t, s)
    /\ Lands(t, s)
    /\ ReleaseClaim(t, s)
    /\ Drop(t, s)
    /\ UNCHANGED <<now, events, sub, grant, bridge, portal, passRunning, direct, pass, dun>>

RedeemFails(t, s) ==
    /\ RedeemPhase(t, s)
    /\ ReleaseClaim(t, s)
    /\ Drop(t, s)
    /\ UNCHANGED <<now, events, sub, grant, bridge, spent, portal, passRunning, direct,
                   pass, dun, hist>>
------------------------------------------------------------------------------
(* Phase three: finishSourceRenewal, and advanceBridge for both callers.   *)

FinishPhase(t, s) == At(t, s, {"pulled"}) /\ NoneAt(t, {"ready"}) /\ LoopFree(t)

\* recordRenewalSettled: the period moves one on from the end the pass READ, and
\* the subscription is made active whatever its status has become.  The grant row
\* that paid is stamped; it may have been replaced by a newer one.
RecordRenewalSettled(s, stale, c, mandate, amount) ==
    /\ sub' = [sub EXCEPT ![s] = [@ EXCEPT !.periodEnd = stale.periodEnd + 1,
                                         !.status = "active",
                                         !.retryCount = 0]]
    /\ grant' = [grant EXCEPT ![s][c].last =
                    IF grant[s][c].row = mandate THEN now ELSE @]
    /\ credited' = [credited EXCEPT ![s] = @ + amount]
    /\ UNCHANGED <<collected, pulledKeys>>

\* Under direct settlement the redeem paid the creator and the treasury.
SettleDirect(t, s) ==
    /\ FinishPhase(t, s)
    /\ direct
    /\ RecordRenewalSettled(s, job[t][s].sub, job[t][s].chain, job[t][s].mandate.row,
                            job[t][s].sub.price)
    /\ Drop(t, s)
    /\ UNCHANGED <<now, events, claims, bridge, spent, portal, passRunning, direct, pass, dun>>

OpenBridge(t, s) ==
    /\ FinishPhase(t, s)
    /\ ~direct
    /\ \E r \in Rows :
          /\ ~InFlight(r)
          /\ bridge' = [bridge EXCEPT ![r] =
                 [status |-> "pulled", sub |-> s, chain |-> job[t][s].chain,
                  mandate |-> job[t][s].mandate.row,
                  key |-> KeyOf(job[t][s].sub), amount |-> job[t][s].sub.price]]
          /\ Stay(t, s, [at |-> "burn", sub |-> job[t][s].sub, row |-> r,
                         resume |-> FALSE])
    /\ UNCHANGED <<now, events, sub, grant, claims, spent, portal, passRunning, direct,
                   pass, dun, hist>>

\* Variant: the catch after a pull releases the claim, as the one before it does.
FinishReleases(t, s) ==
    /\ FinishPhase(t, s)
    /\ ReleaseClaim(t, s)
    /\ Drop(t, s)
    /\ UNCHANGED <<now, events, sub, grant, bridge, spent, portal, passRunning, direct,
                   pass, dun, hist>>

\* The row, or the direct settlement, could not be written.  The claim stays.
FinishThrows(t, s) ==
    /\ FinishPhase(t, s)
    /\ Drop(t, s)
    /\ UNCHANGED <<now, events, db, spent, portal, passRunning, direct, pass, dun, hist>>

Burn(t, s) ==
    /\ At(t, s, {"burn"})
    /\ bridge' = [bridge EXCEPT ![job[t][s].row].status = "burned"]
    /\ Stay(t, s, [at |-> "attest", sub |-> job[t][s].sub, row |-> job[t][s].row,
                   resume |-> job[t][s].resume])
    /\ UNCHANGED <<now, events, sub, grant, claims, spent, portal, passRunning, direct,
                   pass, dun, hist>>

AttestationPending(t, s) ==
    /\ At(t, s, {"attest"})
    /\ Drop(t, s)
    /\ UNCHANGED <<now, events, db, spent, portal, passRunning, direct, pass, dun, hist>>

\* Variants: the settle callback forgets the row, or gives it a status that the
\* resume query does not know.
RowForgotten(row) == row
RowMarked(row) == [row EXCEPT !.status = "minted"]

\* A minted row is out of reach of every resume.
AfterMint(row) == NoRow

\* The mint has landed on Arc: one transaction closes the row and the period.  A
\* webhook that cannot be written afterwards ends in the caller's catch, and the
\* one of a resuming prepareRenewal releases the claim.
MintAndSettle(t, s) ==
    /\ At(t, s, {"attest"})
    /\ LET row == bridge[job[t][s].row] IN
          RecordRenewalSettled(s, job[t][s].sub, row.chain, row.mandate, row.amount)
    /\ bridge' = [bridge EXCEPT ![job[t][s].row] = AfterMint(@)]
    /\ IF job[t][s].resume THEN ReleaseClaim(t, s) ELSE UNCHANGED claims
    /\ Drop(t, s)
    /\ UNCHANGED <<now, events, spent, portal, passRunning, direct, pass, dun>>

\* A failure in advanceBridge is caught by its caller: prepareRenewal, which was
\* resuming, releases the claim; finishSourceRenewal keeps it.
AdvanceThrows(t, s) ==
    /\ At(t, s, {"burn", "attest"})
    /\ IF job[t][s].resume THEN ReleaseClaim(t, s) ELSE UNCHANGED claims
    /\ Drop(t, s)
    /\ UNCHANGED <<now, events, sub, grant, bridge, spent, portal, passRunning, direct,
                   pass, dun, hist>>
------------------------------------------------------------------------------
(* The billing process dies and is started again, perhaps with direct      *)
(* settlement now switched on.  What a pass held in memory is gone.        *)

Restart ==
    /\ Event
    /\ \E t \in Ticks : pass[t] # "idle" \/ ~direct
    /\ direct' \in {direct, TRUE}
    /\ passRunning' = FALSE
    /\ pass' = [t \in Ticks |-> "idle"]
    /\ dun' = [t \in Ticks |-> [s \in Subs |-> NotListed]]
    /\ job' = [t \in Ticks |-> [s \in Subs |-> Out]]
    /\ UNCHANGED <<now, db, spent, portal, hist>>
------------------------------------------------------------------------------
(* Everybody else: the clock, the merchant and the subscriber.             *)

Tick ==
    /\ now < Horizon
    /\ now' = now + 1
    /\ spent' = [s \in Subs |-> [c \in Chains |-> [i \in Ids |-> 0]]]
    /\ UNCHANGED <<events, db, portal, inMem, hist>>

\* revokeSubscription, from the API, the portal, or an upgrade at checkout.
Cancel(s) ==
    /\ Event
    /\ sub[s].status # "cancelled"
    /\ sub' = [sub EXCEPT ![s].status = "cancelled"]
    /\ RevokeOf(s, Chains)
    /\ UNCHANGED <<now, claims, bridge, spent, portal, inMem, hist>>

\* Deleting the plan archives it, lists its subscribers and answers.
ArchivePlan(s) ==
    /\ Event
    /\ sub[s].plan = "open"
    /\ sub' = [sub EXCEPT ![s].plan =
                  IF sub[s].status = "cancelled" THEN "closed" ELSE "closing"]
    /\ UNCHANGED <<now, grant, claims, bridge, spent, portal, inMem, hist>>

\* closePlanSubscriptions reaches this subscriber.  Its grants stay.
ClosePlan(s) ==
    /\ sub[s].plan = "closing"
    /\ sub' = [sub EXCEPT ![s] = [@ EXCEPT !.plan = "closed", !.status = "cancelled"]]
    /\ UNCHANGED <<now, events, grant, claims, bridge, spent, portal, inMem, hist>>

ChangePrice(s) ==
    /\ Event
    /\ sub[s].plan = "open"
    /\ \E p \in Prices \ {sub[s].price} : sub' = [sub EXCEPT ![s].price = p]
    /\ UNCHANGED <<now, grant, claims, bridge, spent, portal, inMem, hist>>

\* Portal grant-revoke of one chain or of all: the grants first; if none is left and
\* the subscription was read as active or trialing, a second write makes it past_due.
Scopes == {Chains} \cup {{c} : c \in Chains}

RevokeGrants(s, C) ==
    /\ Event
    /\ ~portal[s]
    /\ RevokeOf(s, C)
    /\ portal' = [portal EXCEPT ![s] =
          /\ sub[s].status \in {"active", "trialing"}
          /\ \A c \in Chains \ C : grant[s][c].status # "active"]
    /\ UNCHANGED <<now, sub, claims, bridge, spent, inMem, hist>>

MarkPastDue(s) ==
    /\ portal[s]
    /\ sub' = [sub EXCEPT ![s].status = "past_due"]
    /\ portal' = [portal EXCEPT ![s] = FALSE]
    /\ UNCHANGED <<now, events, grant, claims, bridge, spent, inMem, hist>>

\* Portal re-grant: a new context, in the chain's active row or in a new one.  Its
\* schedule starts now, so a redeem recorded before does not count against it.
Grant(s, c) ==
    /\ Event
    /\ sub[s].status # "cancelled"
    /\ Cap[c] >= sub[s].price
    /\ grant' = [grant EXCEPT ![s][c] =
          [status |-> "active", expired |-> FALSE, last |-> Never,
           row |-> IF grant[s][c].status = "active" THEN grant[s][c].row ELSE events',
           context |-> events']]
    /\ UNCHANGED <<now, sub, claims, bridge, spent, portal, inMem, hist>>

\* The grant's expiry passes.  No code changes its status.
ExpireGrant(s, c) ==
    /\ Event
    /\ ~grant[s][c].expired
    /\ grant' = [grant EXCEPT ![s][c].expired = TRUE]
    /\ UNCHANGED <<now, sub, claims, bridge, spent, portal, inMem, hist>>
------------------------------------------------------------------------------
PassStep(t) ==
    \/ CronTick(t) \/ TrialsThrow(t) \/ ReadGrants(t) \/ ReadGrantless(t)
    \/ PassThrows(t) \/ EndPass(t)
    \/ \E s \in Subs :
          \/ TransitionTrial(t, s) \/ DunGrantless(t, s) \/ DunThrows(t, s)
          \/ LookUpPending(t, s) \/ OverCap(t, s) \/ Insufficient(t, s)
          \/ ClaimPeriod(t, s) \/ PrepareThrows(t, s)
          \/ Redeem(t, s) \/ RedeemSeenAsFailed(t, s) \/ RedeemFails(t, s)
          \/ SettleDirect(t, s) \/ OpenBridge(t, s) \/ FinishThrows(t, s)
          \/ Burn(t, s) \/ AttestationPending(t, s) \/ MintAndSettle(t, s)
          \/ AdvanceThrows(t, s)
          \/ \E c \in Chains : ReconcileGrant(t, s, c)

Outside ==
    \/ Restart
    \/ Tick
    \/ \E s \in Subs :
          \/ Cancel(s) \/ ArchivePlan(s) \/ ClosePlan(s) \/ ChangePrice(s)
          \/ \E C \in Scopes : RevokeGrants(s, C)
          \/ MarkPastDue(s)
          \/ \E c \in Chains : Grant(s, c) \/ ExpireGrant(s, c)

Next == Outside \/ \E t \in Ticks : PassStep(t)

Spec == Init /\ [][Next]_vars

\* The cron fires again and again, a pass that has something to do goes on, and
\* no step that is attempted pass after pass fails every time: RPC nodes, Circle's
\* attestation service and the database recover.  Portal and merchant requests
\* that have begun are finished.  Nobody has to cancel, grant or pay.
Fairness ==
    /\ WF_vars(\E t \in Ticks : PassStep(t))
    /\ SF_vars(\E t \in Ticks : CronTick(t))
    /\ SF_vars(\E t \in Ticks : ReadGrants(t))
    /\ SF_vars(\E t \in Ticks : ReadGrantless(t))
    /\ \A s \in Subs :
          /\ WF_vars(MarkPastDue(s))
          /\ WF_vars(ClosePlan(s))
          /\ SF_vars(\E t \in Ticks : TransitionTrial(t, s))
          /\ SF_vars(\E t \in Ticks : DunGrantless(t, s))
          /\ SF_vars(\E t \in Ticks : LookUpPending(t, s))
          /\ SF_vars(\E t \in Ticks : ClaimPeriod(t, s))
          /\ SF_vars(\E t \in Ticks : Redeem(t, s))
          /\ SF_vars(\E t \in Ticks : Burn(t, s))
          /\ SF_vars(\E t \in Ticks : MintAndSettle(t, s))

FairSpec == Spec /\ Fairness
------------------------------------------------------------------------------
(***************************************************************************)
(* Properties.                                                             *)
(***************************************************************************)

\* Every row, in-memory record and counter has the shape the code gives it.
TypeOK ==
    /\ now \in Nat
    /\ events \in Ids
    /\ sub \in [Subs -> SubRecords]
    /\ grant \in [Subs -> [Chains -> GrantRecords]]
    /\ spent \in [Subs -> [Chains -> [Ids -> Nat]]]
    /\ claims \subseteq Subs \X Nat
    /\ bridge \in [Rows -> {NoRow} \cup RowRecords]
    /\ portal \in [Subs -> BOOLEAN]
    /\ passRunning \in BOOLEAN
    /\ direct \in BOOLEAN
    /\ pass \in [Ticks -> Phases]
    /\ dun \in [Ticks -> [Subs -> Nat \cup {NotListed}]]
    /\ job \in [Ticks -> [Subs -> JobRecords]]
    /\ collected \in [Subs -> Nat]
    /\ credited \in [Subs -> Nat]
    /\ pulledKeys \in [Subs -> SUBSET Nat]

\* A bridge in flight pays for the period its subscription is waiting for, and a
\* subscription has at most one: recordRenewalSettled, which advances the period
\* from the end a pass read, closes the row it advances for.
InFlightPaysCurrentPeriod ==
    \A r \in Rows : InFlight(r) =>
        /\ bridge[r].key = sub[bridge[r].sub].periodEnd
        /\ \A q \in Rows \ {r} : ~(InFlight(q) /\ bridge[q].sub = bridge[r].sub)

\* While a bridge of a subscription is in flight its wallet is never debited:
\* prepareRenewal resumes before it pulls.
NeverPullOverFlight ==
    [][\A s \in Subs : collected'[s] # collected[s] =>
           \A r \in Rows : ~(InFlight(r) /\ bridge[r].sub = s)]_vars

\* Dunning ends: a subscription that is not cancelled has retries left.
DunningStopsAtLimit ==
    \A s \in Subs : sub[s].status # "cancelled" => sub[s].retryCount < MaxRetries

\* A price the subscriber never signed for costs the creator the renewal, not the
\* subscriber the subscription: a pass that read only caps below the price spends
\* no retry and cancels nothing (over_cap does not go to dunning).
PriceRiseNeverDuns ==
    [][\A t \in Ticks, s \in Subs :
           /\ At(t, s, {"select"})
           /\ Covering(t, s) = {}
           => sub'[s].retryCount <= sub[s].retryCount]_vars

\* A bridge in flight is driven to its mint by the passes to come, as long as its
\* subscription stays chargeable and some grant of it is redeemable: the resume
\* lives in prepareRenewal, which sees no other subscription.
BridgesDrain ==
    \A r \in Rows, s \in Subs :
        (InFlight(r) /\ bridge[r].sub = s)
        ~> (~InFlight(r) \/ ~Chargeable(s) \/ Redeemable(s) = {})

\* A due subscription none of whose grants is even active comes to dunning
\* (or is collected by a bridge, granted again, or closed).
GrantlessIsDunned ==
    \A s \in Subs :
        (Chargeable(s) /\ \A c \in Chains : grant[s][c].status # "active")
        ~> (sub[s].status # "active" \/ ~Chargeable(s)
            \/ \E c \in Chains : grant[s][c].status = "active")

\* README: "A per-(subscription, period) claim guarantees one charge per cycle".
PulledOncePerPeriod ==
    [][\A s \in Subs : collected'[s] # collected[s] => pulledKeys'[s] # pulledKeys[s]]_vars

\* The engine implements the ledger: what is credited was collected, once, and
\* each credit moves the period end by exactly one period.
Ledger == INSTANCE BillingLedger
    WITH Amounts <- Prices,
         paidThrough <- [s \in Subs |-> sub[s].periodEnd]
ImplementsLedger == Ledger!Spec
==============================================================================
