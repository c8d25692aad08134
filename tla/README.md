# A verification of the billing core

Sweep collects subscriptions and one-off charges in USDC. A subscriber signs a
delegation per chain (an ERC-7715 periodic grant with a cap); the platform redeems it
once per period, burns the merchant's share through Circle's CCTP and mints it on Arc.
The state lives in PostgreSQL (`src/apps/web/prisma/schema.prisma`), the programs are an
API process (`src/apps/api/src/routes`) and a billing process
(`src/apps/api/src/billing/runner.ts`, `scheduler.ts`). Nothing but the database and
the chains is shared between them, and neither takes a lock over a whole operation: what
keeps money right is the order of the writes, a few unique rows, and one in-memory flag.

This directory holds the TLA+ models of that core, the TLC configurations that check
them, and the proofs. Paths below are relative to `src/apps/api/src` unless they start
with `src/`.

## 1. Inventory

| component | state | operations | what makes it correct |
|---|---|---|---|
| scheduler (`billing/scheduler.ts`, `runner.ts`) | `passRunning` in memory | the daily job (trials, reconciliation, expiry, renewals, orphans), charge resume every 5 min, webhook retry every 10 min | the daily job never overlaps itself; a failing phase does not end the job |
| trial transition (`billing/engine.ts:28`) | Subscription.status | trialing to active, once due | a trial becomes chargeable; nothing else changes |
| renewal pass (`billing/delegated-renewal.ts`) | a snapshot in memory; Subscription, RenewalDelegation, RenewalClaim, BridgeTransfer, Payment | prepare, claim, redeem (in batches), open a bridge, settle, dun | a period is pulled once, credited once and only after it was pulled; no pull over a bridge in flight; a cancelled subscriber is not charged; dunning ends; a due subscription is collected or dunned |
| period claims (`billing/claims.ts`) | RenewalClaim rows | claim (unique insert), release | whoever pulls owns the claim; a claim does not outlive its owner's failure |
| bridge driver (`billing/bridge.ts`) | BridgeTransfer.status | burn, attest, mint, settle callback | every pulled bridge is minted; burned once; the row closes with the caller's record |
| dunning (`delegated-renewal.ts:153`) | retryCount, status | past_due, or cancelled at 7 | the limit is never skipped; a price raise is not dunned |
| portal (`routes/customer-portal.ts`), API cancel (`lib/subscriptions/revoke.ts`), plan deletion (`lib/plan-lifecycle.ts`), price change (`lib/plan-pricing.ts`) | the same rows | cancel, grant, grant-revoke, archive and close, reprice | they race the pass: each is a few separate writes |
| reconciliation (`billing/reconcile-mandates.ts`) | RenewalDelegation.status | revoke what is disabled on chain | only what is disabled is revoked |
| direct charges (`routes/charges.ts`, `billing/direct-charge.ts`, `lib/idempotency.ts`, `lib/rail.ts`) | IdempotencyKey, Charge, BridgeTransfer | claim a key, reserve against the ceiling (serializable), execute detached, resume | one charge per key; the ceiling of a period holds; a charge reports failed only if nothing moved |
| mandates (`routes/mandates.ts`, `authorize.ts`, `billing/mandate-expiry.ts`) | Mandate, its RenewalDelegation rows | create, grant per chain, complete, revoke, expire, reconcile | an active mandate has a grant; a terminal one stays terminal |
| checkout (`lib/checkout/*`, `routes/checkout.ts`, `delegation.ts`) | CheckoutSession, Sweep, Subscription | session, grant, activate, complete, orphan sweep | one subscription per session; nothing pulled without an activation; a completed checkout keeps its grants |
| pricing (`routes/portal.ts`, `lib/plan-pricing.ts`, `lib/plan-lifecycle.ts`) | Plan, PlanTier, Subscription.amount | tiers, a price change under one of three scopes, plan deletion | a change reaches exactly whom its scope names; what was pulled is what is recorded |
| webhooks (`lib/webhooks/delivery.ts`, `billing/engine.ts:50`, `routes/webhooks.ts`) | WebhookEndpoint, WebhookDelivery | first attempt, retry pass, replay, roll | every failed delivery reaches delivered or runs out of attempts |
| nonces (`lib/chain/nonce.ts`, `scripts/nonce-reanchor.ts`) | relayer_nonces | allocate, release, re-anchor | no nonce is given twice; a gap has a cause |
| selection and period arithmetic (`lib/gateway/selector.ts`, `lib/rail.ts`, `lib/chain/delegation.ts:641`) | none | pure | the chosen chain covers the amount; a period is consumed exactly when the enforcer says so |
| delegate accounts (`lib/chain/delegate-msca.ts`, `delegate-7702.ts`, `delegation.ts:278`) | on chain: code, EntryPoint deposit and nonces | batch or single redeem, top-up, receipts | what is marked pulled has moved; a healthy renewal gets through whatever shares its transaction |
| amounts (`lib/platform-fee.ts`, `lib/gateway/cctp.ts`, `lib/chain/settlement-userop.ts`) | none | pure | the shares add up; a burn is covered; the gas reserve is restored before anything is remitted |

`PROJECT.json` lists these with the parts that are not modelled (authentication, wallets,
signers, e-mail, front end, SDKs, scripts), and the hazards, each at its line.

The hard behaviours: a pass that works for hours on rows it read once, while portal
requests change them; a process that stops between a pull and its row; a transaction that
landed and looked failed; two drivers of one bridge; writes by id on a list read earlier;
second writes that fail after a first one succeeded.

## 2. Modules

| module | what it is |
|---|---|
| `BillingLedger` | the abstract specification: money is collected, and a collected amount buys one period |
| `Renewal` | the renewal engine: scheduler job, pass, claims, bridges, dunning, and everything that interleaves with it |
| `RenewalClaims` | the engine with a history of the claims that were given back over money already taken |
| `RenewalProofs` | its inductive invariant, one lemma per group of actions, and what follows: the safety properties, the refinement of `BillingLedger`, the dunning limit, the rise of a price and second pulls with invariants of their own |
| `ChargeLedger` | the abstract specification of the charge API: a key collects once, an outcome is final and a success was collected |
| `Charge` | the charge API: requests with their keys, detached executions, the resume pass, and the settlement account they share |
| `ChargeProofs` | its inductive invariant, its safety theorems, sums over finite sets for the ceiling, and the refinement of `ChargeLedger` |
| `Mandate` | the life of an external-rail mandate: the developer's requests, the page in its windows, the portal, reconciliation and expiry |
| `MandateProofs` | its inductive invariant and all its safety properties |
| `Checkout` | hosted checkout: the page, the detached run that takes the first payment, retirement of older subscriptions, the orphan sweep |
| `CheckoutProofs` | its inductive invariant and its safety properties |
| `Pricing` | plan and tier prices, a change under its three scopes, the checkouts that resolve them, plan deletion |
| `Delivery` | webhooks: first attempt, overlapping retry passes, replay, endpoints |
| `DeliveryProofs` | its inductive invariant, which accounts for every acceptance, and its safety properties |
| `Nonce` | one key's nonces: counter, node, re-anchoring script, and the send that bypasses the counter |
| `NonceProofs` | its inductive invariant and its safety properties |
| `Delegate` | one delegate account on one chain: the pass's batches and the single redeems through an EOA, a self-bundled MSCA or a 7702 account, down to the receipts |
| `DelegateProofs` | its inductive invariant, and that what is marked as pulled has moved |
| `Periods`, `Amounts`, `Selector`, `Deposits` | the pure arithmetic of the payment path, as operators |
| `PaymentProofs` | what that arithmetic guarantees for every input; the inductive invariant of `Pricing` and its properties |
| `MCRenewal`, `MCRenewalClaims`, `MCCharge`, `MCMandate`, `MCCheckout`, `MCPricing`, `MCDelivery`, `MCNonce`, `MCDelegate` | the small instances for TLC: symmetry sets and the definitions the configurations name |

How they compose. `Renewal` and `Charge` each drive CCTP bridges; `Renewal` is one payer's
subscription against the cron, `Charge` adds the second driver and the settlement account
the payers share. `Mandate` ends where `Charge` begins: an active mandate with its grants.
They are kept apart on purpose: a charge reads `mandate.status` and the grant rows and writes
neither but for the stamp, so `Charge` has only the environment actions `RevokeMandate`,
`ExpireMandate` and `Disable`, whose source `Mandate` describes in full. `Checkout` ends
where `Renewal` begins (a subscription with its grant); `Pricing` cuts across the two and
models a checkout run as its two reads of the terms. `Delivery` takes any event of any of
them. `Delegate` opens the step that `Renewal`, `Charge` and `Checkout` take as one, a redeem: there it
lands, is refused, or is seen as failed. `Nonce` is under every transaction the others send.

### Renewal and the code

State: `sub` is the Subscription rows (status, currentPeriodEnd, retryCount, the plan's
price and whether it is open); `grant` the newest RenewalDelegation per chain, `claims`
the RenewalClaim rows, `bridge` the BridgeTransfer rows that are not minted; `spent` is
the on-chain enforcer's counter of each signed context; `portal` marks a grant-revoke
request between its two writes. `pass`, `job` and `dun` are what a cron execution holds
in memory: its phase, where it stands with each subscription with the row it read, and
the subscriptions it will dun. `collected`, `credited` and `pulledKeys` are history that
only properties (and the bound on the wallet) read.

Actions, in the order of the job: `CronTick`, `TransitionTrial`, `ReconcileGrant`,
`ReadGrants` and `ReadGrantless` (the pass's two queries, two steps), `DunGrantless`,
then per subscription `LookUpPending`, `OverCap`, `Insufficient`, `ClaimPeriod`; then
`Redeem` (or `RedeemSeenAsFailed`, `RedeemFails`); then `SettleDirect`, or `OpenBridge`,
`Burn`, `MintAndSettle` (or `AttestationPending`). Each `...Throws` action is a throw that
reaches the catch named in its comment. `Restart` forgets everything in memory and may
switch direct settlement on. `Cancel`, `ArchivePlan`/`ClosePlan`, `ChangePrice`,
`RevokeGrants`/`MarkPastDue`, `Grant`, `ExpireGrant` are the other writers.

Abstractions, and why they are sound for the properties:

- Time is counted in periods, and `Tick` opens a new period of every enforcer. Several
  passes may run in one period, and a pass may last over a tick.
- A batch transaction that carries several redeems is redeemed one subscription at a time:
  the code releases or keeps the claim of each member separately, and a batch that fails
  as a whole is its members failing one after the other.
- Whether a transaction lands is decided at the step that sends it; what the caller sees
  may differ.
- A redeem uses the context the pass read. Each context has its own counter on chain. A
  settlement stamps the grant row that paid, which may be an older one than the chain's
  newest. A re-grant starts a new schedule, so it is redeemable at once.
- The burn and the write that records it are one step; a burn whose record is lost, and
  the second burn it causes, need the pooled settlement account and are the subject of
  the Charge module. Attesting and minting are one step with the settlement: CCTP accepts
  a message once, so repeating the mint changes nothing.
- The fee travels with the amount. The Arc branch is unreachable (no Arc grant exists).
- `markRenewalFailed`'s two writes are one step, the second of which may fail; the status
  read of grant-revoke is taken with its first write; a reconciliation's read and write
  are one step. A portal request that has begun ends before the next daily pass does
  begin (a guard of `CronTick`).
- A subscription has a plan of its own, so plan deletion is per subscription.

### Charge and the code

State: `key` is the IdempotencyKey rows, `charge` the Charge rows (one per request at
most), `mandate` and `grant` the Mandate row and its RenewalDelegation rows, `row` the
status of each charge's BridgeTransfer and `chain` the chain it was planned on.
`disabled`, `spent` and `pool` are on chain: what the subscriber disabled, what each
enforcer let through this period, and the USDC balance of the settlement account that all
charges of a chain share. In memory, `at` is where the API process is with each request
and then with its detached execution, and `drive[d][r]` is what driver `d` (the API
process, or one execution of the resume job in the billing process) has read of row `r`
and not acted on yet. `direct` is the flag the API process started with. `pulls` and
`burns` are history.

A request is `ClaimKey` (or `KeyTaken`), `Reserve` (or `RefuseReserve`, `ReleaseKey`),
`CompleteKey`, each of which is a call the handler awaits; `KeyWriteThrows` is what ends it
with a 500 and the key in flight. The execution is `Plan` (or `PlanRefused`), `Redeem` (or
`RedeemSeenAsFailed`, `RedeemFails`), `Stamp`, then `SettleDirect` or `OpenBridge`, with
`DirectWriteThrows`, `FailCharge` and `ExecutionDies` for the throws, inside and outside
the catch. A driver is `ListRows`, then for each row `Burn` (or `BurnSeenAsFailed`),
`RecordBurn`, `MintAndSettle`, or `Stall`; `PassAborts` is the read in the pass's loop that
nothing catches. The others are `RevokeMandate`, `ExpireMandate`, `Disable`,
`RestartApi`, `RestartBilling`, `Tick`.

The burn and its record are two steps here, and a driver acts on the status it read
earlier: this is where two drivers of one row meet.

Abstractions:

- One mandate. Charges of different mandates meet only in the settlement account, where
  two charges of one mandate meet as well.
- Time is counted in periods of the mandate, and every enforcer's period begins with it.
  The code starts the enforcers when the grants are signed; an offset between them only
  adds behaviours in which the enforcers allow more than the model lets them.
- What the wallet holds is left open: a plan may always be refused for want of funds.
- A transaction that throws has not been made; that of `Reserve` may always throw
  (PostgreSQL aborts one of two that collide), and when it commits it is serializable.
- The fee travels with the burn; attesting and minting are one step with the settlement.
- Which grants a reconciliation inside `planCharge` sees disabled is any subset of the
  usable ones that are: a chain may not answer.
- A charge whose mandate has passed its deadline is refused by the deadline before the
  expiry job writes `expired`; both are `ExpireMandate`.
- An unhandled rejection of the detached execution may end the process:
  `ExecutionDies`, then `RestartApi`.
- A pass drives its rows one at a time, in any order.

### Mandate and the code

State: `mandate` is the Mandate rows of one external_ref in the order of `made`, `link` those
whose hosted link has not expired, `time` where each stands to its deadline; `row` the
RenewalDelegation rows with mode external, each with the last context saved into it.
`signed` and `disabled` are the payer's wallet and the chains. `page[p]` is a window with the
request it waits for, `portal` a grant in flight from the portal, `pass` the daily pass.
`told` counts what developers were sent; `ended`, `held` and `hashed` are documented where they
are declared.

Actions: `CheckCreate`/`Create` are the two halves of POST /v1/mandates (a supersede check is
a read, the insert comes later), `Revoke` is DELETE. A window goes through `Open`, `Prove`,
`Authorize`, and per chain `Sign`, `FindGrant`, `SaveGrant` (or `SkipChain`, `GrantThrows`),
then `ReadComplete`, `WriteComplete`, or `CompleteThrows`; `Relay` is a popup that tells its
frame. `PortalSign`/`PortalSave` is the portal's grant. The pass is `ListGrants`, one answer per
row (`SeesDisabled`, `PassesOver`), `RevokeRow` by id, `CountRemaining`, `CloseMandate`;
then `ListLapsed`, `Expire`, `TellExpired`, `ListNear`, `MarkWarned`, `TellExpiring`.

Abstractions: the payer is one person with the right code, wallet and token; sums and periods
of a grant are `Charge`'s; the webhooks' delivery is `Delivery`'s; payout wallets are left out.

### Checkout and the code

State: `session`, `sweep`, `row`, `sub` are the rows; `signed` and `spent` the contexts and what
the enforcers let through; `tab` is a page of the payer with the request it waits for, `run` the
detached execution of a sweep, `orphan` the nightly sweep. A sweep, its run and the
subscription it creates share a name.

A page is `SelectTier`, `PickChain`, `Sign`, `FindGrant`/`SaveGrant`, `Enable`, `Ask`,
`CreateSweep`, `Poll`, `Back`, and the toggle's `RevokeGrant`. A run is `Load`, the trial's
branch or `PickGrant`, the checks, `Pull` (or `PullSeenAsFailed`), `Settle`, `CreateSub`,
`LinkGrants`, `ListPrior`, `Retire`/`RetireFails` one by one, `CloseSession`, `CompleteSweep`;
`RunThrows` is a throw of any of them inside the `try` and `FailSweep` the catch. `StartThrows` is a throw
before the `try` (the read of the sweep, a tier archived meanwhile) and `FailSweepThrows` one of the catch's
own write: both leave the sweep as it was, and the run `thrown`. The orphan sweep is
`ListOrphans`, `ReadSessions`, `RevokeOrphans` (by id) or `OrphansThrow`. The rest is
`ReadExpire`/`WriteExpire`, `Cancel`, `GetLate`, `RestartApi`.

Abstractions: one payer with one wallet and one proven address at one merchant, so the wallet
guard and the customer records have nothing to decide; a context is redeemed at most once, since
a checkout is shorter than a period; direct and bridged settlement are one step, which may throw
before and after the money has arrived; receipts and webhooks are left out.

### Pricing and the code

State: `plan` and `tier` are the terms, `sub` the subscriptions (`Null` columns stand for "as
the listing says"), `change[h]` a PATCH request between its read, its list and its
write, `run[s]` a buyer's checkout, which resolves the terms once to pull and once to record,
`closing` the detached closing of a deleted plan's subscriptions. `touched` is history: what
has been written since a request or run read it.

`ReadTier`/`ReadDefault` are the handlers with `RefusePriceChange`; `ListMoved` and
`ApplyPriceChange` the two statements of the transaction, which under READ COMMITTED see
different states. `OpenSession`, `LoadRun`, `Pull`, `CompleteCheckoutSession`, `RunThrows` are
the checkout; `ArchivePlan`, `FindSubsToClose`, `CloseOne` the deletion.

`Reach` is the condition of the SQL, three-valued over null columns. The property compares it with
`Promised`, the subscribers on the terms the change is about as the comments define them (on a named
tier its price and interval, on the plan's own none of the named tiers' terms, inheriting
subscribers included), less `Missed`, the inheriting ones a NOT over a null column does not find.

Abstractions: what of a tier is presentation; signed caps and over-cap renewals, which are
`Renewal`'s; the mails, whose addressees are the ids a change has listed.

### Delivery and the code

State: `endpoint` with the number of its secret, `row` a delivery per event and endpoint, `first`,
`pass`, `replay` the senders with what they have read, `replays`, `shared`, `accepted`, `faults`
history. A sender reads the secret, dials, and writes the outcome by id in a later step;
`Recorded` and `Unrecorded` are a write that succeeds, falls into its catch, or fails there too.

Actions: `Fire`, `CreateRow`, `FirstSend`, `FirstWrite`; `ListDue`, `PassSend`, `PassWrite`,
`PassThrows`; `Replay`, `ReplaySend`, `ReplayWrite`; `Register`, `Delete`, `Roll`; the two
restarts. A retry time is none, ahead or past (`GetLate`).

### Nonce and the code

State: `stored` is the row in relayer_nonces, `sender[s]` a send between its read of the node's
count and its outcome, `script` the operator's script between its three reads, `payout` a fee to
the treasury between the node's count and the send; `mined` and `pool` are the node. `lost` and
`kept` count what a gap may come from, `careless` marks that the script was run, or
a fee sent, beside a send under way, and `misread` holds the nonces the node took although the
error of their send was judged not to have broadcast.

`ReadPending` and `Allocate` are the two statements of `allocateNonce`; `Broadcast`, `Refuse`,
`RefuseSent`, `SenderStops` what `withNonce` sees: an answer or an error that `mayHaveBroadcast` knows; an
error it does not know, of a transaction that was not sent, or that was; the reservation kept
for nothing. `Release` is `releaseNonce` with its condition. The script reads the row
(`ScriptRow`), then both counts in either order; `Judged` decides at the last of them. The node is
external: it mines in nonce order and may drop anything.

### Delegate and the code

State: `kind` is what the grants name; `code`, `deposit`, `eth`, `pool`, `moved`, `disabled`, `funds`
are the chain: the account's code and EntryPoint deposit, the gas payer's ETH, the transactions the
node holds, what has moved, and the payers' grants and money. `group` is the renewals a pass has prepared
and not redeemed yet, `worker` where the pass and each single redeem (a checkout's, a
charge's) stand, `pulled` what the engine marks as redeemed. `blind` and `strayed` are history.

`Prepare` and `RedeemPrepared` are the pass, whose group shares a transaction if it names an MSCA or a
7702 account; `RedeemCalls` is a single redeem. The MSCA's way is `DepositSuffices` or `TopUp`
(`TopUpRefused`), `ConfirmDeposit` by the receipt or `PollDeposit` by the balance, `ReadNonce`, `Submit`;
the 7702 account's `ReadDelegation` (`ForeignDelegation`), `Submit` or `EstimateReverts`; an EOA's
`Simulate` (`SimulateReverts`), `Submit`. `Learn` reads the receipt: by operation for a handleOps, one
status for the rest. `NodeThrows` and `ReceiptLost` are the throws before and after the send.

The chain is external, and mines in the order of the payer's nonces: `MineDeposit`; `MineOps` if the
EntryPoint accepts every operation's account, nonce and deposit, else `OpsRefused`; `MineBatch`, or
`BatchStrays` where the account has no code; `MineDirect`. A transaction that nobody waits for is
mined too.

Abstractions: every redeem moves one unit; ETH is counted in what the EntryPoint demands per operation;
the calls of one item stand or fall together and are one; claims, periods and what
becomes of a pull are `Renewal`'s, and a restart is a receipt never seen.

### Periods, Amounts, Selector, Deposits

`Periods` is `lib/rail.ts` on seconds and milliseconds, beside a reference definition of the
enforcer's windows that divides nothing. `Amounts` is the platform's fee, the bridge's maximal fee
with its quote, the burn, and what the settlement account keeps and remits, in micro-USDC.
`Deposits` is what a top-up of the
EntryPoint deposit may and does spend. `Selector` is `selectPaymentChain` and `planCharge`'s choice among a mandate's grants.
Integers stay below 2^53 in the code (amounts are bigint), so no width is modelled.

## 3. Runs

| run | instance | what it shows |
|---|---|---|
| `renewal` | `ClaimsSpec`: 1 subscription, 2 chains (caps 1 and 2), prices 1 and 2, 2 cron executions, 2 rows, 2 retries, wallet 2, 2 periods, 2 events; symmetry over executions and rows | `TypeOK`, `InFlightPaysCurrentPeriod`, `DunningStopsAtLimit`, `NeverPullOverFlight`, `TakenAgainOnlyGivenBack`, `PriceRiseNeverDuns`, `ImplementsLedger` |
| `renewal_live` | 1 subscription, 1 chain (cap 2), 1 cron execution, 1 row, prices 2 and 3, the latter over the cap, 2 retries, wallet 4, 1 period, 2 events; `FairSpec`, no symmetry | `BridgesDrain`, `GrantlessIsDunned` |
| `renewal_twice` | violation | a redeem that landed and was seen as failed is repeated (`PulledOncePerPeriod`) |
| `charge` | 2 requests, 2 keys, 2 chains (one bridging, one with direct settlement, caps 1), amount and ceiling 1, 1 resume pass, 2 periods, 1 event; `FairSpec` | `TypeOK`, `KeyPaidOnce`, `CeilingHolds`, `ImplementsChargeLedger`, `InFlightIsSettled` |
| `mandate` | 1 mandate, 1 chain, 2 rows, 2 windows, 2 signatures, 1 event; symmetry over rows and windows | `TypeOK`, `ActiveWasProved`, `RevokedForCause`, `ToldOnce` |
| `mandate_live` | the same with 1 row, 1 window and 2 events; `FairSpec`, no symmetry | `DisabledIsSeen` |
| `checkout` | 2 sessions, 1 page, 1 chain, 2 rows, 2 sweeps, 1 tier, 3 signatures; symmetry over sessions, rows, sweeps | `TypeOK`, `OneLiveWhenQuiet`, `PaidSweepIsSubscribed`, `SweptWasSettled` |
| `checkout_live` | 1 session, 1 page, 1 sweep, a paid tier and a trial, 1 signature, 1 event; `FairSpec`, no symmetry | `SubscribedAsPaid`, `OrphansSwept`, `WaitEnds` |
| `delivery` | 1 event, 2 endpoints, 2 passes of 1 delivery each, 2 attempts, 1 change, 1 replay, 1 fault; `FairSpec` | `TypeOK`, `AcceptedOnce`, `NothingDropped`, `FailureIsRetried` |
| `nonce` | 2 senders, 3 nonces, 1 loss or misread error, 1 run of the script, 1 fee; `FairSpec` | `TypeOK`, `NeverTwice`, `HolesHaveACause`, `SentIsMined` |
| `pricing` | 1 subscriber from before tiers, 1 buyer, 2 requests, 1 named tier, 2 prices, 3 events; symmetry over requests | `TypeOK`, `ReachesWhoItSays`, `PaidIsRecorded` |
| `delegate` | 3 renewals and a single redeem of 2 payers with 1 or 2 units each, floor 2, reserve 1, 5 units of ETH, 1 event, each kind of account, deployed or not; `FairSpec` | `TypeOK`, `BooksMatchChain`, `HealthyIsRedeemed` |

Deadlock is checked in `delegate` alone, whose pass comes round for ever; each other bounded
system stops when its clock, its events or its people do.

The bounds of `Renewal`. `Wallet` is what the subscriber holds at the start: 2 pays two renewals at
price 1 or one at price 2, and lets a pull fail for want of money. `Horizon` 2 makes the
first period due and lets a second become due behind it. `MaxEvents` bounds requests,
expiries, on-chain revokes and restarts together: two are enough for a re-grant after a
revoke, a cancel after a restart, a reprice and its reversal; every state above is also
reached with any pass behaviour in between, which is not bounded. Two cron executions are
enough to overlap if the guard were missing. `MaxRetries` 2 has both branches (the code
has 7; the proofs are for every value from 2). One subscription is enough where the
properties are about one: subscriptions of different subscribers share only the pass's
loop order and its failures, which the proofs cover for any number.

`renewal` runs the engine with the history of `RenewalClaims`, which changes none of its steps, so what
holds there holds of `Spec`. A second pull in a period happens in that instance: each of two chains lets
the lower price through once, and the wallet has money for two.

For `Charge`, two requests are what each property needs: with one key they are a
request and its retry, with two they compete for the ceiling and for the settlement
account. The ceiling admits one of them in each of two periods. One event is a lost receipt, a
restart, or a revoke under a running execution; without fairness and with symmetry,
amounts to 2 and two events are within reach too. The two keys differ in their names only, so
`MCFairSpec` gives the first request the first key. One resume pass is
enough for two drivers, since the API process is the other (and passes of the resume job do
overlap: `ListRows` has no guard but its own idleness). The proofs are for any number of all of these.

For `Mandate`, one mandate is enough where the properties are about one; two windows are a frame
and its popup, or two people; two rows let a chain be signed twice before either is saved; two
signatures let a newer context replace one the pass has listed. The proofs are for any number.

For `Checkout`, two sessions paid at the same time are the smallest case of retirement, and three
signatures leave one for a re-grant. `checkout` has no events, so the sessions that settle in it do so by
completing, and `SweptWasSettled` is checked on those; for late, expired and cancelled ones it is proved
(section 5). Lateness, forced expiry, cancels and
restarts are in `checkout_live`, whose one session meets each. One page visits either session, so
two runs overlap when the payer goes from one to the other; two pages of one session are not in
the instance (section 8 says what they do).

For `Delivery`, `MaxAttempts` 2 stands for 5 and `Take` 1 for 100: a first attempt and one
retry. The one event has one row at most (its id is unique), so a pass's list is never cut short by
`Take`; that a longer backlog is worked off is not shown here. Two passes overlap on that row, and two endpoints compete
for it. For `Nonce`, three nonces let one be lost below one that is
queued while a third is asked for; the one fault is a loss or a misread error. For `Pricing`, the two requests may have different scopes, and
three events cover a tier added and archived around a reprice.

For `Delegate`, three renewals of two payers are a batch in which one payer's two renewals compete for
money and the other's competes with a checkout; it needs three operations' deposit, more than the floor,
and with 5 units of ETH the payer has to be refilled between top-ups. One event is any one fault with
every interleaving around it.

Each property has a mutant in `PROJECT.json`: the definition of the model changed the way
a slip in the code would change it (the settle callback forgetting the row, the guard
gone, the limit off by one, a status missing from the resume query, a chain that does not answer
taken for a disabled delegation, a retry not counted, a release that hands back the next nonce,
rows with no price of their own left out of a price change, the recorded price read again after the pull), and TLC finds the property violated.

## 4. Fairness

Nothing is assumed of people: nobody has to cancel, grant, sign, pay or look, and `Renewal`'s
clock may stop.

`Renewal`: node-cron fires again and again and a pass that can go on does; no step
that is attempted pass after pass fails every time (RPC nodes, Circle's attestation
service and the database recover; strong fairness, because a failing attempt disables the
step until the next pass); a request that has begun its writes finishes them.

`Charge`: a driver that has read a row goes on with it, until the row stalls, throws or its process stops
(weak fairness of `DriveStep`); this is all that is assumed of the API process, whose execution may
end after any step. The resume pass fires every five minutes, and no burn, record or mint
that is tried pass after pass fails every time (strong fairness per pass, since a stall ends the
attempt). So `InFlightIsSettled` says that the passes bring home every bridge row. One that is
recorded as burned is minted without exception. One that is still `pulled` is minted or becomes
`Stranded`: the pool holds less than its amount, and either its own burn landed and nobody is left to
record it, or it was not burned yet and another row of its chain was burned twice (section 8).

`Mandate`: weak fairness of the reconciliation and of the expiry phases, since the daily job is
scheduled for ever and a pass ends; strong fairness of `SeesDisabled` and `RevokeRow` per row, since
a chain does not fail to answer every day. Nothing of payers, windows, developers.

`Checkout`: a run goes on until its process dies (a restart ends it without the catch), the
page polls (the answer never comes if the run threw outside its `try`, and `WaitEnds` excepts it), the cron lists every night, and the orphan sweep's two later steps do not throw every
night.

`Delivery`: a request ends within its ten seconds, the cron starts the pass every ten minutes, the
clock moves past a retry time. `FailureIsRetried` needs no fairness of receivers: refusing for ever
uses up the attempts.

`Delegate`: the pass comes round every day, what awaits an answer gets one, the chain mines what it
holds, and the operator refills the gas payer, as the error of `topUpAmount` asks. Nothing of the payers,
and nothing of single redeems that have not begun.

`Nonce`: a send that has begun ends, and the chain mines what is next. The script and the fee are
not fair.

## 5. What is proved

The assumptions are the `ASSUME`s each module names: bounds are naturals, prices and amounts
positive, caps naturals, at least two retries, `None` and the like not among the names they stand
apart from. Nothing else is assumed. Every invariant and every action property that a passing run
checks is a theorem here; liveness stays with TLC, since fairness is out of the prover's reach.

### Renewal

For every number of subscriptions, chains, passes and rows, all caps, prices, wallets,
horizons, numbers of events and retry limits from 2:

| theorem | statement |
|---|---|
| `RenewalProofs!Inductive` | `Spec => []IInv` |
| `RenewalProofs!TypeCorrect` | `Spec => []TypeOK` |
| `RenewalProofs!PaysCurrentPeriod` | `Spec => []InFlightPaysCurrentPeriod` |
| `RenewalProofs!ClaimGuards` | `Spec => []ClaimGuardsPull` |
| `RenewalProofs!NeverPulls` | `Spec => NeverPullOverFlight` |
| `RenewalProofs!Refinement` | `Spec => ImplementsLedger` |
| `RenewalProofs!DunningStops` | `Spec => []DunningStopsAtLimit` |
| `RenewalProofs!PriceRiseIsNotDunned` | `Spec => PriceRiseNeverDuns` |
| `RenewalProofs!ClaimsInductive` | `ClaimsSpec => []ClaimsInv` |
| `RenewalProofs!TakenAgain` | `ClaimsSpec => TakenAgainOnlyGivenBack` |

None of the properties is inductive: that a bridge in flight pays for the
current period depends on what a pass that is still running holds in memory. `IInv`
strengthens them with

- `OnePass`: only the pass that set `passRunning` holds anything;
- `SnapshotsCurrent`: as long as a job has not settled, the period end it read is the
  row's, since only a settlement moves it and a subscription is settled by one pass;
- `DrivenRows`: the row a job is burning or minting is in flight, its own, and for the key
  it read; two jobs never drive the same row;
- `NothingInFlight`: once a job has passed the look-up, no row of its subscription is in
  flight until it opens one itself;
- `Backed`: collected is at least credited plus what is pulled or in flight, which is what
  makes each credit a `Credit` step of the ledger.

Each lemma `Step...` takes one group of actions and proves every conjunct it can disturb;
`Cases` splits `Next`. The refinement maps a step that changes `collected` to `Collect`, a
settlement to `Credit`, and everything else to a stutter (`QuietSteps`). The dunning limit
needs an invariant of its own (`DInv`): the count a job read is still the row's, or the
row was dunned by the portal once, or paid; a subscription on both lists of a pass is
dunned from the grantless list first. That a price over every cap is not dunned takes two facts: only
a dunning raises a retry count, and only its own subscription's (`RaisedByDunning`); and while a pass that read
caps below the price stands before the choice of a chain, no pass can take a dunning of that
subscription (`NotDunnedOverCap`).

That a period is pulled twice only over a claim that was given back needs to know how a period that was
paid is remembered (`ClaimsInv`): by its claim, by a bridge in flight or by the period end
(`PaidKeysKnown`), so that a pass about to pull is the first (`ReadyIsFirst`). `Releases` goes through the
catches that delete a claim: the one of a resumed bridge leaves the row in flight or the period settled;
the two before and at the redeem leave nothing, and those the history counts. `ClaimGuardsPull`, a conjunct of
`IInv`, is what keeps one pass's catch from releasing the claim another is about to pull under.

### Charge

For every number of requests, keys, chains and passes, all amounts, ceilings, caps,
generations of grants, horizons and numbers of events:

| theorem | statement |
|---|---|
| `ChargeProofs!ChargeInductive` | `Spec => []IInv` |
| `ChargeProofs!ChargeTypeCorrect` | `Spec => []TypeOK` |
| `ChargeProofs!KeyIsPaidOnce` | `Spec => []KeyPaidOnce` |
| `ChargeProofs!FlightNeverFails` | `Spec => []RowNeverFailed` |
| `ChargeProofs!ChargeCeiling` | `Spec => []CeilingHolds` |
| `ChargeProofs!ChargeRefinement` | `Spec => ImplementsChargeLedger` |

That a key is paid once is not inductive either: nothing in
it says why a second request could not come to the redeem with the same key. `IInv` adds

- `KeysHeld`: a request at work owns its key row, and a charge's key row is owned by its
  request for good. A key is released only by a request that has no charge, which is why
  a key may be sent again without being paid again;
- `StepsAgree` and `PulledByStep`: where an execution is says what its charge is and
  whether it has pulled; it goes past the redeem once, and no driver redeems;
- `RowsBacked`: a bridge row is opened by an execution that is over, after its pull, so
  that `FailCharge` and a row never belong to one charge.

The refinement maps `Reserve` to `Promise`, a landed redeem to `Collect`, `FailCharge` to
`Fail`, and the two settlements to `Succeed` (or to a stutter, when a second driver
settles a settled charge).

The ceiling is a bound on a sum, which the library folds over a set in an order nobody knows. The
lemmas `SumOfEmpty`, `SumUnfolds`, `SumRemoves` and `SumGrows` say what a proof needs of it. They rest on
the well-foundedness of strict inclusion among the subsets of a finite set: a table of the sums of all
subsets exists (a least subset without one would get it from a smaller one), and the fold reads that
table. `CountedKeeps` then shows that there are finitely many charges and none of a
period still to come; `CeilingKeeps`, that no step but `Reserve` lets the sum of a period grow (an outcome
leaves it or takes a failed charge out, none brings one back), and `Reserve` checks it in the transaction that
inserts.

### Mandate

For every number of mandates, chains, rows, windows, signatures and events:

| theorem | statement |
|---|---|
| `MandateProofs!MandateInductive` | `Spec => []IInv` |
| `MandateProofs!MandateTypeCorrect` | `Spec => []TypeOK` |
| `MandateProofs!MandateActiveWasProved` | `Spec => []ActiveWasProved` |
| `MandateProofs!MandateRevokedForCause` | `Spec => []RevokedForCause` |
| `MandateProofs!MandateToldOnce` | `Spec => []ToldOnce` |
| `MandateProofs!MandateDoneIsTrue` | `Spec => []DoneIsTrue` |

`IInv` says what each in-memory actor may still believe: a window past its proof belongs to a
proved mandate, and one about to complete has a row (`PagesHold`, `PortalHolds`); a row
never loses its mandate (`RowsHold`); what is active or expired is backed (`StatusBacked`); the
pass holds contexts that the row has held, and revokes only what the chain called disabled
(`PassHolds`). The warnings and activations are counted against the flags that guard them
(`WarningsCounted`, `ActivationsCounted`): a deadline is announced once per activation because
the list of lapsed mandates is taken from active ones and the write ends that.

### Checkout

For every number of sessions, pages, chains, grants, runs and tiers, and every bound:

| theorem | statement |
|---|---|
| `CheckoutProofs!CheckoutInductive` | `Spec => []IInv` |
| `CheckoutProofs!CheckoutTypeCorrect` | `Spec => []TypeOK` |
| `CheckoutProofs!CheckoutSubscribedAsPaid` | `Spec => []SubscribedAsPaid` |
| `CheckoutProofs!CheckoutPaidIsSubscribed` | `Spec => []PaidSweepIsSubscribed` |
| `CheckoutProofs!CheckoutOneLive` | `Spec => []OneLiveWhenQuiet` |
| `CheckoutProofs!CheckoutSweptWasSettled` | `Spec => SweptWasSettled` |

Each property speaks of rows that a run writes in four steps, and says nothing of the steps
in between. `IInv` does:

- `RunsHold`: where a run stands says what it has pulled and written. Before the redeem nothing; after it
  the price of the tier it read, not of the one the session names now; from `created` to `closed` its
  subscription; at `closed` the session's stamp. So the flip of the sweep is the last of the four;
- `Retiring`: of two live subscriptions one run has the other still to retire (`Awaits`), unless
  something was `untidy`. A run that has not listed yet awaits everyone, one that has listed awaits what
  was live then; a subscription created after the list was made belongs to a run that has yet to list.
  When no run stands there any more, nobody awaits anybody, hence `OneLiveWhenQuiet`;
- `TabsHold`: a page in the middle of a grant has a chain, a context and, if it found a row, a row of
  its own session;
- `OrphansHold`: what a pass of the orphan sweep is about to revoke belongs to a session that is over,
  and no step opens a session again (`SessionsKept`).

### Delivery

For every number of events, endpoints and passes (finitely many passes), every batch size and
limit:

| theorem | statement |
|---|---|
| `DeliveryProofs!DeliveryInductive` | `Spec => []IInv` |
| `DeliveryProofs!DeliveryTypeCorrect` | `Spec => []TypeOK` |
| `DeliveryProofs!DeliveryAcceptedOnce` | `Spec => []AcceptedOnce` |
| `DeliveryProofs!DeliveryNothingDropped` | `Spec => []NothingDropped` |

`AcceptedOnce` bounds what an endpoint has accepted; it is not inductive, because whoever holds
the delivery may yet send it. `PaidFor` counts both sides of the account: what was accepted plus
every sender that may still be accepted (the first attempt, each pass with the delivery on its
list, the replay) plus a row that a pass may still list, is at most one for the event, one per
replay, one per pass that took a delivery already held, and one per fault. Taking a due delivery moves
one unit from the row to the pass; an answer moves it to `accepted`; a failure puts it back.

### Nonce

For every number of senders and every bound:

| theorem | statement |
|---|---|
| `NonceProofs!NonceInductive` | `Spec => []IInv` |
| `NonceProofs!NonceTypeCorrect` | `Spec => []TypeOK` |
| `NonceProofs!NonceGivenOnce` | `Spec => []NeverTwice` |
| `NonceProofs!NonceHolesCounted` | `Spec => []HolesHaveACause` |

`IInv` is `TypeOK`, the count of runs, and `Careful` as long as `careless` is not set: what a sender has read or holds was not
sent, unless it is `misread` (`Fresh`), everything queued or held is below the row, what was misread excepted (`QueuedBelow`, `HeldBelow`), and two
senders hold different nonces (`Distinct`). So `NonceGivenOnce` says: to two sends at once never; after it was
sent only a nonce handed back over an error that `mayHaveBroadcast` does not know. The holes are bounded by showing that each step adds at
most one, and only a step that counts a loss or a late release adds any; this needs no `Careful`, so it
holds through re-anchoring and fees past the counter as well.

### Pricing

For every number of subscriptions, requests and tiers, all prices and intervals, and every bound:

| theorem | statement |
|---|---|
| `PaymentProofs!PricingInductive` | `Spec => []IInv` |
| `PaymentProofs!PricingTypeCorrect` | `Spec => []TypeOK` |
| `PaymentProofs!ScopeReaches` | `Spec => ReachesWhoItSays` |
| `PaymentProofs!PaidRecorded` | `Spec => PaidIsRecorded` |

Both properties compare a write with what its author read some steps before. `IInv` keeps the two
together:

- `ListStands`: the list a change has taken for the mails is whom its condition reaches now, except
  for rows written since. Whether a row is reached depends on that row alone (`ReachIsLocal`), so a step
  keeps this if it marks what it writes (`ListKept`);
- `RunAtItsTerms`: a run between its pull and its record holds the price that will be recorded: the
  plan's as loaded, or its tier's as it is now, unless that tier was repriced or archived meanwhile
  (`TermsKept`);
- `KnownToClose`: the deletion of the plan closes subscriptions that exist.

A request is done only by `ApplyPriceChange` (`DoneWhenApplied`). For "new" subscribers `NewPins` shows
that whoever follows the listing is written with the old price. For the others `ReachIsPromised` shows, for
every row, that the SQL's condition holds of just those the comments promise less `Missed`;
with `ListStands` this makes `ListedAreThose`, and `ListedAreMoved` that the
rows written are those of the list. `FollowersAreMoved` shows that "everyone" takes along who inherits the
listing, found by the SQL or not.

### Delegate

For every number of renewals, single redeems, payers and faults, each kind of account, and all amounts
of ETH:

| theorem | statement |
|---|---|
| `DelegateProofs!DelegateInductive` | `Spec => []IInv` |
| `DelegateProofs!DelegateTypeCorrect` | `Spec => []TypeOK` |
| `DelegateProofs!DelegateBooksMatch` | `Spec => []BooksMatchChain` |

What is marked as pulled has moved, and what has moved is marked, in flight, or was given up on unseen. A
receipt is read long after the batch was put together, so `IInv` adds

- `PoolHolds`: the sender of a transaction waits for just this one, with the items that are in it; what nobody
  waits for consists of items given up on (`blind`). Stated as `Awaited`, an operator on the three variables;
- `WorkersHold`: what a job redeems has not moved before its receipt is there, unless in a
  transaction given up on, and then what moved is what the receipt reports: per operation for a handleOps, all or
  nothing for the other ways. The batch that reaches an account without code is the exception (`strayed`);
- `UnbegunHolds`: what may still be begun is not marked as pulled.

`TypeOK` is more than types here: the deposit, the gas payer's ETH and the payers' funds are naturals, so no
top-up, operation or redeem spends what is not there.

### Arithmetic

For every amount, rate, instant, duration and wallet, in `PaymentProofs`:

| theorem | statement |
|---|---|
| `ConsumedIsSameWindow` | a grant is spent exactly while the clock is in the window it was redeemed in |
| `PeriodHoldsNow` | the period the ceiling counts has begun and has not ended |
| `CountedIsSameWindow` | a charge counts exactly while now is in its window of the mandate |
| `OnePeriodAcrossTheRail` | with the schedule anchored in the second of the authorization, counted and spent are the same |
| `FreeWhenNextDue` | a grant redeemed at a due date is free at the next one |
| `LateStampSpendsNext` | a settlement stamped in the next window reports that one spent although the enforcer has it free |
| `FeeIsAShare`, `SplittingNeverCostsMore` | fee and share add up to the payment; two payments never cost more than one |
| `MaxFeeBelowAmount`, `RateUnderCeiling` | the bridge's maximal fee is below the amount and positive on a fast burn; a quote never exceeds the ceiling |
| `RemittingRestoresFloor`, `BurnIsCovered` | after a remittance the account holds what it held, or its floor; a burn whose bridge fee is within the platform's never touches what was there |
| `SufficientMeansCovered`, `ArcThenFirst`, `PlannedCanPay` | a sufficient selection is one allowed chain that covers the whole; the order of the choice; the planned grant can carry the charge |

### Only model-checked

The liveness properties, which rest on fairness: `BridgesDrain` and `GrantlessIsDunned` of `Renewal`,
`InFlightIsSettled` of `Charge`, `DisabledIsSeen` of `Mandate`, `OrphansSwept` and `WaitEnds` of `Checkout`,
`FailureIsRetried` of `Delivery`, `SentIsMined` of `Nonce`, `HealthyIsRedeemed` of `Delegate`. And `renewal_twice`,
which is a counterexample.

## 6. Findings

`renewal_twice` reproduces a disagreement as a run: a redeem that throws is taken for one that did
not land, the claim is released, and the next pass redeems again under another context; one
billing period is pulled twice. `PROJECT.json` quotes the lines. The other disagreements
met while modelling are traced in section 8, each with the lines it concerns.

## 7. Plan

| step | state |
|---|---|
| `Renewal` with its ledger, runs and proofs | done |
| `Charge` with its ledger, runs and proofs | done |
| `Mandate` with its runs and proofs | done |
| `Checkout` with its runs and proofs | done |
| `Delivery`, `Nonce` with their runs and proofs | done |
| `Pricing` with its run and proofs | done |
| `Delegate` with its run and proofs | done |
| `Periods`, `Amounts`, `Selector`, `Deposits` with their theorems | done |
| settlement accounts as a state machine of their own, like `Delegate` for the delegates (UserOperations of several payments on one account, top-up of the gas reserve, remittance) | left: today the pooled balance is `Charge`'s `pool`, and one settlement is `Amounts` |
| `Mandate` and `Charge` composed over shared grants | left: a charge's environment actions stand for the whole of `Mandate` |

## 8. What the code does beside its comments

The models follow the code. Where a comment, a document or another part of the code says
otherwise, no property claims it, and the steps that lead there are given here.

### Renewal and charges

- **A cancel during a pass.** The pass reads its list once (`billing/delegated-renewal.ts:771-785`).
  `ReadGrants`, `Cancel`, `Redeem`, `Settle`: the cancelled subscriber is pulled, and the settlement
  (75-86) writes `active` over the cancellation. `lib/subscriptions/revoke.ts:4-6,28-29` says the
  renewal pass can never charge it again, because the engine filters on status.
- **A bridge nobody resumes.** A renewal's bridge row is resumed only inside `prepareRenewal`
  (315-335), for a subscription that is active or past due, due, with an unexpired grant;
  `resumeChargeBridges` reads only rows with a charge. `OpenBridge`, `Cancel` (or `ExpireGrant`),
  and the merchant's share stays in the settlement account. `billing/bridge.ts:8-9` says every
  failure resumes.
- **An expired grant on neither list.** The pass takes grants that are active and unexpired
  (772-785); the sweep for grantless subscriptions takes those without an active grant (800-808). An
  expired grant keeps status active, so its subscription is neither charged nor dunned; the
  comment at 787-799 says the sweep is there for exactly that.
- **A claim without an owner.** A claim whose process died, or whose release failed (456, 669),
  is removed by nobody: every later pass finds the period claimed and skips it. `src/README.md:80`
  says a renewal that cannot be collected becomes past due and is retried by the next daily pass.
- **Two burns of one row.** A detached execution and the resume pass both read `pulled`
  (`billing/direct-charge.ts:474,494-497`) and both burn; the second burn is paid with another
  charge's money. `bridge.ts:78-79` says driving a row repeatedly is
  safe, and 196-197 that a concurrent payment's funds are never touched.
- **A burn nobody recorded.** The burn lands and its receipt is lost, its record throws, or the process stops
  before it: the row stays `pulled`, and every later pass burns again, which fails until another
  charge's money is in the account, and then takes that. `InFlightIsSettled` excepts such a row, and
  the one whose money it took, as long as they are not recorded as burned (`Stranded`).
- **A charge debited outside its ceiling.** A charge reserved at the end of a period may be
  redeemed in the next, beside that period's own charge on another chain: the payer is debited
  more than the ceiling in one period (`routes/charges.ts:211-216`). What holds is the sum the
  code defines (`CeilingHolds`).
- **The stamp is late.** `lastRedeemedAt` is the settlement's time. A pull at the end of a window
  that is settled in the next reports the next one spent (`LateStampSpendsNext`).
- **The anchor's own second.** `mandatePeriodStart` returns the anchor with its milliseconds when
  now is in the anchor's second, and a whole second otherwise.
- **The fallback of the selector.** When nothing covers, the selection may name Arc with a balance at
  least the amount and say insufficient, because Arc was not allowed.
- `lib/chain/direct-settlement.ts:45-64` says the flag covers the charge rail only; the renewal
  pass reads it too.
- `cctp-activate.ts:348-370` ("Before the money moves") checks the contract after the redeem (306).

### Mandates

- **A window that cannot finish.** When /complete throws once, the page's list of chains to do is
  empty and nothing asks again (`AuthorizePage.tsx:298-301,334-340`): the mandate stays pending with
  its grants signed until the link expires.
- A revoke between the read and the write of /complete is overwritten by `active`; a revoke after the
  expiry pass has listed the mandate is overwritten by `expired`. `RevokeRow` is by id, so it may revoke
  a row into which a newer, good context was saved since.
- `mandate-expiry.ts:54-55` says the expiry event fires exactly once. A /complete that had read the mandate
  before it expired sets it back to active, and the next pass announces the expiry again:
  `ToldOnce` says once for each activation.

### Checkout

- **Covered for the page, not for the run.** `GET /grant-plan` (`routes/delegation.ts:112-136`)
  counts the grant of any subscription of the wallet as covering; the activation takes the
  session's own grants only (`cctp-activate.ts:115-118`). The page asks for no signature and the sweep
  fails (`GatewaySweepPanel.tsx:259-260`, `delegation.ts:109-111`).
- **Two runs of one session** both pass the checks, both pull, and each retires the other's
  subscription: two payments, none live. `OneLiveWhenQuiet` allows it: it says at most one. With two pages
  of one session this needs no fault; with the one page of the instance it takes a `Back` and a
  second `Ask`.
- Retiring between `CreateSub` and `LinkGrants` leaves active grants on a cancelled subscription. A
  refused twin revokes the session's unlinked grants, the other run's among them. The orphan sweep
  writes by id, so it can revoke a grant linked since its first read.
- **A run that throws outside its `try`.** `executeCrossChainActivation` reads the sweep and resolves the
  tier before the `try` (`cctp-activate.ts:99-110`); a tier archived since it was selected throws there
  (`tiers.ts:41-44`). The catch ends with a write that may throw too (445). The caller only logs both
  (`delegation.ts:351-353`): `CreateSweep`, `StartThrows`, and the sweep stays "depositing". Its page polls
  for ever, and a new request is answered with the same sweep, "one non-failed sweep per session"
  (303-307). `WaitEnds` excepts this run (`thrown`).
- A restart leaves a sweep `working`; nothing ever ends it, so its page waits (`WaitEnds` excepts
  it). `POST /expire` may overwrite `complete`. A trial's sweep is complete before its session is.
- The shell's list of granted chains is not updated by the toggle's revoke, and the panel's "Try
  again" never runs again (`autoStartedRef`). `POST /internal/checkout/confirm` has no caller.

### Pricing

- **A closed plan is paid.** `complete.ts:94`: "A plan closed (deleted) mid-checkout can't be
  activated." `OpenSession`, `LoadRun`, `Pull`, `ArchivePlan`, `Complete` activates on the closed plan,
  because the plan was read before; `OpenSession`, `ArchivePlan`, `LoadRun`, `Pull`, `Complete` pulls
  first and refuses then.
- **A named tier changed during a run.** Repriced: the old price is pulled, the new one recorded.
  Archived: paid, and no subscription.
- **Inheriting subscribers of a plan with tiers.** `plan-pricing.ts:177` says "Inheriting subscribers
  (null amount) are included by construction". The SQL is a NOT over columns that may be null, so
  with a live named tier a subscriber from before tiers is not listed.
  `Missed` names just these, and `ReachesWhoItSays` says the list has everybody else.
- **A list that drifts.** `plan-pricing.ts:124-125`: "This list is the set actually written, and cannot
  drift from it." `ListMoved`, a cancel, a checkout or another change that commits, `ApplyPriceChange`:
  the two statements of the transaction see different rows under READ COMMITTED. The property excepts the rows
  written or created between the two (`touched.rows`).
- The named tiers are the ones the request read before its transaction; a tier added or repriced since does
  not count.
- **"New" on a stale read** pins inheriting subscribers to a price they were not paying.
- **A change of the default tier** takes subscribers of a named tier along whose terms have drifted
  from it, or that was added after they subscribed. "Existing" and then "everyone" on a named tier
  misses those the first one moved.
- The check for one active plan is a read before the create; the recommended badge may stay on
  an archived tier; an archived tier's subscribers count as the default tier's;
  `closePlanSubscriptions` is detached and is not repeated after a restart; the header of
  `plan-pricing.ts` (a price only goes down) is older than `refusePriceChange`.

### Webhooks

- **One event, one endpoint.** `WebhookDelivery.eventId` is unique (`schema.prisma:765`), and an event
  is fired with one id for all endpoints. The second insert throws, and `Promise.allSettled`
  (`delivery.ts:55`) swallows it: of two endpoints one gets the event. `delivery.ts:18-19` says it is
  delivered to the merchant's endpoints, and the replay looks up id and endpoint (`routes/webhooks.ts:115-117`).
- `verify.md:53-54` promises five retries; `attempts < 5` with the first attempt counted is four.
- A row left pending by a restart is never sent again; deleted endpoints are still retried; a failed
  replay of a delivered row makes it failed without a retry time; the first attempt's `attempts: 1` is
  absolute and overwrites a replay's count.

### Nonces

- `schema.prisma:794-797` and `nonce.ts:129` call a gap healable; `nonce.ts:89-96` says it is permanent,
  and so it is until the script is run (`HolesHaveACause` counts them).
- The script takes latest = pending for an empty mempool. Transactions queued behind a gap do not
  show in pending, and a reserved nonce that is not sent yet does not either: re-anchoring then gives
  nonces twice (`careless`).
- **A broadcast nonce handed out again.** `nonce.ts:83-90` keeps the nonce of anything ambiguous.
  `mayHaveBroadcast` (103-108) knows a list of texts, and every other error releases the nonce: a
  gateway that answers HTTP 502 after the node took the transaction, say. `ReadPending` of a second
  sender, `Allocate` and `RefuseSent` of the first, `Release`, `Allocate` of the second: the nonce is given
  again, against `schema.prisma:788-789`. A third sender that reads the count afterwards gets a higher one, unless the
  transaction waits behind a gap. `misread` holds these nonces, and `NeverTwice` and `SentIsMined` except them.
- `fee-payout.ts:90` sends without `withNonce`, against `nonce.ts:12` and `schema.prisma:788-789`.

### Accounts

- A rail grant becomes live without `liveGrantedBy`. A withdrawal's state goes back when Circle's
  notifications come in another order; the inbound webhook writes one chain's balance as the
  total under direct settlement.
- `settlement-userop.ts:31-33` says a concurrent payment's funds are untouchable; `preexisting` is the
  balance less this payment's gross, so another payment's unsettled gross counts as the float: no
  top-up is kept back, and the gas comes out of it. `RemittingRestoresFloor` says what holds for one.
- **A top-up that does not cover.** `delegate-msca.ts:275-277`: refuse only when even the operation's own gas cannot be
  covered. When the floor is less than what the batch needs, only the floor is deposited (303-304),
  although the payer could afford more; `confirmDeposit` accepts the receipt (246), and the handleOps is
  refused. The deposits add up over passes (`HealthyIsRedeemed`). The "three operations' worth" of
  691-695 is never asked for: `want > required ? required : want` is `required`, and `topUpAmount` uses
  it only to refuse.
- **An account that is never deployed.** `delegate-msca.ts:182-191` says the missing initCode was the cause of
  refused operations. It is read now, but the operation takes `p.initCode ?? initCode` (540, 798), and
  `toPackedUserOperation` of an operation without a factory answers "0x", which `??` keeps; the
  signature is over that operation too. `Valid` is false as long as `code` is "none".
- **A 7702 group waits for its worst member.** `delegation.ts:216-217`: "one subscriber's spent period
  should not block twenty others", and `Redeem7702Item` says items are independent of each other. The batch
  reverts as a whole. `Prepare` asks whether each wallet holds a period, so a payer with two renewals due and
  money for one passes twice; `ReadDelegation`, `EstimateReverts`, and the next pass builds the same batch.
- **An authorization that is ignored.** `delegate-7702.ts:255-256` says the result is "a plain EOA and a
  reverting call". A call to an account without code succeeds: `ReadDelegation` of the pass, `Submit` of a
  single redeem by the same key, `Submit` of the batch, `MineDirect`, `BatchStrays`, and every renewal in
  the batch is taken for pulled though nothing moved (`strayed`).
- The development routes run a pass without the scheduler's guard; they are mounted only outside
  production. What is shown rests on one billing process: a second one would have a guard of its own.

## 9. Not modelled

- **Web pages** other than the two whose state decides what is signed and charged (AuthorizePage in
  `Mandate`, the checkout in `Checkout`): forms and lists over requests whose handlers are
  modelled where they matter. They are the larger part of the lines under `src/apps/web`.
- **Authentication and step-up**: who may call. No payment, grant or subscription depends on their
  rows but through a refusal, which every modelled request may meet.
- **Signers, ABI encoding, gas limits, RPC, the settlement account's UserOperations**: I/O and
  cryptography. What they decide (landed, refused, seen as failed, unreadable) is nondeterministic in the
  models; what they compute about money is in `Amounts` and `Deposits`.
- **Wallets and withdrawals**: a balance cache and single rows driven by an external
  service's notifications; nothing modelled reads them.
- **Payout wallet, payment links, API keys, receipts, reports**: single rows of a merchant that no
  background job writes.
- **E-mail, ids, environment, client SDKs, probe and report scripts**: formatting, wiring and I/O.

Every component is listed with its reason in `PROJECT.json`.
