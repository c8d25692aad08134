------------------------------ MODULE Delegate ------------------------------
(***************************************************************************)
(* How grants are redeemed through one delegate account of ours on one     *)
(* source chain: redeemPrepared (billing/delegated-renewal.ts) for a group *)
(* of due renewals, redeemCalls (lib/chain/delegation.ts) for the single   *)
(* redeems of checkouts and charges beside it, and under them the three    *)
(* accounts a grant may name: an EOA, a Circle MSCA whose operations we    *)
(* bundle ourselves (lib/chain/delegate-msca.ts), and an EOA upgraded      *)
(* under EIP-7702 (lib/chain/delegate-7702.ts).                            *)
(*                                                                         *)
(* The chain is external.  It mines what the gas payer sent in the order   *)
(* of the payer's nonces (how those are allocated is Nonce's); an          *)
(* EntryPoint validates all operations of a handleOps before it runs any,  *)
(* and each of them then succeeds or reverts for itself.                   *)
(*                                                                         *)
(* Abstracted: every redeem moves one unit, the calls within an item stand *)
(* or fall together and are one; ETH is counted in what the EntryPoint     *)
(* demands for one operation; claims, periods and what becomes of a pull   *)
(* are Renewal's; a process that restarts is a receipt never seen.         *)
(***************************************************************************)
EXTENDS Integers, FiniteSets, Sequences, Deposits

CONSTANTS
    Renewals,   \* due subscriptions whose grants name the account
    Others,     \* single redeems: a checkout's or a charge's
    Payers,
    PayerOf,    \* [Renewals \cup Others -> Payers]: whose grant is redeemed
    Floor,      \* depositFloor()
    Reserve,    \* what topUpAmount keeps back for the deposit's own gas
    Supply,     \* bound: the ETH the gas payer is kept at
    None,
    MaxEvents   \* bound: faults, and what payers and operators do meanwhile

Items == Renewals \cup Others
Pass == "pass"                  \* the renewal pass: one at a time (passRunning)
Workers == {Pass} \cup Others

ASSUME ItemsAssumption ==
    /\ Renewals \cap Others = {} /\ IsFiniteSet(Items)
    /\ Pass \notin Others /\ None \notin Workers
ASSUME PayersAssumption == PayerOf \in [Items -> Payers]
ASSUME AmountsAssumption == Floor \in Nat \ {0} /\ Reserve \in Nat /\ Supply \in Nat
ASSUME BoundAssumption == MaxEvents \in Nat

VARIABLES
    kind,       \* what the grants name
    code,       \* chain: the account's code; "ours" is the deployed MSCA, or the delegator
    deposit,    \* chain: the account's deposit at the EntryPoint
    eth,        \* chain: what the gas payer holds
    pool,       \* chain: transactions the node holds, in nonce order
    moved,      \* chain: items whose money has moved
    disabled,   \* chain: items whose delegation the payer has disabled
    funds,      \* chain: what the payers hold
    group,      \* renewals the pass has prepared and not yet redeemed
    worker,     \* what the pass and the single redeems are at
    pulled,     \* items the engine takes for pulled (`redeemed')
    blind,      \* history: items whose transaction was given up on unseen
    strayed,    \* history: a batch ran at an account with no code
    events

chain == <<code, deposit, eth, pool, moved, disabled, funds>>
vars == <<kind, chain, group, worker, pulled, blind, strayed, events>>

Idle == [at |-> "idle"]
Over == [at |-> "over"]         \* a single redeem is not tried again

\* ops: through the EntryPoint; batch: the 7702 account executes on itself; direct: an
\* ordinary redeemDelegations.
Paths == {"ops", "batch", "direct"}

\* fresh: nothing has made stale what was read to be signed over.  auth: an authorization
\* rides along.  ok, done: the receipt, and the operations it reports as successful.
Jobs == [at    : {"read", "confirm", "nonce", "send", "wait", "mined"},
         path  : Paths, items : SUBSET Items, fresh : BOOLEAN, auth : BOOLEAN,
         ok    : BOOLEAN, done : SUBSET Items]

Txs ==      [what : {"deposit"}, by : Workers \cup {None}, value : Nat]
       \cup [what : Paths, by : Workers \cup {None}, items : SUBSET Items,
             fresh : BOOLEAN, auth : BOOLEAN]

TypeOK ==
    /\ kind \in {"eoa", "msca", "7702"}
    /\ code \in {"none", "ours", "foreign"}
    /\ deposit \in Nat
    /\ eth \in 0..Supply
    /\ pool \in Seq(Txs)
    /\ moved \subseteq Items /\ disabled \subseteq Items
    /\ funds \in [Payers -> Nat]
    /\ group \subseteq Renewals
    /\ worker \in [Workers -> {Idle, Over} \cup Jobs]
    /\ pulled \subseteq Items /\ blind \subseteq Items
    /\ strayed \in BOOLEAN
    /\ events \in 0..MaxEvents

Init ==
    /\ kind \in {"eoa", "msca", "7702"}
    /\ code \in IF kind = "7702" THEN {"none", "ours", "foreign"}
                ELSE IF kind = "msca" THEN {"none", "ours"} ELSE {"none"}
    /\ deposit = 0
    /\ eth = Supply
    /\ pool = <<>>
    /\ moved = {} /\ disabled = {}
    /\ funds \in [Payers -> {1, 2}]
    /\ group = {}
    /\ worker = [w \in Workers |-> Idle]
    /\ pulled = {} /\ blind = {}
    /\ strayed = FALSE
    /\ events = 0

Send(tx) == pool' = Append(pool, tx)

Event == events < MaxEvents /\ events' = events + 1

At(w, place) == worker[w].at = place
On(w, path)  == worker[w].path = path
Goto(w, place) == worker' = [worker EXCEPT ![w].at = place]

\* A single redeem answers its caller; the pass goes on to what is left of its group.
Rest(w) == IF w = Pass THEN Idle ELSE Over
End(w) == worker' = [worker EXCEPT ![w] = Rest(w)]

\* Whatever throws: the claim is released, and the pass tries again next time.
Throw(w) == End(w) /\ UNCHANGED <<kind, chain, group, pulled, blind, strayed>>

---------------------------------------------------------------------------
(* What the pass redeems together. *)

\* prepareRenewal looks at one subscriber at a time: does the wallet hold a period?
Holds(i) == funds[PayerOf[i]] > 0

Prepare ==
    /\ At(Pass, "idle") /\ group = {}
    /\ group' = {i \in Renewals \ pulled : Holds(i)}
    /\ UNCHANGED <<kind, chain, worker, pulled, blind, strayed, events>>

PathOf(S) ==
    IF kind = "msca" THEN "ops"
    ELSE IF kind = "7702" /\ Cardinality(S) > 1 THEN "batch"
    ELSE "direct"

Begin(w, S) ==
    worker' = [worker EXCEPT ![w] =
        [at |-> "read", path |-> PathOf(S), items |-> S, fresh |-> FALSE, auth |-> FALSE,
         ok |-> FALSE, done |-> {}]]

\* Grants naming an MSCA or a 7702 account share a transaction; an EOA's do not.
RedeemPrepared ==
    /\ At(Pass, "idle")
    /\ \E S \in SUBSET group \ {{}} :
          /\ IF kind = "eoa" THEN Cardinality(S) = 1 ELSE S = group
          /\ Begin(Pass, S)
          /\ group' = group \ S
    /\ UNCHANGED <<kind, chain, pulled, blind, strayed, events>>

RedeemCalls(o) ==
    /\ At(o, "idle")
    /\ Begin(o, {o})
    /\ UNCHANGED <<kind, chain, group, pulled, blind, strayed, events>>

---------------------------------------------------------------------------
(* redeemViaSelfBundler, and redeemBatchViaSelfBundler for more than one item. *)

\* What the EntryPoint will demand; a single operation on an account that is not there
\* yet asks for gas to deploy it.
Required(S) == Cardinality(S) + (IF Cardinality(S) = 1 /\ code = "none" THEN 1 ELSE 0)

DepositSuffices(w) ==
    /\ At(w, "read") /\ On(w, "ops")
    /\ deposit >= Required(worker[w].items)
    /\ Goto(w, "nonce")
    /\ UNCHANGED <<kind, chain, group, pulled, blind, strayed, events>>

\* topUpAmount refuses only what cannot cover the operation, and aims no higher than
\* the floor, which may be below what is required.
TopUp(w) ==
    LET need == Required(worker[w].items) IN
    /\ At(w, "read") /\ On(w, "ops")
    /\ deposit < need
    /\ Affordable(eth, Reserve) >= need
    /\ LET top == TopUpAmount(Affordable(eth, Reserve), Floor) IN
       /\ eth' = eth - top - Reserve
       /\ Send([what |-> "deposit", by |-> w, value |-> top])
    /\ Goto(w, "confirm")
    /\ UNCHANGED <<kind, code, deposit, moved, disabled, funds, group, pulled, blind,
                   strayed, events>>

TopUpRefused(w) ==
    LET need == Required(worker[w].items) IN
    /\ At(w, "read") /\ On(w, "ops")
    /\ deposit < need
    /\ Affordable(eth, Reserve) < need
    /\ Throw(w) /\ UNCHANGED events

\* confirmDeposit is content with the receipt.
ConfirmDeposit(w) ==
    /\ At(w, "confirm") /\ worker[w].ok
    /\ worker' = [worker EXCEPT ![w].at = "nonce", ![w].ok = FALSE]
    /\ UNCHANGED <<kind, chain, group, pulled, blind, strayed, events>>

\* Nobody waits for w's transaction any more; the node still has it.
Forgotten(w) ==
    [k \in DOMAIN pool |->
        IF pool[k].by = w THEN [pool[k] EXCEPT !.by = None] ELSE pool[k]]

\* No receipt in time: the balance decides, and is polled for two minutes.
PollDeposit(w) ==
    /\ At(w, "confirm")
    /\ Event
    /\ pool' = Forgotten(w)
    /\ worker' = [worker EXCEPT ![w] =
          IF deposit >= Required(worker[w].items)
          THEN [worker[w] EXCEPT !.at = "nonce", !.ok = FALSE] ELSE Rest(w)]
    /\ UNCHANGED <<kind, code, deposit, eth, moved, disabled, funds, group, pulled, blind,
                   strayed>>

\* The operations of a batch are signed over the account's next nonces.
ReadNonce(w) ==
    /\ At(w, "nonce")
    /\ worker' = [worker EXCEPT ![w].at = "send", ![w].fresh = TRUE]
    /\ UNCHANGED <<kind, chain, group, pulled, blind, strayed, events>>

---------------------------------------------------------------------------
(* The grants on the chain. *)

Of(p) == {i \in Items : PayerOf[i] = p}

\* done is what S, redeemed one after another and each for itself, can come to.
Outcome(S, done) ==
    LET good == S \ (moved \cup disabled) IN
    /\ done \subseteq good
    /\ \A p \in Payers :
          Cardinality(done \cap Of(p)) = Lesser(funds[p], Cardinality(good \cap Of(p)))

AllMove(S) == Outcome(S, S)

Move(S) ==
    /\ moved' = moved \cup S
    /\ funds' = [p \in Payers |-> funds[p] - Cardinality(S \cap Of(p))]

---------------------------------------------------------------------------
(* redeemBatchVia7702, and an ordinary redeem. *)

\* The authorization is signed over the account's transaction count.
ReadDelegation(w) ==
    /\ At(w, "read") /\ On(w, "batch")
    /\ code # "foreign"
    /\ worker' = [worker EXCEPT ![w].at = "send", ![w].fresh = TRUE,
                                ![w].auth = (code = "none")]
    /\ UNCHANGED <<kind, chain, group, pulled, blind, strayed, events>>

ForeignDelegation(w) ==
    /\ At(w, "read") /\ On(w, "batch")
    /\ code = "foreign"
    /\ Throw(w) /\ UNCHANGED events

Redeemable(i) == i \notin moved \cup disabled /\ Holds(i)

Simulate(w) ==
    /\ At(w, "read") /\ On(w, "direct")
    /\ \A i \in worker[w].items : Redeemable(i)
    /\ Goto(w, "send")
    /\ UNCHANGED <<kind, chain, group, pulled, blind, strayed, events>>

SimulateReverts(w) ==
    /\ At(w, "read") /\ On(w, "direct")
    /\ \E i \in worker[w].items : ~Redeemable(i)
    /\ Throw(w) /\ UNCHANGED events

---------------------------------------------------------------------------
(* The transaction, and what is made of its receipt. *)

\* The delegator's code is there, or the authorization will put it there.
Runs(j) == code = "ours" \/ (j.auth /\ j.fresh)

\* A batch names no gas limit, so it is tried out before it is sent.
EstimateFails(j) == j.path = "batch" /\ Runs(j) /\ ~AllMove(j.items)

\* A delegate's own transactions share its count: one sent after an authorization was
\* signed makes the authorization stale.
Staled == [v \in Workers |->
              IF At(v, "send") /\ On(v, "batch") THEN [worker[v] EXCEPT !.fresh = FALSE]
              ELSE worker[v]]

Submit(w) ==
    /\ At(w, "send")
    /\ ~EstimateFails(worker[w])
    /\ LET j == worker[w] IN
       Send([what |-> j.path, by |-> w, items |-> j.items, fresh |-> j.fresh, auth |-> j.auth])
    /\ worker' = [Staled EXCEPT ![w] = [worker[w] EXCEPT !.at = "wait"]]
    /\ UNCHANGED <<kind, code, deposit, eth, moved, disabled, funds, group, pulled, blind,
                   strayed, events>>

EstimateReverts(w) ==
    /\ At(w, "send") /\ EstimateFails(worker[w])
    /\ Throw(w) /\ UNCHANGED events

\* A request of the node fails; nothing was sent.
NodeThrows(w) ==
    /\ worker[w].at \in {"read", "nonce", "send"}
    /\ Event
    /\ Throw(w)

\* A plausible slip: the receipt of a handleOps is taken for that of its operations.
ReceiptDecides(j) == IF j.ok THEN j.items ELSE {}

\* The events of a handleOps decide, item by item; the other paths have one status.
Reported(j) ==
    IF ~j.ok THEN {} ELSE IF j.path = "ops" THEN j.done ELSE j.items

Learn(w) ==
    /\ At(w, "mined")
    /\ pulled' = pulled \cup Reported(worker[w])
    /\ End(w)
    /\ UNCHANGED <<kind, chain, group, blind, strayed, events>>

\* waitForTransactionReceipt gives up: taken for a transaction that moved nothing.
ReceiptLost(w) ==
    /\ worker[w].at \in {"wait", "mined"}
    /\ Event
    /\ pool' = Forgotten(w)
    /\ blind' = blind \cup worker[w].items
    /\ End(w)
    /\ UNCHANGED <<kind, code, deposit, eth, moved, disabled, funds, group, pulled, strayed>>

---------------------------------------------------------------------------
(* The chain mines what heads the pool.  A transaction nobody waits for is *)
(* mined like any other.                                                   *)

\* A plausible slip: the nonce that was read, for all of them.
SharedNonce(n) == [k \in 1..n |-> 0]

\* The batch signs its operations over successive nonces of the account.
OpNonces(n) == [k \in 1..n |-> k - 1]

\* The EntryPoint validates all operations first: the account must exist, every nonce be
\* its turn, and the deposit cover them all.  The initCode of an account that is not there
\* never reaches it: toPackedUserOperation answers "0x", which `p.initCode ??' keeps.
Valid(tx) ==
    LET n == Cardinality(tx.items) IN
    /\ code = "ours"
    /\ tx.fresh /\ \A k \in 1..n : OpNonces(n)[k] = k - 1
    /\ deposit >= n

\* Its sender, if it still waits, has the receipt.
Receipt(tx, ok, done) ==
    [v \in Workers |->
        IF v # tx.by THEN worker[v]
        ELSE IF tx.what = "deposit" THEN [worker[v] EXCEPT !.ok = ok]
        ELSE [worker[v] EXCEPT !.at = "mined", !.ok = ok, !.done = done]]

First == pool[1]
Mining(what) == pool # <<>> /\ First.what = what

MineDeposit ==
    /\ Mining("deposit")
    /\ deposit' = deposit + First.value
    /\ pool' = Tail(pool)
    /\ worker' = Receipt(First, TRUE, {})
    /\ UNCHANGED <<kind, code, eth, moved, disabled, funds, group, pulled, blind, strayed,
                   events>>

\* Nonces are spent, so what was signed over them has lost its turn.
MineOps ==
    /\ Mining("ops") /\ Valid(First)
    /\ \E done \in SUBSET First.items, used \in 0..Cardinality(First.items) :
          /\ Outcome(First.items, done)
          /\ Move(done)
          /\ deposit' = deposit - used
          /\ worker' = [v \in Workers |->
                IF At(v, "send") /\ On(v, "ops") THEN [worker[v] EXCEPT !.fresh = FALSE]
                ELSE Receipt(First, TRUE, done)[v]]
    /\ pool' = [k \in DOMAIN Tail(pool) |->
          IF Tail(pool)[k].what = "ops" THEN [Tail(pool)[k] EXCEPT !.fresh = FALSE]
          ELSE Tail(pool)[k]]
    /\ UNCHANGED <<kind, code, eth, disabled, group, pulled, blind, strayed, events>>

OpsRefused ==
    /\ Mining("ops") /\ ~Valid(First)
    /\ pool' = Tail(pool)
    /\ worker' = Receipt(First, FALSE, {})
    /\ UNCHANGED <<kind, code, deposit, eth, moved, disabled, funds, group, pulled, blind,
                   strayed, events>>

\* All or nothing; the account stays upgraded either way.
MineBatch ==
    /\ Mining("batch") /\ Runs(First)
    /\ code' = "ours"
    /\ IF AllMove(First.items)
       THEN Move(First.items) /\ worker' = Receipt(First, TRUE, First.items)
       ELSE UNCHANGED <<moved, funds>> /\ worker' = Receipt(First, FALSE, {})
    /\ pool' = Tail(pool)
    /\ UNCHANGED <<kind, deposit, eth, disabled, group, pulled, blind, strayed, events>>

\* The authorization is ignored, and a call to an account without code succeeds.
BatchStrays ==
    /\ Mining("batch") /\ ~Runs(First)
    /\ pool' = Tail(pool)
    /\ worker' = Receipt(First, TRUE, {})
    /\ strayed' = TRUE
    /\ UNCHANGED <<kind, code, deposit, eth, moved, disabled, funds, group, pulled, blind,
                   events>>

MineDirect ==
    /\ Mining("direct")
    /\ IF \A i \in First.items : Redeemable(i)
       THEN Move(First.items) /\ worker' = Receipt(First, TRUE, First.items)
       ELSE UNCHANGED <<moved, funds>> /\ worker' = Receipt(First, FALSE, {})
    /\ pool' = Tail(pool)
    /\ UNCHANGED <<kind, code, deposit, eth, disabled, group, pulled, blind, strayed, events>>

---------------------------------------------------------------------------
(* Payers, and the operator who keeps the gas payer in ETH. *)

DisableGrant(i) ==
    /\ i \notin disabled /\ Event
    /\ disabled' = disabled \cup {i}
    /\ UNCHANGED <<kind, code, deposit, eth, pool, moved, funds, group, worker, pulled,
                   blind, strayed>>

Spend(p) ==
    /\ funds[p] > 0 /\ Event
    /\ funds' = [funds EXCEPT ![p] = @ - 1]
    /\ UNCHANGED <<kind, code, deposit, eth, pool, moved, disabled, group, worker, pulled,
                   blind, strayed>>

Refuel ==
    /\ eth < Supply
    /\ eth' = Supply
    /\ UNCHANGED <<kind, code, deposit, pool, moved, disabled, funds, group, worker, pulled,
                   blind, strayed, events>>

---------------------------------------------------------------------------
Step(w) ==
    \/ DepositSuffices(w) \/ TopUp(w) \/ TopUpRefused(w)
    \/ ConfirmDeposit(w) \/ ReadNonce(w)
    \/ ReadDelegation(w) \/ ForeignDelegation(w)
    \/ Simulate(w) \/ SimulateReverts(w)
    \/ Submit(w) \/ EstimateReverts(w) \/ Learn(w)

PassStarts == Prepare \/ RedeemPrepared
Mine == MineDeposit \/ MineOps \/ OpsRefused \/ MineBatch \/ BatchStrays \/ MineDirect

Next ==
    \/ PassStarts
    \/ \E o \in Others : RedeemCalls(o)
    \/ \E w \in Workers : Step(w) \/ PollDeposit(w) \/ NodeThrows(w) \/ ReceiptLost(w)
    \/ Mine
    \/ \E i \in Items : DisableGrant(i)
    \/ \E p \in Payers : Spend(p)
    \/ Refuel

Spec == Init /\ [][Next]_vars

\* The pass comes round every day, an await returns, the chain makes blocks, and the
\* operator refills the account the error message names.
FairSpec ==
    /\ Spec
    /\ WF_vars(PassStarts) /\ WF_vars(Mine) /\ WF_vars(Refuel)
    /\ \A w \in Workers : WF_vars(Step(w))

---------------------------------------------------------------------------
(***************************************************************************)
(* BooksMatchChain.  What the engine takes for pulled has moved, and what  *)
(* has moved it takes for pulled, but for a transaction in flight and one  *)
(* given up on unseen: whatever batches, single redeems, top-ups and       *)
(* faults come between, and although one handleOps mixes successes with    *)
(* failures.  A batch that ran at an account with no code is excepted.     *)
(***************************************************************************)
InFlight ==
    UNION {worker[w].items : w \in {v \in Workers : worker[v].at \in {"wait", "mined"}}}

BooksMatchChain ==
    /\ strayed \/ pulled \subseteq moved
    /\ moved \subseteq pulled \cup blind \cup InFlight

(***************************************************************************)
(* HealthyIsRedeemed.  A due renewal that names an EOA or a deployed MSCA, *)
(* whose grant stands and whose wallet holds the period, is redeemed: one  *)
(* that shares its handleOps with spent grants, whose top-up fell short of *)
(* the batch, or whose nonces a single redeem took, gets through in time.  *)
(***************************************************************************)
Healthy(i) ==
    /\ kind = "eoa" \/ (kind = "msca" /\ code = "ours")
    /\ i \notin disabled /\ Holds(i)

HealthyIsRedeemed == \A i \in Renewals : Healthy(i) ~> (i \in moved \/ ~Healthy(i))
=============================================================================
