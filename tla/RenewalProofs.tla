---------------------------- MODULE RenewalProofs ----------------------------
(***************************************************************************)
(* Proofs about Renewal, for any number of subscriptions, chains and       *)
(* concurrent cron executions, any prices and caps, and any number of      *)
(* restarts, cancellations and grants.                                     *)
(***************************************************************************)
EXTENDS RenewalClaims, TLAPS

USE PricesAssumption, CapAssumption, MaxRetriesAssumption, WalletAssumption,
    HorizonAssumption, MaxEventsAssumption

(***************************************************************************)
(* The inductive invariant.                                                *)
(***************************************************************************)

\* A pass past its start, and what it read of the period end.
InPass == {"prepare", "select", "ready", "pulled", "burn", "attest"}

\* One pass at a time, and a memory that matches its phase.
OnePass ==
    /\ \A t \in Ticks : pass[t] # "idle" => passRunning
    /\ \A t, u \in Ticks : pass[t] # "idle" /\ pass[u] # "idle" => t = u
    /\ \A t \in Ticks, s \in Subs :
          /\ pass[t] = "idle" => job[t][s] = Out
          /\ pass[t] = "trials" => At(t, s, {"out", "trial"})
          /\ pass[t] = "reading" => At(t, s, {"out", "prepare"})
          /\ pass[t] = "collect" => ~At(t, s, {"trial"})

\* The period end a pass read is still the period end.
SnapshotsCurrent ==
    \A t \in Ticks, s \in Subs :
        At(t, s, InPass) => job[t][s].sub.periodEnd = sub[s].periodEnd

\* A pass that drives a row drives one of its own subscription.
DrivenRows ==
    \A t \in Ticks, s \in Subs :
        At(t, s, {"burn", "attest"}) =>
            InFlight(job[t][s].row) /\ bridge[job[t][s].row].sub = s

\* A pass past its lookup knows that nothing is in flight.
NothingInFlight ==
    \A t \in Ticks, s \in Subs, r \in Rows :
        At(t, s, {"select", "ready", "pulled"}) =>
            ~(InFlight(r) /\ bridge[r].sub = s)

\* A pass that is about to pull, or has pulled and not yet written its row, owns
\* the claim on the period: nobody else's failure has released it.
ClaimGuardsPull ==
    \A t \in Ticks, s \in Subs :
        At(t, s, {"ready", "pulled"}) => <<s, KeyOf(job[t][s].sub)>> \in claims

\* What is in flight, or pulled and not yet written down, was collected and is
\* not credited.
Backed ==
    /\ \A s \in Subs : credited[s] <= collected[s]
    /\ \A r \in Rows : InFlight(r) =>
          credited[bridge[r].sub] + bridge[r].amount <= collected[bridge[r].sub]
    /\ \A t \in Ticks, s \in Subs : At(t, s, {"pulled"}) =>
          credited[s] + job[t][s].sub.price <= collected[s]

IInv == /\ TypeOK
        /\ OnePass
        /\ SnapshotsCurrent
        /\ DrivenRows
        /\ NothingInFlight
        /\ InFlightPaysCurrentPeriod
        /\ ClaimGuardsPull
        /\ Backed

(***************************************************************************)
(* What the types say of the parts of a record.                            *)
(***************************************************************************)

\* The fields of a Subscription row.
LEMMA SubFields ==
  ASSUME NEW q \in SubRecords
  PROVE  /\ q.status \in Statuses /\ q.periodEnd \in Nat /\ q.retryCount \in Nat
         /\ q.price \in Prices /\ q.price \in Nat
         /\ q.plan \in {"open", "closing", "closed"}
BY DEF SubRecords

\* The fields of a BridgeTransfer row in flight.
LEMMA RowFields ==
  ASSUME TypeOK, NEW r \in Rows, InFlight(r)
  PROVE  /\ bridge[r] \in RowRecords
         /\ bridge[r].sub \in Subs /\ bridge[r].chain \in Chains
         /\ bridge[r].mandate \in Ids /\ bridge[r].key \in Nat
         /\ bridge[r].amount \in Prices /\ bridge[r].amount \in Nat
<1>1. bridge[r] \in {NoRow} \cup RowRecords
  BY DEF TypeOK
<1>2. bridge[r] # NoRow
  BY DEF InFlight, NoRow
<1>3. bridge[r] \in RowRecords
  BY <1>1, <1>2
<1> QED BY <1>3 DEF RowRecords

\* The fields of a grant, and the number an event gives a new one.
LEMMA GrantFields ==
  ASSUME NEW g \in GrantRecords
  PROVE  g.row \in Ids /\ g.context \in Ids
BY DEF GrantRecords

LEMMA EventIds ==
  ASSUME TypeOK, Event
  PROVE  events' \in Ids
<1>1. events \in 0..MaxEvents /\ events < MaxEvents /\ events' = events + 1
  BY DEF TypeOK, Event, Ids
<1> QED BY <1>1 DEF Ids

\* What a pass holds about a subscription, by where it stands with it.
LEMMA JobFields ==
  ASSUME TypeOK, NEW t \in Ticks, NEW s \in Subs
  PROVE  /\ At(t, s, InPass) => job[t][s].sub \in SubRecords
         /\ At(t, s, {"prepare", "select"}) =>
               job[t][s].group \in [Chains -> GrantRecords \cup {NoGrant}]
         /\ At(t, s, {"ready", "pulled"}) =>
               job[t][s].chain \in Chains /\ job[t][s].mandate \in GrantRecords
         /\ At(t, s, {"burn", "attest"}) =>
               job[t][s].row \in Rows /\ job[t][s].resume \in BOOLEAN
         /\ At(t, s, InPass) => ~At(t, s, {"out", "trial"})
         /\ ~At(t, s, {"out", "trial"}) => At(t, s, InPass)
         /\ At(t, s, {"out"}) <=> job[t][s] = Out
<1> DEFINE j == job[t][s]
<1>1. j \in JobRecords
  BY DEF TypeOK
<1>2. \/ j = Out
      \/ j \in [at : {"trial"}]
      \/ j \in [at : {"prepare", "select"}, sub : SubRecords,
               group : [Chains -> GrantRecords \cup {NoGrant}]]
      \/ j \in [at : {"ready", "pulled"}, sub : SubRecords, chain : Chains,
               mandate : GrantRecords]
      \/ j \in [at : {"burn", "attest"}, sub : SubRecords, row : Rows, resume : BOOLEAN]
  BY <1>1 DEF JobRecords
<1>3. At(t, s, {"out"}) <=> j = Out
  BY <1>2 DEF At, Out
<1>4. /\ At(t, s, InPass) => j.sub \in SubRecords
      /\ At(t, s, {"prepare", "select"}) =>
            j.group \in [Chains -> GrantRecords \cup {NoGrant}]
  BY <1>2 DEF At, Out, InPass
<1>5. /\ At(t, s, {"ready", "pulled"}) => j.chain \in Chains /\ j.mandate \in GrantRecords
      /\ At(t, s, {"burn", "attest"}) => j.row \in Rows /\ j.resume \in BOOLEAN
  BY <1>2 DEF At, Out
<1>6. At(t, s, InPass) <=> ~At(t, s, {"out", "trial"})
  BY <1>2 DEF At, Out, InPass
<1> QED BY <1>3, <1>4, <1>5, <1>6

(***************************************************************************)
(* What a write leaves behind.                                             *)
(***************************************************************************)

\* Writing one job leaves the others.
LEMMA StayJobs ==
  ASSUME TypeOK, NEW t \in Ticks, NEW s \in Subs, NEW j \in JobRecords, Stay(t, s, j)
  PROVE  /\ job' \in [Ticks -> [Subs -> JobRecords]]
         /\ job'[t][s] = j
         /\ \A u \in Ticks, v \in Subs : u # t \/ v # s => job'[u][v] = job[u][v]
BY DEF TypeOK, Stay

\* Dropping one job leaves the others.
LEMMA DropJobs ==
  ASSUME TypeOK, NEW t \in Ticks, NEW s \in Subs, Drop(t, s)
  PROVE  /\ job' \in [Ticks -> [Subs -> JobRecords]]
         /\ job'[t][s] = Out
         /\ \A u \in Ticks, v \in Subs : u # t \/ v # s => job'[u][v] = job[u][v]
<1>1. Out \in JobRecords
  BY DEF JobRecords
<1> QED BY <1>1, StayJobs DEF Drop

\* A revocation keeps the grants well typed.
LEMMA RevokedGrants ==
  ASSUME TypeOK, NEW s \in Subs, NEW C, RevokeOf(s, C)
  PROVE  grant' \in [Subs -> [Chains -> GrantRecords]]
<1>1. ASSUME NEW g \in GrantRecords
      PROVE  [g EXCEPT !.status = "revoked"] \in GrantRecords
  BY DEF GrantRecords
<1>2. [c \in Chains |-> IF c \in C THEN [grant[s][c] EXCEPT !.status = "revoked"]
                        ELSE grant[s][c]] \in [Chains -> GrantRecords]
  BY <1>1 DEF TypeOK
<1> QED BY <1>2 DEF TypeOK, RevokeOf

\* markRenewalFailed keeps the types and every period end.
LEMMA Failed ==
  ASSUME TypeOK, NEW s \in Subs, NEW n \in Nat, MarkRenewalFailed(s, n)
  PROVE  /\ sub' \in [Subs -> SubRecords]
         /\ grant' \in [Subs -> [Chains -> GrantRecords]]
         /\ \A v \in Subs : sub'[v].periodEnd = sub[v].periodEnd
<1> DEFINE w(x) == [sub[s] EXCEPT !.status = x, !.retryCount = n + 1]
<1>1. sub[s] \in SubRecords /\ n + 1 \in Nat
  BY SubFields DEF TypeOK
<1>2. /\ w("cancelled") \in SubRecords /\ w("past_due") \in SubRecords
      /\ w("cancelled").periodEnd = sub[s].periodEnd
      /\ w("past_due").periodEnd = sub[s].periodEnd
  BY <1>1 DEF SubRecords, Statuses
<1>3. CASE RetriesSpent(n + 1)
  <2>1. /\ sub' = [sub EXCEPT ![s] = w("cancelled")]
        /\ RevokeOf(s, Chains) \/ UNCHANGED grant
    BY <1>3 DEF MarkRenewalFailed
  <2>2. grant' \in [Subs -> [Chains -> GrantRecords]]
    BY <2>1, RevokedGrants DEF TypeOK
  <2> HIDE DEF w
  <2> QED BY <1>2, <2>1, <2>2 DEF TypeOK
<1>4. CASE ~RetriesSpent(n + 1)
  <2>1. sub' = [sub EXCEPT ![s] = w("past_due")] /\ grant' = grant
    BY <1>4 DEF MarkRenewalFailed
  <2> HIDE DEF w
  <2> QED BY <1>2, <2>1 DEF TypeOK
<1> QED BY <1>3, <1>4

\* recordRenewalSettled moves one period end and credits one subscription.
LEMMA Settled ==
  ASSUME TypeOK, NEW s \in Subs, NEW q \in SubRecords, NEW c \in Chains,
         NEW i \in Ids, NEW a \in Prices, RecordRenewalSettled(s, q, c, i, a)
  PROVE  /\ sub' \in [Subs -> SubRecords]
         /\ grant' \in [Subs -> [Chains -> GrantRecords]]
         /\ credited' \in [Subs -> Nat]
         /\ sub'[s].periodEnd = q.periodEnd + 1
         /\ \A v \in Subs : v # s => sub'[v] = sub[v]
         /\ credited'[s] = credited[s] + a
         /\ \A v \in Subs : v # s => credited'[v] = credited[v]
<1> DEFINE w == [sub[s] EXCEPT !.periodEnd = q.periodEnd + 1, !.status = "active",
                               !.retryCount = 0]
           l == IF grant[s][c].row = i THEN now ELSE grant[s][c].last
           g == [grant[s][c] EXCEPT !.last = l]
<1>1. sub[s] \in SubRecords /\ q.periodEnd + 1 \in Nat
  BY SubFields DEF TypeOK
<1>2. w \in SubRecords /\ w.periodEnd = q.periodEnd + 1
  BY <1>1 DEF SubRecords, Statuses
<1>3. g \in GrantRecords
  <2>1. grant[s][c] \in GrantRecords /\ now \in Nat
    BY DEF TypeOK
  <2>2. l \in Nat \cup {Never}
    BY <2>1 DEF GrantRecords
  <2> HIDE DEF l
  <2> QED BY <2>1, <2>2 DEF GrantRecords
<1>4. /\ sub' = [sub EXCEPT ![s] = w]
      /\ grant' = [grant EXCEPT ![s][c] = g]
      /\ credited' = [credited EXCEPT ![s] = @ + a]
  BY DEF RecordRenewalSettled
<1> HIDE DEF w, g
<1> QED BY <1>2, <1>3, <1>4 DEF TypeOK

(***************************************************************************)
(* Every step keeps the types.                                             *)
(***************************************************************************)

\* What a pass reads of a due subscription is a job.
LEMMA SnapshotJob ==
  ASSUME TypeOK, NEW s \in Subs
  PROVE  [at |-> "prepare", sub |-> sub[s],
          group |-> [c \in Chains |->
              IF c \in Redeemable(s) THEN grant[s][c] ELSE NoGrant]] \in JobRecords
<1>1. sub[s] \in SubRecords
  BY DEF TypeOK
<1>2. [c \in Chains |-> IF c \in Redeemable(s) THEN grant[s][c] ELSE NoGrant]
          \in [Chains -> GrantRecords \cup {NoGrant}]
  BY DEF TypeOK
<1> QED BY <1>1, <1>2 DEF JobRecords

\* A pass that is over leaves the memory of the others.
LEMMA OverTypes ==
  ASSUME TypeOK, NEW t \in Ticks, PassOver(t)
  PROVE  /\ passRunning' \in BOOLEAN
         /\ pass' \in [Ticks -> Phases]
         /\ dun' \in [Ticks -> [Subs -> Nat \cup {NotListed}]]
         /\ job' \in [Ticks -> [Subs -> JobRecords]]
         /\ \A u \in Ticks : pass'[u] = IF u = t THEN "idle" ELSE pass[u]
         /\ \A u \in Ticks, v \in Subs : job'[u][v] = IF u = t THEN Out ELSE job[u][v]
         /\ \A u \in Ticks, v \in Subs :
               dun'[u][v] = IF u = t THEN NotListed ELSE dun[u][v]
<1>1. Out \in JobRecords
  BY DEF JobRecords
<1>2. /\ job' \in [Ticks -> [Subs -> JobRecords]]
      /\ \A u \in Ticks, v \in Subs : job'[u][v] = IF u = t THEN Out ELSE job[u][v]
  BY <1>1 DEF PassOver, TypeOK
<1>3. /\ dun' \in [Ticks -> [Subs -> Nat \cup {NotListed}]]
      /\ \A u \in Ticks, v \in Subs : dun'[u][v] = IF u = t THEN NotListed ELSE dun[u][v]
  BY DEF PassOver, TypeOK
<1>4. /\ pass' \in [Ticks -> Phases]
      /\ \A u \in Ticks : pass'[u] = IF u = t THEN "idle" ELSE pass[u]
  BY DEF PassOver, TypeOK, Phases
<1> QED BY <1>2, <1>3, <1>4 DEF PassOver

\* Types: the steps of the pass as a whole.
LEMMA TypesPassLevel ==
  ASSUME TypeOK, NEW t \in Ticks,
         \/ CronTick(t) \/ TrialsThrow(t) \/ ReadGrants(t) \/ ReadGrantless(t)
         \/ PassThrows(t) \/ EndPass(t)
  PROVE  TypeOK'
<1> DEFINE Jobs(f) == [job EXCEPT ![t] = f]
<1>1. /\ Out \in JobRecords
      /\ [at |-> "trial"] \in JobRecords
  BY DEF JobRecords
<1>2. ASSUME NEW f \in [Subs -> JobRecords]
      PROVE  Jobs(f) \in [Ticks -> [Subs -> JobRecords]]
  BY <1>2 DEF TypeOK
<1>3. CASE CronTick(t)
  <2>1. job' \in [Ticks -> [Subs -> JobRecords]]
    BY <1>1, <1>2, <1>3 DEF CronTick
  <2> QED BY <2>1, <1>3 DEF CronTick, TypeOK, Phases, db, hist
<1>4. CASE TrialsThrow(t)
  <2>1. job' \in [Ticks -> [Subs -> JobRecords]]
    BY <1>1, <1>2, <1>4 DEF TrialsThrow
  <2> QED BY <2>1, <1>4 DEF TrialsThrow, TypeOK, db, hist
<1>5. CASE ReadGrants(t)
  <2>1. job' \in [Ticks -> [Subs -> JobRecords]]
    BY <1>1, <1>2, <1>5, SnapshotJob DEF ReadGrants
  <2> QED BY <2>1, <1>5 DEF ReadGrants, TypeOK, Phases, db, hist
<1>6. CASE ReadGrantless(t)
  <2>1. dun' \in [Ticks -> [Subs -> Nat \cup {NotListed}]]
    <3>1. \A v \in Subs : sub[v].retryCount \in Nat
      BY SubFields DEF TypeOK
    <3> QED BY <1>6, <3>1 DEF ReadGrantless, TypeOK
  <2> QED BY <2>1, <1>6 DEF ReadGrantless, TypeOK, Phases, db, hist
<1>7. CASE PassThrows(t) \/ EndPass(t)
  <2>1. PassOver(t)
    BY <1>7 DEF PassThrows, EndPass
  <2> QED BY <1>7, <2>1, OverTypes DEF PassThrows, EndPass, TypeOK, db, hist
<1> QED BY <1>3, <1>4, <1>5, <1>6, <1>7

\* Prepare, redeem, finish: the steps that drop or move one job.
LEMMA TypesJobs ==
  ASSUME TypeOK, NEW t \in Ticks, NEW s \in Subs,
         \/ LookUpPending(t, s) \/ OverCap(t, s) \/ ClaimPeriod(t, s)
         \/ PrepareThrows(t, s) \/ RedeemFails(t, s) \/ FinishThrows(t, s)
         \/ AttestationPending(t, s) \/ AdvanceThrows(t, s)
  PROVE  TypeOK'
<1> DEFINE JobsOK == job' \in [Ticks -> [Subs -> JobRecords]]
<1>1. CASE LookUpPending(t, s)
  <2>1. PICK j \in JobRecords : Stay(t, s, j)
    <3>1. At(t, s, {"prepare"}) /\ At(t, s, InPass)
      BY <1>1 DEF LookUpPending, At, InPass
    <3>2. /\ job[t][s].sub \in SubRecords
          /\ job[t][s].group \in [Chains -> GrantRecords \cup {NoGrant}]
      BY <3>1, JobFields DEF At
    <3>3. [at |-> "select", sub |-> job[t][s].sub, group |-> job[t][s].group]
             \in JobRecords
      BY <3>2 DEF JobRecords
    <3>4. ASSUME NEW r \in Rows, NEW a \in {"burn", "attest"}
          PROVE  [at |-> a, sub |-> job[t][s].sub, row |-> r, resume |-> TRUE]
                    \in JobRecords
      BY <3>2, <3>4 DEF JobRecords
    <3> QED BY <1>1, <3>3, <3>4 DEF LookUpPending, PendingBridges
  <2>2. JobsOK
    BY <2>1, StayJobs
  <2> QED BY <1>1, <2>2 DEF LookUpPending, TypeOK, db, hist
<1>2. CASE OverCap(t, s)
  BY <1>2, DropJobs DEF OverCap, OverCapOutcome, TypeOK, hist
<1>3. CASE ClaimPeriod(t, s)
  <2>1. job[t][s].sub \in SubRecords
    BY <1>3, JobFields DEF ClaimPeriod, At, InPass
  <2>2. <<s, KeyOf(job[t][s].sub)>> \in Subs \X Nat
    BY <2>1, SubFields DEF KeyOf
  <2>3. claims' \subseteq Subs \X Nat
    BY <1>3, <2>2 DEF ClaimPeriod, TypeOK
  <2>4. PICK j \in JobRecords : Stay(t, s, j)
    <3>0. job[t][s].group \in [Chains -> GrantRecords \cup {NoGrant}]
      BY <1>3, JobFields DEF ClaimPeriod, At
    <3>1. ASSUME NEW c \in Covering(t, s)
          PROVE  [at |-> "ready", sub |-> job[t][s].sub, chain |-> c,
                  mandate |-> job[t][s].group[c]] \in JobRecords
      <4>1. c \in Chains /\ job[t][s].group[c] \in GrantRecords
        BY <3>0, <3>1 DEF Covering
      <4> QED BY <2>1, <4>1 DEF JobRecords
    <3>2. Out \in JobRecords
      BY DEF JobRecords
    <3> QED BY <1>3, <3>1, <3>2 DEF ClaimPeriod, Drop
  <2>5. JobsOK
    BY <2>4, StayJobs
  <2> QED BY <1>3, <2>3, <2>5 DEF ClaimPeriod, TypeOK, hist
<1>4. CASE PrepareThrows(t, s)
  BY <1>4, DropJobs DEF PrepareThrows, ReleaseClaim, TypeOK, hist
<1>5. CASE RedeemFails(t, s)
  BY <1>5, DropJobs DEF RedeemFails, ReleaseClaim, TypeOK, hist
<1>6. CASE FinishThrows(t, s)
  BY <1>6, DropJobs DEF FinishThrows, TypeOK, db, hist
<1>7. CASE AttestationPending(t, s)
  BY <1>7, DropJobs DEF AttestationPending, TypeOK, db, hist
<1>8. CASE AdvanceThrows(t, s)
  <2>1. claims' \subseteq Subs \X Nat
    BY <1>8 DEF AdvanceThrows, ReleaseClaim, TypeOK
  <2> QED BY <1>8, <2>1, DropJobs DEF AdvanceThrows, TypeOK, hist
<1> QED BY <1>1, <1>2, <1>3, <1>4, <1>5, <1>6, <1>7, <1>8

\* Types: the steps of the pass that write a subscription.
LEMMA TypesSubscription ==
  ASSUME TypeOK, NEW t \in Ticks, NEW s \in Subs,
         \/ TransitionTrial(t, s) \/ DunGrantless(t, s) \/ DunThrows(t, s)
         \/ Insufficient(t, s)
  PROVE  /\ TypeOK'
         /\ \A v \in Subs : sub'[v].periodEnd = sub[v].periodEnd
<1>1. CASE TransitionTrial(t, s)
  <2> DEFINE w == [sub[s] EXCEPT !.status = "active"]
  <2>1. w \in SubRecords /\ w.periodEnd = sub[s].periodEnd
    <3>1. sub[s] \in SubRecords
      BY DEF TypeOK
    <3> QED BY <3>1 DEF SubRecords, Statuses
  <2>2. sub' = [sub EXCEPT ![s] = w]
    BY <1>1 DEF TransitionTrial
  <2> HIDE DEF w
  <2>3. /\ sub' \in [Subs -> SubRecords]
        /\ \A v \in Subs : sub'[v].periodEnd = sub[v].periodEnd
    BY <2>1, <2>2 DEF TypeOK
  <2> QED BY <1>1, <2>3, DropJobs DEF TransitionTrial, TypeOK, hist
<1>2. CASE DunGrantless(t, s)
  <2>1. dun[t][s] \in Nat
    BY <1>2 DEF DunGrantless, TypeOK
  <2>2. dun' \in [Ticks -> [Subs -> Nat \cup {NotListed}]]
    BY <1>2 DEF DunGrantless, TypeOK
  <2> QED BY <1>2, <2>1, <2>2, Failed DEF DunGrantless, TypeOK, hist
<1>3. CASE DunThrows(t, s)
  <2>1. dun[t][s] \in Nat
    BY <1>3 DEF DunThrows, TypeOK
  <2> QED BY <1>3, <2>1, OverTypes, Failed DEF DunThrows, TypeOK, hist
<1>4. CASE Insufficient(t, s)
  <2>1. job[t][s].sub.retryCount \in Nat
    BY <1>4, JobFields, SubFields DEF Insufficient, At, InPass
  <2>2. claims' \subseteq Subs \X Nat
    BY <1>4 DEF Insufficient, ReleaseClaim, TypeOK
  <2> QED BY <1>4, <2>1, <2>2, Failed, DropJobs DEF Insufficient, TypeOK, hist
<1> QED BY <1>1, <1>2, <1>3, <1>4

\* A redeem that lands.
LEMMA Landed ==
  ASSUME TypeOK, NEW t \in Ticks, NEW s \in Subs, At(t, s, {"ready"}), Lands(t, s)
  PROVE  /\ spent' \in [Subs -> [Chains -> [Ids -> Nat]]]
         /\ collected' \in [Subs -> Nat]
         /\ pulledKeys' \in [Subs -> SUBSET Nat]
         /\ credited' = credited
         /\ job[t][s].sub.price \in Prices /\ job[t][s].sub.price \in Nat
         /\ collected'[s] = collected[s] + job[t][s].sub.price
         /\ \A v \in Subs : v # s => collected'[v] = collected[v]
<1>1. /\ job[t][s].sub \in SubRecords
      /\ job[t][s].chain \in Chains
      /\ job[t][s].mandate.context \in Ids
  BY JobFields, GrantFields DEF At, InPass
<1>2. /\ job[t][s].sub.price \in Prices /\ job[t][s].sub.price \in Nat
      /\ KeyOf(job[t][s].sub) \in Nat
  BY <1>1, SubFields DEF KeyOf
<1>3. spent' \in [Subs -> [Chains -> [Ids -> Nat]]]
  <2> DEFINE c == job[t][s].chain
             i == job[t][s].mandate.context
             n == spent[s][c][i] + job[t][s].sub.price
             f == [spent[s][c] EXCEPT ![i] = n]
             g == [spent[s] EXCEPT ![c] = f]
  <2>1. spent' = [spent EXCEPT ![s] = g]
    BY DEF Lands
  <2>2. /\ spent \in [Subs -> [Chains -> [Ids -> Nat]]]
        /\ spent[s] \in [Chains -> [Ids -> Nat]] /\ spent[s][c] \in [Ids -> Nat]
        /\ n \in Nat
    BY <1>1, <1>2 DEF TypeOK
  <2> HIDE DEF n
  <2>3. f \in [Ids -> Nat]
    BY <2>2
  <2> HIDE DEF f
  <2>4. g \in [Chains -> [Ids -> Nat]]
    BY <2>2, <2>3
  <2> HIDE DEF g
  <2> QED BY <2>1, <2>2, <2>4
<1>4. /\ collected' \in [Subs -> Nat]
      /\ collected'[s] = collected[s] + job[t][s].sub.price
      /\ \A v \in Subs : v # s => collected'[v] = collected[v]
      /\ pulledKeys' \in [Subs -> SUBSET Nat]
      /\ credited' = credited
  BY <1>2 DEF Lands, TypeOK
<1> QED BY <1>2, <1>3, <1>4

\* A redeemed job is a job, about the same subscription and the same grant.
LEMMA PulledJob ==
  ASSUME TypeOK, NEW t \in Ticks, NEW s \in Subs, At(t, s, {"ready"})
  PROVE  LET j == [job[t][s] EXCEPT !.at = "pulled"] IN
         /\ j \in JobRecords
         /\ j.at = "pulled" /\ j.sub = job[t][s].sub
<1>0. job[t][s] \in JobRecords /\ job[t][s].at = "ready"
  BY DEF TypeOK, At
<1>1. job[t][s] \in [at : {"ready", "pulled"}, sub : SubRecords, chain : Chains,
                     mandate : GrantRecords]
  BY <1>0 DEF JobRecords, Out
<1> DEFINE j == [job[t][s] EXCEPT !.at = "pulled"]
<1>2. /\ j \in [at : {"ready", "pulled"}, sub : SubRecords, chain : Chains,
              mandate : GrantRecords]
      /\ j.at = "pulled" /\ j.sub = job[t][s].sub
  BY <1>1
<1> HIDE DEF j
<1>3. j \in JobRecords
  BY <1>2 DEF JobRecords
<1> QED BY <1>2, <1>3 DEF j

\* Types: the steps of the pass that move or record money.
LEMMA TypesMoney ==
  ASSUME TypeOK, DrivenRows, NEW t \in Ticks, NEW s \in Subs,
         \/ Redeem(t, s) \/ RedeemSeenAsFailed(t, s) \/ SettleDirect(t, s)
         \/ OpenBridge(t, s) \/ Burn(t, s) \/ MintAndSettle(t, s)
  PROVE  TypeOK'
<1>1. CASE Redeem(t, s)
  <2>1. At(t, s, {"ready"}) /\ At(t, s, InPass) /\ Lands(t, s)
    BY <1>1 DEF Redeem, RedeemPhase, At, InPass
  <2>2. job' \in [Ticks -> [Subs -> JobRecords]]
    <3>1. [job[t][s] EXCEPT !.at = "pulled"] \in JobRecords
      BY <2>1, PulledJob
    <3> QED BY <1>1, <3>1, StayJobs DEF Redeem
  <2> QED BY <1>1, <2>1, <2>2, Landed DEF Redeem, TypeOK, db
<1>2. CASE RedeemSeenAsFailed(t, s)
  <2>1. At(t, s, {"ready"}) /\ Lands(t, s)
    BY <1>2 DEF RedeemSeenAsFailed, RedeemPhase
  <2>2. claims' \subseteq Subs \X Nat
    BY <1>2 DEF RedeemSeenAsFailed, ReleaseClaim, TypeOK
  <2> QED BY <1>2, <2>1, <2>2, Landed, DropJobs DEF RedeemSeenAsFailed, TypeOK
<1>3. CASE SettleDirect(t, s)
  <2>1. At(t, s, {"pulled"}) /\ At(t, s, InPass)
    BY <1>3 DEF SettleDirect, FinishPhase, At, InPass
  <2>2. /\ job[t][s].sub \in SubRecords /\ job[t][s].chain \in Chains
        /\ job[t][s].mandate.row \in Ids /\ job[t][s].sub.price \in Prices
    BY <2>1, JobFields, GrantFields, SubFields DEF At
  <2>3. RecordRenewalSettled(s, job[t][s].sub, job[t][s].chain, job[t][s].mandate.row,
                             job[t][s].sub.price)
    BY <1>3 DEF SettleDirect
  <2>4. collected' = collected /\ pulledKeys' = pulledKeys
    BY <2>3 DEF RecordRenewalSettled
  <2> QED BY <1>3, <2>2, <2>3, <2>4, Settled, DropJobs DEF SettleDirect, TypeOK
<1>4. CASE OpenBridge(t, s)
  <2>1. At(t, s, {"pulled"}) /\ At(t, s, InPass)
    BY <1>4 DEF OpenBridge, FinishPhase, At, InPass
  <2>2. /\ job[t][s].sub \in SubRecords /\ job[t][s].chain \in Chains
        /\ job[t][s].mandate.row \in Ids
        /\ job[t][s].sub.price \in Prices /\ KeyOf(job[t][s].sub) \in Nat
    BY <2>1, JobFields, GrantFields, SubFields DEF At, KeyOf
  <2> DEFINE row == [status |-> "pulled", sub |-> s, chain |-> job[t][s].chain,
                     mandate |-> job[t][s].mandate.row,
                     key |-> KeyOf(job[t][s].sub), amount |-> job[t][s].sub.price]
  <2>3. row \in RowRecords
    BY <2>2 DEF RowRecords
  <2>4. PICK r \in Rows :
           /\ bridge' = [bridge EXCEPT ![r] = row]
           /\ Stay(t, s, [at |-> "burn", sub |-> job[t][s].sub, row |-> r,
                          resume |-> FALSE])
    BY <1>4 DEF OpenBridge
  <2>5. bridge' \in [Rows -> {NoRow} \cup RowRecords]
    BY <2>3, <2>4 DEF TypeOK
  <2>6. [at |-> "burn", sub |-> job[t][s].sub, row |-> r, resume |-> FALSE]
          \in JobRecords
    BY <2>2 DEF JobRecords
  <2>7. job' \in [Ticks -> [Subs -> JobRecords]]
    BY <2>4, <2>6, StayJobs
  <2> QED BY <1>4, <2>5, <2>7 DEF OpenBridge, TypeOK, hist
<1>5. CASE Burn(t, s)
  <2>1. At(t, s, {"burn"}) /\ At(t, s, {"burn", "attest"}) /\ At(t, s, InPass)
    BY <1>5 DEF Burn, At, InPass
  <2>2. /\ job[t][s].sub \in SubRecords /\ job[t][s].row \in Rows
        /\ job[t][s].resume \in BOOLEAN
    BY <2>1, JobFields
  <2>3. bridge[job[t][s].row] \in RowRecords
    BY <2>1, <2>2, RowFields DEF DrivenRows
  <2> DEFINE row == [bridge[job[t][s].row] EXCEPT !.status = "burned"]
  <2>4. row \in RowRecords
    BY <2>3 DEF RowRecords
  <2>5. bridge' = [bridge EXCEPT ![job[t][s].row] = row]
    BY <1>5 DEF Burn
  <2> HIDE DEF row
  <2>6. bridge' \in [Rows -> {NoRow} \cup RowRecords]
    BY <2>2, <2>4, <2>5 DEF TypeOK
  <2>7. [at |-> "attest", sub |-> job[t][s].sub, row |-> job[t][s].row,
         resume |-> job[t][s].resume] \in JobRecords
    BY <2>2 DEF JobRecords
  <2>8. job' \in [Ticks -> [Subs -> JobRecords]]
    BY <1>5, <2>7, StayJobs DEF Burn
  <2> QED BY <1>5, <2>6, <2>8 DEF Burn, TypeOK, hist
<1>6. CASE MintAndSettle(t, s)
  <2>1. At(t, s, {"burn", "attest"}) /\ At(t, s, InPass)
    BY <1>6 DEF MintAndSettle, At, InPass
  <2>2. job[t][s].sub \in SubRecords /\ job[t][s].row \in Rows
    BY <2>1, JobFields
  <2> DEFINE row == bridge[job[t][s].row]
  <2>3. row.chain \in Chains /\ row.mandate \in Ids /\ row.amount \in Prices
    BY <2>1, <2>2, RowFields DEF DrivenRows
  <2>4. RecordRenewalSettled(s, job[t][s].sub, row.chain, row.mandate, row.amount)
    BY <1>6 DEF MintAndSettle
  <2>5. collected' = collected /\ pulledKeys' = pulledKeys
    BY <2>4 DEF RecordRenewalSettled
  <2>6. bridge' \in [Rows -> {NoRow} \cup RowRecords]
    BY <1>6 DEF MintAndSettle, AfterMint, TypeOK
  <2>7. claims' \subseteq Subs \X Nat
    BY <1>6 DEF MintAndSettle, ReleaseClaim, TypeOK
  <2> QED BY <1>6, <2>2, <2>3, <2>4, <2>5, <2>6, <2>7, Settled, DropJobs
          DEF MintAndSettle, TypeOK
<1> QED BY <1>1, <1>2, <1>3, <1>4, <1>5, <1>6

\* The world outside the pass, and the reconciliation that asks it.
OutsideOf(s) ==
    \/ Cancel(s) \/ ArchivePlan(s) \/ ClosePlan(s) \/ ChangePrice(s)
    \/ \E C \in Scopes : RevokeGrants(s, C)
    \/ MarkPastDue(s)
    \/ \E c \in Chains : Grant(s, c) \/ ExpireGrant(s, c)
    \/ \E t \in Ticks, c \in Chains : ReconcileGrant(t, s, c)

\* Types: the requests, which touch neither the pass nor the money.
LEMMA TypesOutside ==
  ASSUME TypeOK, NEW s \in Subs, OutsideOf(s)
  PROVE  /\ TypeOK'
         /\ \A v \in Subs : sub'[v].periodEnd = sub[v].periodEnd
         /\ UNCHANGED <<claims, bridge, passRunning, direct, pass, dun, job,
                        collected, credited, pulledKeys>>
<1>0. sub[s] \in SubRecords
  BY DEF TypeOK
<1> DEFINE SubOK == /\ sub' \in [Subs -> SubRecords]
                    /\ \A v \in Subs : sub'[v].periodEnd = sub[v].periodEnd
           GrantOK == grant' \in [Subs -> [Chains -> GrantRecords]]
<1>a. ASSUME NEW w \in SubRecords, w.periodEnd = sub[s].periodEnd,
             sub' = [sub EXCEPT ![s] = w]
      PROVE  SubOK
  BY <1>a DEF TypeOK
<1>b. ASSUME NEW c \in Chains, NEW g \in GrantRecords,
             grant' = [grant EXCEPT ![s][c] = g]
      PROVE  GrantOK
  BY <1>b DEF TypeOK
<1>1. CASE Cancel(s)
  <2> DEFINE w == [sub[s] EXCEPT !.status = "cancelled"]
  <2>1. w \in SubRecords /\ w.periodEnd = sub[s].periodEnd
    BY <1>0 DEF SubRecords, Statuses
  <2>2. sub' = [sub EXCEPT ![s] = w] /\ RevokeOf(s, Chains)
    BY <1>1 DEF Cancel
  <2> HIDE DEF w
  <2>3. SubOK /\ GrantOK
    BY <1>a, <2>1, <2>2, RevokedGrants
  <2> QED BY <1>1, <2>3, EventIds DEF Cancel, TypeOK, inMem, hist
<1>2. CASE ArchivePlan(s)
  <2> DEFINE p == IF sub[s].status = "cancelled" THEN "closed" ELSE "closing"
             w == [sub[s] EXCEPT !.plan = p]
  <2>1. w \in SubRecords /\ w.periodEnd = sub[s].periodEnd
    BY <1>0 DEF SubRecords
  <2>2. sub' = [sub EXCEPT ![s] = w]
    BY <1>2 DEF ArchivePlan
  <2> HIDE DEF w
  <2>3. SubOK
    BY <1>a, <2>1, <2>2
  <2> QED BY <1>2, <2>3, EventIds DEF ArchivePlan, TypeOK, inMem, hist
<1>3. CASE ClosePlan(s)
  <2> DEFINE w == [sub[s] EXCEPT !.plan = "closed", !.status = "cancelled"]
  <2>1. w \in SubRecords /\ w.periodEnd = sub[s].periodEnd
    BY <1>0 DEF SubRecords, Statuses
  <2>2. sub' = [sub EXCEPT ![s] = w]
    BY <1>3 DEF ClosePlan
  <2> HIDE DEF w
  <2>3. SubOK
    BY <1>a, <2>1, <2>2
  <2> QED BY <1>3, <2>3 DEF ClosePlan, TypeOK, inMem, hist
<1>4. CASE ChangePrice(s)
  <2>1. PICK p \in Prices : sub' = [sub EXCEPT ![s].price = p]
    BY <1>4 DEF ChangePrice
  <2> DEFINE w == [sub[s] EXCEPT !.price = p]
  <2>2. w \in SubRecords /\ w.periodEnd = sub[s].periodEnd
    BY <1>0 DEF SubRecords
  <2>3. sub' = [sub EXCEPT ![s] = w]
    BY <2>1
  <2> HIDE DEF w
  <2>4. SubOK
    BY <1>a, <2>2, <2>3
  <2> QED BY <1>4, <2>4, EventIds DEF ChangePrice, TypeOK, inMem, hist
<1>5. ASSUME NEW C \in Scopes, RevokeGrants(s, C)
      PROVE  SubOK /\ TypeOK' /\ UNCHANGED <<claims, bridge, inMem, hist>>
  BY <1>5, RevokedGrants, EventIds DEF RevokeGrants, TypeOK, inMem, hist
<1>6. CASE MarkPastDue(s)
  <2> DEFINE w == [sub[s] EXCEPT !.status = "past_due"]
  <2>1. w \in SubRecords /\ w.periodEnd = sub[s].periodEnd
    BY <1>0 DEF SubRecords, Statuses
  <2>2. sub' = [sub EXCEPT ![s] = w]
    BY <1>6 DEF MarkPastDue
  <2> HIDE DEF w
  <2>3. SubOK
    BY <1>a, <2>1, <2>2
  <2> QED BY <1>6, <2>3 DEF MarkPastDue, TypeOK, inMem, hist
<1>7. ASSUME NEW c \in Chains, Grant(s, c)
      PROVE  SubOK /\ TypeOK' /\ UNCHANGED <<claims, bridge, inMem, hist>>
  <2> DEFINE g == [status |-> "active", expired |-> FALSE,
                   last |-> Never,
                   row |-> IF grant[s][c].status = "active" THEN grant[s][c].row
                           ELSE events',
                   context |-> events']
  <2>1. g \in GrantRecords
    <3>1. grant[s][c] \in GrantRecords /\ events' \in Ids
      BY <1>7, EventIds DEF TypeOK, Grant
    <3> QED BY <3>1 DEF GrantRecords
  <2>2. grant' = [grant EXCEPT ![s][c] = g]
    BY <1>7 DEF Grant
  <2> HIDE DEF g
  <2>3. GrantOK
    BY <1>b, <2>1, <2>2
  <2> QED BY <1>7, <2>3, EventIds DEF Grant, TypeOK, inMem, hist
<1>8. ASSUME NEW c \in Chains, ExpireGrant(s, c)
      PROVE  SubOK /\ TypeOK' /\ UNCHANGED <<claims, bridge, inMem, hist>>
  <2> DEFINE g == [grant[s][c] EXCEPT !.expired = TRUE]
  <2>1. g \in GrantRecords
    <3>1. grant[s][c] \in GrantRecords
      BY DEF TypeOK
    <3> QED BY <3>1 DEF GrantRecords
  <2>2. grant' = [grant EXCEPT ![s][c] = g]
    BY <1>8 DEF ExpireGrant
  <2> HIDE DEF g
  <2>3. GrantOK
    BY <1>b, <2>1, <2>2
  <2> QED BY <1>8, <2>3, EventIds DEF ExpireGrant, TypeOK, inMem, hist
<1>9. ASSUME NEW t \in Ticks, NEW c \in Chains, ReconcileGrant(t, s, c)
      PROVE  SubOK /\ TypeOK' /\ UNCHANGED <<claims, bridge, inMem, hist>>
  <2> DEFINE g == [grant[s][c] EXCEPT !.status = "revoked"]
  <2>1. g \in GrantRecords
    <3>1. grant[s][c] \in GrantRecords
      BY DEF TypeOK
    <3> QED BY <3>1 DEF GrantRecords
  <2>2. grant' = [grant EXCEPT ![s][c] = g]
    BY <1>9 DEF ReconcileGrant
  <2> HIDE DEF g
  <2>3. GrantOK
    BY <1>b, <2>1, <2>2
  <2> QED BY <1>9, <2>3, EventIds DEF ReconcileGrant, TypeOK, inMem, hist
<1> QED BY <1>1, <1>2, <1>3, <1>4, <1>5, <1>6, <1>7, <1>8, <1>9 DEF OutsideOf, inMem, hist

(***************************************************************************)
(* Every step keeps the rest of the inductive invariant.                   *)
(***************************************************************************)

\* The invariant holds when the engine is first started.
LEMMA InitIInv == Init => IInv
<1> SUFFICES ASSUME Init PROVE IInv
  OBVIOUS
<1>1. /\ \A t \in Ticks, s \in Subs : job[t][s] = Out
      /\ \A r \in Rows : ~InFlight(r)
      /\ \A s \in Subs : credited[s] = 0 /\ collected[s] = 0
  BY DEF Init, InFlight, NoRow
<1>2. TypeOK
  <2>1. sub \in [Subs -> SubRecords]
    BY DEF Init, SubRecords, Statuses, FirstEnd
  <2>2. grant \in [Subs -> [Chains -> GrantRecords]]
    BY DEF Init, GrantRecords, Ids
  <2>3. job \in [Ticks -> [Subs -> JobRecords]]
    BY DEF Init, JobRecords
  <2>4. 0 \in Ids /\ spent \in [Subs -> [Chains -> [Ids -> Nat]]]
    BY DEF Init, Ids
  <2> QED BY <2>1, <2>2, <2>3, <2>4 DEF Init, TypeOK, Phases
<1>3. OnePass
  BY <1>1 DEF Init, OnePass, At, Out
<1>4. /\ SnapshotsCurrent /\ DrivenRows /\ NothingInFlight /\ ClaimGuardsPull
      /\ InFlightPaysCurrentPeriod /\ Backed
  BY <1>1 DEF SnapshotsCurrent, DrivenRows, NothingInFlight, ClaimGuardsPull,
       InFlightPaysCurrentPeriod, Backed, At, Out, InPass
<1> QED BY <1>2, <1>3, <1>4 DEF IInv

\* Nothing that the invariant speaks of changes.
LEMMA KeepFrame ==
  ASSUME IInv, TypeOK',
         UNCHANGED <<claims, bridge, passRunning, pass, job, collected, credited>>,
         \A v \in Subs : sub'[v].periodEnd = sub[v].periodEnd
  PROVE  IInv'
<1>1. OnePass'
  BY DEF IInv, OnePass, At
<1>2. SnapshotsCurrent'
  BY DEF IInv, SnapshotsCurrent, At
<1>3. DrivenRows'
  BY DEF IInv, DrivenRows, At, InFlight
<1>4. NothingInFlight'
  BY DEF IInv, NothingInFlight, At, InFlight
<1>5. InFlightPaysCurrentPeriod'
  <2>1. \A r \in Rows : InFlight(r) => bridge[r].sub \in Subs
    BY RowFields DEF IInv
  <2> QED BY <2>1 DEF IInv, InFlightPaysCurrentPeriod, InFlight
<1>6. ClaimGuardsPull'
  BY DEF IInv, ClaimGuardsPull, At
<1>7. Backed'
  BY DEF IInv, Backed, At, InFlight
<1> QED BY <1>1, <1>2, <1>3, <1>4, <1>5, <1>6, <1>7 DEF IInv

\* A pass that is busy with some subscription is the only one: another pass holds
\* nothing.
LEMMA OnlyPass ==
  ASSUME TypeOK, OnePass, NEW t \in Ticks, NEW s \in Subs, job[t][s] # Out
  PROVE  \A u \in Ticks, v \in Subs : u # t => job[u][v] = Out
BY DEF OnePass, TypeOK

\* One job is dropped, and with it perhaps the claim it held; money may have
\* been collected and not seen.
LEMMA DropFrame ==
  ASSUME IInv, TypeOK', NEW t \in Ticks, NEW s \in Subs,
         Drop(t, s), job[t][s] # Out,
         UNCHANGED <<bridge, passRunning, pass, credited>>,
         \A v \in Subs : collected[v] <= collected'[v],
         \A v \in Subs, k \in Nat : v # s /\ <<v, k>> \in claims => <<v, k>> \in claims',
         \A v \in Subs : sub'[v].periodEnd = sub[v].periodEnd
  PROVE  IInv'
<1>0. TypeOK /\ TypeOK'
  BY DEF IInv
<1>1. /\ job'[t][s] = Out
      /\ \A u \in Ticks, v \in Subs : u # t \/ v # s => job'[u][v] = job[u][v]
  BY <1>0, DropJobs
<1>2. \A u \in Ticks, v \in Subs : u # t => job[u][v] = Out
  BY <1>0, OnlyPass DEF IInv
<1>3. \A u \in Ticks, v \in Subs : job'[u][v] # Out =>
          u = t /\ v # s /\ job'[u][v] = job[u][v]
  BY <1>1, <1>2
<1>4. OnePass'
  BY <1>1 DEF IInv, OnePass, At, Out
<1>5. \A u \in Ticks, v \in Subs : At(u, v, InPass)' =>
          v # s /\ job'[u][v] = job[u][v]
  BY <1>3 DEF At, Out, InPass
<1>6. SnapshotsCurrent'
  BY <1>5 DEF IInv, SnapshotsCurrent, At
<1>7. DrivenRows'
  BY <1>5 DEF IInv, DrivenRows, At, InFlight, InPass
<1>8. NothingInFlight'
  BY <1>5 DEF IInv, NothingInFlight, At, InFlight, InPass
<1>9. InFlightPaysCurrentPeriod'
  <2>1. \A r \in Rows : InFlight(r) => bridge[r].sub \in Subs
    BY RowFields DEF IInv
  <2> QED BY <2>1 DEF IInv, InFlightPaysCurrentPeriod, InFlight
<1>10. ClaimGuardsPull'
  <2> SUFFICES ASSUME NEW u \in Ticks, NEW v \in Subs, At(u, v, {"ready", "pulled"})'
               PROVE  <<v, KeyOf(job'[u][v].sub)>> \in claims'
    BY DEF ClaimGuardsPull, KeyOf
  <2>1. v # s /\ job'[u][v] = job[u][v] /\ At(u, v, {"ready", "pulled"})
    BY <1>5 DEF At, InPass
  <2>2. job[u][v].sub.periodEnd \in Nat
    BY <1>0, <2>1, JobFields, SubFields DEF At, InPass
  <2> QED BY <2>1, <2>2 DEF IInv, ClaimGuardsPull, KeyOf
<1>11. Backed'
  <2>1. \A v \in Subs : credited[v] \in Nat /\ collected[v] \in Nat /\ collected'[v] \in Nat
    BY <1>0 DEF TypeOK
  <2>2. \A r \in Rows : InFlight(r) => bridge[r].sub \in Subs /\ bridge[r].amount \in Nat
    BY <1>0, RowFields
  <2>3. ASSUME NEW u \in Ticks, NEW v \in Subs, At(u, v, {"pulled"})'
        PROVE  credited[v] + job'[u][v].sub.price <= collected'[v]
    <3>1. job'[u][v] = job[u][v] /\ At(u, v, {"pulled"})
      BY <1>5, <2>3 DEF At, InPass
    <3>2. job[u][v].sub.price \in Nat
      BY <1>0, <3>1, JobFields, SubFields DEF At, InPass
    <3> QED BY <2>1, <3>1, <3>2 DEF IInv, Backed
  <2> QED BY <2>1, <2>2, <2>3 DEF IInv, Backed, InFlight
<1> QED BY <1>0, <1>4, <1>6, <1>7, <1>8, <1>9, <1>10, <1>11 DEF IInv

\* Jobs are only forgotten, or not yet past a pass's start.
LEMMA ForgetFrame ==
  ASSUME IInv, TypeOK', OnePass',
         UNCHANGED <<claims, bridge, collected, credited>>,
         \A v \in Subs : sub'[v].periodEnd = sub[v].periodEnd,
         \A u \in Ticks, v \in Subs : At(u, v, InPass)' => job'[u][v] = job[u][v]
  PROVE  IInv'
<1>1. SnapshotsCurrent'
  BY DEF IInv, SnapshotsCurrent, At, InPass
<1>2. DrivenRows'
  BY DEF IInv, DrivenRows, At, InPass, InFlight
<1>3. NothingInFlight'
  BY DEF IInv, NothingInFlight, At, InPass, InFlight
<1>4. InFlightPaysCurrentPeriod'
  <2>1. \A r \in Rows : InFlight(r) => bridge[r].sub \in Subs
    BY RowFields DEF IInv
  <2> QED BY <2>1 DEF IInv, InFlightPaysCurrentPeriod, InFlight
<1>5. ClaimGuardsPull'
  BY DEF IInv, ClaimGuardsPull, At, InPass
<1>6. Backed'
  BY DEF IInv, Backed, At, InPass, InFlight
<1> QED BY <1>1, <1>2, <1>3, <1>4, <1>5, <1>6 DEF IInv

\* A pass that is over forgets its jobs; it was the only one.
LEMMA StepOver ==
  ASSUME IInv, TypeOK', NEW t \in Ticks, PassOver(t), pass[t] # "idle",
         UNCHANGED <<claims, bridge, collected, credited>>,
         \A v \in Subs : sub'[v].periodEnd = sub[v].periodEnd
  PROVE  IInv'
<1>1. /\ \A u \in Ticks : pass'[u] = IF u = t THEN "idle" ELSE pass[u]
      /\ \A u \in Ticks, v \in Subs : job'[u][v] = IF u = t THEN Out ELSE job[u][v]
  BY OverTypes DEF IInv
<1>2. \A u \in Ticks : pass'[u] = "idle"
  BY <1>1 DEF IInv, OnePass
<1>3. \A u \in Ticks, v \in Subs : job'[u][v] = Out
  BY <1>1, <1>2 DEF IInv, OnePass
<1>4. OnePass'
  BY <1>2, <1>3 DEF OnePass
<1>5. \A u \in Ticks, v \in Subs : ~At(u, v, InPass)'
  BY <1>3 DEF At, InPass, Out
<1> QED BY <1>4, <1>5, ForgetFrame

\* A pass starts, gives up its trials, throws or ends.
LEMMA StepPassLevel ==
  ASSUME IInv, NEW t \in Ticks,
         CronTick(t) \/ TrialsThrow(t) \/ PassThrows(t) \/ EndPass(t)
  PROVE  IInv'
<1>0. TypeOK /\ TypeOK' /\ OnePass
  BY TypesPassLevel DEF IInv
<1>1. CASE CronTick(t)
  <2>1. OnePass'
    <3>1. \A u \in Ticks : pass[u] = "idle" /\ (u # t => pass'[u] = "idle")
      BY <1>0, <1>1 DEF CronTick, MayStart, OnePass, TypeOK
    <3>2. /\ pass'[t] = "trials" /\ passRunning'
          /\ \A v \in Subs : job'[t][v] \in {Out, [at |-> "trial"]}
          /\ \A u \in Ticks, v \in Subs : u # t => job'[u][v] = Out
      BY <1>0, <1>1, <3>1 DEF CronTick, OnePass, TypeOK
    <3> QED BY <3>1, <3>2 DEF OnePass, At, Out
  <2>2. \A u \in Ticks, v \in Subs : ~At(u, v, InPass)'
    BY <2>1, <1>0, <1>1 DEF CronTick, At, InPass, Out, TypeOK, OnePass
  <2> QED BY <1>0, <1>1, <2>1, <2>2, ForgetFrame DEF CronTick, db, hist
<1>2. CASE TrialsThrow(t)
  <2>1. \A u \in Ticks, v \in Subs :
           job'[u][v] = IF u = t THEN Out ELSE job[u][v]
    BY <1>0, <1>2 DEF TrialsThrow, TypeOK
  <2>2. OnePass'
    BY <1>0, <1>2, <2>1 DEF TrialsThrow, OnePass, At, Out
  <2>3. \A u \in Ticks, v \in Subs : At(u, v, InPass)' => job'[u][v] = job[u][v]
    BY <2>1 DEF At, InPass, Out
  <2> QED BY <1>0, <1>2, <2>2, <2>3, ForgetFrame DEF TrialsThrow, db, hist
<1>3. CASE PassThrows(t) \/ EndPass(t)
  <2>1. PassOver(t) /\ UNCHANGED <<sub, claims, bridge, collected, credited>>
    BY <1>3 DEF PassThrows, EndPass, db, hist
  <2>2. pass[t] # "idle"
    BY <1>3 DEF PassThrows, EndPass
  <2> QED BY <1>0, <2>1, <2>2, StepOver
<1> QED BY <1>1, <1>2, <1>3

\* Dunning moves no period end, and a throw in it ends the pass.
LEMMA StepDun ==
  ASSUME IInv, NEW t \in Ticks, NEW s \in Subs, DunGrantless(t, s) \/ DunThrows(t, s)
  PROVE  IInv'
<1>1. /\ TypeOK' /\ \A v \in Subs : sub'[v].periodEnd = sub[v].periodEnd
      /\ UNCHANGED <<claims, bridge, collected, credited>>
  BY TypesSubscription DEF IInv, DunGrantless, DunThrows, hist
<1>2. pass[t] # "idle"
  BY DEF DunGrantless, DunThrows
<1>3. CASE DunGrantless(t, s)
  <2>1. UNCHANGED <<passRunning, pass, job>>
    BY <1>3 DEF DunGrantless
  <2> QED BY <1>1, <2>1, KeepFrame
<1>4. CASE DunThrows(t, s)
  BY <1>1, <1>2, <1>4, StepOver DEF DunThrows
<1> QED BY <1>3, <1>4

\* A pass reads the due subscriptions: its snapshots are current.
LEMMA StepReadGrants ==
  ASSUME IInv, NEW t \in Ticks, ReadGrants(t)
  PROVE  IInv'
<1>0. TypeOK /\ TypeOK' /\ OnePass
  BY TypesPassLevel DEF IInv
<1>1. /\ pass[t] = "trials"
      /\ \A u \in Ticks : pass'[u] = IF u = t THEN "reading" ELSE pass[u]
      /\ \A u \in Ticks, v \in Subs : u # t => job'[u][v] = job[u][v]
      /\ \A v \in Subs : \/ job'[t][v] = Out
                          \/ /\ job'[t][v].at = "prepare"
                             /\ job'[t][v].sub = sub[v]
      /\ UNCHANGED <<sub, claims, bridge, passRunning, collected, credited>>
  BY <1>0 DEF ReadGrants, TypeOK, db, hist
<1>2. \A u \in Ticks, v \in Subs : u # t => job[u][v] = Out /\ job'[u][v] = Out
  BY <1>0, <1>1 DEF OnePass, TypeOK
<1>3. OnePass'
  BY <1>0, <1>1, <1>2 DEF OnePass, At, Out
<1>4. \A u \in Ticks, v \in Subs : At(u, v, InPass)' =>
         job'[u][v].at = "prepare" /\ job'[u][v].sub = sub[v]
  BY <1>1, <1>2 DEF At, InPass, Out
<1>5. SnapshotsCurrent'
  BY <1>1, <1>4 DEF SnapshotsCurrent, At
<1>6. DrivenRows' /\ NothingInFlight' /\ ClaimGuardsPull'
  BY <1>4 DEF DrivenRows, NothingInFlight, ClaimGuardsPull, At, InPass
<1>7. InFlightPaysCurrentPeriod'
  BY <1>1 DEF IInv, InFlightPaysCurrentPeriod, InFlight
<1>8. Backed'
  BY <1>1, <1>4 DEF IInv, Backed, At, InPass, InFlight
<1> QED BY <1>0, <1>3, <1>5, <1>6, <1>7, <1>8 DEF IInv

\* The second query fills a list that holds nobody's period end.
LEMMA StepReadGrantless ==
  ASSUME IInv, NEW t \in Ticks, ReadGrantless(t)
  PROVE  IInv'
<1>0. TypeOK /\ TypeOK' /\ OnePass
  BY TypesPassLevel DEF IInv
<1>1. /\ pass[t] = "reading"
      /\ \A u \in Ticks : pass'[u] = IF u = t THEN "collect" ELSE pass[u]
      /\ UNCHANGED <<sub, claims, bridge, passRunning, job, collected, credited>>
  BY <1>0 DEF ReadGrantless, TypeOK, db, hist
<1>2. OnePass'
  BY <1>0, <1>1 DEF OnePass, At
<1> QED BY <1>0, <1>1, <1>2, ForgetFrame

\* The process dies, and with it everything a pass remembers.
LEMMA StepRestart == IInv /\ Restart => IInv'
<1> SUFFICES ASSUME IInv, Restart PROVE IInv'
  OBVIOUS
<1>1. /\ \A t \in Ticks : pass'[t] = "idle"
      /\ \A t \in Ticks, s \in Subs : job'[t][s] = Out
      /\ UNCHANGED <<sub, claims, bridge, collected, credited>>
  BY DEF Restart, db, hist
<1>2. TypeOK'
  <2>1. job' \in [Ticks -> [Subs -> JobRecords]]
    BY DEF Restart, JobRecords
  <2>2. direct' \in BOOLEAN
    BY DEF IInv, TypeOK, Restart
  <2>3. pass' \in [Ticks -> Phases]
    BY DEF Restart, Phases
  <2>4. passRunning' \in BOOLEAN
    BY DEF Restart
  <2>5. events' \in Ids
    BY EventIds DEF IInv, Restart
  <2>6. UNCHANGED <<now, sub, grant, claims, bridge, spent, portal, collected,
                    credited, pulledKeys>>
    BY DEF Restart, db, hist
  <2>7. dun' \in [Ticks -> [Subs -> Nat \cup {NotListed}]]
    BY DEF Restart
  <2> QED BY <2>1, <2>2, <2>3, <2>4, <2>5, <2>6, <2>7 DEF IInv, TypeOK
<1>3. OnePass'
  BY <1>1 DEF OnePass
<1> QED BY <1>1, <1>2, <1>3, ForgetFrame DEF At, InPass, Out

\* The clock moves no row.
LEMMA StepTick == IInv /\ Tick => IInv'
<1> SUFFICES ASSUME IInv, Tick PROVE IInv'
  OBVIOUS
<1>1. TypeOK'
  BY DEF IInv, TypeOK, Tick, db, inMem, hist
<1> QED BY <1>1, KeepFrame DEF Tick, db, inMem, hist

\* A request moves no period end, no claim and no bridge.
LEMMA StepOutside ==
  ASSUME IInv, NEW s \in Subs, OutsideOf(s)
  PROVE  IInv'
BY TypesOutside, KeepFrame DEF IInv

\* The steps that take a subscription out of the pass.
LEMMA StepDrop ==
  ASSUME IInv, NEW t \in Ticks, NEW s \in Subs,
         \/ TransitionTrial(t, s) \/ OverCap(t, s)
         \/ Insufficient(t, s) \/ PrepareThrows(t, s) \/ RedeemSeenAsFailed(t, s)
         \/ RedeemFails(t, s) \/ FinishThrows(t, s) \/ AttestationPending(t, s)
         \/ AdvanceThrows(t, s)
  PROVE  IInv'
<1>0. TypeOK /\ TypeOK'
  BY TypesSubscription, TypesJobs, TypesMoney DEF IInv
<1>1. \A v \in Subs : sub'[v].periodEnd = sub[v].periodEnd
  <2>1. CASE TransitionTrial(t, s) \/ Insufficient(t, s)
    BY <1>0, <2>1, TypesSubscription
  <2>2. CASE ~(TransitionTrial(t, s) \/ Insufficient(t, s))
    <3>1. sub' = sub
      BY <2>2 DEF OverCap, OverCapOutcome, PrepareThrows, RedeemSeenAsFailed,
         RedeemFails, FinishThrows, AttestationPending, AdvanceThrows, db
    <3> QED BY <3>1
  <2> QED BY <2>1, <2>2
<1>2. job[t][s] # Out
  BY DEF TransitionTrial, OverCap, Insufficient, PrepareThrows,
     RedeemSeenAsFailed, RedeemFails, RedeemPhase, FinishThrows, FinishPhase,
     AttestationPending, AdvanceThrows, At, Out
<1>3. /\ Drop(t, s)
      /\ UNCHANGED <<bridge, passRunning, pass>>
  BY DEF TransitionTrial, OverCap, Insufficient, PrepareThrows,
     RedeemSeenAsFailed, RedeemFails, FinishThrows, AttestationPending, AdvanceThrows, db
<1>4. \A v \in Subs, k \in Nat : v # s /\ <<v, k>> \in claims => <<v, k>> \in claims'
  BY DEF TransitionTrial, OverCap, Insufficient, PrepareThrows,
     RedeemSeenAsFailed, RedeemFails, FinishThrows, AttestationPending, AdvanceThrows,
     ReleaseClaim, db
<1>5. /\ UNCHANGED credited
      /\ \A v \in Subs : collected[v] <= collected'[v]
  <2>1. CASE RedeemSeenAsFailed(t, s)
    <3>1. At(t, s, {"ready"}) /\ Lands(t, s)
      BY <2>1 DEF RedeemSeenAsFailed, RedeemPhase
    <3>2. /\ credited' = credited
          /\ collected'[s] = collected[s] + job[t][s].sub.price
          /\ job[t][s].sub.price \in Nat
          /\ \A v \in Subs : v # s => collected'[v] = collected[v]
      BY <1>0, <3>1, Landed
    <3>3. \A v \in Subs : collected[v] \in Nat
      BY <1>0 DEF TypeOK
    <3>4. collected[s] <= collected'[s]
      BY <3>2, <3>3
    <3> QED BY <3>2, <3>3, <3>4
  <2>2. CASE ~RedeemSeenAsFailed(t, s)
    <3>1. UNCHANGED hist
      BY <2>2 DEF TransitionTrial, OverCap, Insufficient, PrepareThrows,
         RedeemFails, FinishThrows, AttestationPending, AdvanceThrows
    <3> QED BY <1>0, <3>1 DEF hist, TypeOK
  <2> QED BY <2>1, <2>2
<1> QED BY <1>0, <1>1, <1>2, <1>3, <1>4, <1>5, DropFrame

\* The steps that move a subscription on within the pass.  Each names the new job
\* and keeps the others, which belong to the same pass.
LEMMA StepLookUp ==
  ASSUME IInv, NEW t \in Ticks, NEW s \in Subs, LookUpPending(t, s)
  PROVE  IInv'
<1>0. /\ TypeOK /\ TypeOK' /\ At(t, s, {"prepare"}) /\ At(t, s, InPass)
      /\ UNCHANGED <<sub, claims, bridge, passRunning, pass, collected, credited>>
  BY TypesJobs DEF IInv, LookUpPending, At, InPass, db, hist
<1>1. /\ job'[t][s].at \in {"select", "burn", "attest"}
      /\ job'[t][s].sub = job[t][s].sub
      /\ \A u \in Ticks, v \in Subs : u # t \/ v # s => job'[u][v] = job[u][v]
      /\ job'[t][s].at = "select" => \A r \in Rows : ~(InFlight(r) /\ bridge[r].sub = s)
      /\ job'[t][s].at # "select" => /\ InFlight(job'[t][s].row)
                                   /\ bridge[job'[t][s].row].sub = s
  BY <1>0 DEF LookUpPending, PendingBridges, Stay, TypeOK
<1>2. OnePass'
  <2>1. pass[t] = "collect"
    BY DEF LookUpPending
  <2> QED BY <1>0, <1>1, <2>1 DEF IInv, OnePass, At, Out
<1>3. SnapshotsCurrent'
  BY <1>0, <1>1 DEF IInv, SnapshotsCurrent, At
<1>4. DrivenRows'
  BY <1>0, <1>1 DEF IInv, DrivenRows, At, InFlight
<1>5. NothingInFlight'
  BY <1>0, <1>1 DEF IInv, NothingInFlight, At, InFlight
<1>6. InFlightPaysCurrentPeriod'
  BY <1>0 DEF IInv, InFlightPaysCurrentPeriod, InFlight
<1>7. ClaimGuardsPull'
  BY <1>0, <1>1 DEF IInv, ClaimGuardsPull, At
<1>8. Backed'
  BY <1>0, <1>1 DEF IInv, Backed, At, InFlight
<1> QED BY <1>0, <1>2, <1>3, <1>4, <1>5, <1>6, <1>7, <1>8 DEF IInv

\* A claim is taken by the pass that will pull, or the job is dropped.
LEMMA StepClaim ==
  ASSUME IInv, NEW t \in Ticks, NEW s \in Subs, ClaimPeriod(t, s)
  PROVE  IInv'
<1>0. /\ TypeOK /\ TypeOK' /\ At(t, s, {"select"}) /\ At(t, s, InPass)
      /\ UNCHANGED <<sub, bridge, passRunning, pass, collected, credited>>
  BY TypesJobs DEF IInv, ClaimPeriod, At, InPass, hist
<1>1. CASE Drop(t, s)
  <2>1. job[t][s] # Out
    BY <1>0 DEF At, Out
  <2>2. claims \subseteq claims'
    BY DEF ClaimPeriod
  <2>3. \A v \in Subs : collected[v] <= collected'[v]
    BY <1>0 DEF TypeOK
  <2> QED BY <1>0, <1>1, <2>1, <2>2, <2>3, DropFrame
<1>2. CASE ~Drop(t, s)
  <2>1. /\ job'[t][s].at = "ready"
        /\ job'[t][s].sub = job[t][s].sub
        /\ \A u \in Ticks, v \in Subs : u # t \/ v # s => job'[u][v] = job[u][v]
        /\ <<s, KeyOf(job[t][s].sub)>> \in claims'
        /\ claims \subseteq claims'
    BY <1>0, <1>2 DEF ClaimPeriod, Stay, TypeOK
  <2>2. OnePass'
    BY <1>0, <2>1 DEF IInv, OnePass, At, Out
  <2>3. SnapshotsCurrent'
    BY <1>0, <2>1 DEF IInv, SnapshotsCurrent, At
  <2>4. DrivenRows'
    BY <1>0, <2>1 DEF IInv, DrivenRows, At, InFlight
  <2>5. NothingInFlight'
    BY <1>0, <2>1 DEF IInv, NothingInFlight, At, InFlight
  <2>6. InFlightPaysCurrentPeriod'
    BY <1>0 DEF IInv, InFlightPaysCurrentPeriod, InFlight
  <2>7. ClaimGuardsPull'
    BY <1>0, <2>1 DEF IInv, ClaimGuardsPull, At, KeyOf
  <2>8. Backed'
    BY <1>0, <2>1 DEF IInv, Backed, At, InFlight
  <2> QED BY <1>0, <2>2, <2>3, <2>4, <2>5, <2>6, <2>7, <2>8 DEF IInv
<1> QED BY <1>1, <1>2

\* Money is collected by the only pass, which has nothing in flight.
LEMMA StepRedeem ==
  ASSUME IInv, NEW t \in Ticks, NEW s \in Subs, Redeem(t, s)
  PROVE  IInv'
<1>0. /\ TypeOK /\ TypeOK' /\ At(t, s, {"ready"}) /\ At(t, s, InPass) /\ Lands(t, s)
      /\ UNCHANGED <<sub, claims, bridge, passRunning, pass>>
  <2>1. TypeOK /\ TypeOK'
    BY TypesMoney DEF IInv
  <2>2. RedeemPhase(t, s) /\ Lands(t, s) /\ UNCHANGED <<sub, claims, bridge, passRunning, pass>>
    BY DEF Redeem, db
  <2> QED BY <2>1, <2>2 DEF RedeemPhase, At, InPass
<1>1. /\ job'[t][s].at = "pulled"
      /\ job'[t][s].sub = job[t][s].sub
      /\ \A u \in Ticks, v \in Subs : u # t \/ v # s => job'[u][v] = job[u][v]
  <2> DEFINE j == [job[t][s] EXCEPT !.at = "pulled"]
  <2>1. j \in JobRecords /\ j.at = "pulled" /\ j.sub = job[t][s].sub
    BY <1>0, PulledJob
  <2>2. Stay(t, s, j)
    BY DEF Redeem
  <2> HIDE DEF j
  <2> QED BY <1>0, <2>1, <2>2, StayJobs
<1>2. OnePass'
  BY <1>0, <1>1 DEF IInv, OnePass, At, Out
<1>3. SnapshotsCurrent'
  BY <1>0, <1>1 DEF IInv, SnapshotsCurrent, At
<1>4. DrivenRows'
  BY <1>0, <1>1 DEF IInv, DrivenRows, At, InFlight
<1>5. NothingInFlight'
  BY <1>0, <1>1 DEF IInv, NothingInFlight, At, InFlight
<1>6. InFlightPaysCurrentPeriod'
  BY <1>0 DEF IInv, InFlightPaysCurrentPeriod, InFlight
<1>7. ClaimGuardsPull'
  BY <1>0, <1>1 DEF IInv, ClaimGuardsPull, At
<1>8. Backed'
  <2> DEFINE price == job[t][s].sub.price
  <2>1. /\ credited' = credited /\ price \in Nat
        /\ collected'[s] = collected[s] + price
        /\ \A v \in Subs : v # s => collected'[v] = collected[v]
    BY <1>0, Landed
  <2>2. \A v \in Subs : credited[v] \in Nat /\ collected[v] \in Nat
    BY <1>0 DEF TypeOK
  <2>3. \A r \in Rows : InFlight(r) =>
           /\ bridge[r].sub \in Subs /\ bridge[r].amount \in Nat
           /\ bridge[r].sub # s
    BY <1>0, RowFields DEF IInv, NothingInFlight, At
  <2>4. \A u \in Ticks, v \in Subs : u # t => job[u][v] = Out
    <3>1. job[t][s] # Out
      BY <1>0 DEF At, Out
    <3> QED BY <1>0, <3>1, OnlyPass DEF IInv
  <2>5. \A v \in Subs : credited'[v] <= collected'[v]
    BY <2>1, <2>2 DEF IInv, Backed
  <2>6. \A r \in Rows : InFlight(r)' =>
           credited'[bridge'[r].sub] + bridge'[r].amount <= collected'[bridge'[r].sub]
    BY <1>0, <2>1, <2>3 DEF IInv, Backed, InFlight
  <2>7. ASSUME NEW u \in Ticks, NEW v \in Subs, At(u, v, {"pulled"})'
        PROVE  credited'[v] + job'[u][v].sub.price <= collected'[v]
    <3>1. CASE u = t /\ v = s
      BY <1>1, <2>1, <2>2, <3>1 DEF IInv, Backed
    <3>2. CASE ~(u = t /\ v = s)
      <4>1. u = t /\ v # s
        BY <1>1, <2>4, <2>7, <3>2 DEF At, Out
      <4> QED BY <1>1, <2>1, <2>7, <4>1 DEF IInv, Backed, At
    <3> QED BY <3>1, <3>2
  <2> QED BY <2>5, <2>6, <2>7 DEF Backed
<1> QED BY <1>0, <1>2, <1>3, <1>4, <1>5, <1>6, <1>7, <1>8 DEF IInv

\* Settling directly: nothing is in flight, and the pulled money becomes credit.
LEMMA StepSettleDirect ==
  ASSUME IInv, NEW t \in Ticks, NEW s \in Subs, SettleDirect(t, s)
  PROVE  /\ IInv'
         /\ credited[s] + job[t][s].sub.price <= collected[s]
         /\ job[t][s].sub.price \in Prices
         /\ credited' = [credited EXCEPT ![s] = @ + job[t][s].sub.price]
         /\ sub'[s].periodEnd = sub[s].periodEnd + 1
         /\ \A v \in Subs : v # s => sub'[v] = sub[v]
         /\ UNCHANGED collected
<1> DEFINE price == job[t][s].sub.price
<1>0. /\ TypeOK /\ TypeOK' /\ At(t, s, {"pulled"}) /\ At(t, s, InPass)
      /\ Drop(t, s) /\ UNCHANGED <<claims, bridge, passRunning, pass>>
  <2>1. TypeOK /\ TypeOK'
    BY TypesMoney DEF IInv
  <2>2. FinishPhase(t, s) /\ Drop(t, s) /\ UNCHANGED <<claims, bridge, passRunning, pass>>
    BY DEF SettleDirect
  <2> QED BY <2>1, <2>2 DEF FinishPhase, At, InPass
<1>1. /\ job[t][s].sub \in SubRecords /\ job[t][s].chain \in Chains
      /\ job[t][s].mandate.row \in Ids
      /\ price \in Prices /\ price \in Nat
  BY <1>0, JobFields, GrantFields, SubFields DEF At
<1>2. RecordRenewalSettled(s, job[t][s].sub, job[t][s].chain, job[t][s].mandate.row, price)
  BY DEF SettleDirect
<1>3. /\ sub'[s].periodEnd = job[t][s].sub.periodEnd + 1
      /\ \A v \in Subs : v # s => sub'[v] = sub[v]
      /\ credited'[s] = credited[s] + price
      /\ \A v \in Subs : v # s => credited'[v] = credited[v]
  BY <1>0, <1>1, <1>2, Settled
<1>4. UNCHANGED collected
  BY <1>2 DEF RecordRenewalSettled
<1>5. /\ job'[t][s] = Out
      /\ \A u \in Ticks, v \in Subs : u # t \/ v # s => job'[u][v] = job[u][v]
  BY <1>0, DropJobs
<1>6. \A u \in Ticks, v \in Subs : At(u, v, InPass)' => v # s /\ job'[u][v] = job[u][v]
  <2>1. \A u \in Ticks, v \in Subs : u # t => job[u][v] = Out
    <3>1. job[t][s] # Out
      BY <1>0 DEF At, Out
    <3> QED BY <1>0, <3>1, OnlyPass DEF IInv
  <2> QED BY <1>5, <2>1 DEF At, InPass, Out
<1>7. \A r \in Rows : InFlight(r) =>
         bridge[r].sub \in Subs /\ bridge[r].amount \in Nat /\ bridge[r].sub # s
  BY <1>0, RowFields DEF IInv, NothingInFlight, At
<1>8. credited[s] + price <= collected[s]
  BY <1>0 DEF IInv, Backed
<1>9. IInv'
  <2>1. OnePass'
    BY <1>0, <1>5 DEF IInv, OnePass, At, Out
  <2>2. SnapshotsCurrent'
    BY <1>3, <1>6 DEF IInv, SnapshotsCurrent, At
  <2>3. DrivenRows'
    BY <1>0, <1>6 DEF IInv, DrivenRows, At, InFlight, InPass
  <2>4. NothingInFlight'
    BY <1>0, <1>6 DEF IInv, NothingInFlight, At, InFlight, InPass
  <2>5. InFlightPaysCurrentPeriod'
    BY <1>0, <1>3, <1>7 DEF IInv, InFlightPaysCurrentPeriod, InFlight
  <2>6. ClaimGuardsPull'
    BY <1>0, <1>6 DEF IInv, ClaimGuardsPull, At, InPass
  <2>7. Backed'
    <3>1. \A v \in Subs : credited'[v] <= collected'[v]
      BY <1>3, <1>4, <1>8 DEF IInv, Backed
    <3>2. \A r \in Rows : InFlight(r)' =>
             credited'[bridge'[r].sub] + bridge'[r].amount <= collected'[bridge'[r].sub]
      BY <1>0, <1>3, <1>4, <1>7 DEF IInv, Backed, InFlight
    <3>3. \A u \in Ticks, v \in Subs : At(u, v, {"pulled"})' =>
             credited'[v] + job'[u][v].sub.price <= collected'[v]
      BY <1>3, <1>4, <1>6 DEF IInv, Backed, At, InPass
    <3> QED BY <3>1, <3>2, <3>3 DEF Backed
  <2> QED BY <1>0, <2>1, <2>2, <2>3, <2>4, <2>5, <2>6, <2>7 DEF IInv
<1>10. job[t][s].sub.periodEnd = sub[s].periodEnd
  BY <1>0 DEF IInv, SnapshotsCurrent
<1>11. credited' = [credited EXCEPT ![s] = @ + price]
  BY <1>2 DEF RecordRenewalSettled
<1> QED BY <1>1, <1>3, <1>4, <1>8, <1>9, <1>10, <1>11

\* The same of a bridge that is minted: its row is gone with its credit.
LEMMA StepMint ==
  ASSUME IInv, NEW t \in Ticks, NEW s \in Subs, MintAndSettle(t, s)
  PROVE  /\ IInv'
         /\ \E a \in Prices : /\ credited[s] + a <= collected[s]
                            /\ credited' = [credited EXCEPT ![s] = @ + a]
         /\ sub'[s].periodEnd = sub[s].periodEnd + 1
         /\ \A v \in Subs : v # s => sub'[v] = sub[v]
         /\ UNCHANGED collected
<1> DEFINE q == job[t][s].row
           row == bridge[q]
<1>0. /\ TypeOK /\ TypeOK' /\ At(t, s, {"burn", "attest"}) /\ At(t, s, InPass)
      /\ Drop(t, s) /\ UNCHANGED <<passRunning, pass>>
      /\ \A v \in Subs, k \in Nat : v # s /\ <<v, k>> \in claims => <<v, k>> \in claims'
  <2>1. TypeOK /\ TypeOK'
    BY TypesMoney DEF IInv
  <2>2. /\ At(t, s, {"attest"}) /\ Drop(t, s) /\ UNCHANGED <<passRunning, pass>>
        /\ ReleaseClaim(t, s) \/ UNCHANGED claims
    BY DEF MintAndSettle
  <2> QED BY <2>1, <2>2 DEF ReleaseClaim, At, InPass
<1>1. /\ q \in Rows /\ InFlight(q) /\ row.sub = s
      /\ job[t][s].sub \in SubRecords
  BY <1>0, JobFields DEF IInv, DrivenRows
<1>2. /\ row.chain \in Chains /\ row.mandate \in Ids
      /\ row.amount \in Prices /\ row.amount \in Nat
  BY <1>0, <1>1, RowFields
<1>3. RecordRenewalSettled(s, job[t][s].sub, row.chain, row.mandate, row.amount)
  BY DEF MintAndSettle
<1>4. /\ sub'[s].periodEnd = job[t][s].sub.periodEnd + 1
      /\ \A v \in Subs : v # s => sub'[v] = sub[v]
      /\ credited'[s] = credited[s] + row.amount
      /\ \A v \in Subs : v # s => credited'[v] = credited[v]
  BY <1>0, <1>1, <1>2, <1>3, Settled
<1>5. UNCHANGED collected
  BY <1>3 DEF RecordRenewalSettled
<1>6. /\ job'[t][s] = Out
      /\ \A u \in Ticks, v \in Subs : u # t \/ v # s => job'[u][v] = job[u][v]
  BY <1>0, DropJobs
<1>7. \A u \in Ticks, v \in Subs : At(u, v, InPass)' => v # s /\ job'[u][v] = job[u][v]
  <2>1. \A u \in Ticks, v \in Subs : u # t => job[u][v] = Out
    <3>1. job[t][s] # Out
      BY <1>0 DEF At, Out
    <3> QED BY <1>0, <3>1, OnlyPass DEF IInv
  <2> QED BY <1>6, <2>1 DEF At, InPass, Out
<1>8. \A r \in Rows : InFlight(r)' =>
         /\ r # q /\ bridge'[r] = bridge[r] /\ InFlight(r)
         /\ bridge[r].sub \in Subs /\ bridge[r].sub # s
  <2>1. \A r \in Rows : bridge'[r] = IF r = q THEN NoRow ELSE bridge[r]
    BY <1>0, <1>1 DEF MintAndSettle, AfterMint, TypeOK
  <2>2. \A r \in Rows : InFlight(r) /\ r # q => bridge[r].sub # s
    BY <1>1 DEF IInv, InFlightPaysCurrentPeriod
  <2> QED BY <1>0, <2>1, <2>2, RowFields DEF InFlight, NoRow
<1>9. credited[s] + row.amount <= collected[s]
  BY <1>1 DEF IInv, Backed
<1>10. IInv'
  <2>1. OnePass'
    BY <1>0, <1>6 DEF IInv, OnePass, At, Out
  <2>2. SnapshotsCurrent'
    BY <1>4, <1>7 DEF IInv, SnapshotsCurrent, At
  <2>3. DrivenRows'
    <3> SUFFICES ASSUME NEW u \in Ticks, NEW v \in Subs, At(u, v, {"burn", "attest"})'
                 PROVE  /\ bridge'[job'[u][v].row].status # "none"
                        /\ bridge'[job'[u][v].row].sub = v
      BY DEF DrivenRows, InFlight
    <3>1. v # s /\ job'[u][v] = job[u][v] /\ At(u, v, {"burn", "attest"})
      BY <1>7 DEF At, InPass
    <3>2. /\ InFlight(job[u][v].row) /\ bridge[job[u][v].row].sub = v
          /\ job[u][v].row \in Rows
      BY <1>0, <3>1, JobFields DEF IInv, DrivenRows
    <3>3. job[u][v].row # q
      BY <1>1, <3>1, <3>2
    <3>4. bridge'[job[u][v].row] = bridge[job[u][v].row]
      BY <1>0, <3>2, <3>3 DEF MintAndSettle, TypeOK
    <3>5. job'[u][v].row = job[u][v].row
      BY <3>1
    <3>6. bridge'[job'[u][v].row] = bridge[job[u][v].row]
      BY <3>4, <3>5
    <3>7. bridge[job[u][v].row].status # "none"
      BY <3>2 DEF InFlight
    <3> QED BY <3>2, <3>5, <3>6, <3>7
  <2>4. NothingInFlight'
    BY <1>7, <1>8 DEF IInv, NothingInFlight, At, InFlight, InPass
  <2>5. InFlightPaysCurrentPeriod'
    BY <1>4, <1>8 DEF IInv, InFlightPaysCurrentPeriod, InFlight
  <2>6. ClaimGuardsPull'
    <3> SUFFICES ASSUME NEW u \in Ticks, NEW v \in Subs, At(u, v, {"ready", "pulled"})'
                 PROVE  <<v, KeyOf(job'[u][v].sub)>> \in claims'
      BY DEF ClaimGuardsPull, KeyOf
    <3>1. v # s /\ job'[u][v] = job[u][v] /\ At(u, v, {"ready", "pulled"})
      BY <1>7 DEF At, InPass
    <3>2. job[u][v].sub.periodEnd \in Nat
      BY <1>0, <3>1, JobFields, SubFields DEF At, InPass
    <3> QED BY <1>0, <3>1, <3>2 DEF IInv, ClaimGuardsPull, KeyOf
  <2>7. Backed'
    <3>1. \A v \in Subs : credited'[v] <= collected'[v]
      BY <1>4, <1>5, <1>9 DEF IInv, Backed
    <3>2. ASSUME NEW r \in Rows, InFlight(r)'
          PROVE  credited'[bridge'[r].sub] + bridge'[r].amount <= collected'[bridge'[r].sub]
      <4>1. /\ bridge'[r] = bridge[r] /\ InFlight(r)
            /\ bridge[r].sub \in Subs /\ bridge[r].sub # s
        BY <1>8, <3>2
      <4>2. credited'[bridge[r].sub] = credited[bridge[r].sub]
        BY <1>4, <4>1
      <4>3. credited[bridge[r].sub] + bridge[r].amount <= collected[bridge[r].sub]
        BY <4>1 DEF IInv, Backed
      <4> QED BY <1>5, <4>1, <4>2, <4>3
    <3>3. \A u \in Ticks, v \in Subs : At(u, v, {"pulled"})' =>
             credited'[v] + job'[u][v].sub.price <= collected'[v]
      BY <1>4, <1>5, <1>7 DEF IInv, Backed, At, InPass
    <3> QED BY <3>1, <3>2, <3>3 DEF Backed
  <2> QED BY <1>0, <2>1, <2>2, <2>3, <2>4, <2>5, <2>6, <2>7 DEF IInv
<1>11. job[t][s].sub.periodEnd = sub[s].periodEnd
  BY <1>0 DEF IInv, SnapshotsCurrent
<1>12. credited' = [credited EXCEPT ![s] = @ + row.amount]
  BY <1>3 DEF RecordRenewalSettled
<1> QED BY <1>2, <1>4, <1>5, <1>9, <1>10, <1>11, <1>12

\* The pulled amount moves from the pass's memory into a row.
LEMMA StepOpenBridge ==
  ASSUME IInv, NEW t \in Ticks, NEW s \in Subs, OpenBridge(t, s)
  PROVE  IInv'
<1> DEFINE j == job[t][s]
           row == [status |-> "pulled", sub |-> s, chain |-> j.chain,
                   mandate |-> j.mandate.row,
                   key |-> KeyOf(j.sub), amount |-> j.sub.price]
<1>0. /\ TypeOK /\ TypeOK' /\ At(t, s, {"pulled"}) /\ At(t, s, InPass)
      /\ UNCHANGED <<sub, claims, passRunning, pass, collected, credited>>
  BY TypesMoney DEF IInv, OpenBridge, FinishPhase, At, InPass, hist
<1>1. PICK q \in Rows :
         /\ ~InFlight(q)
         /\ bridge' = [bridge EXCEPT ![q] = row]
         /\ Stay(t, s, [at |-> "burn", sub |-> j.sub, row |-> q, resume |-> FALSE])
  BY DEF OpenBridge
<1>2. \A r \in Rows : bridge'[r] = IF r = q THEN row ELSE bridge[r]
  BY <1>0, <1>1 DEF TypeOK
<1>3. /\ row.status # "none" /\ row.sub = s /\ row.key = sub[s].periodEnd
      /\ row.amount = j.sub.price
  BY <1>0 DEF KeyOf, IInv, SnapshotsCurrent
<1>4. /\ job'[t][s].at = "burn" /\ job'[t][s].row = q /\ job'[t][s].sub = j.sub
      /\ \A u \in Ticks, v \in Subs : u # t \/ v # s => job'[u][v] = job[u][v]
  BY <1>0, <1>1 DEF Stay, TypeOK
<1>5. \A r \in Rows : InFlight(r) => bridge[r].sub \in Subs /\ bridge[r].sub # s
  BY <1>0, RowFields DEF IInv, NothingInFlight, At
<1>6. \A u \in Ticks, v \in Subs : u # t => job[u][v] = Out
  <2>1. job[t][s] # Out
    BY <1>0 DEF At, Out
  <2> QED BY <1>0, <2>1, OnlyPass DEF IInv
<1> HIDE DEF row
<1>7. OnePass'
  BY <1>0, <1>4 DEF IInv, OnePass, At, Out
<1>8. SnapshotsCurrent'
  BY <1>0, <1>4 DEF IInv, SnapshotsCurrent, At
<1>9. DrivenRows'
  <2> SUFFICES ASSUME NEW u \in Ticks, NEW v \in Subs, At(u, v, {"burn", "attest"})'
               PROVE  /\ bridge'[job'[u][v].row].status # "none"
                      /\ bridge'[job'[u][v].row].sub = v
    BY DEF DrivenRows, InFlight
  <2>1. CASE u = t /\ v = s
    BY <1>2, <1>3, <1>4, <2>1
  <2>2. CASE ~(u = t /\ v = s)
    <3>1. job'[u][v] = job[u][v] /\ At(u, v, {"burn", "attest"})
      BY <1>4, <2>2 DEF At
    <3>2. InFlight(job[u][v].row) /\ bridge[job[u][v].row].sub = v /\ job[u][v].row \in Rows
      BY <1>0, <3>1, JobFields DEF IInv, DrivenRows
    <3>3. bridge'[job[u][v].row] = bridge[job[u][v].row]
      BY <1>1, <1>2, <3>2
    <3> QED BY <3>1, <3>2, <3>3 DEF InFlight
  <2> QED BY <2>1, <2>2
<1>10. NothingInFlight'
  <2> SUFFICES ASSUME NEW u \in Ticks, NEW v \in Subs, NEW r \in Rows,
                      At(u, v, {"select", "ready", "pulled"})',
                      bridge'[r].status # "none", bridge'[r].sub = v
               PROVE  FALSE
    BY DEF NothingInFlight, InFlight
  <2>1. u = t /\ v # s /\ job'[u][v] = job[u][v]
    BY <1>4, <1>6 DEF At, Out
  <2>2. r # q
    BY <1>2, <1>3, <2>1
  <2>3. InFlight(r) /\ bridge[r].sub = v
    BY <1>2, <2>2 DEF InFlight
  <2> QED BY <2>1, <2>3 DEF IInv, NothingInFlight, At
<1>11. InFlightPaysCurrentPeriod'
  BY <1>0, <1>2, <1>3, <1>5 DEF IInv, InFlightPaysCurrentPeriod, InFlight
<1>12. ClaimGuardsPull'
  BY <1>0, <1>4 DEF IInv, ClaimGuardsPull, At
<1>13. Backed'
  <2>1. \A r \in Rows : InFlight(r)' =>
           credited'[bridge'[r].sub] + bridge'[r].amount <= collected'[bridge'[r].sub]
    BY <1>0, <1>2, <1>3 DEF IInv, Backed, InFlight
  <2>2. \A u \in Ticks, v \in Subs : At(u, v, {"pulled"})' =>
           credited'[v] + job'[u][v].sub.price <= collected'[v]
    BY <1>0, <1>4 DEF IInv, Backed, At
  <2> QED BY <1>0, <2>1, <2>2 DEF IInv, Backed
<1> QED BY <1>0, <1>7, <1>8, <1>9, <1>10, <1>11, <1>12, <1>13 DEF IInv

\* A burn changes nothing but the status of the row.
LEMMA StepBurn ==
  ASSUME IInv, NEW t \in Ticks, NEW s \in Subs, Burn(t, s)
  PROVE  IInv'
<1> DEFINE q == job[t][s].row
<1>0. /\ TypeOK /\ TypeOK' /\ At(t, s, {"burn", "attest"}) /\ At(t, s, InPass)
      /\ UNCHANGED <<sub, claims, passRunning, pass, collected, credited>>
  BY TypesMoney DEF IInv, Burn, At, InPass, hist
<1>1. q \in Rows /\ InFlight(q) /\ bridge[q] \in RowRecords
  BY <1>0, JobFields, RowFields DEF IInv, DrivenRows
<1> DEFINE row == [bridge[q] EXCEPT !.status = "burned"]
<1>2. /\ row.status # "none" /\ row.sub = bridge[q].sub
      /\ row.key = bridge[q].key /\ row.amount = bridge[q].amount
  BY <1>1 DEF RowRecords
<1>3. bridge' = [bridge EXCEPT ![q] = row]
  BY DEF Burn
<1> HIDE DEF row
<1>4. \A r \in Rows :
         /\ InFlight(r)' <=> InFlight(r)
         /\ InFlight(r) => /\ bridge'[r].sub = bridge[r].sub
                           /\ bridge'[r].key = bridge[r].key
                           /\ bridge'[r].amount = bridge[r].amount
  BY <1>0, <1>1, <1>2, <1>3 DEF TypeOK, InFlight
<1>5. /\ job'[t][s].at = "attest" /\ job'[t][s].row = q
      /\ job'[t][s].sub = job[t][s].sub
      /\ \A u \in Ticks, v \in Subs : u # t \/ v # s => job'[u][v] = job[u][v]
  BY <1>0 DEF Burn, Stay, TypeOK
<1>6. OnePass'
  BY <1>0, <1>5 DEF IInv, OnePass, At, Out
<1>7. SnapshotsCurrent'
  BY <1>0, <1>5 DEF IInv, SnapshotsCurrent, At
<1>8. DrivenRows'
  <2> SUFFICES ASSUME NEW u \in Ticks, NEW v \in Subs, At(u, v, {"burn", "attest"})'
               PROVE  /\ bridge'[job'[u][v].row].status # "none"
                      /\ bridge'[job'[u][v].row].sub = v
    BY DEF DrivenRows, InFlight
  <2>1. /\ job'[u][v].row = job[u][v].row /\ At(u, v, {"burn", "attest"})
    BY <1>0, <1>5 DEF At
  <2>2. InFlight(job[u][v].row) /\ bridge[job[u][v].row].sub = v /\ job[u][v].row \in Rows
    BY <1>0, <2>1, JobFields DEF IInv, DrivenRows
  <2> QED BY <1>4, <2>1, <2>2 DEF InFlight
<1>9. NothingInFlight'
  BY <1>0, <1>4, <1>5 DEF IInv, NothingInFlight, At
<1>10. InFlightPaysCurrentPeriod'
  <2>1. \A r \in Rows : InFlight(r) => bridge[r].sub \in Subs
    BY <1>0, RowFields
  <2> QED BY <1>0, <1>4, <2>1 DEF IInv, InFlightPaysCurrentPeriod
<1>11. ClaimGuardsPull'
  BY <1>0, <1>5 DEF IInv, ClaimGuardsPull, At
<1>12. Backed'
  BY <1>0, <1>4, <1>5 DEF IInv, Backed, At
<1> QED BY <1>0, <1>6, <1>7, <1>8, <1>9, <1>10, <1>11, <1>12 DEF IInv

(***************************************************************************)
(* The invariant is inductive.                                             *)
(***************************************************************************)

\* One lemma per kind of step covers the next-state relation.
LEMMA Cases ==
  ASSUME Next
  PROVE  \/ Restart \/ Tick
         \/ \E s \in Subs : OutsideOf(s)
         \/ \E t \in Ticks : \/ CronTick(t) \/ TrialsThrow(t) \/ PassThrows(t)
                             \/ EndPass(t) \/ ReadGrants(t) \/ ReadGrantless(t)
         \/ \E t \in Ticks, s \in Subs : DunGrantless(t, s) \/ DunThrows(t, s)
         \/ \E t \in Ticks, s \in Subs :
               \/ TransitionTrial(t, s) \/ OverCap(t, s)
               \/ Insufficient(t, s) \/ PrepareThrows(t, s) \/ RedeemSeenAsFailed(t, s)
               \/ RedeemFails(t, s) \/ FinishThrows(t, s) \/ AttestationPending(t, s)
               \/ AdvanceThrows(t, s)
         \/ \E t \in Ticks, s \in Subs :
               \/ LookUpPending(t, s) \/ ClaimPeriod(t, s) \/ Redeem(t, s)
               \/ SettleDirect(t, s) \/ OpenBridge(t, s) \/ Burn(t, s)
               \/ MintAndSettle(t, s)
<1>1. CASE Outside
  BY <1>1 DEF Outside, OutsideOf
<1>2. ASSUME NEW t \in Ticks, PassStep(t)
      PROVE  \/ \E s \in Subs : OutsideOf(s)
             \/ CronTick(t) \/ TrialsThrow(t) \/ PassThrows(t) \/ EndPass(t)
             \/ ReadGrants(t) \/ ReadGrantless(t)
             \/ \E s \in Subs : DunGrantless(t, s) \/ DunThrows(t, s)
             \/ \E s \in Subs :
                   \/ TransitionTrial(t, s) \/ OverCap(t, s)
                   \/ Insufficient(t, s) \/ PrepareThrows(t, s) \/ RedeemSeenAsFailed(t, s)
                   \/ RedeemFails(t, s) \/ FinishThrows(t, s) \/ AttestationPending(t, s)
                   \/ AdvanceThrows(t, s)
             \/ \E s \in Subs :
                   \/ LookUpPending(t, s) \/ ClaimPeriod(t, s) \/ Redeem(t, s)
                   \/ SettleDirect(t, s) \/ OpenBridge(t, s) \/ Burn(t, s)
                   \/ MintAndSettle(t, s)
  BY <1>2 DEF PassStep, OutsideOf
<1> QED BY <1>1, <1>2 DEF Next

\* Nothing happens.
LEMMA Stutter == IInv /\ UNCHANGED vars => IInv'
<1> SUFFICES ASSUME IInv, UNCHANGED vars PROVE IInv'
  OBVIOUS
<1>1. TypeOK'
  BY DEF IInv, TypeOK, vars, db, inMem, hist
<1> QED BY <1>1, KeepFrame DEF vars, db, inMem, hist

\* The invariant is inductive.
LEMMA StepIInv == IInv /\ [Next]_vars => IInv'
<1> SUFFICES ASSUME IInv, [Next]_vars PROVE IInv'
  OBVIOUS
<1>1. CASE UNCHANGED vars
  BY <1>1, Stutter
<1>2. CASE Next
  BY <1>2, Cases, StepRestart, StepTick, StepOutside, StepPassLevel, StepReadGrants,
     StepReadGrantless, StepDun, StepDrop, StepLookUp, StepClaim, StepRedeem,
     StepSettleDirect, StepOpenBridge, StepBurn, StepMint
<1> QED BY <1>1, <1>2

\* The inductive invariant holds in every reachable state of the renewal engine.
THEOREM Inductive == Spec => []IInv
BY InitIInv, StepIInv, PTL DEF Spec

-----------------------------------------------------------------------------
(***************************************************************************)
(* What follows: the properties of Renewal that TLC checks on a small      *)
(* instance.  The dunning limit, the rise of a price and second pulls come *)
(* last, with invariants of their own.                                     *)
(***************************************************************************)


\* Type correctness of the daily pass and of the rows it shares with the portal.
THEOREM TypeCorrect == Spec => []TypeOK
<1>1. IInv => TypeOK
  BY DEF IInv
<1> QED BY <1>1, Inductive, PTL

\* A bridge in flight pays for the period its subscription waits for, and is the
\* subscription's only one (bridge.ts mintAndSettle closes the row and moves the
\* period in one transaction).
THEOREM PaysCurrentPeriod == Spec => []InFlightPaysCurrentPeriod
<1>1. IInv => InFlightPaysCurrentPeriod
  BY DEF IInv
<1> QED BY <1>1, Inductive, PTL

\* Whoever is about to pull, or has pulled, owns the period's claim (claims.ts).
THEOREM ClaimGuards == Spec => []ClaimGuardsPull
<1>1. IInv => ClaimGuardsPull
  BY DEF IInv
<1> QED BY <1>1, Inductive, PTL

(***************************************************************************)
(* Money and periods: only a redeem that lands takes money, only a         *)
(* settlement credits it.                                                  *)
(***************************************************************************)

\* The steps that touch neither the money nor a period end.
Quiet == /\ UNCHANGED <<collected, credited>>
         /\ \A v \in Subs : sub'[v].periodEnd = sub[v].periodEnd

\* The two redeems that land and the two settlements are the only steps that do.
LEMMA QuietSteps ==
  ASSUME IInv, [Next]_vars
  PROVE  \/ Quiet
         \/ \E t \in Ticks, s \in Subs :
               \/ Redeem(t, s) \/ RedeemSeenAsFailed(t, s)
               \/ SettleDirect(t, s) \/ MintAndSettle(t, s)
<1>1. CASE UNCHANGED vars
  BY <1>1 DEF vars, db, hist, Quiet
<1>2. CASE Restart \/ Tick
  BY <1>2 DEF Restart, Tick, db, hist, Quiet
<1>3. ASSUME NEW s \in Subs, OutsideOf(s)
      PROVE  Quiet
  BY <1>3, TypesOutside DEF IInv, Quiet
<1>4. ASSUME NEW t \in Ticks,
             \/ CronTick(t) \/ TrialsThrow(t) \/ PassThrows(t) \/ EndPass(t)
             \/ ReadGrants(t) \/ ReadGrantless(t)
      PROVE  Quiet
  BY <1>4 DEF CronTick, TrialsThrow, PassThrows, EndPass, ReadGrants, ReadGrantless,
     db, hist, Quiet
<1>5. ASSUME NEW t \in Ticks, NEW s \in Subs,
             \/ TransitionTrial(t, s) \/ DunGrantless(t, s) \/ DunThrows(t, s)
             \/ Insufficient(t, s)
      PROVE  Quiet
  <2>1. UNCHANGED <<collected, credited>>
    BY <1>5 DEF TransitionTrial, DunGrantless, DunThrows, Insufficient, hist
  <2> QED BY <1>5, <2>1, TypesSubscription DEF IInv, Quiet
<1>6. ASSUME NEW t \in Ticks, NEW s \in Subs,
             \/ OverCap(t, s) \/ PrepareThrows(t, s) \/ RedeemFails(t, s)
             \/ FinishThrows(t, s) \/ AttestationPending(t, s) \/ AdvanceThrows(t, s)
      PROVE  Quiet
  BY <1>6 DEF OverCap, OverCapOutcome, PrepareThrows, RedeemFails, FinishThrows,
     AttestationPending, AdvanceThrows, db, hist, Quiet
<1>7. ASSUME NEW t \in Ticks, NEW s \in Subs,
             LookUpPending(t, s) \/ ClaimPeriod(t, s) \/ OpenBridge(t, s) \/ Burn(t, s)
      PROVE  Quiet
  BY <1>7 DEF LookUpPending, ClaimPeriod, OpenBridge, Burn, db, hist, Quiet
<1> QED BY <1>1, <1>2, <1>3, <1>4, <1>5, <1>6, <1>7, Cases

\* A redeem that lands: the amount, and that nothing of the subscription is in
\* flight at that moment.
LEMMA RedeemStep ==
  ASSUME IInv, NEW t \in Ticks, NEW s \in Subs,
         Redeem(t, s) \/ RedeemSeenAsFailed(t, s)
  PROVE  /\ \E a \in Prices : collected' = [collected EXCEPT ![s] = @ + a]
         /\ UNCHANGED <<credited, sub>>
         /\ \A r \in Rows : ~(InFlight(r) /\ bridge[r].sub = s)
<1>1. At(t, s, {"ready"}) /\ Lands(t, s) /\ TypeOK
  BY DEF Redeem, RedeemSeenAsFailed, RedeemPhase, IInv
<1>2. job[t][s].sub.price \in Prices
  BY <1>1, Landed
<1>3. collected' = [collected EXCEPT ![s] = @ + job[t][s].sub.price]
  BY <1>1 DEF Lands
<1>4. UNCHANGED <<credited, sub>>
  BY <1>1 DEF Lands, Redeem, RedeemSeenAsFailed, db
<1>5. \A r \in Rows : ~(InFlight(r) /\ bridge[r].sub = s)
  BY <1>1 DEF IInv, NothingInFlight, At
<1> QED BY <1>2, <1>3, <1>4, <1>5

\* The wallet of a subscription that has a bridge in flight is never debited:
\* prepareRenewal resumes before it pulls, and one pass runs at a time.
THEOREM NeverPulls == Spec => NeverPullOverFlight
<1> DEFINE A == \A s \in Subs : collected'[s] # collected[s] =>
                    \A r \in Rows : ~(InFlight(r) /\ bridge[r].sub = s)
<1>1. IInv /\ [Next]_vars => [A]_vars
  <2> SUFFICES ASSUME IInv, [Next]_vars PROVE A
    OBVIOUS
  <2>1. CASE Quiet
    BY <2>1 DEF Quiet
  <2>2. ASSUME NEW t \in Ticks, NEW s \in Subs,
               Redeem(t, s) \/ RedeemSeenAsFailed(t, s)
        PROVE  A
    <3>1. \A v \in Subs : v # s => collected'[v] = collected[v]
      BY <2>2, RedeemStep DEF IInv, TypeOK
    <3> QED BY <2>2, <3>1, RedeemStep
  <2>3. ASSUME NEW t \in Ticks, NEW s \in Subs, SettleDirect(t, s) \/ MintAndSettle(t, s)
        PROVE  A
    BY <2>3, StepSettleDirect, StepMint
  <2> QED BY <2>1, <2>2, <2>3, QuietSteps
<1> QED BY <1>1, Inductive, PTL DEF Spec, NeverPullOverFlight

(***************************************************************************)
(* The engine implements the ledger.                                       *)
(***************************************************************************)

\* A step in which one subscription's period end moves one on moves nobody else's.
LEMMA OneForward ==
  ASSUME TypeOK, NEW s \in Subs, sub'[s].periodEnd = sub[s].periodEnd + 1,
         \A v \in Subs : v # s => sub'[v] = sub[v]
  PROVE  [v \in Subs |-> sub'[v].periodEnd]
             = [[v \in Subs |-> sub[v].periodEnd] EXCEPT ![s] = @ + 1]
OBVIOUS

\* Every step of the engine is a step of BillingLedger, or leaves it alone.
LEMMA LedgerStep ==
  ASSUME IInv, [Next]_vars
  PROVE  [Ledger!Next]_(Ledger!ledgerVars)
<1>1. CASE Quiet
  <2>1. [v \in Subs |-> sub'[v].periodEnd] = [v \in Subs |-> sub[v].periodEnd]
    BY <1>1 DEF Quiet
  <2> QED BY <1>1, <2>1 DEF Quiet, Ledger!ledgerVars
<1>2. ASSUME NEW t \in Ticks, NEW s \in Subs, Redeem(t, s) \/ RedeemSeenAsFailed(t, s)
      PROVE  Ledger!Collect(s)
  BY <1>2, RedeemStep DEF Ledger!Collect
<1>3. ASSUME NEW t \in Ticks, NEW s \in Subs, SettleDirect(t, s) \/ MintAndSettle(t, s)
      PROVE  Ledger!Credit(s)
  <2>1. /\ \E a \in Prices : /\ credited[s] + a <= collected[s]
                            /\ credited' = [credited EXCEPT ![s] = @ + a]
        /\ sub'[s].periodEnd = sub[s].periodEnd + 1
        /\ \A v \in Subs : v # s => sub'[v] = sub[v]
        /\ UNCHANGED collected
    <3>1. CASE SettleDirect(t, s)
      BY <3>1, StepSettleDirect
    <3>2. CASE MintAndSettle(t, s)
      BY <3>2, StepMint
    <3> QED BY <1>3, <3>1, <3>2
  <2>2. [v \in Subs |-> sub'[v].periodEnd]
            = [[v \in Subs |-> sub[v].periodEnd] EXCEPT ![s] = @ + 1]
    BY <2>1, OneForward DEF IInv
  <2> QED BY <2>1, <2>2 DEF Ledger!Credit
<1> QED BY <1>1, <1>2, <1>3, QuietSteps DEF Ledger!Next

\* What is credited was collected before, nothing is credited twice, and each
\* credit moves the period end by exactly one period: the pass, its bridges, its
\* crashes and all that happens around it implement BillingLedger.
THEOREM Refinement == Spec => ImplementsLedger
<1>1. Init => Ledger!Init
  <2> SUFFICES ASSUME Init PROVE Ledger!Init
    OBVIOUS
  <2>1. \A s \in Subs : sub[s].periodEnd = FirstEnd
    BY DEF Init
  <2> QED BY <2>1 DEF Init, Ledger!Init
<1>2. IInv /\ [Next]_vars => [Ledger!Next]_(Ledger!ledgerVars)
  BY LedgerStep
<1> QED BY <1>1, <1>2, Inductive, PTL DEF Spec, ImplementsLedger, Ledger!Spec

-----------------------------------------------------------------------------
(***************************************************************************)
(* Dunning ends: a proof that no subscription outlives its retries, for    *)
(* any retry limit of at least two.                                        *)
(*                                                                         *)
(* retryCount is written from a value read earlier (markRenewalFailed adds *)
(* one to the row the pass read), and the status is written by requests    *)
(* that do not look at retryCount at all: the plan close, the trial        *)
(* transition and the second write of a grant-revoke.  The invariant says  *)
(* what each of those writers may still assume when its write lands.       *)
(***************************************************************************)
USE MaxRetriesAssumption

\* A pass that may still dun the subscription on the row it read with the grants,
\* and one that no longer has it on its other list.
DunRead == {"prepare", "select"}
DunDone == {"select", "ready", "pulled", "burn", "attest"}

\* Every payment gives all retries back.
PaidHasAllRetries ==
    \A s \in Subs : sub[s].status \in {"active", "trialing"} => sub[s].retryCount = 0

\* A trial that a pass is about to turn active was never dunned.
TrialsUndunned ==
    \A t \in Ticks, s \in Subs : At(t, s, {"trial"}) => sub[s].retryCount = 0

\* The list of the grantless is worked off before the others are looked at.
DunFirst ==
    \A t \in Ticks, s \in Subs :
        /\ pass[t] # "collect" => dun[t][s] = NotListed
        /\ At(t, s, DunDone) => dun[t][s] = NotListed

\* The retry count a pass read is still the count, unless the pass read the
\* subscription for both lists and has worked off the first.
RetriesCurrent ==
    \A t \in Ticks, s \in Subs :
        /\ dun[t][s] # NotListed => dun[t][s] = sub[s].retryCount
        /\ At(t, s, DunRead) =>
              \/ sub[s].retryCount = job[t][s].sub.retryCount
              \/ /\ pass[t] = "collect" /\ dun[t][s] = NotListed
                 /\ sub[s].retryCount = job[t][s].sub.retryCount + 1

\* Between the two writes of a grant-revoke the subscription gets as far as one
\* attempt: the pass in progress may dun it, and no other pass starts.
PortalDunsOnce ==
    \A s \in Subs : portal[s] =>
        \/ sub[s].retryCount = 0
        \/ /\ sub[s].retryCount = 1
           /\ \A t \in Ticks :
                 /\ pass[t] \notin {"trials", "reading"}
                 /\ dun[t][s] = NotListed
                 /\ At(t, s, DunRead) => job[t][s].sub.retryCount = 0

DInv == /\ PaidHasAllRetries
        /\ TrialsUndunned
        /\ DunFirst
        /\ RetriesCurrent
        /\ PortalDunsOnce
        /\ DunningStopsAtLimit

(***************************************************************************)
(* What the writes leave behind.                                           *)
(***************************************************************************)

\* A write of the status touches nothing else.
LEMMA StatusWritten ==
  ASSUME TypeOK, NEW s \in Subs, NEW x, sub' = [sub EXCEPT ![s].status = x]
  PROVE  /\ sub'[s].status = x
         /\ sub'[s].retryCount = sub[s].retryCount
         /\ \A v \in Subs : v # s => sub'[v] = sub[v]
<1> DEFINE w == [sub[s] EXCEPT !.status = x]
<1>1. w.status = x /\ w.retryCount = sub[s].retryCount
  BY DEF TypeOK, SubRecords
<1>2. sub' = [sub EXCEPT ![s] = w]
  OBVIOUS
<1> HIDE DEF w
<1> QED BY <1>1, <1>2 DEF TypeOK

\* markRenewalFailed: one attempt more than the row that was read, or the end.
LEMMA FailureWritten ==
  ASSUME TypeOK, NEW s \in Subs, NEW n \in Nat, MarkRenewalFailed(s, n)
  PROVE  /\ sub'[s].retryCount = n + 1
         /\ \/ sub'[s].status = "cancelled"
            \/ sub'[s].status = "past_due" /\ sub'[s].retryCount < MaxRetries
         /\ \A v \in Subs : v # s => sub'[v] = sub[v]
<1> DEFINE w(x) == [sub[s] EXCEPT !.status = x, !.retryCount = n + 1]
<1>1. /\ w("cancelled").status = "cancelled" /\ w("past_due").status = "past_due"
      /\ w("cancelled").retryCount = n + 1
      /\ w("past_due").retryCount = n + 1
  BY DEF TypeOK, SubRecords
<1>2. CASE RetriesSpent(n + 1)
  <2>1. sub' = [sub EXCEPT ![s] = w("cancelled")]
    BY <1>2 DEF MarkRenewalFailed
  <2> HIDE DEF w
  <2> QED BY <1>1, <2>1 DEF TypeOK
<1>3. CASE ~RetriesSpent(n + 1)
  <2>1. sub' = [sub EXCEPT ![s] = w("past_due")]
    BY <1>3 DEF MarkRenewalFailed
  <2>2. n + 1 < MaxRetries
    BY <1>3 DEF RetriesSpent
  <2> HIDE DEF w
  <2> QED BY <1>1, <2>1, <2>2 DEF TypeOK
<1> QED BY <1>2, <1>3

\* recordRenewalSettled: active, with all retries.
LEMMA SettlementWritten ==
  ASSUME TypeOK, NEW s \in Subs, NEW q, NEW c, NEW i, NEW a,
         RecordRenewalSettled(s, q, c, i, a)
  PROVE  /\ sub'[s].retryCount = 0 /\ sub'[s].status = "active"
         /\ \A v \in Subs : v # s => sub'[v] = sub[v]
<1> DEFINE w == [sub[s] EXCEPT !.periodEnd = q.periodEnd + 1, !.status = "active",
                               !.retryCount = 0]
<1>1. w.retryCount = 0 /\ w.status = "active"
  BY DEF TypeOK, SubRecords
<1>2. sub' = [sub EXCEPT ![s] = w]
  BY DEF RecordRenewalSettled
<1> HIDE DEF w
<1> QED BY <1>1, <1>2 DEF TypeOK

\* What a step of a pass that reads nothing leaves it to do about a subscription:
\* nothing, or no more than before.
Advances(u, v) ==
    \/ pass'[u] = "idle" /\ job'[u][v] = Out /\ dun'[u][v] = NotListed
    \/ /\ pass'[u] = pass[u] /\ dun'[u][v] = dun[u][v]
       /\ At(u, v, {"trial"})' => At(u, v, {"trial"})
       /\ At(u, v, DunRead)' => At(u, v, DunRead) /\ job'[u][v].sub = job[u][v].sub
       /\ At(u, v, DunDone)' => At(u, v, DunDone) \/ dun[u][v] = NotListed

\* Where a job may go without regaining the right to dun.
Onward(t, s, j) ==
    \/ j.at = "out"
    \/ j.at \in {"ready", "pulled", "burn", "attest"} /\ At(t, s, DunDone)
    \/ j.at \in {"burn", "attest"} /\ dun[t][s] = NotListed
    \/ /\ j.at = "select" /\ dun[t][s] = NotListed
       /\ At(t, s, {"prepare"}) /\ j.sub = job[t][s].sub

\* One job moves on.
LEMMA JobMoved ==
  ASSUME TypeOK, NEW t \in Ticks, NEW s \in Subs, NEW j, Stay(t, s, j), Onward(t, s, j),
         UNCHANGED <<pass, dun>>
  PROVE  \A u \in Ticks, v \in Subs : Advances(u, v)
<1>1. /\ job'[t][s] = j
      /\ \A u \in Ticks, v \in Subs : u # t \/ v # s => job'[u][v] = job[u][v]
  BY DEF TypeOK, Stay
<1> SUFFICES ASSUME NEW u \in Ticks, NEW v \in Subs PROVE Advances(u, v)
  OBVIOUS
<1>2. CASE u = t /\ v = s
  BY <1>1, <1>2 DEF Advances, Onward, At, DunRead, DunDone
<1>3. CASE ~(u = t /\ v = s)
  BY <1>1, <1>3 DEF Advances, At
<1> QED BY <1>2, <1>3

\* A job that is dropped may dun no more.
LEMMA JobDropped ==
  ASSUME TypeOK, NEW t \in Ticks, NEW s \in Subs, Drop(t, s), UNCHANGED <<pass, dun>>
  PROVE  /\ \A u \in Ticks, v \in Subs : Advances(u, v)
         /\ ~At(t, s, DunRead)' /\ ~At(t, s, {"trial"})'
<1>1. Out.at = "out"
  BY DEF Out
<1>2. Stay(t, s, Out) /\ Onward(t, s, Out)
  BY <1>1 DEF Drop, Onward
<1>3. job'[t][s] = Out
  BY DropJobs
<1> QED BY <1>1, <1>2, <1>3, JobMoved DEF DunRead, At

(***************************************************************************)
(* Every step keeps the dunning invariant.                                 *)
(***************************************************************************)

\* Steps that leave every retry count alone, and a status that counts on one.
LEMMA CountsKept ==
  ASSUME DInv, TypeOK, TypeOK',
         \A v \in Subs :
            /\ sub'[v].retryCount = sub[v].retryCount
            /\ sub'[v].status \in {sub[v].status, "cancelled"},
         \A u \in Ticks, v \in Subs : Advances(u, v),
         \A v \in Subs : portal'[v] => portal[v]
  PROVE  DInv'
<1>1. PaidHasAllRetries'
  BY DEF DInv, PaidHasAllRetries
<1>2. TrialsUndunned'
  BY DEF DInv, TrialsUndunned, Advances, At, Out
<1>3. DunFirst'
  BY DEF DInv, DunFirst, Advances, At, Out, DunDone
<1>4. RetriesCurrent'
  BY DEF DInv, RetriesCurrent, Advances, At, Out, DunRead
<1>5. PortalDunsOnce'
  BY DEF DInv, PortalDunsOnce, Advances, At, Out, DunRead
<1>6. DunningStopsAtLimit'
  BY DEF DInv, DunningStopsAtLimit
<1> QED BY <1>1, <1>2, <1>3, <1>4, <1>5, <1>6 DEF DInv

\* The scheduler starts a pass: what it lists has not been dunned.
LEMMA DunCronTick ==
  ASSUME IInv, DInv, NEW t \in Ticks, CronTick(t)
  PROVE  DInv'
<1>0. TypeOK /\ TypeOK' /\ OnePass
  BY TypesPassLevel DEF IInv
<1>1. /\ UNCHANGED sub
      /\ \A v \in Subs : ~portal'[v]
      /\ \A u \in Ticks, v \in Subs : u # t => job'[u][v] = job[u][v]
      /\ \A v \in Subs : \/ job'[t][v] = Out
                          \/ /\ job'[t][v] = [at |-> "trial"]
                             /\ sub[v].status = "trialing"
  <2>1. /\ job' = [job EXCEPT ![t] = [v \in Subs |->
                     IF sub[v].status = "trialing" /\ sub[v].periodEnd <= now
                     THEN [at |-> "trial"] ELSE Out]]
        /\ UNCHANGED <<sub, portal>> /\ \A v \in Subs : ~portal[v]
    BY DEF CronTick, db
  <2>2. job \in [Ticks -> [Subs -> JobRecords]]
    BY <1>0 DEF TypeOK
  <2> QED BY <2>1, <2>2
<1>a. /\ UNCHANGED dun
      /\ \A v \in Subs : dun[t][v] = NotListed
      /\ \A u \in Ticks : u # t => pass'[u] = pass[u]
  BY <1>0 DEF CronTick, TypeOK, DInv, DunFirst
<1>2. \A u \in Ticks, v \in Subs :
         At(u, v, DunRead \cup DunDone)' => job'[u][v] = job[u][v] /\ u # t
  BY <1>1 DEF At, DunRead, DunDone, Out
<1>3. RetriesCurrent'
  BY <1>1, <1>a, <1>2 DEF DInv, RetriesCurrent, At
<1>5. DunFirst'
  BY <1>a, <1>2 DEF DInv, DunFirst, At
<1>4. TrialsUndunned'
  <2> SUFFICES ASSUME NEW u \in Ticks, NEW v \in Subs, At(u, v, {"trial"})'
               PROVE  sub[v].retryCount = 0
    BY <1>1 DEF TrialsUndunned
  <2>1. CASE u = t
    BY <1>1, <2>1 DEF At, Out, DInv, PaidHasAllRetries
  <2>2. CASE u # t
    BY <1>1, <2>2 DEF At, DInv, TrialsUndunned
  <2> QED BY <2>1, <2>2
<1> QED BY <1>1, <1>3, <1>4, <1>5 DEF DInv, PaidHasAllRetries, PortalDunsOnce,
           DunningStopsAtLimit

\* The first query of the pass, which was the only one in "trials".
LEMMA DunReadGrants ==
  ASSUME IInv, DInv, NEW t \in Ticks, ReadGrants(t)
  PROVE  DInv'
<1>0. TypeOK /\ TypeOK' /\ OnePass
  BY TypesPassLevel DEF IInv
<1>1. /\ pass[t] = "trials"
      /\ \A u \in Ticks : pass'[u] = IF u = t THEN "reading" ELSE pass[u]
      /\ \A u \in Ticks, v \in Subs : u # t => job'[u][v] = job[u][v]
      /\ \A v \in Subs : \/ job'[t][v] = Out
                          \/ /\ job'[t][v].at = "prepare"
                             /\ job'[t][v].sub = sub[v]
      /\ UNCHANGED <<sub, portal, dun>>
  BY <1>0 DEF ReadGrants, TypeOK, db
<1>2. RetriesCurrent'
  BY <1>1 DEF DInv, RetriesCurrent, At, DunRead, Out
<1>3. TrialsUndunned'
  BY <1>1 DEF DInv, TrialsUndunned, At, Out
<1>4. PortalDunsOnce'
  BY <1>1 DEF DInv, PortalDunsOnce
<1>5. DunFirst'
  BY <1>1 DEF DInv, DunFirst, At, DunDone, Out
<1> QED BY <1>1, <1>2, <1>3, <1>4, <1>5 DEF DInv, PaidHasAllRetries, DunningStopsAtLimit

\* The second query: what the first one read is still current.
LEMMA DunReadGrantless ==
  ASSUME IInv, DInv, NEW t \in Ticks, ReadGrantless(t)
  PROVE  DInv'
<1>0. TypeOK /\ TypeOK' /\ OnePass
  BY TypesPassLevel DEF IInv
<1>1. /\ pass[t] = "reading"
      /\ \A u \in Ticks : pass'[u] = IF u = t THEN "collect" ELSE pass[u]
      /\ \A u \in Ticks, v \in Subs : u # t => dun'[u][v] = dun[u][v]
      /\ \A v \in Subs : dun'[t][v] \in {NotListed, sub[v].retryCount}
      /\ UNCHANGED <<sub, portal, job>>
  BY <1>0 DEF ReadGrantless, TypeOK, db
<1>2. \A v \in Subs : At(t, v, {"out", "prepare"})
  BY <1>0, <1>1 DEF OnePass
<1>3. RetriesCurrent'
  BY <1>1 DEF DInv, RetriesCurrent, At
<1>4. TrialsUndunned'
  BY <1>1 DEF DInv, TrialsUndunned, At
<1>5. PortalDunsOnce'
  BY <1>1 DEF DInv, PortalDunsOnce
<1>6. DunFirst'
  BY <1>1, <1>2 DEF DInv, DunFirst, At, DunDone
<1> QED BY <1>1, <1>3, <1>4, <1>5, <1>6 DEF DInv, PaidHasAllRetries, DunningStopsAtLimit

\* A dunning, on a count that is current or one behind, by the only pass.
LEMMA DunFailure ==
  ASSUME TypeOK, DInv, NEW s \in Subs, NEW n \in Nat, MarkRenewalFailed(s, n),
         sub[s].retryCount \in {n, n + 1}, portal[s] => n = 0,
         UNCHANGED portal,
         \A u \in Ticks :
            /\ pass'[u] \notin {"trials", "reading"}
            /\ dun'[u][s] = NotListed /\ ~At(u, s, {"trial"})'
            /\ At(u, s, DunRead)' => /\ job'[u][s].sub.retryCount = n
                                   /\ pass'[u] = "collect",
         \A u \in Ticks, v \in Subs : v # s => Advances(u, v)
  PROVE  DInv'
<1>1. /\ sub'[s].retryCount = n + 1
      /\ \/ sub'[s].status = "cancelled"
         \/ sub'[s].status = "past_due" /\ sub'[s].retryCount < MaxRetries
      /\ \A v \in Subs : v # s => sub'[v] = sub[v]
  BY FailureWritten
<1>2. PaidHasAllRetries'
  BY <1>1 DEF DInv, PaidHasAllRetries
<1>3. TrialsUndunned'
  <2> SUFFICES ASSUME NEW u \in Ticks, NEW v \in Subs, At(u, v, {"trial"})'
               PROVE  sub'[v].retryCount = 0
    BY DEF TrialsUndunned
  <2>1. v # s /\ Advances(u, v)
    OBVIOUS
  <2>2. At(u, v, {"trial"})
    BY <2>1 DEF Advances, At, Out
  <2> QED BY <1>1, <2>1, <2>2 DEF DInv, TrialsUndunned
<1>4. DunFirst'
  <2> SUFFICES ASSUME NEW u \in Ticks, NEW v \in Subs
               PROVE  /\ pass'[u] # "collect" => dun'[u][v] = NotListed
                      /\ At(u, v, DunDone)' => dun'[u][v] = NotListed
    BY DEF DunFirst
  <2>1. CASE v = s
    BY <2>1
  <2>2. CASE v # s
    BY <2>2 DEF DInv, DunFirst, Advances
  <2> QED BY <2>1, <2>2
<1>5. RetriesCurrent'
  <2> SUFFICES ASSUME NEW u \in Ticks, NEW v \in Subs
               PROVE  /\ dun'[u][v] # NotListed => dun'[u][v] = sub'[v].retryCount
                      /\ At(u, v, DunRead)' =>
                            \/ sub'[v].retryCount = job'[u][v].sub.retryCount
                            \/ /\ pass'[u] = "collect" /\ dun'[u][v] = NotListed
                               /\ sub'[v].retryCount = job'[u][v].sub.retryCount + 1
    BY DEF RetriesCurrent
  <2>1. CASE v = s
    BY <1>1, <2>1
  <2>2. CASE v # s
    BY <1>1, <2>2 DEF DInv, RetriesCurrent, Advances, At, Out, DunRead
  <2> QED BY <2>1, <2>2
<1>6. PortalDunsOnce'
  <2> SUFFICES ASSUME NEW v \in Subs, portal'[v]
               PROVE  \/ sub'[v].retryCount = 0
                      \/ /\ sub'[v].retryCount = 1
                         /\ \A u \in Ticks :
                               /\ pass'[u] \notin {"trials", "reading"}
                               /\ dun'[u][v] = NotListed
                               /\ At(u, v, DunRead)' => job'[u][v].sub.retryCount = 0
    BY DEF PortalDunsOnce
  <2>1. CASE v = s
    BY <1>1, <2>1
  <2>2. CASE v # s
    BY <1>1, <2>2 DEF DInv, PortalDunsOnce, Advances, At, Out, DunRead
  <2> QED BY <2>1, <2>2
<1>7. DunningStopsAtLimit'
  BY <1>1 DEF DInv, DunningStopsAtLimit
<1> QED BY <1>2, <1>3, <1>4, <1>5, <1>6, <1>7 DEF DInv

\* While one pass collects, every other is idle and holds nothing.
LEMMA OthersIdle ==
  ASSUME IInv, DInv, NEW t \in Ticks, pass[t] = "collect"
  PROVE  /\ \A u \in Ticks : u # t => pass[u] = "idle"
         /\ \A u \in Ticks, v \in Subs : u # t => job[u][v] = Out /\ dun[u][v] = NotListed
         /\ \A u \in Ticks : pass[u] \notin {"trials", "reading"}
         /\ \A u \in Ticks, v \in Subs : ~At(u, v, {"trial"})
<1>1. \A u \in Ticks : u # t => pass[u] = "idle"
  BY DEF IInv, OnePass
<1>2. \A u \in Ticks, v \in Subs : u # t => job[u][v] = Out /\ dun[u][v] = NotListed
  BY <1>1 DEF IInv, OnePass, DInv, DunFirst
<1>3. \A v \in Subs : ~At(t, v, {"trial"})
  BY DEF IInv, OnePass
<1> QED BY <1>1, <1>2, <1>3 DEF At, Out

\* The dunning of a subscription on the grantless list.  The same pass may have it
\* among its jobs, with the count that is now one behind.
LEMMA DunListed ==
  ASSUME IInv, DInv, NEW t \in Ticks, NEW s \in Subs, DunGrantless(t, s) \/ DunThrows(t, s)
  PROVE  DInv'
<1> DEFINE n == dun[t][s]
<1>0. /\ TypeOK /\ pass[t] = "collect" /\ n # NotListed /\ MarkRenewalFailed(s, n)
      /\ UNCHANGED portal
  BY DEF IInv, DunGrantless, DunThrows
<1>1. n \in Nat
  BY <1>0 DEF TypeOK
<1>2. sub[s].retryCount = n
  BY <1>0 DEF DInv, RetriesCurrent
<1>3. portal[s] => n = 0
  BY <1>0, <1>2 DEF DInv, PortalDunsOnce
<1>4. /\ \A u \in Ticks : u # t => pass[u] = "idle"
      /\ \A u \in Ticks, v \in Subs : u # t => job[u][v] = Out /\ dun[u][v] = NotListed
      /\ \A u \in Ticks : pass[u] \notin {"trials", "reading"}
      /\ \A u \in Ticks, v \in Subs : ~At(u, v, {"trial"})
  BY <1>0, OthersIdle
<1>5. At(t, s, DunRead) => job[t][s].sub.retryCount = n
  BY <1>0, <1>2 DEF DInv, RetriesCurrent
<1>6. CASE DunGrantless(t, s)
  <2>1. /\ UNCHANGED <<pass, job>> /\ dun'[t][s] = NotListed
        /\ \A u \in Ticks, v \in Subs : u # t \/ v # s => dun'[u][v] = dun[u][v]
    BY <1>0, <1>6 DEF DunGrantless, TypeOK
  <2>2. \A u \in Ticks :
           /\ pass'[u] \notin {"trials", "reading"}
           /\ dun'[u][s] = NotListed /\ ~At(u, s, {"trial"})'
           /\ At(u, s, DunRead)' => job'[u][s].sub.retryCount = n /\ pass'[u] = "collect"
    BY <1>0, <1>4, <1>5, <2>1 DEF At, Out, DunRead
  <2>3. \A u \in Ticks, v \in Subs : v # s => Advances(u, v)
    BY <2>1 DEF Advances, At
  <2> QED BY <1>0, <1>1, <1>2, <1>3, <2>2, <2>3, DunFailure
<1>7. CASE DunThrows(t, s)
  <2>0. /\ \A u \in Ticks : pass'[u] = IF u = t THEN "idle" ELSE pass[u]
        /\ \A u \in Ticks, v \in Subs : job'[u][v] = IF u = t THEN Out ELSE job[u][v]
        /\ \A u \in Ticks, v \in Subs :
              dun'[u][v] = IF u = t THEN NotListed ELSE dun[u][v]
    BY <1>0, <1>7, OverTypes DEF DunThrows
  <2>1. \A u \in Ticks, v \in Subs :
           pass'[u] = "idle" /\ job'[u][v] = Out /\ dun'[u][v] = NotListed
    BY <1>4, <2>0
  <2>2. \A u \in Ticks :
           /\ pass'[u] \notin {"trials", "reading"}
           /\ dun'[u][s] = NotListed /\ ~At(u, s, {"trial"})' /\ ~At(u, s, DunRead)'
    BY <2>1 DEF At, Out, DunRead
  <2>3. \A u \in Ticks, v \in Subs : Advances(u, v)
    BY <2>1 DEF Advances
  <2> QED BY <1>0, <1>1, <1>2, <1>3, <2>2, <2>3, DunFailure
<1> QED BY <1>6, <1>7

\* The dunning of an empty wallet: the subscription leaves the pass.
LEMMA DunInsufficient ==
  ASSUME IInv, DInv, NEW t \in Ticks, NEW s \in Subs, Insufficient(t, s)
  PROVE  DInv'
<1> DEFINE n == job[t][s].sub.retryCount
<1>0. /\ TypeOK /\ At(t, s, {"select"}) /\ At(t, s, DunRead) /\ At(t, s, InPass)
      /\ MarkRenewalFailed(s, n) /\ Drop(t, s) /\ UNCHANGED <<portal, pass, dun>>
  BY DEF IInv, Insufficient, At, DunRead, InPass
<1>1. n \in Nat
  BY <1>0, JobFields, SubFields
<1>2. sub[s].retryCount \in {n, n + 1}
  BY <1>0 DEF DInv, RetriesCurrent
<1>3. portal[s] => n = 0
  BY <1>0, <1>1, <1>2 DEF DInv, PortalDunsOnce
<1>4. pass[t] = "collect"
  <2>1. pass[t] \in Phases
    BY <1>0 DEF TypeOK
  <2>2. job[t][s].at = "select" /\ Out.at = "out"
    BY <1>0 DEF At, Out
  <2>3. pass[t] \notin {"idle", "trials", "reading"}
    BY <2>2 DEF IInv, OnePass, At
  <2> QED BY <2>1, <2>3 DEF Phases
<1>5. dun[t][s] = NotListed
  BY <1>0 DEF DInv, DunFirst, At, DunDone
<1>6. /\ \A u \in Ticks, v \in Subs : Advances(u, v)
      /\ ~At(t, s, DunRead)' /\ ~At(t, s, {"trial"})'
  BY <1>0, JobDropped
<1>7. \A u \in Ticks :
         /\ pass'[u] \notin {"trials", "reading"}
         /\ dun'[u][s] = NotListed /\ ~At(u, s, {"trial"})' /\ ~At(u, s, DunRead)'
  <2> SUFFICES ASSUME NEW u \in Ticks
               PROVE  /\ pass'[u] \notin {"trials", "reading"}
                      /\ dun'[u][s] = NotListed
                      /\ ~At(u, s, {"trial"})' /\ ~At(u, s, DunRead)'
    OBVIOUS
  <2>1. CASE u = t
    BY <1>0, <1>4, <1>5, <1>6, <2>1
  <2>2. CASE u # t
    BY <1>0, <1>4, <1>6, <2>2, OthersIdle DEF Advances, At, Out, DunRead
  <2> QED BY <2>1, <2>2
<1> QED BY <1>0, <1>1, <1>2, <1>3, <1>6, <1>7, DunFailure

\* A payment gives the retries back, and takes the subscription out of the pass.
LEMMA DunSettled ==
  ASSUME IInv, DInv, NEW t \in Ticks, NEW s \in Subs,
         SettleDirect(t, s) \/ MintAndSettle(t, s)
  PROVE  DInv'
<1>0. /\ TypeOK /\ OnePass /\ At(t, s, DunDone) /\ Drop(t, s)
      /\ UNCHANGED <<portal, pass, dun>>
  BY DEF IInv, SettleDirect, FinishPhase, MintAndSettle, At, DunDone
<1>1. /\ sub'[s].retryCount = 0 /\ sub'[s].status = "active"
      /\ \A v \in Subs : v # s => sub'[v] = sub[v]
  BY <1>0, SettlementWritten DEF SettleDirect, MintAndSettle
<1>2. /\ \A u \in Ticks, v \in Subs : Advances(u, v)
      /\ ~At(t, s, DunRead)'
  BY <1>0, JobDropped
<1>3. \A u \in Ticks : ~At(u, s, DunRead)' /\ dun'[u][s] = NotListed
  <2>1. job[t][s] # Out
    BY <1>0 DEF At, Out, DunDone
  <2>2. \A u \in Ticks : u # t => job[u][s] = Out
    BY <1>0, <2>1, OnlyPass
  <2>3. \A u \in Ticks : u # t => ~At(u, s, DunRead)'
    BY <1>2, <2>2 DEF Advances, At, Out, DunRead
  <2>4. pass[t] = "collect"
    <3>1. pass[t] \in Phases /\ Out.at = "out"
      BY <1>0 DEF TypeOK, Out
    <3>2. pass[t] \notin {"idle", "trials", "reading"}
      BY <1>0, <3>1 DEF OnePass, At, DunDone
    <3> QED BY <3>1, <3>2 DEF Phases
  <2>5. \A u \in Ticks : u # t => dun[u][s] = NotListed
    BY <2>4, OthersIdle
  <2>6. dun[t][s] = NotListed
    BY <1>0 DEF DInv, DunFirst
  <2> QED BY <1>0, <1>2, <2>3, <2>5, <2>6
<1>4. PaidHasAllRetries' /\ DunningStopsAtLimit'
  BY <1>1 DEF DInv, PaidHasAllRetries, DunningStopsAtLimit
<1>5. TrialsUndunned'
  BY <1>1, <1>2 DEF DInv, TrialsUndunned, Advances, At, Out
<1>6. RetriesCurrent'
  BY <1>1, <1>2, <1>3 DEF DInv, RetriesCurrent, Advances, At, Out, DunRead
<1>7. PortalDunsOnce'
  BY <1>0, <1>1, <1>2 DEF DInv, PortalDunsOnce, Advances, At, Out, DunRead
<1>8. DunFirst'
  BY <1>2 DEF DInv, DunFirst, Advances
<1> QED BY <1>4, <1>5, <1>6, <1>7, <1>8 DEF DInv

\* The trial transition: active, and with all retries.
LEMMA DunTrial ==
  ASSUME IInv, DInv, NEW t \in Ticks, NEW s \in Subs, TransitionTrial(t, s)
  PROVE  DInv'
<1>0. /\ TypeOK /\ At(t, s, {"trial"}) /\ Drop(t, s)
      /\ sub' = [sub EXCEPT ![s].status = "active"]
      /\ UNCHANGED <<portal, pass, dun>>
  BY DEF IInv, TransitionTrial
<1>1. /\ sub'[s].retryCount = 0 /\ sub[s].retryCount = 0
      /\ \A v \in Subs : v # s => sub'[v] = sub[v]
  BY <1>0, StatusWritten DEF DInv, TrialsUndunned
<1>2. \A u \in Ticks, v \in Subs : Advances(u, v)
  BY <1>0, JobDropped
<1>3. PaidHasAllRetries' /\ DunningStopsAtLimit'
  BY <1>1 DEF DInv, PaidHasAllRetries, DunningStopsAtLimit
<1>4. TrialsUndunned' /\ RetriesCurrent'
  BY <1>1, <1>2 DEF DInv, TrialsUndunned, RetriesCurrent, Advances, At, Out, DunRead
<1>5. PortalDunsOnce'
  BY <1>0, <1>1, <1>2 DEF DInv, PortalDunsOnce, Advances, At, Out, DunRead
<1>6. DunFirst'
  BY <1>2 DEF DInv, DunFirst, Advances
<1> QED BY <1>3, <1>4, <1>5, <1>6 DEF DInv

\* The portal's two writes.  The first lets the second come only for a
\* subscription with all its retries, and the second spends none.
LEMMA DunPortal ==
  ASSUME IInv, DInv, NEW s \in Subs,
         MarkPastDue(s) \/ \E C \in Scopes : RevokeGrants(s, C)
  PROVE  DInv'
<1>0. TypeOK /\ UNCHANGED <<pass, dun, job>>
  BY DEF IInv, MarkPastDue, RevokeGrants, inMem
<1>1. CASE MarkPastDue(s)
  <2>1. /\ portal[s]
        /\ \A v \in Subs : portal'[v] => portal[v]
        /\ sub' = [sub EXCEPT ![s].status = "past_due"]
    BY <1>0, <1>1 DEF MarkPastDue, TypeOK
  <2>2. /\ sub'[s].status = "past_due" /\ sub'[s].retryCount = sub[s].retryCount
        /\ \A v \in Subs : v # s => sub'[v] = sub[v]
    BY <1>0, <2>1, StatusWritten
  <2>3. sub[s].retryCount \in {0, 1}
    BY <2>1 DEF DInv, PortalDunsOnce
  <2>4. DunningStopsAtLimit'
    BY <2>2, <2>3 DEF DInv, DunningStopsAtLimit
  <2>5. PaidHasAllRetries' /\ PortalDunsOnce'
    BY <1>0, <2>1, <2>2 DEF DInv, PaidHasAllRetries, PortalDunsOnce, At
  <2>6. TrialsUndunned' /\ DunFirst' /\ RetriesCurrent'
    BY <1>0, <2>2 DEF DInv, TrialsUndunned, DunFirst, RetriesCurrent, At
  <2> QED BY <2>4, <2>5, <2>6 DEF DInv
<1>2. ASSUME NEW C \in Scopes, RevokeGrants(s, C) PROVE DInv'
  <2>1. /\ UNCHANGED sub
        /\ portal'[s] => sub[s].status \in {"active", "trialing"}
        /\ \A v \in Subs : v # s => portal'[v] = portal[v]
    BY <1>0, <1>2 DEF RevokeGrants, TypeOK
  <2>2. PortalDunsOnce'
    BY <1>0, <2>1 DEF DInv, PaidHasAllRetries, PortalDunsOnce, At
  <2> QED BY <1>0, <2>1, <2>2 DEF DInv, PaidHasAllRetries, TrialsUndunned, DunFirst,
             RetriesCurrent, DunningStopsAtLimit, At
<1> QED BY <1>1, <1>2

\* A request writes no retry count, and no status but the end of the subscription;
\* the portal's two writes aside, it leaves no request half done.
LEMMA OutsideWrites ==
  ASSUME TypeOK, NEW s \in Subs, OutsideOf(s)
  PROVE  /\ \A v \in Subs : sub'[v].retryCount = sub[v].retryCount
         /\ \/ MarkPastDue(s) \/ \E C \in Scopes : RevokeGrants(s, C)
            \/ /\ UNCHANGED portal
               /\ \A v \in Subs : sub'[v].status \in {sub[v].status, "cancelled"}
<1>1. CASE MarkPastDue(s)
  <2>1. sub' = [sub EXCEPT ![s].status = "past_due"]
    BY <1>1 DEF MarkPastDue
  <2>2. \A v \in Subs : sub'[v].retryCount = sub[v].retryCount
    BY <2>1, StatusWritten
  <2> QED BY <1>1, <2>2
<1>2. CASE \E C \in Scopes : RevokeGrants(s, C)
  BY <1>2 DEF RevokeGrants
<1>3. CASE Cancel(s)
  <2>1. sub' = [sub EXCEPT ![s].status = "cancelled"] /\ UNCHANGED portal
    BY <1>3 DEF Cancel
  <2> QED BY <2>1, StatusWritten
<1>4. CASE ClosePlan(s)
  <2> DEFINE w == [sub[s] EXCEPT !.plan = "closed", !.status = "cancelled"]
  <2>1. w.status = "cancelled" /\ w.retryCount = sub[s].retryCount
    BY DEF TypeOK, SubRecords
  <2>2. sub' = [sub EXCEPT ![s] = w] /\ UNCHANGED portal
    BY <1>4 DEF ClosePlan
  <2> HIDE DEF w
  <2>3. \A v \in Subs : /\ sub'[v].retryCount = sub[v].retryCount
                        /\ sub'[v].status \in {sub[v].status, "cancelled"}
    BY <2>1, <2>2 DEF TypeOK
  <2> QED BY <2>2, <2>3
<1>5. CASE ArchivePlan(s)
  <2> DEFINE x == IF sub[s].status = "cancelled" THEN "closed" ELSE "closing"
             w == [sub[s] EXCEPT !.plan = x]
  <2>1. w.status = sub[s].status /\ w.retryCount = sub[s].retryCount
    BY DEF TypeOK, SubRecords
  <2>2. sub' = [sub EXCEPT ![s] = w] /\ UNCHANGED portal
    BY <1>5 DEF ArchivePlan
  <2> HIDE DEF w
  <2>3. \A v \in Subs : /\ sub'[v].retryCount = sub[v].retryCount
                        /\ sub'[v].status \in {sub[v].status, "cancelled"}
    BY <2>1, <2>2 DEF TypeOK
  <2> QED BY <2>2, <2>3
<1>6. CASE ChangePrice(s)
  <2>1. PICK p \in Prices : sub' = [sub EXCEPT ![s].price = p]
    BY <1>6 DEF ChangePrice
  <2> DEFINE w == [sub[s] EXCEPT !.price = p]
  <2>2. w.status = sub[s].status /\ w.retryCount = sub[s].retryCount
    BY DEF TypeOK, SubRecords
  <2>3. sub' = [sub EXCEPT ![s] = w] /\ UNCHANGED portal
    BY <1>6, <2>1 DEF ChangePrice
  <2> HIDE DEF w
  <2>4. \A v \in Subs : /\ sub'[v].retryCount = sub[v].retryCount
                        /\ sub'[v].status \in {sub[v].status, "cancelled"}
    BY <2>2, <2>3 DEF TypeOK
  <2> QED BY <2>3, <2>4
<1>7. CASE \/ \E c \in Chains : Grant(s, c) \/ ExpireGrant(s, c)
           \/ \E t \in Ticks, c \in Chains : ReconcileGrant(t, s, c)
  <2>1. UNCHANGED <<sub, portal>>
    BY <1>7 DEF Grant, ExpireGrant, ReconcileGrant
  <2> QED BY <2>1
<1> QED BY <1>1, <1>2, <1>3, <1>4, <1>5, <1>6, <1>7 DEF OutsideOf

\* Requests keep the dunning invariant.
LEMMA DunOutside ==
  ASSUME IInv, DInv, NEW s \in Subs, OutsideOf(s)
  PROVE  DInv'
<1>0. TypeOK /\ TypeOK' /\ UNCHANGED <<pass, dun, job>>
  BY TypesOutside DEF IInv
<1>1. CASE MarkPastDue(s) \/ \E C \in Scopes : RevokeGrants(s, C)
  BY <1>1, DunPortal
<1>2. CASE ~(MarkPastDue(s) \/ \E C \in Scopes : RevokeGrants(s, C))
  <2>1. /\ UNCHANGED portal
        /\ \A v \in Subs : /\ sub'[v].retryCount = sub[v].retryCount
                           /\ sub'[v].status \in {sub[v].status, "cancelled"}
    BY <1>0, <1>2, OutsideWrites
  <2> QED BY <1>0, <2>1, CountsKept DEF Advances, At
<1> QED BY <1>1, <1>2

\* The pass's other steps write no retry count and no status, and no job goes
\* back to where it may dun.
LEMMA DunQuiet ==
  ASSUME IInv, DInv, TypeOK', NEW t \in Ticks, NEW s \in Subs,
         \/ OverCap(t, s) \/ PrepareThrows(t, s) \/ RedeemSeenAsFailed(t, s)
         \/ RedeemFails(t, s) \/ FinishThrows(t, s) \/ AttestationPending(t, s)
         \/ AdvanceThrows(t, s) \/ LookUpPending(t, s) \/ ClaimPeriod(t, s)
         \/ Redeem(t, s) \/ OpenBridge(t, s) \/ Burn(t, s)
  PROVE  DInv'
<1>0. TypeOK
  BY DEF IInv
<1>1. UNCHANGED <<sub, portal, pass, dun>>
  BY DEF OverCap, OverCapOutcome, PrepareThrows, RedeemSeenAsFailed, RedeemFails,
     FinishThrows, AttestationPending, AdvanceThrows, LookUpPending, ClaimPeriod, Redeem,
     OpenBridge, Burn, db
<1>2. Drop(t, s) \/ \E j : Stay(t, s, j) /\ Onward(t, s, j)
  <2>1. CASE \/ OverCap(t, s) \/ PrepareThrows(t, s) \/ RedeemSeenAsFailed(t, s)
             \/ RedeemFails(t, s) \/ FinishThrows(t, s) \/ AttestationPending(t, s)
             \/ AdvanceThrows(t, s)
    BY <2>1 DEF OverCap, PrepareThrows, RedeemSeenAsFailed, RedeemFails,
       FinishThrows, AttestationPending, AdvanceThrows
  <2>2. CASE LookUpPending(t, s)
    <3>0. dun[t][s] = NotListed /\ At(t, s, {"prepare"})
      BY <2>2 DEF LookUpPending
    <3> DEFINE J(r) == [at |-> IF bridge[r].status = "pulled" THEN "burn" ELSE "attest",
                        sub |-> job[t][s].sub, row |-> r, resume |-> TRUE]
               k == [at |-> "select", sub |-> job[t][s].sub, group |-> job[t][s].group]
    <3>1. ASSUME NEW r \in Rows PROVE Onward(t, s, J(r))
      BY <3>0 DEF Onward
    <3>2. Onward(t, s, k)
      BY <3>0 DEF Onward
    <3>3. Stay(t, s, k) \/ \E r \in Rows : Stay(t, s, J(r))
      BY <2>2 DEF LookUpPending, PendingBridges
    <3> HIDE DEF J, k
    <3> QED BY <3>1, <3>2, <3>3
  <2>3. CASE ClaimPeriod(t, s)
    <3>1. PICK c \in Chains : \/ Drop(t, s)
                             \/ Stay(t, s, [at |-> "ready", sub |-> job[t][s].sub,
                                            chain |-> c,
                                            mandate |-> job[t][s].group[c]])
      BY <2>3 DEF ClaimPeriod, Covering
    <3> DEFINE j == [at |-> "ready", sub |-> job[t][s].sub, chain |-> c,
                     mandate |-> job[t][s].group[c]]
    <3>2. Onward(t, s, j)
      BY <2>3 DEF Onward, ClaimPeriod, At, DunDone
    <3> QED BY <3>1, <3>2
  <2>4. CASE Redeem(t, s)
    <3> DEFINE j == [job[t][s] EXCEPT !.at = "pulled"]
    <3>1. Stay(t, s, j) /\ At(t, s, DunDone)
      BY <2>4 DEF Redeem, RedeemPhase, At, DunDone
    <3>2. j.at = "pulled"
      BY <1>0, <2>4, PulledJob DEF Redeem, RedeemPhase
    <3> HIDE DEF j
    <3>3. Onward(t, s, j)
      BY <3>1, <3>2 DEF Onward
    <3> QED BY <3>1, <3>3
  <2>5. CASE OpenBridge(t, s)
    <3> DEFINE J(r) == [at |-> "burn", sub |-> job[t][s].sub, row |-> r,
                        resume |-> FALSE]
    <3>1. PICK r \in Rows : Stay(t, s, J(r))
      BY <2>5 DEF OpenBridge
    <3> DEFINE j == J(r)
    <3>2. Onward(t, s, j)
      BY <2>5 DEF Onward, OpenBridge, FinishPhase, At, DunDone
    <3> QED BY <3>1, <3>2
  <2>6. CASE Burn(t, s)
    <3> DEFINE j == [at |-> "attest", sub |-> job[t][s].sub, row |-> job[t][s].row,
                     resume |-> job[t][s].resume]
    <3>1. Onward(t, s, j) /\ Stay(t, s, j)
      BY <2>6 DEF Onward, Burn, At, DunDone
    <3> QED BY <3>1
  <2> QED BY <2>1, <2>2, <2>3, <2>4, <2>5, <2>6
<1>3. \A u \in Ticks, v \in Subs : Advances(u, v)
  BY <1>0, <1>1, <1>2, JobDropped, JobMoved
<1> QED BY <1>0, <1>1, <1>3, CountsKept

\* A pass that starts over, ends or dies, and the clock.
LEMMA DunPassLevel ==
  ASSUME IInv, DInv, TypeOK',
         \/ Restart \/ Tick \/ UNCHANGED vars
         \/ \E t \in Ticks : TrialsThrow(t) \/ PassThrows(t) \/ EndPass(t)
  PROVE  DInv'
<1>0. TypeOK
  BY DEF IInv
<1>1. UNCHANGED <<sub, portal>>
  BY DEF Restart, Tick, vars, TrialsThrow, PassThrows, EndPass, db
<1>2. \A u \in Ticks, v \in Subs : Advances(u, v)
  <2>1. CASE Tick \/ UNCHANGED vars
    BY <2>1 DEF Tick, vars, inMem, Advances, At
  <2>2. CASE Restart
    BY <2>2 DEF Restart, Advances
  <2>3. ASSUME NEW t \in Ticks, PassThrows(t) \/ EndPass(t)
        PROVE  \A u \in Ticks, v \in Subs : Advances(u, v)
    BY <1>0, <2>3, OverTypes DEF PassThrows, EndPass, Advances, At
  <2>4. ASSUME NEW t \in Ticks, TrialsThrow(t)
        PROVE  \A u \in Ticks, v \in Subs : Advances(u, v)
    <3>1. /\ UNCHANGED <<pass, dun>>
          /\ \A u \in Ticks, v \in Subs : job'[u][v] = IF u = t THEN Out ELSE job[u][v]
      BY <1>0, <2>4 DEF TrialsThrow, TypeOK
    <3> QED BY <3>1 DEF Advances, At, Out, DunRead, DunDone
  <2> QED BY <2>1, <2>2, <2>3, <2>4
<1> QED BY <1>0, <1>1, <1>2, CountsKept

(***************************************************************************)
(* Dunning ends.                                                           *)
(***************************************************************************)

\* At the start nobody was dunned.
LEMMA DunInit == Init => DInv
<1> SUFFICES ASSUME Init PROVE DInv
  OBVIOUS
<1>1. /\ \A s \in Subs : sub[s].retryCount = 0 /\ ~portal[s]
      /\ \A t \in Ticks, s \in Subs : job[t][s] = Out /\ dun[t][s] = NotListed
  BY DEF Init
<1> QED BY <1>1 DEF DInv, PaidHasAllRetries, TrialsUndunned, DunFirst, RetriesCurrent,
           PortalDunsOnce, DunningStopsAtLimit, At, DunRead, Out

\* The dunning invariant is inductive, relative to the invariant of the pass.
LEMMA DunStep == IInv /\ DInv /\ [Next]_vars => DInv'
<1> SUFFICES ASSUME IInv, DInv, [Next]_vars PROVE DInv'
  OBVIOUS
<1>1. TypeOK'
  BY StepIInv DEF IInv
<1>2. CASE UNCHANGED vars
  BY <1>1, <1>2, DunPassLevel
<1>3. CASE Next
  BY <1>1, <1>3, Cases, DunPassLevel, DunCronTick, DunReadGrants, DunReadGrantless,
     DunOutside, DunListed, DunInsufficient, DunTrial, DunSettled, DunQuiet
<1> QED BY <1>2, <1>3

\* A subscription that is not cancelled has retries left, whichever requests and
\* passes interleave: the limit of markRenewalFailed is never skipped over.
THEOREM DunningStops == Spec => []DunningStopsAtLimit
<1>1. DInv => DunningStopsAtLimit
  BY DEF DInv
<1> QED BY <1>1, DunInit, DunStep, Inductive, PTL DEF Spec

(***************************************************************************)
(* The rise of a price: what a pass that read only caps below the price    *)
(* may see of other writers before it is done with the subscription.       *)
(***************************************************************************)

\* The steps that count a failed attempt at a renewal: the two dunnings.
Duns(t, s) == DunGrantless(t, s) \/ DunThrows(t, s) \/ Insufficient(t, s)

\* Only a dunning raises a retry count, and only its own subscription's.
LEMMA RaisedByDunning ==
  ASSUME TypeOK, [Next]_vars, NEW s \in Subs,
         \A t \in Ticks : ~Duns(t, s)
  PROVE  sub'[s].retryCount <= sub[s].retryCount
<1>0. sub[s].retryCount \in Nat
  BY SubFields DEF TypeOK
<1>1. ASSUME NEW v \in Subs, OutsideOf(v) PROVE sub'[s].retryCount <= sub[s].retryCount
  BY <1>0, <1>1, OutsideWrites
<1>2. ASSUME NEW t \in Ticks, NEW v \in Subs, Duns(t, v)
      PROVE  sub'[s].retryCount <= sub[s].retryCount
  <2>1. v # s
    BY <1>2
  <2>2. CASE DunGrantless(t, v) \/ DunThrows(t, v)
    <3>1. dun[t][v] \in Nat /\ MarkRenewalFailed(v, dun[t][v])
      BY <2>2 DEF DunGrantless, DunThrows, TypeOK
    <3> QED BY <1>0, <2>1, <3>1, FailureWritten
  <2>3. CASE Insufficient(t, v)
    <3>1. job[t][v].sub.retryCount \in Nat
      BY <2>3, JobFields, SubFields DEF Insufficient, At, InPass
    <3>2. MarkRenewalFailed(v, job[t][v].sub.retryCount)
      BY <2>3 DEF Insufficient
    <3> QED BY <1>0, <2>1, <3>1, <3>2, FailureWritten
  <2> QED BY <1>2, <2>2, <2>3 DEF Duns
<1>3. ASSUME NEW t \in Ticks, NEW v \in Subs, SettleDirect(t, v) \/ MintAndSettle(t, v)
      PROVE  sub'[s].retryCount <= sub[s].retryCount
  BY <1>0, <1>3, SettlementWritten DEF SettleDirect, MintAndSettle
<1>4. ASSUME NEW t \in Ticks, NEW v \in Subs, TransitionTrial(t, v)
      PROVE  sub'[s].retryCount <= sub[s].retryCount
  BY <1>0, <1>4, StatusWritten DEF TransitionTrial
<1>5. CASE UNCHANGED sub
  BY <1>0, <1>5
<1>6. CASE \/ UNCHANGED vars \/ Restart \/ Tick
           \/ \E t \in Ticks : \/ CronTick(t) \/ TrialsThrow(t) \/ PassThrows(t)
                               \/ EndPass(t) \/ ReadGrants(t) \/ ReadGrantless(t)
  BY <1>5, <1>6 DEF vars, db, Restart, Tick, CronTick, TrialsThrow, PassThrows, EndPass,
     ReadGrants, ReadGrantless
<1>7. ASSUME NEW t \in Ticks, NEW v \in Subs,
             \/ OverCap(t, v) \/ PrepareThrows(t, v) \/ RedeemSeenAsFailed(t, v)
             \/ RedeemFails(t, v) \/ FinishThrows(t, v) \/ AttestationPending(t, v)
             \/ AdvanceThrows(t, v) \/ LookUpPending(t, v) \/ ClaimPeriod(t, v)
             \/ Redeem(t, v) \/ OpenBridge(t, v) \/ Burn(t, v)
      PROVE  UNCHANGED sub
  BY <1>7 DEF OverCap, OverCapOutcome, PrepareThrows, RedeemSeenAsFailed, RedeemFails,
     FinishThrows, AttestationPending, AdvanceThrows, LookUpPending, ClaimPeriod, Redeem,
     OpenBridge, Burn, db
<1>8. CASE UNCHANGED vars
  BY <1>6, <1>8
<1>9. CASE Next
  BY <1>1, <1>2, <1>3, <1>4, <1>5, <1>6, <1>7, <1>9, Cases DEF Duns
<1> QED BY <1>8, <1>9

\* While a pass stands before the choice of a chain and none of its caps covers the
\* price, nothing duns the subscription: the pass's own list of the grantless is
\* done, no other pass is awake, and the empty wallet is asked only of a chain that
\* covers.
LEMMA NotDunnedOverCap ==
  ASSUME IInv, DInv, NEW t \in Ticks, NEW s \in Subs,
         At(t, s, {"select"}), Covering(t, s) = {}, NEW u \in Ticks
  PROVE  ~Duns(u, s)
<1>1. pass[t] = "collect"
  <2>1. pass[t] \in Phases /\ job[t][s].at = "select" /\ Out.at = "out"
    BY DEF IInv, TypeOK, At, Out
  <2>2. pass[t] \notin {"idle", "trials", "reading"}
    BY <2>1 DEF IInv, OnePass, At
  <2> QED BY <2>1, <2>2 DEF Phases
<1>2. dun[t][s] = NotListed
  BY DEF DInv, DunFirst, At, DunDone
<1>3. u # t => dun[u][s] = NotListed /\ job[u][s] = Out
  BY <1>1, OthersIdle
<1>4. ~DunGrantless(u, s) /\ ~DunThrows(u, s)
  BY <1>2, <1>3 DEF DunGrantless, DunThrows
<1>5. ~Insufficient(u, s)
  BY <1>3 DEF Insufficient, At, Out
<1> QED BY <1>4, <1>5 DEF Duns

\* A price the subscriber never signed for costs no retry, whoever else writes
\* the subscription while the pass holds its stale snapshot.
THEOREM PriceRiseIsNotDunned == Spec => PriceRiseNeverDuns
<1> DEFINE A == \A t \in Ticks, s \in Subs :
                    /\ At(t, s, {"select"})
                    /\ Covering(t, s) = {}
                    => sub'[s].retryCount <= sub[s].retryCount
<1>1. IInv /\ DInv /\ [Next]_vars => [A]_vars
  <2> SUFFICES ASSUME IInv, DInv, [Next]_vars,
                      NEW t \in Ticks, NEW s \in Subs,
                      At(t, s, {"select"}), Covering(t, s) = {}
               PROVE  sub'[s].retryCount <= sub[s].retryCount
    OBVIOUS
  <2>1. \A u \in Ticks : ~Duns(u, s)
    BY NotDunnedOverCap
  <2> QED BY <2>1, RaisedByDunning DEF IInv
<1> QED BY <1>1, DunInit, DunStep, Inductive, PTL DEF Spec, PriceRiseNeverDuns

-----------------------------------------------------------------------------
(***************************************************************************)
(* A second pull for a period: what stands between it and a subscriber is  *)
(* the claim, a bridge in flight, or the period end that has moved on.     *)
(***************************************************************************)

\* Whoever has paid for a period is done with it, or it is the current one, and its
\* claim or a bridge still says so, unless the claim was given back.
PaidKeysKnown ==
    \A s \in Subs : \A k \in pulledKeys[s] :
        /\ k <= sub[s].periodEnd
        /\ k = sub[s].periodEnd =>
              \/ <<s, k>> \in claims \cup givenBack
              \/ PendingBridges(s) # {}

\* A pass about to pull is the first to, unless the claim was given back.
ReadyIsFirst ==
    \A t \in Ticks, s \in Subs : At(t, s, {"ready"}) =>
        \/ KeyOf(job[t][s].sub) \notin pulledKeys[s]
        \/ <<s, KeyOf(job[t][s].sub)>> \in givenBack

ClaimsInv == IInv /\ PaidKeysKnown /\ ReadyIsFirst

\* A bridge row stays in flight until its mint, and the mint of a subscription's
\* row ends nobody else's.
LEMMA BridgesStay ==
  ASSUME IInv, [Next]_vars
  PROVE  \/ \A r \in Rows : InFlight(r) => InFlight(r)' /\ bridge'[r].sub = bridge[r].sub
         \/ \E t \in Ticks, s \in Subs :
               /\ MintAndSettle(t, s)
               /\ \A r \in Rows : InFlight(r) /\ bridge[r].sub # s =>
                     InFlight(r)' /\ bridge'[r].sub = bridge[r].sub
<1> DEFINE Stays == \A r \in Rows :
                       InFlight(r) => InFlight(r)' /\ bridge'[r].sub = bridge[r].sub
<1>0. TypeOK
  BY DEF IInv
<1>1. CASE bridge' = bridge
  BY <1>1 DEF InFlight
<1>2. ASSUME NEW t \in Ticks, NEW s \in Subs, OpenBridge(t, s)
      PROVE  Stays
  <2>1. PICK r \in Rows : /\ ~InFlight(r)
                          /\ \E b : bridge' = [bridge EXCEPT ![r] = b]
    BY <1>2 DEF OpenBridge
  <2>2. \A q \in Rows : q # r => bridge'[q] = bridge[q]
    BY <1>0, <2>1 DEF TypeOK
  <2> QED BY <2>1, <2>2 DEF InFlight
<1>3. ASSUME NEW t \in Ticks, NEW s \in Subs, Burn(t, s)
      PROVE  Stays
  <2> DEFINE d == job[t][s].row
             b == [bridge[d] EXCEPT !.status = "burned"]
  <2>1. d \in Rows /\ InFlight(d)
    BY <1>0, <1>3, JobFields DEF Burn, At, IInv, DrivenRows
  <2>2. bridge[d] \in RowRecords
    BY <1>0, <2>1, RowFields
  <2>3. b.status = "burned" /\ b.sub = bridge[d].sub
    BY <2>2 DEF RowRecords
  <2>4. bridge' = [bridge EXCEPT ![d] = b]
    BY <1>3 DEF Burn
  <2> HIDE DEF b, d
  <2>5. bridge'[d] = b /\ \A q \in Rows : q # d => bridge'[q] = bridge[q]
    BY <1>0, <2>1, <2>4 DEF TypeOK
  <2> QED BY <2>3, <2>5 DEF InFlight
<1>4. ASSUME NEW t \in Ticks, NEW s \in Subs, MintAndSettle(t, s)
      PROVE  \A r \in Rows : InFlight(r) /\ bridge[r].sub # s =>
                InFlight(r)' /\ bridge'[r].sub = bridge[r].sub
  <2> DEFINE d == job[t][s].row
  <2>1. d \in Rows /\ bridge[d].sub = s
    BY <1>0, <1>4, JobFields DEF MintAndSettle, At, IInv, DrivenRows
  <2>2. \A q \in Rows : q # d => bridge'[q] = bridge[q]
    BY <1>0, <1>4 DEF MintAndSettle, TypeOK
  <2> QED BY <2>1, <2>2 DEF InFlight
<1>5. CASE UNCHANGED vars
  BY <1>1, <1>5 DEF vars, db
<1>6. CASE Restart \/ Tick
  BY <1>1, <1>6 DEF Restart, Tick, db
<1>7. ASSUME NEW s \in Subs, OutsideOf(s)
      PROVE  bridge' = bridge
  BY <1>0, <1>7, TypesOutside
<1>8. ASSUME NEW t \in Ticks,
             \/ CronTick(t) \/ TrialsThrow(t) \/ PassThrows(t) \/ EndPass(t)
             \/ ReadGrants(t) \/ ReadGrantless(t)
      PROVE  bridge' = bridge
  BY <1>8 DEF CronTick, TrialsThrow, PassThrows, EndPass, ReadGrants, ReadGrantless, db
<1>9. ASSUME NEW t \in Ticks, NEW s \in Subs,
             \/ DunGrantless(t, s) \/ DunThrows(t, s)
             \/ TransitionTrial(t, s) \/ OverCap(t, s)
             \/ Insufficient(t, s) \/ PrepareThrows(t, s) \/ RedeemSeenAsFailed(t, s)
             \/ RedeemFails(t, s) \/ FinishThrows(t, s) \/ AttestationPending(t, s)
             \/ AdvanceThrows(t, s) \/ LookUpPending(t, s) \/ ClaimPeriod(t, s)
             \/ Redeem(t, s) \/ SettleDirect(t, s)
      PROVE  bridge' = bridge
  BY <1>9 DEF DunGrantless, DunThrows, TransitionTrial, OverCap, Insufficient,
     PrepareThrows, RedeemSeenAsFailed, RedeemFails, FinishThrows, AttestationPending,
     AdvanceThrows, LookUpPending, ClaimPeriod, Redeem, SettleDirect, db
<1> QED BY <1>1, <1>2, <1>3, <1>4, <1>5, <1>6, <1>7, <1>8, <1>9, Cases

\* Either a subscription's period end stays, and what is in flight for it too, or a
\* settlement moves the period end on, and takes no money.
LEMMA PeriodStaysOrSettles ==
  ASSUME IInv, [Next]_vars, NEW s \in Subs
  PROVE  \/ /\ sub'[s].periodEnd = sub[s].periodEnd
            /\ PendingBridges(s) # {} => PendingBridges(s)' # {}
         \/ /\ sub'[s].periodEnd = sub[s].periodEnd + 1
            /\ pulledKeys' = pulledKeys
<1> DEFINE Keeps == PendingBridges(s) # {} => PendingBridges(s)' # {}
<1>1. ASSUME NEW t \in Ticks, NEW v \in Subs, SettleDirect(t, v) \/ MintAndSettle(t, v)
      PROVE  /\ pulledKeys' = pulledKeys
             /\ v = s => sub'[s].periodEnd = sub[s].periodEnd + 1
             /\ v # s => sub'[s].periodEnd = sub[s].periodEnd
  <2>1. pulledKeys' = pulledKeys
    BY <1>1 DEF SettleDirect, MintAndSettle, RecordRenewalSettled
  <2> QED BY <1>1, <2>1, StepSettleDirect, StepMint
<1>2. Keeps \/ \E t \in Ticks : MintAndSettle(t, s)
  <2>1. CASE \A r \in Rows : InFlight(r) => InFlight(r)' /\ bridge'[r].sub = bridge[r].sub
    BY <2>1 DEF PendingBridges
  <2>2. ASSUME NEW t \in Ticks, NEW v \in Subs, MintAndSettle(t, v), v # s,
               \A r \in Rows : InFlight(r) /\ bridge[r].sub # v =>
                  InFlight(r)' /\ bridge'[r].sub = bridge[r].sub
        PROVE  Keeps
    BY <2>2 DEF PendingBridges
  <2> QED BY <2>1, <2>2, BridgesStay
<1>3. CASE Quiet
  <2>1. ~\E t \in Ticks : MintAndSettle(t, s)
    <3>1. sub[s].periodEnd \in Nat
      BY SubFields DEF IInv, TypeOK
    <3>2. sub'[s].periodEnd = sub[s].periodEnd
      BY <1>3 DEF Quiet
    <3> QED BY <1>1, <3>1, <3>2
  <2> QED BY <1>2, <1>3, <2>1 DEF Quiet
<1>4. ASSUME NEW t \in Ticks, NEW v \in Subs, Redeem(t, v) \/ RedeemSeenAsFailed(t, v)
      PROVE  /\ sub'[s].periodEnd = sub[s].periodEnd
             /\ Keeps
  <2>1. sub' = sub
    BY <1>4, RedeemStep
  <2>2. bridge' = bridge
    BY <1>4 DEF Redeem, RedeemSeenAsFailed, db
  <2> QED BY <2>1, <2>2 DEF PendingBridges, InFlight
<1> QED BY <1>1, <1>2, <1>3, <1>4, QuietSteps

\* Only a redeem that lands takes money for a period: the current one, under its
\* claim, with nothing in flight.
LEMMA RedeemPays ==
  ASSUME IInv, NEW t \in Ticks, NEW s \in Subs,
         Redeem(t, s) \/ RedeemSeenAsFailed(t, s)
  PROVE  /\ At(t, s, {"ready"}) /\ ~At(t, s, {"ready"})'
         /\ KeyOf(job[t][s].sub) = sub[s].periodEnd
         /\ pulledKeys'[s] = pulledKeys[s] \cup {sub[s].periodEnd}
         /\ \A v \in Subs : v # s => pulledKeys'[v] = pulledKeys[v]
         /\ <<s, sub[s].periodEnd>> \in claims
         /\ UNCHANGED sub
<1>1. At(t, s, {"ready"}) /\ Lands(t, s) /\ TypeOK
  BY DEF Redeem, RedeemSeenAsFailed, RedeemPhase, IInv
<1>2. At(t, s, InPass) /\ At(t, s, {"ready", "pulled"})
  BY <1>1 DEF At, InPass
<1>3. KeyOf(job[t][s].sub) = sub[s].periodEnd
  BY <1>2 DEF IInv, SnapshotsCurrent, KeyOf
<1>4. <<s, sub[s].periodEnd>> \in claims
  BY <1>2, <1>3 DEF IInv, ClaimGuardsPull
<1>5. /\ pulledKeys'[s] = pulledKeys[s] \cup {sub[s].periodEnd}
      /\ \A v \in Subs : v # s => pulledKeys'[v] = pulledKeys[v]
  BY <1>1, <1>3 DEF Lands, TypeOK
<1>6. ~At(t, s, {"ready"})'
  <2>1. CASE Redeem(t, s)
    <3> DEFINE j == [job[t][s] EXCEPT !.at = "pulled"]
    <3>1. j \in JobRecords /\ j.at = "pulled"
      BY <1>1, PulledJob
    <3>2. Stay(t, s, j)
      BY <2>1 DEF Redeem
    <3> HIDE DEF j
    <3>3. job'[t][s] = j
      BY <1>1, <3>1, <3>2, StayJobs
    <3> QED BY <3>1, <3>3 DEF At
  <2>2. CASE RedeemSeenAsFailed(t, s)
    BY <1>1, <2>2, DropJobs DEF RedeemSeenAsFailed, At, Out
  <2> QED BY <2>1, <2>2
<1> QED BY <1>1, <1>3, <1>4, <1>5, <1>6, RedeemStep

\* And every other step takes none.
LEMMA NothingPulled ==
  ASSUME IInv, [Next]_vars
  PROVE  \/ pulledKeys' = pulledKeys
         \/ \E t \in Ticks, s \in Subs : Redeem(t, s) \/ RedeemSeenAsFailed(t, s)
<1>1. CASE UNCHANGED vars
  BY <1>1 DEF vars, hist
<1>2. CASE Restart \/ Tick
  BY <1>2 DEF Restart, Tick, hist
<1>3. ASSUME NEW s \in Subs, OutsideOf(s)
      PROVE  pulledKeys' = pulledKeys
  BY <1>3, TypesOutside DEF IInv
<1>4. ASSUME NEW t \in Ticks,
             \/ CronTick(t) \/ TrialsThrow(t) \/ PassThrows(t) \/ EndPass(t)
             \/ ReadGrants(t) \/ ReadGrantless(t)
      PROVE  pulledKeys' = pulledKeys
  BY <1>4 DEF CronTick, TrialsThrow, PassThrows, EndPass, ReadGrants, ReadGrantless, hist
<1>5. ASSUME NEW t \in Ticks, NEW s \in Subs,
             \/ DunGrantless(t, s) \/ DunThrows(t, s)
             \/ TransitionTrial(t, s) \/ OverCap(t, s)
             \/ Insufficient(t, s) \/ PrepareThrows(t, s)
             \/ RedeemFails(t, s) \/ FinishThrows(t, s) \/ AttestationPending(t, s)
             \/ AdvanceThrows(t, s) \/ LookUpPending(t, s) \/ ClaimPeriod(t, s)
             \/ SettleDirect(t, s) \/ OpenBridge(t, s) \/ Burn(t, s)
             \/ MintAndSettle(t, s)
      PROVE  pulledKeys' = pulledKeys
  BY <1>5 DEF DunGrantless, DunThrows, TransitionTrial, OverCap, Insufficient,
     PrepareThrows, RedeemFails, FinishThrows, AttestationPending, AdvanceThrows,
     LookUpPending, ClaimPeriod, SettleDirect, OpenBridge, Burn, MintAndSettle,
     RecordRenewalSettled, hist
<1> QED BY <1>1, <1>2, <1>3, <1>4, <1>5, Cases

\* A pass gets ready to pull by claiming the period, and stays so untouched.
LEMMA ReadyByClaim ==
  ASSUME IInv, [Next]_vars, NEW t \in Ticks, NEW s \in Subs, At(t, s, {"ready"})'
  PROVE  job'[t][s] = job[t][s] \/ ClaimPeriod(t, s)
<1>0. TypeOK
  BY DEF IInv
<1>1. CASE UNCHANGED vars \/ Tick
  BY <1>1 DEF vars, inMem, Tick
<1>2. CASE Restart
  BY <1>2 DEF Restart, At, Out
<1>3. ASSUME NEW v \in Subs, OutsideOf(v)
      PROVE  job'[t][s] = job[t][s]
  BY <1>0, <1>3, TypesOutside
<1>4. ASSUME NEW u \in Ticks, CronTick(u) \/ TrialsThrow(u) \/ ReadGrants(u)
      PROVE  job'[t][s] = job[t][s]
  <2>1. CASE u # t
    BY <1>0, <1>4, <2>1 DEF CronTick, TrialsThrow, ReadGrants, TypeOK
  <2>2. CASE u = t
    <3>1. job'[t][s].at \in {"out", "trial", "prepare"}
      BY <1>0, <1>4, <2>2 DEF CronTick, TrialsThrow, ReadGrants, TypeOK, Out
    <3> QED BY <3>1 DEF At
  <2> QED BY <2>1, <2>2
<1>5. ASSUME NEW u \in Ticks, NEW v \in Subs,
             PassThrows(u) \/ EndPass(u) \/ DunThrows(u, v)
      PROVE  job'[t][s] = job[t][s]
  BY <1>0, <1>5, OverTypes DEF PassThrows, EndPass, DunThrows, At, Out
<1>6. ASSUME NEW u \in Ticks, NEW v \in Subs, ReadGrantless(u) \/ DunGrantless(u, v)
      PROVE  job'[t][s] = job[t][s]
  BY <1>6 DEF ReadGrantless, DunGrantless
<1>7. ASSUME NEW u \in Ticks, NEW v \in Subs,
             \/ TransitionTrial(u, v) \/ OverCap(u, v)
             \/ Insufficient(u, v) \/ PrepareThrows(u, v) \/ RedeemSeenAsFailed(u, v)
             \/ RedeemFails(u, v) \/ FinishThrows(u, v) \/ AttestationPending(u, v)
             \/ AdvanceThrows(u, v) \/ SettleDirect(u, v) \/ MintAndSettle(u, v)
      PROVE  job'[t][s] = job[t][s]
  <2>1. Drop(u, v)
    BY <1>7 DEF TransitionTrial, OverCap, Insufficient, PrepareThrows,
       RedeemSeenAsFailed, RedeemFails, FinishThrows, AttestationPending,
       AdvanceThrows, SettleDirect, MintAndSettle
  <2> QED BY <1>0, <2>1, DropJobs DEF At, Out
<1>8. ASSUME NEW u \in Ticks, NEW v \in Subs,
             LookUpPending(u, v) \/ OpenBridge(u, v) \/ Burn(u, v) \/ Redeem(u, v)
      PROVE  job'[t][s] = job[t][s]
  <2>1. \E j : Stay(u, v, j) /\ j.at # "ready"
    <3>1. CASE LookUpPending(u, v)
      <4> DEFINE J(r) == [at |-> IF bridge[r].status = "pulled" THEN "burn" ELSE "attest",
                          sub |-> job[u][v].sub, row |-> r, resume |-> TRUE]
                 k == [at |-> "select", sub |-> job[u][v].sub, group |-> job[u][v].group]
      <4>1. k.at # "ready" /\ \A r \in Rows : J(r).at # "ready"
        OBVIOUS
      <4>2. Stay(u, v, k) \/ \E r \in Rows : Stay(u, v, J(r))
        BY <3>1 DEF LookUpPending, PendingBridges
      <4> HIDE DEF J, k
      <4> QED BY <4>1, <4>2
    <3>2. CASE OpenBridge(u, v)
      BY <3>2 DEF OpenBridge
    <3>3. CASE Burn(u, v)
      BY <3>3 DEF Burn
    <3>4. CASE Redeem(u, v)
      BY <1>0, <3>4, PulledJob DEF Redeem, RedeemPhase
    <3> QED BY <1>8, <3>1, <3>2, <3>3, <3>4
  <2> QED BY <1>0, <2>1 DEF Stay, TypeOK, At
<1>9. ASSUME NEW u \in Ticks, NEW v \in Subs, ClaimPeriod(u, v), ~ClaimPeriod(t, s)
      PROVE  job'[t][s] = job[t][s]
  <2>1. \E j : Stay(u, v, j)
    BY <1>9 DEF ClaimPeriod, Drop
  <2> QED BY <1>0, <1>9, <2>1 DEF Stay, TypeOK
<1> QED BY <1>1, <1>2, <1>3, <1>4, <1>5, <1>6, <1>7, <1>8, <1>9, Cases

\* Who deletes a claim: the catch of a preparation or of a redeem; or the one of a
\* resumed bridge, and then the row is in flight or has just settled the period.
LEMMA Releases ==
  ASSUME IInv, [Next]_vars, NEW s \in Subs, NEW k \in Nat,
         <<s, k>> \in claims, <<s, k>> \notin claims'
  PROVE  \/ \E t \in Ticks : Caught(t, s)
         \/ PendingBridges(s)' # {}
         \/ sub'[s].periodEnd # k
<1>0. TypeOK
  BY DEF IInv
<1>1. claims' # claims
  OBVIOUS
<1>2. ASSUME NEW t \in Ticks, NEW v \in Subs,
             \/ Insufficient(t, v) \/ PrepareThrows(t, v)
             \/ RedeemSeenAsFailed(t, v) \/ RedeemFails(t, v)
      PROVE  Caught(t, s)
  <2>1. At(t, v, {"select", "ready"}) /\ ReleaseClaim(t, v) /\ Drop(t, v) /\ pass' = pass
    BY <1>2 DEF Insufficient, PrepareThrows, RedeemSeenAsFailed, RedeemFails,
       RedeemPhase, At
  <2>2. v = s
    BY <2>1 DEF ReleaseClaim
  <2> QED BY <1>0, <2>1, <2>2, DropJobs DEF Caught
<1>3. ASSUME NEW t \in Ticks, NEW v \in Subs, AdvanceThrows(t, v)
      PROVE  PendingBridges(s)' # {}
  <2>1. At(t, v, {"burn", "attest"}) /\ v = s /\ bridge' = bridge
    BY <1>1, <1>3 DEF AdvanceThrows, ReleaseClaim
  <2>2. job[t][s].row \in PendingBridges(s)
    BY <1>0, <2>1, JobFields DEF IInv, DrivenRows, PendingBridges
  <2> QED BY <2>1, <2>2 DEF PendingBridges, InFlight
<1>4. ASSUME NEW t \in Ticks, NEW v \in Subs, MintAndSettle(t, v)
      PROVE  sub'[s].periodEnd # k
  <2>1. At(t, v, InPass) /\ v = s /\ k = KeyOf(job[t][v].sub)
    BY <1>1, <1>4 DEF MintAndSettle, ReleaseClaim, At, InPass
  <2>2. sub'[s].periodEnd = k + 1
    BY <1>4, <2>1, StepMint DEF IInv, SnapshotsCurrent, KeyOf
  <2> QED BY <2>2
<1>5. ~UNCHANGED vars /\ ~Restart /\ ~Tick
  BY <1>1 DEF vars, Restart, Tick, db
<1>6. ASSUME NEW v \in Subs, OutsideOf(v)
      PROVE  FALSE
  BY <1>0, <1>1, <1>6, TypesOutside
<1>7. ASSUME NEW t \in Ticks,
             \/ CronTick(t) \/ TrialsThrow(t) \/ PassThrows(t) \/ EndPass(t)
             \/ ReadGrants(t) \/ ReadGrantless(t)
      PROVE  FALSE
  BY <1>1, <1>7 DEF CronTick, TrialsThrow, PassThrows, EndPass, ReadGrants,
     ReadGrantless, db
<1>8. ASSUME NEW t \in Ticks, NEW v \in Subs,
             \/ DunGrantless(t, v) \/ DunThrows(t, v) \/ TransitionTrial(t, v)
             \/ OverCap(t, v) \/ FinishThrows(t, v) \/ AttestationPending(t, v)
             \/ LookUpPending(t, v) \/ ClaimPeriod(t, v) \/ Redeem(t, v)
             \/ SettleDirect(t, v) \/ OpenBridge(t, v) \/ Burn(t, v)
      PROVE  FALSE
  BY <1>1, <1>8 DEF DunGrantless, DunThrows, TransitionTrial, OverCap, FinishThrows,
     AttestationPending, LookUpPending, ClaimPeriod, Redeem, SettleDirect, OpenBridge,
     Burn, db
<1> QED BY <1>2, <1>3, <1>4, <1>5, <1>6, <1>7, <1>8, Cases

\* So a claim of the current period stays, or its deletion is on record, or a bridge
\* tells of the pull.
LEMMA ClaimOrRecord ==
  ASSUME IInv, [Next]_vars, GiveBack, NEW s \in Subs, NEW k \in Nat,
         <<s, k>> \in claims \cup givenBack, k \in pulledKeys'[s],
         k = sub'[s].periodEnd
  PROVE  \/ <<s, k>> \in claims' \cup givenBack'
         \/ PendingBridges(s)' # {}
BY Releases DEF GiveBack

\* Every step keeps what is known of the periods that were paid.
LEMMA StepPaidKeys ==
  ASSUME ClaimsInv, [Next]_vars, GiveBack
  PROVE  PaidKeysKnown'
<1>0. IInv /\ IInv' /\ TypeOK /\ TypeOK' /\ PaidKeysKnown
  BY StepIInv DEF ClaimsInv, IInv
<1> SUFFICES ASSUME NEW s \in Subs, NEW k \in pulledKeys'[s]
             PROVE  /\ k <= sub'[s].periodEnd
                    /\ k = sub'[s].periodEnd =>
                          \/ <<s, k>> \in claims' \cup givenBack'
                          \/ PendingBridges(s)' # {}
  BY DEF PaidKeysKnown
<1>1. k \in Nat /\ sub[s].periodEnd \in Nat /\ sub'[s].periodEnd \in Nat
  BY <1>0, SubFields DEF TypeOK
<1>2. CASE k \in pulledKeys[s]
  <2>1. /\ k <= sub[s].periodEnd
        /\ k = sub[s].periodEnd =>
              \/ <<s, k>> \in claims \cup givenBack
              \/ PendingBridges(s) # {}
    BY <1>0, <1>2 DEF PaidKeysKnown
  <2>2. CASE sub'[s].periodEnd = sub[s].periodEnd + 1
    BY <1>1, <2>1, <2>2
  <2>3. CASE /\ sub'[s].periodEnd = sub[s].periodEnd
             /\ PendingBridges(s) # {} => PendingBridges(s)' # {}
    BY <1>0, <1>1, <2>1, <2>3, ClaimOrRecord
  <2> QED BY <1>0, <2>2, <2>3, PeriodStaysOrSettles
<1>3. CASE k \notin pulledKeys[s]
  <2>1. PICK t \in Ticks, v \in Subs : Redeem(t, v) \/ RedeemSeenAsFailed(t, v)
    BY <1>0, <1>3, NothingPulled
  <2>2. /\ v = s
        /\ k = sub[s].periodEnd /\ <<s, k>> \in claims
        /\ sub' = sub
    BY <1>0, <1>3, <2>1, RedeemPays
  <2> QED BY <1>0, <1>1, <2>2, ClaimOrRecord
<1> QED BY <1>2, <1>3

\* Every step keeps the pass that is about to pull the first one to.
LEMMA StepReadyIsFirst ==
  ASSUME ClaimsInv, [Next]_vars, GiveBack
  PROVE  ReadyIsFirst'
<1>0. IInv /\ TypeOK /\ OnePass /\ PaidKeysKnown /\ ReadyIsFirst
  BY DEF ClaimsInv, IInv
<1> SUFFICES ASSUME NEW t \in Ticks, NEW s \in Subs, At(t, s, {"ready"})'
             PROVE  \/ KeyOf(job'[t][s].sub) \notin pulledKeys'[s]
                    \/ <<s, KeyOf(job'[t][s].sub)>> \in givenBack'
  BY DEF ReadyIsFirst, KeyOf
<1>1. givenBack \subseteq givenBack'
  BY DEF GiveBack
<1>2. CASE ClaimPeriod(t, s)
  <2> DEFINE k == KeyOf(job[t][s].sub)
  <2>1. At(t, s, {"select"}) /\ At(t, s, {"select", "ready", "pulled"}) /\ At(t, s, InPass)
    BY <1>2 DEF ClaimPeriod, At, InPass
  <2>2. k = sub[s].periodEnd /\ PendingBridges(s) = {}
    BY <1>0, <2>1 DEF IInv, SnapshotsCurrent, NothingInFlight, KeyOf, PendingBridges
  <2>3. <<s, k>> \notin claims /\ job'[t][s].sub = job[t][s].sub
    <3>1. ~Drop(t, s)
      BY <1>0, DropJobs DEF At, Out
    <3>2. /\ <<s, k>> \notin claims
          /\ \E c : Stay(t, s, [at |-> "ready", sub |-> job[t][s].sub, chain |-> c,
                                mandate |-> job[t][s].group[c]])
      BY <1>2, <3>1 DEF ClaimPeriod
    <3> QED BY <1>0, <3>2 DEF Stay, TypeOK
  <2>4. pulledKeys' = pulledKeys
    BY <1>2 DEF ClaimPeriod, hist
  <2>5. k \in pulledKeys[s] => <<s, k>> \in givenBack
    BY <1>0, <2>2, <2>3 DEF PaidKeysKnown
  <2> QED BY <1>1, <2>3, <2>4, <2>5
<1>3. CASE job'[t][s] = job[t][s]
  <2>1. At(t, s, {"ready"}) /\ job[t][s] # Out
    BY <1>3 DEF At, Out
  <2>2. pulledKeys'[s] = pulledKeys[s]
    <3> SUFFICES ASSUME NEW u \in Ticks, NEW v \in Subs,
                        Redeem(u, v) \/ RedeemSeenAsFailed(u, v)
                 PROVE  v # s
      BY <1>0, NothingPulled, RedeemPays
    <3>1. At(u, v, {"ready"}) /\ ~At(u, v, {"ready"})'
      BY <1>0, RedeemPays
    <3>2. u = t
      BY <1>0, <2>1, <3>1, OnlyPass DEF At, Out
    <3> QED BY <3>1, <3>2
  <2> QED BY <1>0, <1>1, <1>3, <2>1, <2>2 DEF ReadyIsFirst, KeyOf
<1> QED BY <1>0, <1>2, <1>3, ReadyByClaim

\* The invariant is inductive.
LEMMA StepClaimsInv == ClaimsInv /\ [ClaimsNext]_claimVars => ClaimsInv'
<1> SUFFICES ASSUME ClaimsInv, [ClaimsNext]_claimVars PROVE ClaimsInv'
  OBVIOUS
<1>1. [Next]_vars /\ GiveBack
  BY DEF ClaimsNext, claimVars, GiveBack, vars, db
<1> QED BY <1>1, StepIInv, StepPaidKeys, StepReadyIsFirst DEF ClaimsInv

\* A period that was paid is known by its RenewalClaim, by a bridge in flight or by
\* the period end, except for the claims that a catch gave back (releaseClaim).
THEOREM ClaimsInductive == ClaimsSpec => []ClaimsInv
<1>1. ClaimsInit => ClaimsInv
  <2> SUFFICES ASSUME ClaimsInit PROVE ClaimsInv
    OBVIOUS
  <2>1. Init /\ IInv
    BY InitIInv DEF ClaimsInit
  <2>2. PaidKeysKnown /\ ReadyIsFirst
    BY <2>1 DEF Init, PaidKeysKnown, ReadyIsFirst
  <2> QED BY <2>1, <2>2 DEF ClaimsInv
<1> QED BY <1>1, StepClaimsInv, PTL DEF ClaimsSpec

\* A period is pulled a second time only after prepareRenewal or redeemPrepared gave
\* its claim back over money already taken: restarts between claim, pull and row,
\* rows that cannot be written and resumed bridges are not enough.
THEOREM TakenAgain == ClaimsSpec => TakenAgainOnlyGivenBack
<1> DEFINE A == \A s \in Subs : collected'[s] # collected[s] =>
                    \/ pulledKeys'[s] # pulledKeys[s]
                    \/ <<s, sub[s].periodEnd>> \in givenBack
<1>1. ClaimsInv /\ [ClaimsNext]_claimVars => [A]_claimVars
  <2> SUFFICES ASSUME ClaimsInv, Next, NEW s \in Subs, collected'[s] # collected[s],
                      <<s, sub[s].periodEnd>> \notin givenBack
               PROVE  pulledKeys'[s] # pulledKeys[s]
    BY DEF ClaimsNext
  <2>0. IInv /\ TypeOK /\ ReadyIsFirst
    BY DEF ClaimsInv, IInv
  <2>1. PICK t \in Ticks, v \in Subs : Redeem(t, v) \/ RedeemSeenAsFailed(t, v)
    BY <2>0, QuietSteps, StepSettleDirect, StepMint DEF Quiet
  <2>2. v = s
    BY <2>0, <2>1, RedeemStep DEF TypeOK
  <2>3. /\ sub[s].periodEnd \notin pulledKeys[s]
        /\ pulledKeys'[s] = pulledKeys[s] \cup {sub[s].periodEnd}
    BY <2>0, <2>1, <2>2, RedeemPays DEF ReadyIsFirst
  <2> QED BY <2>3
<1> QED BY <1>1, ClaimsInductive, PTL DEF ClaimsSpec, TakenAgainOnlyGivenBack
=============================================================================
