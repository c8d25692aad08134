---------------------------- MODULE DeliveryProofs ----------------------------
(***************************************************************************)
(* What holds of Delivery for every number of events, endpoints, passes,   *)
(* replays and faults: its types, that an endpoint takes an event again    *)
(* only for a reason that is counted, and that nothing is dropped.         *)
(***************************************************************************)
EXTENDS Delivery, FiniteSetTheorems, TLAPS

\* A row comes with the first send and is pending, without a retry time, until that is over.
FirstHolds ==
    \A j \in Jobs :
        /\ first[j].at \in {"idle", "create"} => row[j] = NoRow
        /\ first[j].at \in {"send", "write"} => row[j] # NoRow /\ row[j].next = "null"

\* Only what has failed once gets a retry time and is listed.
RetriesOfFailures ==
    \A j \in Jobs :
        row[j] # NoRow /\ (row[j].next # "null" \/ \E p \in Passes : j \in Held(p)) =>
            first[j].at = "over" /\ row[j].status # "pending"

HeldHasRow == \A p \in Passes : \A j \in Held(p) : row[j] # NoRow

ReplayHasRow ==
    replay # Idle => row[replay.job] # NoRow /\ replays[replay.job] > 0

\* A pass has each job on its list once.
OncePerPass ==
    \A p \in Passes :
        /\ pass[p] # Idle => \A i, k \in pass[p].todo : i.job = k.job => i = k
        /\ pass[p].at = "write" => \A i \in pass[p].todo : i.job # pass[p].job

(* Every delivery that may still come is paid for.  A pass has something to spend on a job  *)
(* it is to send, or has sent in vain; the first delivery likewise, and a replay; a row with *)
(* a retry time, on nobody's list, has something for the pass that will list it.             *)
Unspent(p, j) ==
    /\ pass[p] # Idle
    /\ \/ \E i \in pass[p].todo : i.job = j
       \/ pass[p].at = "write" /\ pass[p].job = j /\ pass[p].answer # "ok"

Holders(j) == {p \in Passes : Unspent(p, j)}

Starting(j) == IF \/ first[j].at \in {"idle", "create", "send"}
                  \/ first[j].at = "write" /\ first[j].answer # "ok"
               THEN 1 ELSE 0

Asked(j) == IF replay # Idle /\ replay.at = "send" /\ replay.job = j THEN 1 ELSE 0

Loose(j) == IF row[j] # NoRow /\ row[j].next # "null" /\ \A p \in Passes : j \notin Held(p)
            THEN 1 ELSE 0

PaidFor(j) ==
    accepted[j] + Cardinality(Holders(j)) + Starting(j) + Asked(j) + Loose(j)
        <= 1 + replays[j] + shared[j] + faults

Sound == /\ TypeOK /\ FirstHolds /\ RetriesOfFailures /\ HeldHasRow /\ ReplayHasRow
         /\ OncePerPass

IInv == Sound /\ (\A j \in Jobs : PaidFor(j)) /\ NothingDropped

---------------------------------------------------------------------------
LEMMA FaultCounted ==
  ASSUME TypeOK, NEW n \in 0..2, Fault(n)
  PROVE  faults' \in 0..MaxFaults /\ faults' = faults + n
BY BoundsAssumption DEF TypeOK, Fault

LEMMA DialTypes ==
  ASSUME TypeOK, NEW j \in Jobs, NEW s, NEW a \in Answers, Dial(j, s, a)
  PROVE  faults' \in 0..MaxFaults /\ accepted' \in [Jobs -> Nat]
BY FaultCounted DEF Dial, TypeOK

LEMMA RecordedTypes ==
  ASSUME TypeOK, NEW j \in Jobs, NEW a \in Answers, NEW r \in RowRecords, NEW t \in RowRecords,
         Recorded(j, a, r, t) \/ Unrecorded(a)
  PROVE  faults' \in 0..MaxFaults /\ row' \in [Jobs -> RowRecords]
<1>1. CASE Recorded(j, a, r, t)
  BY <1>1, FaultCounted DEF Recorded, TypeOK
<1>2. CASE Unrecorded(a)
  BY <1>2, FaultCounted DEF Unrecorded, TypeOK
<1> QED BY <1>1, <1>2

LEMMA WrittenRows ==
  ASSUME TypeOK, NEW j \in Jobs, NEW a \in Answers
  PROVE  /\ NewRow \in RowRecords
         /\ FirstRow(a) \in RowRecords /\ FirstRowThrown \in RowRecords
         /\ row[j] # NoRow => Retried(j, a) \in RowRecords /\ RetryThrown(j) \in RowRecords
<1>1. NewRow \in RowRecords /\ FirstRow(a) \in RowRecords /\ FirstRowThrown \in RowRecords
  BY DEF RowRecords, NewRow, FirstRow, FirstRowThrown, Outcome, Backoff
<1>2. ASSUME row[j] # NoRow
      PROVE  Retried(j, a) \in RowRecords /\ RetryThrown(j) \in RowRecords
  <2>1. row[j] \in RowRecords \ {NoRow} /\ row[j].attempts + 1 \in Nat
    BY <1>2 DEF TypeOK, RowRecords
  <2>2. Retried(j, a) \in RowRecords
    BY <2>1 DEF RowRecords, Retried, Outcome, Backoff
  <2>3. RetryThrown(j) = [[row[j] EXCEPT !.attempts = row[j].attempts + 1] EXCEPT !.next = "ahead"]
    BY DEF RetryThrown
  <2>4. [row[j] EXCEPT !.attempts = row[j].attempts + 1] \in RowRecords \ {NoRow}
    BY <2>1 DEF RowRecords, NoRow
  <2>5. RetryThrown(j) \in RowRecords
    BY <2>3, <2>4 DEF RowRecords
  <2> QED BY <2>2, <2>5
<1> QED BY <1>1, <1>2

LEMMA MerchantSound ==
  ASSUME Sound, Merchant
  PROVE  Sound'
<1>1. PICK w \in Endpoints : Register(w) \/ Delete(w) \/ Roll(w)
  BY DEF Merchant
<1>2. endpoint' \in [Endpoints -> EndpointRecords]
  <2>1. endpoint[w] \in EndpointRecords
    BY DEF Sound, TypeOK
  <2> QED BY <1>1, <2>1 DEF Sound, TypeOK, Register, Delete, Roll, EndpointRecords, Secrets
<1>3. UNCHANGED <<faults, row, first, pass, replay, replays, shared, accepted>>
  BY <1>1 DEF Register, Delete, Roll
<1> QED BY <1>2, <1>3 DEF Sound, TypeOK, FirstHolds, RetriesOfFailures, HeldHasRow, ReplayHasRow,
                          OncePerPass, Held

\* What a step that does not touch the passes owes of the lists.
LEMMA ListsKept ==
  ASSUME Sound, UNCHANGED pass
  PROVE  /\ \A p \in Passes : Held(p)' = Held(p)
         /\ OncePerPass'
BY DEF Sound, OncePerPass, Held

LEMMA FireSound ==
  ASSUME Sound, NEW e \in Events, Fire(e)
  PROVE  Sound'
<1>1. UNCHANGED <<faults, endpoint, row, pass, replay, replays, shared, accepted>>
  BY DEF Fire
<1>2. first' \in [Jobs -> FirstRecords]
  <2>1. \A j \in Jobs : Current(j) \in Secrets
    BY DEF Sound, TypeOK, Jobs, Current, EndpointRecords
  <2> QED BY <2>1 DEF Fire, Sound, TypeOK, FirstRecords
<1>3. \A j \in Jobs : \/ first'[j] = first[j]
                      \/ first[j].at = "idle" /\ first'[j].at = "create"
  BY DEF Fire, Jobs
<1>4. TypeOK'
  BY <1>1, <1>2 DEF Sound, TypeOK
<1>5. FirstHolds' /\ RetriesOfFailures' /\ HeldHasRow' /\ ReplayHasRow'
  <2>1. \A p \in Passes : Held(p)' = Held(p)
    BY <1>1, ListsKept
  <2>2. FirstHolds'
    BY <1>1, <1>3 DEF Sound, FirstHolds
  <2>3. RetriesOfFailures'
    BY <1>1, <1>3, <2>1 DEF Sound, FirstHolds, RetriesOfFailures
  <2> QED BY <1>1, <2>1, <2>2, <2>3 DEF Sound, HeldHasRow, ReplayHasRow
<1> QED BY <1>1, <1>4, <1>5, ListsKept DEF Sound

LEMMA FirstSound ==
  ASSUME Sound, NEW j \in Jobs, FirstStep(j)
  PROVE  Sound'
<1>1. UNCHANGED <<endpoint, pass, replay, replays, shared>>
  BY DEF FirstStep, CreateRow, CreateFails, FirstSend, FirstWrite
<1>2. first[j] \in FirstRecords /\ row[j] \in RowRecords
  BY DEF Sound, TypeOK
<1>3. \A p \in Passes : Held(p)' = Held(p)
  BY <1>1, ListsKept
<1>4. OncePerPass'
  BY <1>1, ListsKept
<1>5. ASSUME first' \in [Jobs -> FirstRecords], row' \in [Jobs -> RowRecords],
             faults' \in 0..MaxFaults, accepted' \in [Jobs -> Nat]
      PROVE  TypeOK'
  BY <1>1, <1>5 DEF Sound, TypeOK
<1>6. ASSUME \A i \in Jobs \ {j} : row'[i] = row[i] /\ first'[i] = first[i],
             row[j] # NoRow => row'[j] # NoRow,
             first'[j].at \in {"idle", "create"} => row'[j] = NoRow,
             first'[j].at \in {"send", "write"} => row'[j] # NoRow /\ row'[j].next = "null",
             row'[j] # NoRow /\ (row'[j].next # "null" \/ \E p \in Passes : j \in Held(p)) =>
                first'[j].at = "over" /\ row'[j].status # "pending"
      PROVE  FirstHolds' /\ RetriesOfFailures' /\ HeldHasRow' /\ ReplayHasRow'
  <2>1. FirstHolds'
    BY <1>6 DEF Sound, FirstHolds
  <2>2. RetriesOfFailures'
    BY <1>3, <1>6 DEF Sound, RetriesOfFailures
  <2>3. \A i \in Jobs : row[i] # NoRow => row'[i] # NoRow
    BY <1>6
  <2>4. HeldHasRow'
    <3> SUFFICES ASSUME NEW p \in Passes, NEW i \in Held(p)  PROVE row'[i] # NoRow
      BY <1>3 DEF HeldHasRow
    <3>1. i \in Jobs
      BY DEF Sound, TypeOK, PassRecords, Items, Held, Idle
    <3> QED BY <2>3, <3>1 DEF Sound, HeldHasRow
  <2>5. ReplayHasRow'
    <3>1. replay # Idle => replay.job \in Jobs
      BY DEF Sound, TypeOK, ReplayRecords
    <3> QED BY <1>1, <2>3, <3>1 DEF Sound, ReplayHasRow
  <2> QED BY <2>1, <2>2, <2>4, <2>5
<1>7. CASE CreateRow(j)
  <2>1. first[j].at = "create" /\ row[j] = NoRow
    BY <1>7 DEF CreateRow, Sound, FirstHolds
  <2>2. row' = [row EXCEPT ![j] = NewRow] /\ first' = [first EXCEPT ![j].at = "send"]
        /\ UNCHANGED <<faults, accepted>>
    BY <1>7 DEF CreateRow
  <2>3. [first[j] EXCEPT !.at = "send"] \in FirstRecords
    BY <1>2, <2>1 DEF FirstRecords, Resting
  <2>4. NewRow \in RowRecords /\ NewRow # NoRow /\ NewRow.next = "null"
    BY DEF NewRow, NoRow, RowRecords
  <2>5. TypeOK'
    BY <1>5, <2>2, <2>3, <2>4 DEF Sound, TypeOK
  <2>6. \A p \in Passes : j \notin Held(p)
    BY <2>1 DEF Sound, HeldHasRow
  <2>7. first'[j].at = "send" /\ row'[j] = NewRow
        /\ \A i \in Jobs \ {j} : row'[i] = row[i] /\ first'[i] = first[i]
    BY <1>2, <2>1, <2>2 DEF Sound, TypeOK, FirstRecords, Resting
  <2> QED BY <1>4, <1>6, <2>1, <2>4, <2>5, <2>6, <2>7 DEF Sound
<1>8. CASE CreateFails(j)
  <2>1. first[j].at = "create" /\ row[j] = NoRow /\ row' = row /\ accepted' = accepted
    BY <1>8 DEF CreateFails, Sound, FirstHolds
  <2>2. first' = [first EXCEPT ![j] = [at |-> "over"]] /\ [at |-> "over"] \in FirstRecords
    BY <1>8 DEF CreateFails, FirstRecords, Resting
  <2>3. faults' \in 0..MaxFaults
    BY <1>8, FaultCounted DEF CreateFails, Sound, TypeOK
  <2>4. TypeOK'
    BY <1>5, <2>1, <2>2, <2>3 DEF Sound, TypeOK
  <2>5. first'[j].at = "over" /\ \A i \in Jobs \ {j} : first'[i] = first[i]
    BY <2>2 DEF Sound, TypeOK
  <2> QED BY <1>4, <1>6, <2>1, <2>4, <2>5 DEF Sound
<1>9. CASE FirstSend(j)
  <2>1. PICK a \in Answers : /\ Dial(j, first[j].secret, a)
                             /\ first' = [first EXCEPT ![j] = [at |-> "write", answer |-> a]]
    BY <1>9 DEF FirstSend
  <2>2. first[j].at = "send" /\ row' = row
    BY <1>9 DEF FirstSend
  <2>3. faults' \in 0..MaxFaults /\ accepted' \in [Jobs -> Nat]
    BY <2>1, DialTypes DEF Sound
  <2>4. TypeOK'
    BY <1>5, <2>1, <2>2, <2>3 DEF Sound, TypeOK, FirstRecords
  <2>5. first'[j].at = "write" /\ \A i \in Jobs \ {j} : first'[i] = first[i]
    BY <2>1 DEF Sound, TypeOK
  <2>6. row[j] # NoRow /\ row[j].next = "null"
    BY <2>2 DEF Sound, FirstHolds
  <2>7. \A p \in Passes : j \notin Held(p)
    BY <2>2, <2>6 DEF Sound, RetriesOfFailures
  <2> QED BY <1>4, <1>6, <2>2, <2>4, <2>5, <2>6, <2>7 DEF Sound
<1>10. CASE FirstWrite(j)
  <2>1. first[j].at = "write" /\ first' = [first EXCEPT ![j] = [at |-> "over"]]
        /\ accepted' = accepted
        /\ (Recorded(j, first[j].answer, FirstRow(first[j].answer), FirstRowThrown)
            \/ Unrecorded(first[j].answer))
    BY <1>10 DEF FirstWrite
  <2>2. first[j].answer \in Answers
    BY <1>2, <2>1 DEF FirstRecords, Resting
  <2>3. faults' \in 0..MaxFaults /\ row' \in [Jobs -> RowRecords]
    BY <2>1, <2>2, RecordedTypes, WrittenRows DEF Sound
  <2>4. TypeOK'
    BY <1>5, <2>1, <2>3 DEF Sound, TypeOK, FirstRecords, Resting
  <2>5. first'[j].at = "over" /\ \A i \in Jobs \ {j} : first'[i] = first[i]
    BY <2>1 DEF Sound, TypeOK
  <2>6. row[j] # NoRow /\ row[j].next = "null" /\ \A p \in Passes : j \notin Held(p)
    BY <2>1 DEF Sound, FirstHolds, RetriesOfFailures
  <2>7. /\ \A i \in Jobs \ {j} : row'[i] = row[i]
        /\ row'[j] \in {row[j], FirstRow(first[j].answer), FirstRowThrown}
    BY <2>1 DEF Sound, TypeOK, Recorded, Unrecorded
  <2>8. \A a \in Answers : FirstRow(a) # NoRow /\ FirstRow(a).status # "pending"
    BY DEF FirstRow, NoRow, Outcome
  <2>9. row'[j] # NoRow /\ (row'[j].next # "null" => row'[j].status # "pending")
    BY <2>2, <2>6, <2>7, <2>8 DEF FirstRowThrown, Answers
  <2> QED BY <1>4, <1>6, <2>4, <2>5, <2>6, <2>7, <2>9 DEF Sound
<1> QED BY <1>7, <1>8, <1>9, <1>10 DEF FirstStep

LEMMA LateSound ==
  ASSUME Sound, NEW j \in Jobs, GetLate(j)
  PROVE  Sound'
<1>1. UNCHANGED <<faults, endpoint, first, pass, replay, replays, shared, accepted>>
  BY DEF GetLate
<1>2. row[j] \in RowRecords \ {NoRow} /\ row[j].next = "ahead" /\ row' = [row EXCEPT ![j].next = "past"]
  BY DEF GetLate, Sound, TypeOK
<1>3. [row[j] EXCEPT !.next = "past"] \in RowRecords \ {NoRow}
  BY <1>2 DEF RowRecords, NoRow
<1>4. /\ row'[j] \in RowRecords \ {NoRow} /\ row'[j].status = row[j].status
      /\ \A i \in Jobs \ {j} : row'[i] = row[i]
  BY <1>2, <1>3 DEF Sound, TypeOK, RowRecords, NoRow
<1>5. TypeOK'
  BY <1>1, <1>2, <1>3 DEF Sound, TypeOK
<1>6. first[j].at = "over" /\ row[j].status # "pending"
  BY <1>2 DEF Sound, RetriesOfFailures
<1>7. (\A p \in Passes : Held(p)' = Held(p)) /\ OncePerPass'
  BY <1>1, ListsKept
<1>8. FirstHolds'
  BY <1>1, <1>4, <1>6 DEF Sound, FirstHolds
<1>9. RetriesOfFailures'
  BY <1>1, <1>4, <1>6, <1>7 DEF Sound, RetriesOfFailures
<1>10. \A i \in Jobs : row[i] # NoRow => row'[i] # NoRow
  BY <1>4
<1>11. \A p \in Passes : Held(p) \subseteq Jobs
  BY DEF Sound, TypeOK, PassRecords, Items, Held, Idle
<1>12. HeldHasRow'
  BY <1>7, <1>10, <1>11 DEF Sound, HeldHasRow
<1>13. ReplayHasRow'
  BY <1>1, <1>10 DEF Sound, TypeOK, ReplayHasRow, ReplayRecords
<1> QED BY <1>5, <1>7, <1>8, <1>9, <1>12, <1>13 DEF Sound

LEMMA ReplaySound ==
  ASSUME Sound, (\E j \in Jobs : Replay(j)) \/ ReplaySend \/ ReplayWrite
  PROVE  Sound'
<1>1. UNCHANGED <<endpoint, first, pass, shared>>
  BY DEF Replay, ReplaySend, ReplayWrite
<1>2. (\A p \in Passes : Held(p)' = Held(p)) /\ OncePerPass'
  BY <1>1, ListsKept
<1>3. ASSUME NEW j \in Jobs, Replay(j)
      PROVE  Sound'
  <2>1. UNCHANGED <<faults, row, accepted>>
        /\ replay' = [at |-> "send", job |-> j, secret |-> Current(j)]
        /\ replays' = [replays EXCEPT ![j] = @ + 1] /\ row[j] # NoRow
    BY <1>3 DEF Replay
  <2>2. Current(j) \in Secrets
    BY DEF Sound, TypeOK, Jobs, Current, EndpointRecords
  <2>3. TypeOK'
    BY <1>1, <2>1, <2>2 DEF Sound, TypeOK, ReplayRecords
  <2>4. ReplayHasRow'
    BY <2>1 DEF Sound, TypeOK, ReplayHasRow
  <2> QED BY <1>1, <1>2, <2>1, <2>3, <2>4 DEF Sound, FirstHolds, RetriesOfFailures, HeldHasRow
<1>4. CASE ReplaySend
  <2>1. PICK a \in Answers : /\ Dial(replay.job, replay.secret, a)
                             /\ replay' = [at |-> "write", job |-> replay.job, answer |-> a]
    BY <1>4 DEF ReplaySend
  <2>2. UNCHANGED <<row, replays>> /\ replay.at = "send"
    BY <1>4 DEF ReplaySend
  <2>3. replay.job \in Jobs /\ replay # Idle
    BY <2>2 DEF Sound, TypeOK, ReplayRecords, Idle
  <2>4. TypeOK'
    BY <1>1, <2>1, <2>2, <2>3, DialTypes DEF Sound, TypeOK, ReplayRecords
  <2>5. ReplayHasRow'
    BY <2>1, <2>2, <2>3 DEF Sound, ReplayHasRow
  <2> QED BY <1>1, <1>2, <2>2, <2>4, <2>5 DEF Sound, FirstHolds, RetriesOfFailures, HeldHasRow
<1>5. CASE ReplayWrite
  <2> DEFINE j == replay.job
             r == [row[j] EXCEPT !.status = Outcome(replay.answer), !.attempts = @ + 1]
  <2>1. replay.at = "write" /\ replay' = Idle /\ UNCHANGED <<replays, accepted>>
    BY <1>5 DEF ReplayWrite
  <2>2. j \in Jobs /\ replay.answer \in Answers /\ row[j] # NoRow
    BY <2>1 DEF Sound, TypeOK, ReplayRecords, ReplayHasRow, Idle
  <2>3. row[j] \in RowRecords \ {NoRow} /\ row[j].attempts + 1 \in Nat
    BY <2>2 DEF Sound, TypeOK, RowRecords
  <2>4. r \in RowRecords \ {NoRow} /\ r.status # "pending" /\ r.next = row[j].next
    <3>1. [row[j] EXCEPT !.attempts = row[j].attempts + 1] \in RowRecords \ {NoRow}
      BY <2>3 DEF RowRecords, NoRow
    <3>2. \A x \in RowRecords \ {NoRow}, v \in {"delivered", "failed"} :
             /\ [x EXCEPT !.status = v] \in RowRecords \ {NoRow}
             /\ [x EXCEPT !.status = v].status = v
      BY DEF RowRecords, NoRow
    <3>3. r = [[row[j] EXCEPT !.attempts = row[j].attempts + 1] EXCEPT !.status = Outcome(replay.answer)]
      OBVIOUS
    <3>4. r.next = row[j].next
      BY <2>3 DEF RowRecords, NoRow
    <3>5. Outcome(replay.answer) \in {"delivered", "failed"}
      BY DEF Outcome
    <3> HIDE DEF r
    <3> QED BY <3>1, <3>2, <3>3, <3>4, <3>5
  <2>5. (row' = [row EXCEPT ![j] = r] /\ faults' = faults) \/ (row' = row /\ Fault(1))
    BY <1>5 DEF ReplayWrite
  <2> HIDE DEF r, j
  <2>6. row' \in [Jobs -> RowRecords] /\ faults' \in 0..MaxFaults
    BY <2>2, <2>4, <2>5, FaultCounted DEF Sound, TypeOK
  <2>7. TypeOK'
    BY <1>1, <2>1, <2>6 DEF Sound, TypeOK, ReplayRecords
  <2>8. \A i \in Jobs : \/ row'[i] = row[i]
                        \/ /\ row[i] # NoRow /\ row'[i] # NoRow /\ row'[i].status # "pending"
                           /\ row'[i].next = row[i].next
    BY <2>2, <2>4, <2>5 DEF Sound, TypeOK
  <2>9. FirstHolds'
    BY <1>1, <2>8 DEF Sound, FirstHolds
  <2>10. RetriesOfFailures'
    BY <1>1, <1>2, <2>8 DEF Sound, RetriesOfFailures
  <2>11. \A p \in Passes : Held(p) \subseteq Jobs
    BY DEF Sound, TypeOK, PassRecords, Items, Held, Idle
  <2>12. HeldHasRow'
    BY <1>2, <2>8, <2>11 DEF Sound, HeldHasRow
  <2> QED BY <1>2, <2>1, <2>7, <2>9, <2>10, <2>12 DEF Sound, ReplayHasRow
<1> QED BY <1>3, <1>4, <1>5

LEMMA RestartSound ==
  ASSUME Sound, RestartApi \/ RestartBilling
  PROVE  Sound'
<1>1. UNCHANGED <<endpoint, row, replays, shared, accepted>> /\ faults' \in 0..MaxFaults
  BY FaultCounted DEF RestartApi, RestartBilling, Sound
<1>2. CASE RestartApi
  <2>1. pass' = pass /\ replay' = Idle
    BY <1>2 DEF RestartApi
  <2>2. \A j \in Jobs : /\ first'[j] \in FirstRecords
                        /\ \/ first'[j] = first[j] /\ first[j].at = "idle"
                           \/ first'[j].at = "over"
    BY <1>2 DEF RestartApi, Sound, TypeOK, FirstRecords, Resting
  <2>3. TypeOK'
    <3>1. first' \in [Jobs -> FirstRecords]
      BY <1>2, <2>2 DEF RestartApi
    <3> QED BY <1>1, <2>1, <3>1 DEF Sound, TypeOK, ReplayRecords
  <2>4. (\A p \in Passes : Held(p)' = Held(p)) /\ OncePerPass'
    BY <2>1, ListsKept
  <2>5. FirstHolds' /\ RetriesOfFailures'
    BY <1>1, <2>2, <2>4 DEF Sound, FirstHolds, RetriesOfFailures
  <2> QED BY <1>1, <2>1, <2>3, <2>4, <2>5 DEF Sound, HeldHasRow, ReplayHasRow
<1>3. CASE RestartBilling
  <2>1. UNCHANGED <<first, replay>> /\ pass' = [p \in Passes |-> Idle]
    BY <1>3 DEF RestartBilling
  <2>2. TypeOK'
    BY <1>1, <2>1 DEF Sound, TypeOK, PassRecords
  <2>3. (\A p \in Passes : Held(p)' = {}) /\ OncePerPass'
    BY <2>1 DEF Held, OncePerPass, Idle
  <2> QED BY <1>1, <2>1, <2>2, <2>3 DEF Sound, FirstHolds, RetriesOfFailures, HeldHasRow, ReplayHasRow
<1> QED BY <1>2, <1>3

LEMMA PassSound ==
  ASSUME Sound, NEW p \in Passes, PassStep(p)
  PROVE  Sound'
<1>1. UNCHANGED <<endpoint, first, replay, replays>>
  BY DEF PassStep, ListDue, PassSend, PassWrite, PassThrows
<1>2. /\ \A q \in Passes \ {p} : pass'[q] = pass[q] /\ Held(q)' = Held(q)
      /\ \A q \in Passes : Held(q) \subseteq Jobs
  <2>1. \A q \in Passes \ {p} : pass'[q] = pass[q]
    BY DEF PassStep, ListDue, PassSend, PassWrite, PassThrows, Sound, TypeOK
  <2>2. \A q \in Passes \ {p} : Held(q)' = Held(q)
    BY <2>1 DEF Held
  <2>3. \A q \in Passes : Held(q) \subseteq Jobs
    BY DEF Sound, TypeOK, PassRecords, Items, Held, Idle
  <2> QED BY <2>1, <2>2, <2>3
<1>3. ASSUME faults' \in 0..MaxFaults, accepted' \in [Jobs -> Nat], shared' \in [Jobs -> Nat],
             row' \in [Jobs -> RowRecords], pass'[p] \in PassRecords,
             pass' = [pass EXCEPT ![p] = pass'[p]]
      PROVE  TypeOK'
  BY <1>1, <1>3 DEF Sound, TypeOK
<1>4. ASSUME \A j \in Jobs : \/ row'[j] = row[j]
                             \/ /\ row[j] # NoRow /\ row'[j] # NoRow /\ row'[j].status # "pending"
                                /\ first[j].at = "over",
             \A j \in Held(p)' : j \in Jobs /\ row[j] # NoRow /\ first[j].at = "over"
                                 /\ row[j].status # "pending",
             pass'[p] # Idle => \A i, k \in pass'[p].todo : i.job = k.job => i = k,
             pass'[p].at = "write" => \A i \in pass'[p].todo : i.job # pass'[p].job
      PROVE  FirstHolds' /\ RetriesOfFailures' /\ HeldHasRow' /\ ReplayHasRow' /\ OncePerPass'
  <2>1. FirstHolds'
    BY <1>1, <1>4 DEF Sound, FirstHolds
  <2>2. \A j \in Jobs : row'[j] # NoRow /\ row[j] = row'[j]
           /\ (row'[j].next # "null" \/ \E q \in Passes : j \in Held(q)') =>
           first[j].at = "over" /\ row'[j].status # "pending"
    BY <1>2, <1>4 DEF Sound, RetriesOfFailures
  <2>3. RetriesOfFailures'
    BY <1>1, <1>4, <2>2 DEF RetriesOfFailures
  <2>4. HeldHasRow'
    BY <1>2, <1>4 DEF Sound, HeldHasRow
  <2>5. ReplayHasRow'
    BY <1>1, <1>4 DEF Sound, TypeOK, ReplayHasRow, ReplayRecords
  <2>6. OncePerPass'
    BY <1>2, <1>4 DEF Sound, OncePerPass
  <2> QED BY <2>1, <2>3, <2>4, <2>5, <2>6
<1>5. pass[p] \in PassRecords /\ pass \in [Passes -> PassRecords]
  BY DEF Sound, TypeOK
<1>6. \A j \in Held(p) : j \in Jobs /\ row[j] # NoRow /\ first[j].at = "over" /\ row[j].status # "pending"
  BY <1>2 DEF Sound, HeldHasRow, RetriesOfFailures
<1>7. CASE ListDue(p)
  <2>1. PICK B \in Batches :
           /\ pass' = [pass EXCEPT ![p] = [at |-> "next", todo |-> {Item(j, Current(j)) : j \in B}]]
           /\ shared' = [j \in Jobs |-> IF j \in B /\ \E q \in Passes : j \in Held(q)
                                        THEN shared[j] + 1 ELSE shared[j]]
    BY <1>7 DEF ListDue
  <2>2. UNCHANGED <<faults, row, accepted>>
    BY <1>7 DEF ListDue
  <2>3. \A j \in B : j \in Jobs /\ Due(j)
    BY <2>1 DEF Batches
  <2> DEFINE T == {Item(j, Current(j)) : j \in B}
  <2>4. pass'[p] = [at |-> "next", todo |-> T]
    BY <1>5, <2>1
  <2>5. T \subseteq Items
    <3>1. \A j \in Jobs : Current(j) \in Secrets
      BY DEF Sound, TypeOK, Jobs, Current, EndpointRecords
    <3> QED BY <2>3, <3>1 DEF Item, Items
  <2>6. \A i, k \in T : i.job = k.job => i = k
    BY DEF Item
  <2>7. \A i \in T : i.job \in B
    BY DEF Item
  <2> HIDE DEF T
  <2>8. TypeOK'
    <3>1. pass'[p] \in PassRecords
      BY <2>4, <2>5 DEF PassRecords
    <3>2. pass' = [pass EXCEPT ![p] = pass'[p]]
      BY <1>5, <2>1
    <3>3. shared' \in [Jobs -> Nat]
      BY <2>1 DEF Sound, TypeOK
    <3> QED BY <1>3, <2>2, <3>1, <3>2, <3>3 DEF Sound, TypeOK
  <2>9. \A j \in Held(p)' : j \in B
    BY <2>4, <2>7 DEF Held
  <2>10. \A j \in B : row[j] # NoRow /\ first[j].at = "over" /\ row[j].status # "pending"
    BY <2>3 DEF Due, Sound, RetriesOfFailures
  <2> QED BY <1>4, <2>2, <2>3, <2>4, <2>6, <2>8, <2>9, <2>10 DEF Sound
<1>8. CASE PassSend(p)
  <2>1. PICK i \in pass[p].todo, a \in Answers :
           /\ Dial(i.job, i.secret, a)
           /\ pass' = [pass EXCEPT ![p] = [at |-> "write", todo |-> pass[p].todo \ {i},
                                           job |-> i.job, answer |-> a]]
    BY <1>8 DEF PassSend
  <2>2. UNCHANGED <<row, shared>> /\ pass[p].at = "next"
    BY <1>8 DEF PassSend
  <2>3. pass[p] # Idle /\ pass[p].todo \subseteq Items /\ i.job \in Jobs
    BY <1>5, <2>1, <2>2 DEF PassRecords, Items, Idle
  <2>4. pass'[p] = [at |-> "write", todo |-> pass[p].todo \ {i}, job |-> i.job, answer |-> a]
    BY <1>5, <2>1
  <2>5. pass'[p] \in PassRecords
    BY <2>3, <2>4 DEF PassRecords
  <2>6. TypeOK'
    <3>1. faults' \in 0..MaxFaults /\ accepted' \in [Jobs -> Nat]
      BY <2>1, <2>3, DialTypes DEF Sound
    <3>2. pass' = [pass EXCEPT ![p] = pass'[p]]
      BY <1>5, <2>1
    <3> QED BY <1>3, <2>2, <2>5, <3>1, <3>2 DEF Sound, TypeOK
  <2>7. Held(p)' \subseteq Held(p)
    BY <2>1, <2>2, <2>4 DEF Held
  <2>8. \A k, l \in pass[p].todo : k.job = l.job => k = l
    BY <2>3 DEF Sound, OncePerPass
  <2> QED BY <1>4, <1>6, <2>1, <2>2, <2>4, <2>6, <2>7, <2>8 DEF Sound
<1>9. ASSUME pass[p].at = "write"
      PROVE  /\ pass[p] # Idle /\ pass[p].job \in Jobs /\ pass[p].job \in Held(p)
             /\ pass[p].answer \in Answers /\ pass[p].todo \subseteq Items
             /\ row[pass[p].job] # NoRow
  BY <1>5, <1>6, <1>9 DEF PassRecords, Held, Idle
<1>10. CASE PassWrite(p)
  <2> DEFINE j == pass[p].job
  <2>1. pass[p].at = "write" /\ UNCHANGED <<shared, accepted>>
        /\ Recorded(j, pass[p].answer, Retried(j, pass[p].answer), RetryThrown(j))
        /\ pass' = [pass EXCEPT ![p] = Left(p)]
    BY <1>10 DEF PassWrite
  <2>2. pass[p] # Idle /\ j \in Jobs /\ j \in Held(p) /\ pass[p].answer \in Answers
        /\ pass[p].todo \subseteq Items /\ row[j] # NoRow
    BY <1>9, <2>1
  <2>3. pass'[p] = Left(p) /\ pass'[p] \in PassRecords
    BY <1>5, <2>1, <2>2 DEF Left, PassRecords
  <2>4. Retried(j, pass[p].answer) \in RowRecords /\ RetryThrown(j) \in RowRecords
    BY <2>2, WrittenRows DEF Sound
  <2>5. faults' \in 0..MaxFaults /\ row' \in [Jobs -> RowRecords]
    BY <2>1, <2>2, <2>4, RecordedTypes DEF Sound
  <2>6. TypeOK'
    BY <1>3, <1>5, <2>1, <2>3, <2>5 DEF Sound, TypeOK
  <2>7. Held(p)' \subseteq Held(p)
    BY <2>1, <2>3 DEF Held, Left, Idle
  <2>8. pass'[p].at # "write"
        /\ (pass'[p] # Idle => \A i, k \in pass'[p].todo : i.job = k.job => i = k)
    BY <2>2, <2>3 DEF Left, Idle, Sound, OncePerPass
  <2>9. /\ Retried(j, pass[p].answer) # NoRow /\ Retried(j, pass[p].answer).status # "pending"
        /\ RetryThrown(j) # NoRow /\ RetryThrown(j).status # "pending"
    <3>1. row[j] \in RowRecords \ {NoRow} /\ row[j].status # "pending"
      BY <1>6, <2>2 DEF Sound, TypeOK
    <3>2. RetryThrown(j).status = row[j].status
      BY <3>1 DEF RetryThrown, RowRecords, NoRow
    <3>3. RetryThrown(j) # NoRow
      BY <3>1, <3>2 DEF RowRecords, NoRow
    <3> QED BY <3>1, <3>2, <3>3 DEF Retried, Outcome, NoRow
  <2>10. \A k \in Jobs : \/ row'[k] = row[k]
                         \/ /\ row[k] # NoRow /\ row'[k] # NoRow /\ row'[k].status # "pending"
                            /\ first[k].at = "over"
    BY <1>6, <2>1, <2>2, <2>9 DEF Recorded, Sound, TypeOK
  <2> QED BY <1>4, <1>6, <2>6, <2>7, <2>8, <2>10 DEF Sound
<1>11. CASE PassThrows(p)
  <2>1. pass' = [pass EXCEPT ![p] = Idle] /\ UNCHANGED <<row, shared, accepted>>
        /\ Unrecorded(pass[p].answer)
    BY <1>11 DEF PassThrows, Unrecorded
  <2>2. pass'[p] = Idle /\ Idle \in PassRecords
    BY <1>5, <2>1 DEF PassRecords
  <2>3. faults' \in 0..MaxFaults
    BY <2>1, FaultCounted DEF Unrecorded, Sound
  <2>4. TypeOK'
    BY <1>3, <2>1, <2>2, <2>3 DEF Sound, TypeOK
  <2>5. Held(p)' = {} /\ pass'[p].at # "write"
    BY <2>2 DEF Held, Idle
  <2> QED BY <1>4, <2>1, <2>2, <2>4, <2>5 DEF Sound
<1> QED BY <1>7, <1>8, <1>10, <1>11 DEF PassStep

LEMMA SoundKept ==
  ASSUME Sound, [Next]_vars
  PROVE  Sound'
<1>1. CASE UNCHANGED vars
  BY <1>1 DEF vars, Sound, TypeOK, FirstHolds, RetriesOfFailures, HeldHasRow, ReplayHasRow,
              OncePerPass, Held
<1> QED BY <1>1, MerchantSound, FireSound, FirstSound, LateSound, ReplaySound, RestartSound,
           PassSound DEF Next

---------------------------------------------------------------------------
(* Nothing is dropped. *)

Kept(j) ==
    \/ row[j] = NoRow \/ Settled(j)
    \/ row[j].status = "failed" /\ row[j].next # "null"
    \/ row[j].status = "pending" /\ first[j].at \in {"send", "write"}
    \/ faults > 0 \/ replays[j] > 0

LEMMA KeptThrough ==
  ASSUME Sound, NEW j \in Jobs, Kept(j), [Next]_vars
  PROVE  Kept(j)'
<1>1. /\ row[j] \in RowRecords /\ faults \in Nat /\ replays \in [Jobs -> Nat] /\ replays[j] \in Nat
      /\ row \in [Jobs -> RowRecords]
  BY BoundsAssumption DEF Sound, TypeOK
<1>2. ASSUME Fault(1) \/ Fault(2)  PROVE Kept(j)'
  BY <1>1, <1>2 DEF Fault, Kept
<1>3. ASSUME row'[j] = row[j], row[j] # NoRow /\ row[j].status = "pending" => first'[j] = first[j],
             UNCHANGED faults, replays'[j] = replays[j] \/ replays'[j] > 0
      PROVE  Kept(j)'
  BY <1>3 DEF Kept, Settled
<1>4. ASSUME row'[j] # NoRow, \/ row'[j].status = "delivered"
                              \/ row'[j].status = "failed" /\ row'[j].next # "null"
      PROVE  Kept(j)'
  BY <1>4 DEF Kept, Settled
<1>5. ASSUME NEW a \in Answers, NEW i \in Jobs, NEW s, Dial(i, s, a),
             UNCHANGED <<row, replays>>,
             row[j] # NoRow /\ row[j].status = "pending" => first'[j] = first[j]
      PROVE  Kept(j)'
  BY <1>2, <1>3, <1>5 DEF Dial
<1>6. \A a \in Answers : Unrecorded(a) => Fault(1) \/ Fault(2)
  BY DEF Unrecorded
<1>7. CASE UNCHANGED vars \/ Merchant
  BY <1>3, <1>7 DEF vars, Merchant, Register, Delete, Roll
<1>8. CASE RestartApi \/ RestartBilling
  BY <1>2, <1>8 DEF RestartApi, RestartBilling
<1>9. ASSUME NEW e \in Events, Fire(e)  PROVE Kept(j)'
  <2>1. row[j] = NoRow \/ first'[j] = first[j]
    <3>1. j[1] = e => first[j].at = "idle"
      BY <1>9 DEF Fire, Jobs
    <3> QED BY <1>9, <3>1 DEF Fire, Sound, FirstHolds
  <2> QED BY <1>3, <1>9, <2>1 DEF Fire
<1>10. ASSUME NEW i \in Jobs, FirstStep(i)  PROVE Kept(j)'
  <2>1. replays' = replays /\ \A k \in Jobs \ {i} : first'[k] = first[k]
    BY <1>10 DEF FirstStep, CreateRow, CreateFails, FirstSend, FirstWrite, Sound, TypeOK
  <2>2. CASE CreateRow(i)
    <3>1. CASE i = j
      <4>1. row'[j] = NewRow /\ first'[j].at = "send"
        <5>1. first[j] \in FirstRecords /\ first[j].at = "create" /\ first \in [Jobs -> FirstRecords]
          BY <2>2, <3>1 DEF CreateRow, Sound, TypeOK
        <5>2. [first[j] EXCEPT !.at = "send"].at = "send"
          BY <5>1 DEF FirstRecords, Resting
        <5> QED BY <1>1, <2>2, <3>1, <5>1, <5>2 DEF CreateRow
      <4> QED BY <4>1 DEF Kept, NewRow
    <3>2. CASE i # j
      BY <1>1, <1>3, <2>1, <2>2, <3>2 DEF CreateRow
    <3> QED BY <3>1, <3>2
  <2>3. CASE CreateFails(i)
    <3>1. row' = row /\ (faults' = faults \/ Fault(1))
      BY <2>3 DEF CreateFails
    <3>2. i = j => row[j] = NoRow
      BY <2>3 DEF CreateFails, Sound, FirstHolds
    <3> QED BY <1>2, <1>3, <2>1, <3>1, <3>2
  <2>4. CASE FirstSend(i)
    <3>1. PICK a \in Answers : /\ Dial(i, first[i].secret, a)
                               /\ first' = [first EXCEPT ![i] = [at |-> "write", answer |-> a]]
      BY <2>4 DEF FirstSend
    <3>2. row' = row /\ first[i].at = "send"
      BY <2>4 DEF FirstSend
    <3>3. CASE i # j
      BY <1>5, <2>1, <3>1, <3>2, <3>3
    <3>4. CASE i = j
      <4>1. first'[j].at = "write"
        BY <3>1, <3>4 DEF Sound, TypeOK
      <4>2. faults' = faults \/ Fault(1)
        BY <3>1 DEF Dial
      <4> QED BY <1>2, <2>1, <3>2, <4>1, <4>2 DEF Kept, Settled
    <3> QED BY <3>3, <3>4
  <2>5. CASE FirstWrite(i)
    <3>1. first[i].answer \in Answers
      BY <2>5 DEF FirstWrite, Sound, TypeOK, FirstRecords, Resting
    <3>2. CASE Unrecorded(first[i].answer)
      BY <1>2, <1>6, <3>1, <3>2
    <3>3. CASE Recorded(i, first[i].answer, FirstRow(first[i].answer), FirstRowThrown)
      <4>1. faults' = faults \/ Fault(1)
        BY <3>3 DEF Recorded
      <4>2. CASE i # j
        BY <1>1, <1>2, <1>3, <2>1, <3>3, <4>1, <4>2 DEF Recorded
      <4>3. CASE i = j
        <5>1. PICK a \in Answers : row'[j] = FirstRow(a)
          BY <1>1, <3>1, <3>3, <4>3 DEF Recorded, FirstRowThrown, Answers
        <5> QED BY <1>4, <5>1 DEF FirstRow, Outcome, Backoff, NoRow
      <4> QED BY <4>2, <4>3
    <3> QED BY <2>5, <3>2, <3>3 DEF FirstWrite
  <2> QED BY <1>10, <2>2, <2>3, <2>4, <2>5 DEF FirstStep
<1>11. ASSUME NEW i \in Jobs, GetLate(i)  PROVE Kept(j)'
  <2>1. UNCHANGED <<faults, first, replays>> /\ row[i] \in RowRecords \ {NoRow} /\ row[i].next = "ahead"
        /\ row' = [row EXCEPT ![i].next = "past"]
    BY <1>11 DEF GetLate, Sound, TypeOK
  <2>2. CASE i # j
    BY <1>1, <1>3, <2>1, <2>2
  <2>3. CASE i = j
    <3>1. row'[j].status = row[j].status /\ row'[j].next = "past" /\ row'[j].attempts = row[j].attempts
          /\ row'[j] # NoRow
      BY <1>1, <2>1, <2>3 DEF RowRecords, NoRow
    <3> QED BY <2>1, <2>3, <3>1 DEF Kept, Settled, Sound, RetriesOfFailures
  <2> QED BY <2>2, <2>3
<1>12. ASSUME NEW i \in Jobs, Replay(i)  PROVE Kept(j)'
  <2>1. UNCHANGED <<faults, row, first>> /\ replays' = [replays EXCEPT ![i] = @ + 1]
    BY <1>12 DEF Replay
  <2>2. replays'[j] = replays[j] \/ replays'[j] > 0
    BY <1>1, <2>1
  <2> QED BY <1>3, <2>1, <2>2
<1>13. CASE ReplaySend
  <2>1. PICK a \in Answers : Dial(replay.job, replay.secret, a)
    BY <1>13 DEF ReplaySend
  <2>2. UNCHANGED <<row, first, replays>> /\ replay.job \in Jobs
    BY <1>13 DEF ReplaySend, Sound, TypeOK, ReplayRecords, Idle
  <2> QED BY <1>5, <2>1, <2>2
<1>14. CASE ReplayWrite
  <2>1. UNCHANGED <<first, replays>> /\ replay # Idle /\ replays[replay.job] > 0
        /\ (faults' = faults \/ Fault(1))
        /\ \A k \in Jobs : k # replay.job => row'[k] = row[k]
    BY <1>1, <1>14 DEF ReplayWrite, Sound, ReplayHasRow, Idle
  <2> QED BY <1>2, <1>3, <2>1 DEF Kept
<1>15. ASSUME NEW p \in Passes, PassStep(p)  PROVE Kept(j)'
  <2>1. UNCHANGED <<first, replays>>
    BY <1>15 DEF PassStep, ListDue, PassSend, PassWrite, PassThrows
  <2>2. pass[p] \in PassRecords
    BY DEF Sound, TypeOK
  <2>3. CASE ListDue(p)
    BY <1>3, <2>1, <2>3 DEF ListDue
  <2>4. CASE PassSend(p)
    <3>1. PICK i \in pass[p].todo, a \in Answers : Dial(i.job, i.secret, a)
      BY <2>4 DEF PassSend
    <3>2. i.job \in Jobs /\ row' = row
      BY <2>2, <2>4, <3>1 DEF PassSend, PassRecords, Items, Idle
    <3> QED BY <1>5, <2>1, <3>1, <3>2
  <2>5. CASE PassWrite(p)
    <3> DEFINE i == pass[p].job
    <3>1. /\ Recorded(i, pass[p].answer, Retried(i, pass[p].answer), RetryThrown(i))
          /\ pass[p].at = "write"
      BY <2>5 DEF PassWrite
    <3>2. faults' = faults \/ Fault(1)
      BY <3>1 DEF Recorded
    <3>3. i \in Held(p) /\ i \in Jobs /\ pass[p].answer \in Answers
      BY <2>2, <3>1 DEF Held, PassRecords, Idle
    <3>4. row[i] # NoRow /\ row[i].status # "pending"
      BY <3>3 DEF Sound, HeldHasRow, RetriesOfFailures
    <3>5. CASE i # j
      BY <1>1, <1>2, <1>3, <2>1, <3>1, <3>2, <3>5 DEF Recorded
    <3>6. CASE i = j
      <4>1. row'[j] \in {Retried(j, pass[p].answer), RetryThrown(j)}
        BY <1>1, <3>1, <3>6 DEF Recorded
      <4>2. CASE row'[j] = Retried(j, pass[p].answer)
        BY <1>4, <4>2 DEF Retried, Outcome, Backoff, NoRow
      <4>3. CASE row'[j] = RetryThrown(j)
        <5>1. row[j] \in RowRecords \ {NoRow} /\ row[j].status \in {"delivered", "failed"}
          BY <1>1, <3>4, <3>6 DEF RowRecords
        <5>2. RetryThrown(j).status = row[j].status /\ RetryThrown(j).next = "ahead"
          BY <5>1 DEF RetryThrown, RowRecords, NoRow
        <5>3. RetryThrown(j) # NoRow
          BY <5>1, <5>2 DEF NoRow
        <5> QED BY <1>4, <4>3, <5>1, <5>2, <5>3
      <4> QED BY <4>1, <4>2, <4>3
    <3> QED BY <3>5, <3>6
  <2>6. CASE PassThrows(p)
    BY <1>2, <2>6 DEF PassThrows, Unrecorded
  <2> QED BY <1>15, <2>3, <2>4, <2>5, <2>6 DEF PassStep
<1> QED BY <1>7, <1>8, <1>9, <1>10, <1>11, <1>12, <1>13, <1>14, <1>15 DEF Next

---------------------------------------------------------------------------
(* Every delivery is paid for. *)

LEMMA Counters ==
  ASSUME TypeOK, TypeOK', NEW j \in Jobs
  PROVE  /\ accepted[j] \in Nat /\ replays[j] \in Nat /\ shared[j] \in Nat /\ faults \in Nat
         /\ Cardinality(Holders(j)) \in Nat
         /\ Starting(j) \in {0, 1} /\ Asked(j) \in {0, 1} /\ Loose(j) \in {0, 1}
         /\ Starting(j)' \in {0, 1} /\ Asked(j)' \in {0, 1} /\ Loose(j)' \in {0, 1}
<1>1. IsFiniteSet(Holders(j))
  BY PassesAssumption, FS_Subset DEF Holders
<1> QED BY <1>1, FS_CardinalityType, BoundsAssumption
        DEF TypeOK, Starting, Asked, Loose

\* What one pass does to the number of those who have something to spend on a job.
LEMMA HoldersCounted ==
  ASSUME NEW j \in Jobs, NEW p \in Passes,
         \A q \in Passes \ {p} : Unspent(q, j)' <=> Unspent(q, j)
  PROVE  Cardinality(Holders(j))'
           = Cardinality(Holders(j)) + (IF Unspent(p, j)' THEN 1 ELSE 0)
                                     - (IF Unspent(p, j) THEN 1 ELSE 0)
<1>1. IsFiniteSet(Holders(j)) /\ Cardinality(Holders(j)) \in Nat
  BY PassesAssumption, FS_Subset, FS_CardinalityType DEF Holders
<1>2. CASE Unspent(p, j)' <=> Unspent(p, j)
  <2>1. Holders(j)' = Holders(j)
    BY <1>2 DEF Holders
  <2> QED BY <1>1, <1>2, <2>1
<1>3. CASE Unspent(p, j)' /\ ~Unspent(p, j)
  <2>1. Holders(j)' = Holders(j) \cup {p} /\ p \notin Holders(j)
    BY <1>3 DEF Holders
  <2> QED BY <1>1, <1>3, <2>1, FS_AddElement
<1>4. CASE ~Unspent(p, j)' /\ Unspent(p, j)
  <2>1. Holders(j)' = Holders(j) \ {p} /\ p \in Holders(j)
    BY <1>4 DEF Holders
  <2>2. Cardinality(Holders(j) \ {p}) = Cardinality(Holders(j)) - 1
    BY <1>1, <2>1, FS_RemoveElement
  <2> QED BY <1>1, <1>4, <2>1, <2>2
<1> QED BY <1>2, <1>3, <1>4

\* A step that leaves the passes alone and gives no row a retry time.
LEMMA NoNewClaims ==
  ASSUME Sound, Sound', NEW j \in Jobs, UNCHANGED pass
  PROVE  /\ Cardinality(Holders(j))' = Cardinality(Holders(j))
         /\ (row'[j] # NoRow /\ row'[j].next # "null" => row[j] # NoRow /\ row[j].next # "null")
               => Loose(j)' = Loose(j) \/ Loose(j)' = 0
<1>1. Holders(j)' = Holders(j)
  BY DEF Holders, Unspent
<1>2. \A p \in Passes : Held(p)' = Held(p)
  BY ListsKept
<1> QED BY <1>1, <1>2 DEF Loose

\* What a request costs.
LEMMA DialPaid ==
  ASSUME TypeOK, TypeOK', NEW i \in Jobs, NEW j \in Jobs, NEW s, NEW a \in Answers, Dial(i, s, a)
  PROVE  \/ accepted'[j] = accepted[j] /\ faults' = faults
         \/ i = j /\ a = "ok" /\ accepted'[j] = accepted[j] + 1 /\ faults' = faults
         \/ /\ a # "ok" /\ faults' = faults + 1
            /\ accepted'[j] = accepted[j] \/ accepted'[j] = accepted[j] + 1
BY DEF Dial, Fault, TypeOK

LEMMA RecordedCost ==
  ASSUME NEW j \in Jobs, NEW a \in Answers, NEW r, NEW t, TypeOK,
         Recorded(j, a, r, t) \/ Unrecorded(a)
  PROVE  /\ faults \in Nat
         /\ \/ faults' = faults \/ faults' = faults + 1 \/ faults' = faults + 2
         /\ \/ row'[j] = r /\ a # "throw" /\ faults' = faults
            \/ row'[j] = t /\ (a = "throw" \/ faults' = faults + 1)
            \/ row'[j] = row[j] /\ faults' \in {faults + 1, faults + 2}
         /\ \A i \in Jobs \ {j} : row'[i] = row[i]
BY BoundsAssumption DEF Recorded, Unrecorded, Fault, TypeOK

LEMMA PaidAside ==
  ASSUME Sound, Sound', NEW j \in Jobs, PaidFor(j),
         \/ UNCHANGED vars \/ Merchant \/ (\E e \in Events : Fire(e))
         \/ RestartApi \/ RestartBilling
         \/ \E i \in Jobs : GetLate(i) \/ Replay(i)
         \/ ReplaySend \/ ReplayWrite
  PROVE  PaidFor(j)'
<1> USE DEF PaidFor
<1>1. Sound => TypeOK
  BY DEF Sound
<1>2. TypeOK /\ TypeOK'
  BY <1>1 DEF Sound
<1>3. CASE UNCHANGED vars \/ Merchant
  <2>1. UNCHANGED <<accepted, first, row, pass, replay, replays, shared, faults>>
    BY <1>3 DEF vars, Merchant, Register, Delete, Roll
  <2>2. Starting(j)' = Starting(j) /\ Asked(j)' = Asked(j)
    BY <2>1 DEF Starting, Asked
  <2> QED BY <1>2, <2>1, <2>2, Counters, NoNewClaims
<1>4. ASSUME NEW e \in Events, Fire(e)  PROVE PaidFor(j)'
  <2>1. UNCHANGED <<accepted, row, pass, replay, replays, shared, faults>>
    BY <1>4 DEF Fire
  <2>2. Asked(j)' = Asked(j)
    BY <2>1 DEF Asked
  <2>3. Starting(j)' = Starting(j)
    BY <1>4 DEF Fire, Jobs, Starting
  <2> QED BY <1>2, <2>1, <2>2, <2>3, Counters, NoNewClaims
<1>5. CASE RestartApi
  <2>1. UNCHANGED <<accepted, row, pass, replays, shared>> /\ faults' = faults + 1
    BY <1>5, <1>2 DEF RestartApi, Fault
  <2>2. Starting(j)' <= Starting(j)
    BY <1>5 DEF RestartApi, Starting
  <2>3. Asked(j)' = 0
    BY <1>5 DEF RestartApi, Asked
  <2> QED BY <1>2, <2>1, <2>2, <2>3, Counters, NoNewClaims
<1>6. CASE RestartBilling
  <2>1. UNCHANGED <<accepted, row, first, replay, replays, shared>> /\ faults' = faults + 1
    BY <1>6 DEF RestartBilling, Fault
  <2>2. Starting(j)' = Starting(j) /\ Asked(j)' = Asked(j)
    BY <2>1 DEF Starting, Asked
  <2>3. Cardinality(Holders(j))' = 0
    <3>1. Holders(j)' = {}
      BY <1>6 DEF RestartBilling, Holders, Unspent
    <3> QED BY <3>1, FS_EmptySet
  <2> QED BY <1>2, <2>1, <2>2, <2>3, Counters
<1>7. ASSUME NEW i \in Jobs, GetLate(i)  PROVE PaidFor(j)'
  <2>1. UNCHANGED <<accepted, first, pass, replay, replays, shared, faults>>
    BY <1>7 DEF GetLate
  <2>2. Starting(j)' = Starting(j) /\ Asked(j)' = Asked(j)
    BY <2>1 DEF Starting, Asked
  <2>3. row'[j] # NoRow /\ row'[j].next # "null" => row[j] # NoRow /\ row[j].next # "null"
    BY <1>2, <1>7 DEF GetLate, TypeOK
  <2> QED BY <1>2, <2>1, <2>2, <2>3, Counters, NoNewClaims
<1>8. ASSUME NEW i \in Jobs, Replay(i)  PROVE PaidFor(j)'
  <2>1. UNCHANGED <<accepted, first, row, pass, shared, faults>>
    BY <1>8 DEF Replay
  <2>2. Starting(j)' = Starting(j)
    BY <2>1 DEF Starting
  <2>3. Asked(j) = 0
    BY <1>8 DEF Replay, Asked
  <2>4. IF i = j THEN replays'[j] = replays[j] + 1 ELSE replays'[j] = replays[j] /\ Asked(j)' = 0
    BY <1>2, <1>8 DEF Replay, Asked, TypeOK
  <2> QED BY <1>2, <2>1, <2>2, <2>3, <2>4, Counters, NoNewClaims
<1>9. CASE ReplaySend
  <2>1. PICK a \in Answers : Dial(replay.job, replay.secret, a)
    BY <1>9 DEF ReplaySend
  <2>2. UNCHANGED <<first, row, pass, replays, shared>> /\ replay.job \in Jobs /\ replay # Idle
    BY <1>2, <1>9 DEF ReplaySend, TypeOK, ReplayRecords, Idle
  <2>3. Starting(j)' = Starting(j)
    BY <2>2 DEF Starting
  <2>4. Asked(j)' = 0 /\ (replay.job = j => Asked(j) = 1)
    BY <1>9, <2>2 DEF ReplaySend, Asked
  <2> QED BY <1>2, <2>1, <2>2, <2>3, <2>4, Counters, NoNewClaims, DialPaid
<1>10. CASE ReplayWrite
  <2>1. UNCHANGED <<accepted, first, pass, replays, shared>> /\ replay.at = "write" /\ replay # Idle
        /\ (faults' = faults \/ faults' = faults + 1)
    BY <1>10 DEF ReplayWrite, Fault, Idle
  <2>2. Starting(j)' = Starting(j) /\ Asked(j) = 0 /\ Asked(j)' = 0
    BY <1>10, <2>1 DEF Starting, Asked, ReplayWrite
  <2>3. row'[j] # NoRow /\ row'[j].next # "null" => row[j] # NoRow /\ row[j].next # "null"
    <3>1. replay.job \in Jobs /\ row[replay.job] \in RowRecords \ {NoRow}
      BY <1>2, <2>1 DEF Sound, ReplayHasRow, TypeOK, ReplayRecords, Idle
    <3>2. row'[replay.job] = row[replay.job] \/ row'[replay.job].next = row[replay.job].next
      BY <1>2, <1>10, <3>1 DEF ReplayWrite, TypeOK, RowRecords, NoRow
    <3>3. row'[j] = row[j] \/ j = replay.job
      BY <1>2, <1>10 DEF ReplayWrite, TypeOK
    <3> QED BY <3>1, <3>2, <3>3
  <2> QED BY <1>2, <2>1, <2>2, <2>3, Counters, NoNewClaims
<1> QED BY <1>3, <1>4, <1>5, <1>6, <1>7, <1>8, <1>9, <1>10

LEMMA PaidFirst ==
  ASSUME Sound, Sound', NEW j \in Jobs, PaidFor(j), NEW i \in Jobs, FirstStep(i)
  PROVE  PaidFor(j)'
<1> USE DEF PaidFor
<1>1. Sound => TypeOK
  BY DEF Sound
<1>2. TypeOK /\ TypeOK' /\ first[i] \in FirstRecords
  BY <1>1 DEF Sound, TypeOK
<1>3. UNCHANGED <<pass, replay, replays, shared>> /\ \A k \in Jobs \ {i} : first'[k] = first[k]
  BY <1>2 DEF FirstStep, CreateRow, CreateFails, FirstSend, FirstWrite, TypeOK
<1>4. Asked(j)' = Asked(j) /\ (i # j => Starting(j)' = Starting(j))
  BY <1>3 DEF Asked, Starting
<1>5. CASE CreateRow(i)
  <2>1. UNCHANGED <<faults, accepted>> /\ first[i].at = "create"
    BY <1>5 DEF CreateRow
  <2>2. Starting(j)' = Starting(j)
    <3>1. first'[i].at = "send"
      <4>1. [first[i] EXCEPT !.at = "send"].at = "send"
        BY <1>2, <2>1 DEF FirstRecords, Resting
      <4> QED BY <1>2, <1>5, <4>1 DEF CreateRow, TypeOK
    <3> QED BY <1>4, <2>1, <3>1 DEF Starting
  <2>3. row'[j] = row[j] \/ row'[j].next = "null"
    BY <1>2, <1>5 DEF CreateRow, NewRow, TypeOK
  <2> QED BY <1>2, <1>3, <1>4, <2>1, <2>2, <2>3, Counters, NoNewClaims
<1>6. CASE CreateFails(i)
  <2>1. UNCHANGED <<row, accepted>> /\ first[i].at = "create" /\ first'[i].at = "over"
        /\ (faults' = faults \/ faults' = faults + 1)
    BY <1>2, <1>6 DEF CreateFails, Fault, TypeOK
  <2>2. Starting(j)' <= Starting(j)
    BY <1>4, <2>1 DEF Starting
  <2> QED BY <1>2, <1>3, <1>4, <2>1, <2>2, Counters, NoNewClaims
<1>7. CASE FirstSend(i)
  <2>1. PICK a \in Answers : /\ Dial(i, first[i].secret, a)
                             /\ first' = [first EXCEPT ![i] = [at |-> "write", answer |-> a]]
    BY <1>7 DEF FirstSend
  <2>2. row' = row /\ first[i].at = "send" /\ first'[i] = [at |-> "write", answer |-> a]
    BY <1>2, <1>7, <2>1 DEF FirstSend, TypeOK
  <2>3. i = j => Starting(j) = 1 /\ Starting(j)' = IF a = "ok" THEN 0 ELSE 1
    BY <2>2 DEF Starting
  <2> QED BY <1>2, <1>3, <1>4, <2>1, <2>2, <2>3, Counters, NoNewClaims, DialPaid
<1>8. CASE FirstWrite(i)
  <2> DEFINE a == first[i].answer
  <2>1. /\ first[i].at = "write" /\ first'[i].at = "over" /\ accepted' = accepted
        /\ Recorded(i, a, FirstRow(a), FirstRowThrown) \/ Unrecorded(a)
    BY <1>2, <1>8 DEF FirstWrite, TypeOK
  <2>2. a \in Answers
    BY <1>2, <2>1 DEF FirstRecords, Resting
  <2>3. /\ faults \in Nat /\ (faults' = faults \/ faults' = faults + 1 \/ faults' = faults + 2)
        /\ \/ row'[i] = FirstRow(a) /\ a # "throw" /\ faults' = faults
           \/ row'[i] = FirstRowThrown /\ (a = "throw" \/ faults' = faults + 1)
           \/ row'[i] = row[i] /\ faults' \in {faults + 1, faults + 2}
        /\ \A k \in Jobs \ {i} : row'[k] = row[k]
    BY <1>2, <2>1, <2>2, RecordedCost
  <2> HIDE DEF a
  <2>4. CASE i # j
    BY <1>2, <1>3, <1>4, <2>1, <2>3, <2>4, Counters, NoNewClaims
  <2>5. CASE i = j
    <3>1. Starting(j) = (IF a = "ok" THEN 0 ELSE 1) /\ Starting(j)' = 0
      BY <2>1, <2>5 DEF Starting, a
    <3>2. Loose(j) = 0
      BY <2>1, <2>5 DEF Sound, FirstHolds, Loose
    <3>3. row'[j] = FirstRow("ok") => Loose(j)' = 0
      BY DEF FirstRow, Backoff, Loose
    <3>4. a = "ok" => Loose(j)' = 0 \/ faults' = faults + 1 \/ faults' = faults + 2
      BY <2>3, <2>5, <3>3
    <3> QED BY <1>2, <1>3, <1>4, <2>1, <2>3, <3>1, <3>2, <3>4, Counters, NoNewClaims
  <2> QED BY <2>4, <2>5
<1> QED BY <1>5, <1>6, <1>7, <1>8 DEF FirstStep

LEMMA PaidPass ==
  ASSUME Sound, Sound', NEW j \in Jobs, PaidFor(j), NEW p \in Passes, PassStep(p)
  PROVE  PaidFor(j)'
<1> USE DEF PaidFor
<1>1. Sound => TypeOK
  BY DEF Sound
<1>2. TypeOK /\ TypeOK' /\ pass[p] \in PassRecords /\ pass \in [Passes -> PassRecords]
  BY <1>1 DEF Sound, TypeOK
<1>3. UNCHANGED <<first, replay, replays>> /\ \A q \in Passes \ {p} : pass'[q] = pass[q]
  BY <1>2 DEF PassStep, ListDue, PassSend, PassWrite, PassThrows
<1>4. Asked(j)' = Asked(j) /\ Starting(j)' = Starting(j)
  BY <1>3 DEF Asked, Starting
<1>5. Cardinality(Holders(j))'
        = Cardinality(Holders(j)) + (IF Unspent(p, j)' THEN 1 ELSE 0) - (IF Unspent(p, j) THEN 1 ELSE 0)
  <2>1. \A q \in Passes \ {p} : Unspent(q, j)' <=> Unspent(q, j)
    BY <1>3 DEF Unspent
  <2> QED BY <2>1, HoldersCounted
<1>6. \A q \in Passes \ {p} : Held(q)' = Held(q)
  BY <1>3 DEF Held
<1>7. CASE ListDue(p)
  <2>1. PICK B \in Batches :
           /\ pass' = [pass EXCEPT ![p] = [at |-> "next", todo |-> {Item(k, Current(k)) : k \in B}]]
           /\ shared' = [k \in Jobs |-> IF k \in B /\ \E q \in Passes : k \in Held(q)
                                        THEN shared[k] + 1 ELSE shared[k]]
    BY <1>7 DEF ListDue
  <2>2. UNCHANGED <<faults, row, accepted>> /\ pass[p].at = "idle"
    BY <1>7 DEF ListDue
  <2>3. ~Unspent(p, j) /\ Held(p) = {}
    BY <1>2, <2>2 DEF Unspent, Held, PassRecords, Idle
  <2>4. pass'[p] = [at |-> "next", todo |-> {Item(k, Current(k)) : k \in B}]
    BY <1>2, <2>1
  <2>5. Held(p)' = B /\ (Unspent(p, j)' <=> j \in B)
    <3> DEFINE T == {Item(k, Current(k)) : k \in B}
    <3>1. (\A i \in T : i.job \in B) /\ \A k \in B : \E i \in T : i.job = k
      <4>1. \A k : Item(k, Current(k)).job = k
        BY DEF Item
      <4> QED BY <4>1
    <3> HIDE DEF T
    <3>2. pass'[p] = [at |-> "next", todo |-> T] /\ pass'[p] # Idle
      BY <2>4 DEF T, Idle
    <3>3. Held(p)' = {i.job : i \in T}
      BY <3>2 DEF Held
    <3>4. Unspent(p, j)' <=> \E i \in T : i.job = j
      BY <3>2 DEF Unspent
    <3> QED BY <3>1, <3>3, <3>4
  <2>6. CASE j \notin B
    <3>1. Loose(j)' = Loose(j)
      BY <1>6, <2>2, <2>3, <2>5, <2>6 DEF Loose
    <3>2. shared'[j] = shared[j]
      BY <2>1, <2>6
    <3> QED BY <1>2, <1>3, <1>4, <1>5, <2>2, <2>3, <2>5, <2>6, <3>1, <3>2, Counters
  <2>7. CASE j \in B
    <3>1. Loose(j)' = 0
      BY <2>5, <2>7 DEF Loose
    <3>2. IF \E q \in Passes : j \in Held(q) THEN shared'[j] = shared[j] + 1
                                             ELSE shared'[j] = shared[j] /\ Loose(j) = 1
      <4>1. Due(j)
        BY <2>1, <2>7 DEF Batches
      <4> QED BY <2>1, <2>7, <4>1 DEF Loose, Due
    <3> QED BY <1>2, <1>3, <1>4, <1>5, <2>2, <2>3, <2>5, <2>7, <3>1, <3>2, Counters
  <2> QED BY <2>6, <2>7
<1>8. CASE PassSend(p)
  <2>1. PICK i \in pass[p].todo, a \in Answers :
           /\ Dial(i.job, i.secret, a)
           /\ pass' = [pass EXCEPT ![p] = [at |-> "write", todo |-> pass[p].todo \ {i},
                                           job |-> i.job, answer |-> a]]
    BY <1>8 DEF PassSend
  <2>2. UNCHANGED <<row, shared>> /\ pass[p].at = "next"
    BY <1>8 DEF PassSend
  <2>3. i.job \in Jobs /\ pass[p] # Idle
    BY <1>2, <2>1, <2>2 DEF PassRecords, Items, Idle
  <2>4. pass'[p] = [at |-> "write", todo |-> pass[p].todo \ {i}, job |-> i.job, answer |-> a]
        /\ pass'[p] # Idle
    BY <1>2, <2>1 DEF Idle
  <2>5. \A k \in pass[p].todo : k.job = i.job => k = i
    BY <2>1, <2>3 DEF Sound, OncePerPass
  <2>6. Held(p)' = Held(p)
    BY <2>1, <2>2, <2>4 DEF Held
  <2>7. Loose(j)' = Loose(j)
    BY <1>6, <2>2, <2>6 DEF Loose
  <2>8. CASE i.job # j
    <3>1. Unspent(p, j)' <=> Unspent(p, j)
      BY <2>1, <2>2, <2>3, <2>4, <2>8 DEF Unspent
    <3> QED BY <1>2, <1>3, <1>4, <1>5, <2>1, <2>2, <2>3, <2>7, <2>8, <3>1, Counters, DialPaid
  <2>9. CASE i.job = j
    <3>1. Unspent(p, j) /\ (Unspent(p, j)' <=> a # "ok")
      BY <2>1, <2>3, <2>4, <2>5, <2>9 DEF Unspent
    <3> QED BY <1>2, <1>3, <1>4, <1>5, <2>1, <2>2, <2>3, <2>7, <2>9, <3>1, Counters, DialPaid
  <2> QED BY <2>8, <2>9
<1>9. CASE PassWrite(p)
  <2> DEFINE i == pass[p].job
             a == pass[p].answer
  <2>1. pass[p].at = "write" /\ UNCHANGED <<shared, accepted>>
        /\ Recorded(i, a, Retried(i, a), RetryThrown(i)) /\ pass'[p] = Left(p)
    BY <1>2, <1>9 DEF PassWrite
  <2>2. pass[p] # Idle /\ i \in Jobs /\ a \in Answers
    BY <1>2, <2>1 DEF PassRecords, Idle
  <2>3. /\ faults \in Nat /\ (faults' = faults \/ faults' = faults + 1)
        /\ \/ row'[i] = Retried(i, a) /\ a # "throw" /\ faults' = faults
           \/ a = "throw" \/ faults' = faults + 1
        /\ \A k \in Jobs \ {i} : row'[k] = row[k]
    BY <1>2, <2>1, <2>2 DEF Recorded, Fault, TypeOK
  <2>4. /\ Held(p) = {k.job : k \in pass[p].todo} \cup {i}
        /\ Held(p)' = {k.job : k \in pass[p].todo}
    BY <2>1, <2>2 DEF Held, Left, Idle
  <2>5. \A k \in pass[p].todo : k.job # i
    BY <2>1 DEF Sound, OncePerPass
  <2>6. Unspent(p, j)' <=> \E k \in pass[p].todo : k.job = j
    BY <2>1 DEF Unspent, Left, Idle
  <2> HIDE DEF i, a
  <2>7. CASE i # j
    <3>1. Loose(j)' = Loose(j)
      BY <1>6, <2>3, <2>4, <2>7 DEF Loose
    <3>2. Unspent(p, j)' <=> Unspent(p, j)
      BY <2>2, <2>6, <2>7 DEF Unspent, i
    <3> QED BY <1>2, <1>3, <1>4, <1>5, <2>1, <2>3, <3>1, <3>2, Counters
  <2>8. CASE i = j
    <3>1. Loose(j) = 0
      BY <2>4, <2>8 DEF Loose
    <3>2. ~Unspent(p, j)' /\ (Unspent(p, j) <=> a # "ok")
      BY <2>1, <2>2, <2>5, <2>6, <2>8 DEF Unspent, i, a
    <3>3. a = "ok" => Loose(j)' = 0 \/ faults' = faults + 1
      BY <2>3, <2>8 DEF Retried, Backoff, Loose
    <3> QED BY <1>2, <1>3, <1>4, <1>5, <2>1, <2>3, <3>1, <3>2, <3>3, Counters
  <2> QED BY <2>7, <2>8
<1>10. CASE PassThrows(p)
  <2>1. UNCHANGED <<row, shared, accepted>> /\ pass'[p] = Idle
    BY <1>2, <1>10 DEF PassThrows, Unrecorded
  <2>2. faults' = faults + 1 \/ faults' = faults + 2
    BY <1>10 DEF PassThrows, Unrecorded, Fault
  <2>3. ~Unspent(p, j)'
    BY <2>1 DEF Unspent
  <2> QED BY <1>2, <1>3, <1>4, <1>5, <2>1, <2>2, <2>3, Counters
<1> QED BY <1>7, <1>8, <1>9, <1>10 DEF PassStep

---------------------------------------------------------------------------
(* The invariant IInv holds in every reachable state of delivery: types, the lists of the *)
(* passes, that every delivery that may still come is paid for, and that nothing is        *)
(* dropped.                                                                                *)
THEOREM DeliveryInductive == Spec => []IInv
<1>1. Init => IInv
  <2> SUFFICES ASSUME Init PROVE IInv
    OBVIOUS
  <2>1. TypeOK
    BY BoundsAssumption DEF Init, TypeOK, EndpointRecords, Secrets, RowRecords, FirstRecords, Resting,
       PassRecords, ReplayRecords, Idle
  <2>2. \A p \in Passes : Held(p) = {}
    BY DEF Init, Held, Idle
  <2>3. Sound
    BY <2>1, <2>2 DEF Init, Sound, FirstHolds, RetriesOfFailures, HeldHasRow, ReplayHasRow,
       OncePerPass, Idle
  <2>4. ASSUME NEW j \in Jobs  PROVE PaidFor(j)
    <3>1. Holders(j) = {}
      BY DEF Init, Holders, Unspent
    <3>2. accepted[j] = 0 /\ replays[j] = 0 /\ shared[j] = 0 /\ faults = 0
          /\ Starting(j) = 1 /\ Asked(j) = 0 /\ Loose(j) = 0
      BY DEF Init, Starting, Asked, Loose, Idle
    <3> QED BY <3>1, <3>2, FS_EmptySet DEF PaidFor
  <2>5. NothingDropped
    BY DEF Init, NothingDropped
  <2> QED BY <2>3, <2>4, <2>5 DEF IInv
<1>2. IInv /\ [Next]_vars => IInv'
  <2> SUFFICES ASSUME IInv, [Next]_vars PROVE IInv'
    OBVIOUS
  <2>1. Sound /\ Sound'
    BY SoundKept DEF IInv
  <2>2. ASSUME NEW j \in Jobs  PROVE PaidFor(j)'
    BY <2>1, PaidAside, PaidFirst, PaidPass DEF IInv, Next
  <2>3. NothingDropped'
    <3>1. \A j \in Jobs : Kept(j)
      BY DEF IInv, NothingDropped, Kept
    <3>2. \A j \in Jobs : Kept(j)'
      BY <2>1, <3>1, KeptThrough
    <3> QED BY <3>2 DEF NothingDropped, Kept
  <2> QED BY <2>1, <2>2, <2>3 DEF IInv
<1> QED BY <1>1, <1>2, PTL DEF Spec

(* Types of the rows, of the requests under way and of the passes' lists. *)
THEOREM DeliveryTypeCorrect == Spec => []TypeOK
<1>1. IInv => TypeOK
  BY DEF IInv, Sound
<1> QED BY <1>1, DeliveryInductive, PTL

(* An endpoint takes an event again only as often as it was replayed, listed by two passes *)
(* together, or as a write, an answer or a process was lost (lib/webhooks/delivery.ts,     *)
(* billing/engine.ts).                                                                     *)
THEOREM DeliveryAcceptedOnce == Spec => []AcceptedOnce
<1>1. IInv => AcceptedOnce
  <2> SUFFICES ASSUME IInv, NEW j \in Jobs
               PROVE  accepted[j] <= 1 + replays[j] + shared[j] + faults
    BY DEF AcceptedOnce
  <2>1. accepted[j] \in Nat /\ replays[j] \in Nat /\ shared[j] \in Nat /\ faults \in Nat
        /\ Starting(j) \in {0, 1} /\ Asked(j) \in {0, 1} /\ Loose(j) \in {0, 1}
    BY BoundsAssumption DEF IInv, Sound, TypeOK, Starting, Asked, Loose
  <2>2. Cardinality(Holders(j)) \in Nat
    <3>1. IsFiniteSet(Holders(j))
      BY PassesAssumption, FS_Subset DEF Holders
    <3> QED BY <3>1, FS_CardinalityType
  <2> QED BY <2>1, <2>2 DEF IInv, PaidFor
<1> QED BY <1>1, DeliveryInductive, PTL

(* A row that is neither delivered nor at its limit is with the sender of its first attempt *)
(* or has a retry time, unless a fault or a replay came between.                            *)
THEOREM DeliveryNothingDropped == Spec => []NothingDropped
<1>1. IInv => NothingDropped
  BY DEF IInv
<1> QED BY <1>1, DeliveryInductive, PTL
===============================================================================
