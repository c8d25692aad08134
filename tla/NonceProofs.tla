------------------------------ MODULE NonceProofs ------------------------------
(***************************************************************************)
(* What holds of Nonce for every number of senders, nonces, fees and       *)
(* losses: its types, when a nonce may be given twice, and that a hole has *)
(* a cause.                                                                *)
(***************************************************************************)
EXTENDS Nonce, FiniteSetTheorems, TLAPS

Reading(s) == sender[s].at = "read"

OtherStep == ScriptStep \/ PayoutStep \/ Mine \/ \E n \in Nonces : Drop(n)

\* The script and the fees stay within their bounds while one is under way.
RunsCounted ==
    /\ script # Idle => anchors < MaxAnchors
    /\ payout # Idle => fees < MaxPayouts

\* The larger of the row and the count a sender read is a nonce nobody has sent, unless
\* it was handed back over what the node has.
Fresh ==
    \A r \in Senders : Reading(r) =>
        \A n \in Nat : Known(n) => n < stored \/ n < sender[r].pending \/ n \in misread

\* What may be queued above the row is a fee, the next to be mined, or was misread.
QueuedBelow == \A n \in pool : n < stored \/ n = mined \/ n \in misread

\* What was handed out is below the row.
HeldBelow == \A s \in Senders : Reserved(s) => sender[s].nonce < stored

\* What a sender holds is its own, and unsent as far as the errors could tell.
Distinct ==
    \A s \in Senders : Reserved(s) =>
        /\ Known(sender[s].nonce) => sender[s].nonce \in misread
        /\ \A t \in Senders \ {s} : Reserved(t) => sender[t].nonce # sender[s].nonce

Careful == Fresh /\ QueuedBelow /\ HeldBelow /\ Distinct

IInv == TypeOK /\ RunsCounted /\ (careless \/ Careful)

---------------------------------------------------------------------------
\* A count at "pending" is past everything queued above the row.
LEMMA CountIsFresh ==
  ASSUME IInv, Careful, NEW p \in Counts, IsPending(p)
  PROVE  \A n \in Nat : Known(n) => n < stored \/ n < p \/ n \in misread
<1>1. mined \in Nat /\ p \in Nat /\ mined <= p /\ p \notin pool
  BY DEF IInv, TypeOK, Counts, IsPending
<1> QED BY <1>1 DEF Careful, QueuedBelow, Known

\* The nonce of an allocation is not below the row, and was not sent unless misread.
LEMMA GivenIsFresh ==
  ASSUME IInv, Careful, NEW s \in Senders, Reading(s)
  PROVE  /\ Given(sender[s].pending) \in Nat
         /\ Known(Given(sender[s].pending)) => Given(sender[s].pending) \in misread
         /\ stored <= Given(sender[s].pending)
<1>1. sender[s].pending \in Nat /\ stored \in Nat \cup {-1} /\ NoRow = -1
  BY DEF IInv, TypeOK, SenderRecords, Idle, Reading, Counts, NoRow
<1> DEFINE n == Given(sender[s].pending)
<1>2. n \in Nat /\ stored <= n /\ sender[s].pending <= n
  BY <1>1 DEF Given
<1>3. Known(n) => n < stored \/ n < sender[s].pending \/ n \in misread
  BY <1>2 DEF Careful, Fresh
<1> HIDE DEF n
<1>4. Known(n) => n \in misread
  BY <1>1, <1>2, <1>3
<1> QED BY <1>2, <1>4 DEF n

---------------------------------------------------------------------------
\* A loss stays within its bound, which what was misread shares.
LEMMA LossBounded ==
  ASSUME IInv, Lose
  PROVE  lost' = lost + 1 /\ lost' \in 0..MaxLost
<1>1. lost \in 0..MaxLost /\ misread \in SUBSET Nonces
  BY DEF IInv, TypeOK
<1>2. IsFiniteSet(Nonces)
  BY FS_Interval, BoundsAssumption DEF Nonces
<1>3. Cardinality(misread) \in Nat
  BY <1>1, <1>2, FS_Subset, FS_CardinalityType
<1>4. lost' = lost + 1 /\ lost + Cardinality(misread) < MaxLost
  BY DEF Lose, MayErr
<1> QED BY <1>1, <1>3, <1>4, BoundsAssumption

LEMMA TypesOfSender ==
  ASSUME IInv, NEW s \in Senders, SenderStep(s)
  PROVE  TypeOK' /\ RunsCounted'
<1> USE BoundsAssumption DEF Counts, Nonces, NoRow
<1>1. sender[s] \in SenderRecords /\ stored \in Counts \cup {NoRow} /\ lost \in 0..MaxLost /\ kept \in Nat
  BY DEF IInv, TypeOK
<1>2. CASE ReadPending(s)
  BY <1>2 DEF ReadPending, IInv, TypeOK, SenderRecords, RunsCounted
<1>3. ASSUME Reading(s)
      PROVE  Given(sender[s].pending) \in Nat
  BY <1>1, <1>3 DEF Reading, Given, SenderRecords, Idle
<1>4. CASE Allocate(s)
  BY <1>1, <1>3, <1>4 DEF Allocate, Reading, IInv, TypeOK, SenderRecords, RunsCounted
<1>5. CASE AllocateThrows(s)
  BY <1>1, <1>3, <1>5, LossBounded DEF AllocateThrows, Reading, IInv, TypeOK, SenderRecords, RunsCounted
<1>6. ASSUME Reserved(s)  PROVE sender[s].nonce \in Nonces
  BY <1>1, <1>6 DEF Reserved, SenderRecords, Idle
<1>7. CASE Broadcast(s)
  BY <1>6, <1>7 DEF Broadcast, Taken, Reserved, IInv, TypeOK, SenderRecords, RunsCounted
<1>8. CASE Refuse(s)
  <2>1. sender'[s] = [at |-> "refused", nonce |-> sender[s].nonce]
    BY <1>1, <1>8 DEF Refuse, SenderRecords, Idle, IInv, TypeOK
  <2> QED BY <1>6, <1>8, <2>1 DEF Refuse, Reserved, IInv, TypeOK, SenderRecords, RunsCounted
<1>8a. CASE RefuseSent(s)
  <2>1. sender'[s] = [at |-> "refused", nonce |-> sender[s].nonce]
    BY <1>1, <1>8a DEF RefuseSent, SenderRecords, Idle, IInv, TypeOK
  <2>2. sender[s].nonce \in Nonces
    BY <1>6, <1>8a DEF RefuseSent, Reserved
  <2>3. pool' \subseteq Nonces /\ misread' \subseteq Nonces /\ sender' \in [Senders -> SenderRecords]
    BY <1>8a, <2>1, <2>2 DEF RefuseSent, Taken, IInv, TypeOK, SenderRecords
  <2> QED BY <1>8a, <2>3 DEF RefuseSent, IInv, TypeOK, RunsCounted
<1>9. CASE Release(s)
  BY <1>1, <1>6, <1>9 DEF Release, Returned, Reserved, IInv, TypeOK, SenderRecords, RunsCounted
<1>10. CASE SenderStops(s)
  BY <1>1, <1>10, LossBounded DEF SenderStops, IInv, TypeOK, SenderRecords, RunsCounted
<1> QED BY <1>2, <1>4, <1>5, <1>7, <1>8, <1>8a, <1>9, <1>10 DEF SenderStep

LEMMA TypesOfOthers ==
  ASSUME IInv, OtherStep \/ UNCHANGED vars
  PROVE  TypeOK' /\ RunsCounted'
<1> USE BoundsAssumption DEF Counts, Nonces, NoRow
<1>1. CASE ScriptRow
  BY <1>1 DEF ScriptRow, IInv, TypeOK, ScriptRecords, Seen, RunsCounted, Idle
<1>2. CASE ScriptLatest
  <2>1. PICK p \in Counts : script' = Judged([script EXCEPT !.latest = p])
    BY <1>2 DEF ScriptLatest, IInv, TypeOK
  <2>2. script \in [at : {"reading"}, stored : Counts, latest : Seen, pending : Seen]
    BY <1>2 DEF ScriptLatest, IInv, TypeOK, ScriptRecords, Idle, Ready
  <2> DEFINE x == [script EXCEPT !.latest = p]
  <2>3. x \in [at : {"reading"}, stored : Counts, latest : Seen, pending : Seen]
    BY <2>2 DEF Seen
  <2> HIDE DEF x
  <2>4. script' \in ScriptRecords
    BY <2>1, <2>3 DEF Judged, ScriptRecords, x
  <2> QED BY <1>2, <2>2, <2>4 DEF ScriptLatest, IInv, TypeOK, RunsCounted, Idle
<1>3. CASE ScriptPending
  <2>1. PICK p \in Counts : script' = Judged([script EXCEPT !.pending = p])
    BY <1>3 DEF ScriptPending, IInv, TypeOK
  <2>2. script \in [at : {"reading"}, stored : Counts, latest : Seen, pending : Seen]
    BY <1>3 DEF ScriptPending, IInv, TypeOK, ScriptRecords, Idle, Ready
  <2> DEFINE x == [script EXCEPT !.pending = p]
  <2>3. x \in [at : {"reading"}, stored : Counts, latest : Seen, pending : Seen]
    BY <2>2 DEF Seen
  <2> HIDE DEF x
  <2>4. script' \in ScriptRecords
    BY <2>1, <2>3 DEF Judged, ScriptRecords, x
  <2> QED BY <1>3, <2>2, <2>4 DEF ScriptPending, IInv, TypeOK, RunsCounted, Idle
<1>4. CASE Reanchor
  <2>1. script # Idle
    BY <1>4 DEF Reanchor, Ready, Idle
  <2>2. anchors \in Nat /\ anchors < MaxAnchors /\ careless' \in BOOLEAN
    BY <1>4, <2>1 DEF Reanchor, IInv, TypeOK, RunsCounted
  <2> QED BY <1>4, <2>2 DEF Reanchor, IInv, TypeOK, ScriptRecords, RunsCounted
<1>6. CASE Mine
  BY <1>6 DEF Mine, IInv, TypeOK, RunsCounted
<1>7. CASE \E n \in Nonces : Drop(n)
  BY <1>7, LossBounded DEF Drop, IInv, TypeOK, RunsCounted
<1>8. CASE UNCHANGED vars
  BY <1>8 DEF vars, IInv, TypeOK, RunsCounted
<1>9. CASE PayoutRead
  BY <1>9 DEF PayoutRead, IInv, TypeOK, PayoutRecords, RunsCounted
<1>10. CASE PayoutSend
  <2>1. payout # Idle /\ payout.pending \in Nonces
    BY <1>10 DEF PayoutSend, PayoutRecords, Idle, IInv, TypeOK
  <2>2. fees \in Nat /\ fees < MaxPayouts /\ careless' \in BOOLEAN
    BY <1>10, <2>1 DEF PayoutSend, IInv, TypeOK, RunsCounted
  <2>3. pool' \subseteq Nonces /\ payout' \in PayoutRecords /\ fees' \in 0..MaxPayouts
    <3>1. payout' = Idle /\ fees' = fees + 1 /\ pool' = pool \cup {payout.pending}
      BY <1>10 DEF PayoutSend
    <3>2. fees' \in 0..MaxPayouts
      BY <2>2, <3>1, BoundsAssumption
    <3> QED BY <2>1, <3>1, <3>2 DEF IInv, TypeOK, PayoutRecords
  <2>4. UNCHANGED <<stored, sender, script, mined, lost, kept, anchors, misread>> /\ payout' = Idle
    BY <1>10 DEF PayoutSend
  <2> QED BY <2>2, <2>3, <2>4 DEF IInv, TypeOK, RunsCounted
<1>11. CASE PayoutFails
  BY <1>11 DEF PayoutFails, IInv, TypeOK, PayoutRecords, RunsCounted
<1> QED BY <1>1, <1>2, <1>3, <1>4, <1>6, <1>7, <1>8, <1>9, <1>10, <1>11
        DEF OtherStep, ScriptStep, PayoutStep

---------------------------------------------------------------------------
LEMMA CarefulSender ==
  ASSUME IInv, Careful, NEW s \in Senders, SenderStep(s)
  PROVE  Careful'
<1>1. /\ sender \in [Senders -> SenderRecords]
      /\ stored \in Nat \cup {-1} /\ mined \in Nat /\ pool \subseteq Nat
  BY DEF IInv, TypeOK, Counts, Nonces, NoRow
<1>2. \A t \in Senders : /\ Reserved(t) => sender[t].nonce \in Nat
                         /\ Reading(t) => sender[t].pending \in Nat
  BY <1>1 DEF Reserved, Reading, SenderRecords, Idle, Counts, Nonces
<1>3. \A t \in Senders \ {s} : sender'[t] = sender[t]
  BY <1>1 DEF SenderStep, ReadPending, Allocate, AllocateThrows, Broadcast, Refuse, RefuseSent, Release, SenderStops
<1>4. mined' = mined
  BY DEF SenderStep, ReadPending, Allocate, AllocateThrows, Broadcast, Refuse, RefuseSent, Release, SenderStops
<1>5. CASE ReadPending(s)
  <2>1. PICK p \in Counts : /\ IsPending(p)
                            /\ sender' = [sender EXCEPT ![s] = [at |-> "read", pending |-> p]]
    BY <1>5 DEF ReadPending
  <2>2. sender'[s] = [at |-> "read", pending |-> p] /\ UNCHANGED <<stored, pool, misread>>
    BY <1>1, <1>5, <2>1 DEF ReadPending
  <2>3. \A t \in Senders : /\ Reserved(t)' => t # s /\ Reserved(t) /\ sender'[t] = sender[t]
                           /\ Reading(t)' /\ t # s => Reading(t) /\ sender'[t] = sender[t]
    BY <1>3, <2>2 DEF Reserved, Reading
  <2>4. Fresh'
    BY <1>4, <2>1, <2>2, <2>3, CountIsFresh DEF Careful, Fresh, Known
  <2>5. QueuedBelow' /\ HeldBelow' /\ Distinct'
    BY <1>4, <2>2, <2>3 DEF Careful, QueuedBelow, HeldBelow, Distinct, Known
  <2> QED BY <2>4, <2>5 DEF Careful
<1>6. CASE Allocate(s)
  <2> DEFINE n == Given(sender[s].pending)
  <2>1. n \in Nat /\ (Known(n) => n \in misread) /\ stored <= n
    BY <1>6, GivenIsFresh DEF Allocate, Reading
  <2>2. stored' = n + 1 /\ sender'[s] = [at |-> "held", nonce |-> n] /\ UNCHANGED <<pool, misread>>
    BY <1>1, <1>6 DEF Allocate
  <2> HIDE DEF n
  <2>3. \A t \in Senders \ {s} : /\ Reserved(t)' => Reserved(t) /\ sender'[t] = sender[t] /\ sender[t].nonce < n
                                 /\ Reading(t)' => Reading(t) /\ sender'[t] = sender[t]
    BY <1>1, <1>2, <1>3, <2>1 DEF Careful, HeldBelow, Reserved, Reading
  <2>4. Reserved(s)' /\ ~Reading(s)' /\ sender'[s].nonce = n
    BY <2>2 DEF Reserved, Reading
  <2>5. Fresh'
    BY <1>1, <1>2, <1>4, <2>1, <2>2, <2>3, <2>4 DEF Careful, Fresh, Known
  <2>6. QueuedBelow' /\ HeldBelow'
    BY <1>1, <1>2, <1>4, <2>1, <2>2, <2>3, <2>4 DEF Careful, QueuedBelow, HeldBelow
  <2>7. Distinct'
    <3>1. \A t \in Senders : Reserved(t)' =>
              (sender'[t].nonce < mined' \/ sender'[t].nonce \in pool' => sender'[t].nonce \in misread')
      BY <1>4, <2>1, <2>2, <2>3, <2>4 DEF Careful, Distinct, Known
    <3>2. \A t \in Senders \ {s} : Reserved(t)' => sender'[t].nonce \in Nat /\ sender'[t].nonce < n
      BY <1>2, <2>3
    <3>3. \A t, u \in Senders : t # u /\ Reserved(t)' /\ Reserved(u)' => sender'[t].nonce # sender'[u].nonce
      BY <2>1, <2>3, <2>4, <3>2 DEF Careful, Distinct
    <3> QED BY <3>1, <3>3 DEF Distinct, Known
  <2> QED BY <2>5, <2>6, <2>7 DEF Careful
<1>7. CASE AllocateThrows(s) \/ Broadcast(s) \/ Refuse(s) \/ RefuseSent(s) \/ Release(s) \/ SenderStops(s)
  <2>1. /\ ~Reading(s)'
        /\ Reserved(s)' => Reserved(s) /\ sender'[s].nonce = sender[s].nonce
    BY <1>1, <1>7 DEF AllocateThrows, Broadcast, Refuse, RefuseSent, Release, SenderStops, Reserved, Reading,
       Idle, SenderRecords
  <2>2. \A t \in Senders : /\ Reserved(t)' => Reserved(t) /\ sender'[t].nonce = sender[t].nonce
                           /\ Reading(t)' => t # s /\ Reading(t) /\ sender'[t].pending = sender[t].pending
    BY <1>3, <2>1 DEF Reserved, Reading
  <2>3. CASE stored' = stored /\ pool' = pool /\ misread' = misread
    BY <1>4, <2>2, <2>3 DEF Careful, Fresh, QueuedBelow, HeldBelow, Distinct, Known
  <2>4. CASE AllocateThrows(s) /\ stored' = Given(sender[s].pending) + 1
    <3>1. pool' = pool /\ misread' = misread /\ stored' \in Nat /\ stored < stored'
      <4>1. stored <= Given(sender[s].pending) /\ Given(sender[s].pending) \in Nat
        BY <2>4, GivenIsFresh DEF AllocateThrows, Reading
      <4> QED BY <1>1, <2>4, <4>1 DEF AllocateThrows
    <3>2. Distinct'
      BY <1>4, <2>2, <3>1 DEF Careful, Distinct, Known
    <3>3. Fresh' /\ QueuedBelow' /\ HeldBelow'
      BY <1>1, <1>2, <1>4, <2>2, <3>1 DEF Careful, Fresh, QueuedBelow, HeldBelow, Known
    <3> QED BY <3>2, <3>3 DEF Careful
  <2>5. CASE Broadcast(s)
    <3>1. Reserved(s) /\ ~Reserved(s)' /\ stored' = stored /\ misread' = misread
      BY <1>1, <2>5 DEF Broadcast, Reserved, Idle
    <3>2. pool' \subseteq pool \cup {sender[s].nonce} /\ sender[s].nonce < stored
      BY <2>5, <3>1 DEF Broadcast, Taken, Careful, HeldBelow
    <3>3. Fresh' /\ QueuedBelow' /\ HeldBelow'
      BY <1>4, <2>2, <3>1, <3>2 DEF Careful, Fresh, QueuedBelow, HeldBelow, Known
    <3>4. \A t \in Senders : Reserved(t)' => t # s
      BY <3>1
    <3>5. Distinct'
      BY <1>4, <2>2, <3>1, <3>2, <3>4 DEF Careful, Distinct, Known
    <3> QED BY <3>3, <3>5 DEF Careful
  <2>5a. CASE RefuseSent(s)
    <3>1. Reserved(s) /\ stored' = stored /\ misread' = misread \cup {sender[s].nonce}
      BY <2>5a DEF RefuseSent, Reserved
    <3>2. pool' \subseteq pool \cup {sender[s].nonce} /\ sender[s].nonce < stored
      BY <2>5a, <3>1 DEF RefuseSent, Taken, Careful, HeldBelow
    <3>3. Fresh' /\ QueuedBelow' /\ HeldBelow'
      BY <1>4, <2>2, <3>1, <3>2 DEF Careful, Fresh, QueuedBelow, HeldBelow, Known
    <3>4. Distinct'
      BY <1>4, <2>2, <3>1, <3>2 DEF Careful, Distinct, Known
    <3> QED BY <3>3, <3>4 DEF Careful
  <2>6. CASE Release(s) /\ stored = sender[s].nonce + 1 /\ stored' = sender[s].nonce
    <3>1. Reserved(s) /\ ~Reserved(s)' /\ UNCHANGED <<pool, misread>>
      BY <1>1, <2>6 DEF Release, Reserved, Idle
    <3>2. sender[s].nonce \in Nat /\ (Known(sender[s].nonce) => sender[s].nonce \in misread)
      BY <1>2, <3>1 DEF Careful, Distinct
    <3>3. \A t \in Senders : Reserved(t)' => t # s /\ sender[t].nonce # sender[s].nonce
      BY <2>2, <3>1 DEF Careful, Distinct
    <3>4. \A n \in Nat : Known(n) /\ n < stored => n < stored' \/ n \in misread
      BY <2>6, <3>2
    <3>5. Fresh' /\ QueuedBelow'
      BY <1>1, <1>4, <2>2, <3>1, <3>4 DEF Careful, Fresh, QueuedBelow, Known
    <3>6. HeldBelow'
      BY <1>2, <2>2, <2>6, <3>1, <3>2, <3>3 DEF Careful, HeldBelow
    <3>7. Distinct'
      BY <1>4, <2>2, <3>1 DEF Careful, Distinct, Known
    <3> QED BY <3>5, <3>6, <3>7 DEF Careful
  <2> QED BY <1>7, <2>3, <2>4, <2>5, <2>5a, <2>6 DEF AllocateThrows, Refuse, Release, SenderStops, Returned, Releasable
<1> QED BY <1>5, <1>6, <1>7 DEF SenderStep

LEMMA CarefulOthers ==
  ASSUME IInv, Careful, OtherStep \/ UNCHANGED vars
  PROVE  careless' \/ Careful'
<1>1. mined \in Nat /\ pool \subseteq Nat /\ stored \in Nat \cup {-1}
  BY DEF IInv, TypeOK, Counts, Nonces, NoRow
<1>2. CASE ScriptRow \/ ScriptLatest \/ ScriptPending \/ PayoutRead \/ PayoutFails \/ UNCHANGED vars
  <2>1. UNCHANGED <<stored, sender, mined, pool, misread>>
    BY <1>2 DEF ScriptRow, ScriptLatest, ScriptPending, PayoutRead, PayoutFails, vars
  <2> QED BY <2>1 DEF Careful, Fresh, QueuedBelow, HeldBelow, Distinct, Known, Reserved, Reading
<1>3. ASSUME Quiet, UNCHANGED <<sender, mined>>, pool' \subseteq {mined}
      PROVE  Careful'
  <2>1. \A s \in Senders : ~Reserved(s)' /\ ~Reading(s)'
    BY <1>3 DEF Quiet, Idle, Reserved, Reading
  <2> QED BY <1>3, <2>1 DEF Careful, Fresh, QueuedBelow, HeldBelow, Distinct
<1>4. CASE Reanchor
  BY <1>3, <1>4 DEF Reanchor, Quiet
<1>5. CASE PayoutSend
  BY <1>3, <1>5 DEF PayoutSend, InTurn, Quiet
<1>6. CASE Mine
  <2>1. \A n \in Nat : Known(n)' <=> Known(n)
    BY <1>1, <1>6 DEF Mine, Known
  <2>2. \A s \in Senders : Reserved(s) => sender[s].nonce \in Nat
    BY DEF IInv, TypeOK, SenderRecords, Idle, Nonces, Reserved
  <2>3. UNCHANGED <<stored, sender, misread>> /\ pool' = pool \ {mined}
    BY <1>6 DEF Mine
  <2>4. Fresh' /\ QueuedBelow' /\ HeldBelow'
    BY <2>1, <2>3 DEF Careful, Fresh, QueuedBelow, HeldBelow, Reserved, Reading
  <2>5. Distinct'
    BY <2>1, <2>2, <2>3 DEF Careful, Distinct, Reserved
  <2> QED BY <2>4, <2>5 DEF Careful
<1>7. CASE \E n \in Nonces : Drop(n)
  <2>1. UNCHANGED <<stored, sender, mined, misread>> /\ pool' \subseteq pool
    BY <1>7 DEF Drop
  <2> QED BY <2>1 DEF Careful, Fresh, QueuedBelow, HeldBelow, Distinct, Known, Reserved, Reading
<1> QED BY <1>2, <1>4, <1>5, <1>6, <1>7 DEF OtherStep, ScriptStep, PayoutStep

\* The invariant the theorems below rest on.
THEOREM NonceInductive == Spec => []IInv
<1>1. Init => IInv
  <2> SUFFICES ASSUME Init  PROVE IInv
    OBVIOUS
  <2>1. TypeOK /\ RunsCounted
    <3>1. Idle \in SenderRecords /\ Idle \in ScriptRecords /\ Idle \in PayoutRecords
      BY DEF SenderRecords, ScriptRecords, PayoutRecords
    <3>2. 0 \in Counts /\ 0 \in 0..MaxLost /\ 0 \in 0..MaxAnchors /\ 0 \in 0..MaxPayouts
      BY BoundsAssumption DEF Counts
    <3> QED BY <3>1, <3>2 DEF Init, TypeOK, RunsCounted
  <2>2. pool = {} /\ \A s \in Senders : ~Reserved(s) /\ ~Reading(s)
    BY DEF Init, Reserved, Reading, Idle
  <2>3. Careful
    BY <2>2 DEF Careful, Fresh, QueuedBelow, HeldBelow, Distinct
  <2> QED BY <2>1, <2>3 DEF IInv
<1>2. IInv /\ [Next]_vars => IInv'
  <2> SUFFICES ASSUME IInv, [Next]_vars  PROVE IInv'
    OBVIOUS
  <2>1. ASSUME NEW s \in Senders, SenderStep(s)
        PROVE  TypeOK' /\ RunsCounted' /\ careless' = careless
    BY <2>1, TypesOfSender DEF SenderStep, ReadPending, Allocate, AllocateThrows, Broadcast, Refuse,
       RefuseSent, Release, SenderStops
  <2>2. CASE \E s \in Senders : SenderStep(s)
    BY <2>1, <2>2, CarefulSender DEF IInv
  <2>3. CASE OtherStep \/ UNCHANGED vars
    <3>1. careless => careless'
      BY <2>3 DEF OtherStep, ScriptStep, ScriptRow, ScriptLatest, ScriptPending, Reanchor,
         PayoutStep, PayoutRead, PayoutSend, PayoutFails, Mine, Drop, vars
    <3> QED BY <2>3, <3>1, TypesOfOthers, CarefulOthers DEF IInv
  <2> QED BY <2>2, <2>3 DEF Next, OtherStep
<1> QED BY <1>1, <1>2, PTL DEF Spec

\* Types of the row, the senders, the script, the fee and the chain.
THEOREM NonceTypeCorrect == Spec => []TypeOK
<1>1. IInv => TypeOK
  BY DEF IInv
<1> QED BY <1>1, NonceInductive, PTL

\* Two senders never hold one nonce (allocateNonce's single statement), and none holds a
\* nonce that was sent, unless the row was deleted or a fee sent beside them; but a nonce
\* whose accepted send was answered by an error that mayHaveBroadcast does not match is
\* handed back, and may be held again.
THEOREM NonceGivenOnce == Spec => []NeverTwice
<1>1. IInv => NeverTwice
  BY DEF IInv, Careful, Distinct, NeverTwice
<1> QED BY <1>1, NonceInductive, PTL

---------------------------------------------------------------------------
\* A finite set that gains at most one element grows by at most one.
LEMMA AtMostOneMore ==
  ASSUME NEW S, NEW T, IsFiniteSet(S), IsFiniteSet(T)
  PROVE  /\ Cardinality(S) \in Nat /\ Cardinality(T) \in Nat
         /\ T \subseteq S => Cardinality(T) <= Cardinality(S)
         /\ \A n : T \subseteq S \cup {n} => Cardinality(T) <= Cardinality(S) + 1
<1>1. Cardinality(S) \in Nat /\ Cardinality(T) \in Nat
  BY FS_CardinalityType
<1>2. T \subseteq S => Cardinality(T) <= Cardinality(S)
  BY FS_Subset
<1>3. ASSUME NEW n, T \subseteq S \cup {n}  PROVE Cardinality(T) <= Cardinality(S) + 1
  <2>1. IsFiniteSet(S \cup {n}) /\ (Cardinality(S \cup {n}) = Cardinality(S) \/ Cardinality(S \cup {n}) = Cardinality(S) + 1)
    BY FS_AddElement
  <2>2. Cardinality(T) <= Cardinality(S \cup {n})
    BY <1>3, <2>1, FS_Subset
  <2> QED BY <1>1, <2>1, <2>2
<1> QED BY <1>1, <1>2, <1>3

\* The holes, and those that a count read before a loss will make of what was lost.
Missing ==
    {n \in Nonces : /\ ~Known(n)
                    /\ \/ n < stored /\ \A s \in Senders : Reserved(s) => sender[s].nonce # n
                       \/ \E r \in Senders : Reading(r) /\ n < sender[r].pending}

MissingHasACause == Cardinality(Missing) <= lost + kept

\* A step leaves no nonce behind, or counts the one it does as lost or kept.
Fills == lost' = lost /\ kept' = kept /\ Missing' \subseteq Missing
Charged == /\ \/ lost' = lost + 1 /\ kept' = kept
              \/ kept' = kept + 1 /\ lost' = lost
           /\ \E n : Missing' \subseteq Missing \cup {n}

LEMMA MissingIsFinite ==
  ASSUME IInv
  PROVE  IsFiniteSet(Missing)
<1>1. IsFiniteSet(Nonces)
  BY FS_Interval, BoundsAssumption DEF Nonces
<1>2. Missing \in SUBSET Nonces
  BY DEF Missing
<1> QED BY <1>1, <1>2, FS_Subset

LEMMA CountedMissing ==
  ASSUME IInv, IInv', MissingHasACause, Fills \/ Charged
  PROVE  MissingHasACause'
<1>1. lost \in Nat /\ kept \in Nat /\ lost' \in Nat /\ kept' \in Nat
  BY BoundsAssumption DEF IInv, TypeOK
<1>2. IsFiniteSet(Missing) /\ IsFiniteSet(Missing')
  <2>1. IsFiniteSet(Nonces)
    BY FS_Interval, BoundsAssumption DEF Nonces
  <2>2. Missing \in SUBSET Nonces /\ Missing' \in SUBSET Nonces
    BY DEF Missing
  <2> QED BY <2>1, <2>2, FS_Subset
<1>3. /\ Cardinality(Missing) \in Nat /\ Cardinality(Missing') \in Nat
      /\ Missing' \subseteq Missing => Cardinality(Missing') <= Cardinality(Missing)
      /\ \A n : Missing' \subseteq Missing \cup {n} => Cardinality(Missing') <= Cardinality(Missing) + 1
  BY <1>2, AtMostOneMore
<1>4. Cardinality(Missing) <= lost + kept
  BY DEF MissingHasACause
<1>5. CASE Fills
  <2>1. lost' = lost /\ kept' = kept /\ Cardinality(Missing') <= Cardinality(Missing)
    BY <1>3, <1>5 DEF Fills
  <2>2. Cardinality(Missing') <= lost' + kept'
    BY <1>1, <1>3, <1>4, <2>1
  <2> QED BY <2>2 DEF MissingHasACause
<1>6. CASE Charged
  <2>1. (lost' = lost + 1 /\ kept' = kept) \/ (kept' = kept + 1 /\ lost' = lost)
    BY <1>6 DEF Charged
  <2>2. Cardinality(Missing') <= Cardinality(Missing) + 1
    BY <1>3, <1>6 DEF Charged
  <2>3. Cardinality(Missing') <= lost' + kept'
    BY <1>1, <1>3, <1>4, <2>1, <2>2
  <2> QED BY <2>3 DEF MissingHasACause
<1> QED BY <1>5, <1>6

LEMMA MissingOfSender ==
  ASSUME IInv, NEW s \in Senders, SenderStep(s)
  PROVE  Fills \/ Charged
<1>1. /\ sender \in [Senders -> SenderRecords] /\ Nonces \subseteq Nat /\ Counts \subseteq Nat
      /\ stored \in Nat \cup {-1} /\ NoRow = -1 /\ mined \in Nat /\ pool \subseteq Nat
      /\ lost \in Nat /\ kept \in Nat
  BY DEF IInv, TypeOK, Counts, Nonces, NoRow
<1>2. \A t \in Senders \ {s} : /\ sender'[t] = sender[t]
                               /\ Reserved(t)' <=> Reserved(t)
                               /\ Reading(t)' <=> Reading(t)
  BY <1>1 DEF SenderStep, ReadPending, Allocate, AllocateThrows, Broadcast, Refuse, RefuseSent, Release, SenderStops,
     Reserved, Reading
<1>3. /\ Reserved(s) => sender[s].nonce \in Nat
      /\ Reading(s) => sender[s].pending \in Nat
  <2>1. /\ Reserved(s) => sender[s].nonce \in Nonces
        /\ Reading(s) => sender[s].pending \in Counts
    BY <1>1 DEF Reserved, Reading, SenderRecords, Idle
  <2> QED BY <1>1, <2>1
<1>4. CASE ReadPending(s)
  <2>1. PICK p \in Counts : IsPending(p) /\ sender' = [sender EXCEPT ![s] = [at |-> "read", pending |-> p]]
    BY <1>4 DEF ReadPending
  <2>2. sender'[s].pending = p /\ ~Reserved(s)' /\ ~Reserved(s)
    BY <1>1, <1>4, <2>1 DEF ReadPending, Reserved, Idle
  <2>3. \A n \in Nonces : n < p => Known(n)
    BY <1>1, <2>1 DEF IsPending, Known
  <2>4. UNCHANGED <<stored, mined, pool, lost, kept>>
    BY <1>4 DEF ReadPending
  <2>5. ASSUME NEW n \in Missing'  PROVE n \in Missing
    BY <1>2, <2>2, <2>3, <2>4, <2>5 DEF Missing, Known
  <2> QED BY <2>4, <2>5 DEF Fills
<1>5. ASSUME Reading(s), ~Reading(s)', UNCHANGED <<mined, pool>>,
             stored' = Given(sender[s].pending) + 1,
             NEW n \in Missing', n # Given(sender[s].pending)
      PROVE  n \in Missing
  <2>1. n \in Nonces /\ n \in Nat /\ ~Known(n)
    BY <1>1, <1>5 DEF Missing, Known
  <2>2. CASE \E r \in Senders : Reading(r)' /\ n < sender'[r].pending
    BY <1>2, <1>5, <2>1, <2>2 DEF Missing
  <2>3. CASE n < stored' /\ \A t \in Senders : Reserved(t)' => sender'[t].nonce # n
    <3>1. n < stored \/ n < sender[s].pending
      BY <1>1, <1>3, <1>5, <2>1, <2>3 DEF Given
    <3>2. \A t \in Senders : Reserved(t) => sender[t].nonce # n
      BY <1>2, <1>5, <2>3 DEF Reserved, Reading
    <3> QED BY <1>5, <2>1, <3>1, <3>2 DEF Missing
  <2> QED BY <1>5, <2>2, <2>3 DEF Missing
<1>6. CASE Allocate(s)
  <2> DEFINE g == Given(sender[s].pending)
  <2>1. /\ Reading(s) /\ ~Reading(s)' /\ Reserved(s)' /\ sender'[s].nonce = g
        /\ stored' = g + 1 /\ UNCHANGED <<mined, pool, lost, kept>>
    BY <1>1, <1>6 DEF Allocate, Reading, Reserved
  <2>2. ASSUME g \in Missing'  PROVE g \in Missing
    BY <1>2, <2>1, <2>2 DEF Missing, Known
  <2>3. Missing' \subseteq Missing
    BY <1>5, <2>1, <2>2
  <2> QED BY <2>1, <2>3 DEF Fills
<1>7. CASE AllocateThrows(s)
  <2>1. Reading(s) /\ ~Reading(s)' /\ ~Reserved(s) /\ ~Reserved(s)' /\ UNCHANGED <<mined, pool, kept>>
    BY <1>1, <1>7 DEF AllocateThrows, Reading, Reserved, Idle
  <2>2. CASE stored' = stored /\ lost' = lost
    BY <1>2, <2>1, <2>2 DEF Fills, Missing, Known
  <2>3. CASE Lose /\ stored' = Given(sender[s].pending) + 1
    <3>1. Missing' \subseteq Missing \cup {Given(sender[s].pending)}
      BY <1>5, <2>1, <2>3
    <3> QED BY <2>1, <2>3, <3>1 DEF Lose, Charged
  <2> QED BY <1>7, <2>2, <2>3 DEF AllocateThrows
<1>8. CASE Broadcast(s)
  <2>1. ~Reading(s) /\ ~Reading(s)' /\ UNCHANGED <<stored, mined, lost, kept>>
    BY <1>1, <1>8 DEF Broadcast, Reading, Idle
  <2>2. pool \subseteq pool' /\ (sender[s].nonce < mined' \/ sender[s].nonce \in pool')
    BY <1>8 DEF Broadcast, Taken, Known
  <2>3. ASSUME NEW n \in Missing'  PROVE n \in Missing
    BY <1>2, <2>1, <2>2, <2>3 DEF Missing, Known
  <2> QED BY <2>1, <2>3 DEF Fills
<1>9. CASE Refuse(s) \/ RefuseSent(s)
  <2>1. /\ Reserved(s)' /\ sender'[s].nonce = sender[s].nonce
        /\ ~Reading(s)' /\ UNCHANGED <<stored, mined, lost, kept>> /\ pool \subseteq pool'
    BY <1>1, <1>9 DEF Refuse, RefuseSent, Taken, Reserved, Reading, SenderRecords, Idle
  <2>2. Reserved(s)
    BY <1>9 DEF Refuse, RefuseSent, Reserved
  <2> QED BY <1>2, <2>1, <2>2 DEF Fills, Missing, Known
<1>10. ASSUME Reserved(s), ~Reading(s)', UNCHANGED <<stored, mined, pool>>
       PROVE  \E n : Missing' \subseteq Missing \cup {n}
  <2>1. Missing' \subseteq Missing \cup {sender[s].nonce}
    BY <1>2, <1>10 DEF Missing, Known
  <2> QED BY <2>1
<1>11. CASE Release(s)
  <2>1. Reserved(s) /\ ~Reading(s)' /\ ~Reserved(s)' /\ UNCHANGED <<mined, pool, lost>>
    BY <1>1, <1>11 DEF Release, Reserved, Reading, Idle
  <2>2. CASE stored = sender[s].nonce + 1 /\ stored' = sender[s].nonce /\ kept' = kept
    <3>1. ASSUME NEW n \in Missing'  PROVE n \in Missing
      <4>1. n \in Nonces /\ n \in Nat /\ ~Known(n)
        BY <1>1, <2>1, <3>1 DEF Missing, Known
      <4>2. CASE \E r \in Senders : Reading(r)' /\ n < sender'[r].pending
        BY <1>2, <2>1, <4>1, <4>2 DEF Missing
      <4>3. CASE n < stored' /\ \A t \in Senders : Reserved(t)' => sender'[t].nonce # n
        <5>1. n < stored /\ sender[s].nonce # n
          BY <1>3, <2>1, <2>2, <4>1, <4>3
        <5> QED BY <1>2, <4>1, <4>3, <5>1 DEF Missing
      <4> QED BY <3>1, <4>2, <4>3 DEF Missing
    <3> QED BY <2>1, <2>2, <3>1 DEF Fills
  <2>3. CASE stored' = stored /\ kept' = kept + 1
    BY <1>10, <2>1, <2>3 DEF Charged
  <2> QED BY <1>11, <2>2, <2>3 DEF Release, Returned, Releasable
<1>12. CASE SenderStops(s)
  <2>1. Reserved(s) /\ ~Reading(s)' /\ UNCHANGED <<stored, mined, pool, kept>>
    BY <1>1, <1>12 DEF SenderStops, Reading, Idle
  <2> QED BY <1>10, <1>12, <2>1 DEF SenderStops, Lose, Charged
<1> QED BY <1>4, <1>6, <1>7, <1>8, <1>9, <1>11, <1>12 DEF SenderStep

LEMMA MissingOfOthers ==
  ASSUME IInv, OtherStep \/ UNCHANGED vars
  PROVE  Fills \/ Charged
<1>1. Nonces \subseteq Nat /\ mined \in Nat /\ pool \subseteq Nat
  BY DEF IInv, TypeOK, Counts, Nonces
<1>2. CASE ScriptRow \/ ScriptLatest \/ ScriptPending \/ PayoutRead \/ PayoutFails \/ UNCHANGED vars
  <2>1. UNCHANGED <<stored, sender, mined, pool, lost, kept>>
    BY <1>2 DEF ScriptRow, ScriptLatest, ScriptPending, PayoutRead, PayoutFails, vars
  <2> QED BY <2>1 DEF Fills, Missing, Known, Reserved, Reading
<1>3. CASE Reanchor
  <2>1. UNCHANGED <<sender, mined, pool, lost, kept>> /\ stored' = -1
    BY <1>3 DEF Reanchor, NoRow
  <2>2. \A n \in Nonces : ~(n < stored')
    BY <1>1, <2>1
  <2> QED BY <2>1, <2>2 DEF Fills, Missing, Known, Reserved, Reading
<1>4. CASE PayoutSend
  <2>1. UNCHANGED <<stored, sender, mined, lost, kept>> /\ pool \subseteq pool'
    BY <1>4 DEF PayoutSend
  <2> QED BY <2>1 DEF Fills, Missing, Known, Reserved, Reading
<1>5. CASE Mine
  <2>1. \A n \in Nonces : Known(n)' <=> Known(n)
    BY <1>1, <1>5 DEF Mine, Known
  <2>2. UNCHANGED <<stored, sender, lost, kept>>
    BY <1>5 DEF Mine
  <2> QED BY <2>1, <2>2 DEF Fills, Missing, Reserved, Reading
<1>6. ASSUME NEW n \in Nonces, Drop(n)
      PROVE  Charged
  <2>1. Missing' \subseteq Missing \cup {n}
    BY <1>6 DEF Drop, Missing, Known, Reserved, Reading
  <2> QED BY <1>6, <2>1 DEF Drop, Lose, Charged
<1> QED BY <1>2, <1>3, <1>4, <1>5, <1>6 DEF OtherStep, ScriptStep, PayoutStep

\* Every hole was counted as lost, or came back too late (releaseNonce's guarded write).
THEOREM NonceHolesCounted == Spec => []HolesHaveACause
<1>1. Init => MissingHasACause
  <2>1. ASSUME Init  PROVE Missing = {} /\ lost + kept = 0
    BY <2>1 DEF Init, Missing, Nonces, NoRow, Reading, Idle
  <2> QED BY <2>1, FS_EmptySet DEF MissingHasACause
<1>2. IInv /\ IInv' /\ MissingHasACause /\ [Next]_vars => MissingHasACause'
  BY MissingOfSender, MissingOfOthers, CountedMissing DEF Next, OtherStep
<1>3. IInv /\ MissingHasACause => HolesHaveACause
  <2> SUFFICES ASSUME IInv, MissingHasACause  PROVE HolesHaveACause
    OBVIOUS
  <2>1. IsFiniteSet(Missing) /\ Holes \subseteq Missing
    BY MissingIsFinite DEF Holes, Missing
  <2>2. Cardinality(Holes) \in Nat /\ Cardinality(Missing) \in Nat /\ Cardinality(Holes) <= Cardinality(Missing)
    BY <2>1, FS_Subset, FS_CardinalityType
  <2>3. lost \in Nat /\ kept \in Nat
    BY BoundsAssumption DEF IInv, TypeOK
  <2> QED BY <2>2, <2>3 DEF MissingHasACause, HolesHaveACause
<1> QED BY <1>1, <1>2, <1>3, NonceInductive, PTL DEF Spec
==============================================================================
