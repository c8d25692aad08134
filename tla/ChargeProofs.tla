----------------------------- MODULE ChargeProofs -----------------------------
(***************************************************************************)
(* What holds of Charge for every number of requests, keys, chains and     *)
(* passes, every ceiling, cap and amount, and any number of events: its    *)
(* type invariant, that a key is paid once, that a charge in flight is     *)
(* never failed, that a period's charges stay within the ceiling, and that *)
(* the API implements ChargeLedger.                                        *)
(*                                                                         *)
(* None of them is inductive.  A key is paid once because whoever holds a  *)
(* charge holds the key row for good, and an execution goes past the       *)
(* redeem once; IInv says both, at each step of the API process.           *)
(***************************************************************************)
EXTENDS Charge, FiniteSetTheorems, TLAPS

Early == {"idle", "claimed", "refused"}               \* no charge yet
Busy  == {"reserved", "planning", "redeeming", "failing",
          "pulled", "stamped", "paid", "settling"}    \* a charge with no outcome

\* Where a request is and what its charge says.
StepsAgree ==
    \A r \in Requests :
        /\ at[r] \in Early => charge[r] = NoCharge
        /\ at[r] \in Busy => charge[r].status = "pending"

\* A request at work holds its key, and a charge holds its request's key for good.
KeysHeld ==
    \A r \in Requests :
        /\ at[r] \in {"claimed", "refused", "reserved"} =>
               KeyRow(r) = [status |-> "in_flight", owner |-> r]
        /\ charge[r].status # "none" => KeyRow(r) # KeyFree /\ KeyRow(r).owner = r

\* Nothing is pulled before the redeem, and nothing twice.
PulledByStep ==
    \A r \in Requests :
        /\ at[r] \in Early \cup {"reserved", "planning", "redeeming"} => pulls[r] = <<>>
        /\ at[r] \in {"pulled", "stamped", "paid", "settling"} => pulls[r] # <<>>
        /\ Len(pulls[r]) <= 1
        /\ pulls[r] # <<>> => charge[r].status # "none"

\* A bridge row is opened by an execution that is over, for money that was pulled, and
\* only rows are driven.
RowsBacked ==
    \A r \in Requests :
        /\ row[r] # "none" => /\ at[r] = "over"
                              /\ charge[r].status \in {"pending", "succeeded"}
                              /\ pulls[r] # <<>>
        /\ \A d \in Drivers : drive[d][r] # "off" => row[r] # "none"

IInv == TypeOK /\ StepsAgree /\ KeysHeld /\ PulledByStep /\ RowsBacked

USE AmountsAssumption, CeilingAssumption, ChainsAssumption, CapsAssumption,
    PinsAssumption, PassesAssumption, BoundsAssumption

---------------------------------------------------------------------------

LEMMA InitInv == Init => IInv
<1>. SUFFICES ASSUME Init PROVE IInv
  OBVIOUS
<1>1. (CHOOSE c \in Chains : TRUE) \in Chains
  OBVIOUS
<1>2. TypeOK
  <2>1. chain \in [Requests -> Chains]
    BY <1>1 DEF Init
  <2>2. grant \in [Chains -> GrantRecords]
    BY DEF Init, GrantRecords
  <2>3. key \in [Keys -> KeyRecords] /\ charge \in [Requests -> ChargeRecords]
    BY DEF Init, KeyRecords, ChargeRecords
  <2>. QED BY <2>1, <2>2, <2>3 DEF Init, TypeOK, Periods, Steps
<1>3. StepsAgree /\ KeysHeld /\ PulledByStep /\ RowsBacked
  BY DEF Init, StepsAgree, KeysHeld, PulledByStep, RowsBacked, Busy, NoCharge
<1>. QED BY <1>2, <1>3 DEF IInv

\* A step that leaves the key rows alone keeps them held, if nobody comes to work on a
\* key with it and no charge is made.
LEMMA HeldStays ==
    ASSUME IInv, UNCHANGED <<ask, key>>,
           \A r \in Requests : at'[r] \in {"claimed", "refused", "reserved"} => at'[r] = at[r],
           \A r \in Requests : charge'[r].status # "none" => charge[r].status # "none"
    PROVE  KeysHeld'
BY DEF IInv, KeysHeld, KeyRow

\* Whoever is at work, or has a charge, owns its key row.
LEMMA HeldByOwner ==
    ASSUME KeysHeld, NEW q \in Requests,
           at[q] \in {"claimed", "refused", "reserved"} \/ charge[q].status # "none"
    PROVE  KeyRow(q) # KeyFree /\ KeyRow(q).owner = q
<1>1. [status |-> "in_flight", owner |-> q] # KeyFree
  BY DEF KeyFree
<1>2. [status |-> "in_flight", owner |-> q].owner = q
  OBVIOUS
<1>. QED BY <1>1, <1>2 DEF KeysHeld

\* So nobody else with that key is at work or has a charge.
LEMMA OneHolder ==
    ASSUME KeysHeld, NEW r \in Requests, NEW q \in Requests \ {r},
           ask[q].key = ask[r].key, KeyRow(r) = KeyFree \/ KeyRow(r).owner = r
    PROVE  at[q] \notin {"claimed", "refused", "reserved"} /\ charge[q].status = "none"
<1>1. KeyRow(q) = KeyRow(r)
  BY DEF KeyRow
<1>. QED BY <1>1, HeldByOwner

\* A charge that exists changes its status and stays a charge.
LEMMA OutcomeTyped ==
    ASSUME TypeOK, NEW r \in Requests, NEW s \in {"succeeded", "failed"},
           charge[r].status \in {"pending", "succeeded"}
    PROVE  [charge EXCEPT ![r].status = s] \in [Requests -> ChargeRecords]
<1>1. charge[r] \in [status : {"pending", "succeeded", "failed"}, created : Periods]
  BY DEF TypeOK, ChargeRecords, NoCharge
<1>2. [charge[r] EXCEPT !.status = s] \in ChargeRecords
  BY <1>1 DEF ChargeRecords
<1>. QED BY <1>2 DEF TypeOK

\* Revoking and stamping leave grants grants.
LEMMA RevokedTyped ==
    ASSUME TypeOK, NEW C, RevokeRows(C)
    PROVE  grant' \in [Chains -> GrantRecords]
<1>1. ASSUME NEW c \in Chains
      PROVE  [grant[c] EXCEPT !.status = "revoked"] \in GrantRecords
  <2>1. grant[c] \in GrantRecords
    BY DEF TypeOK
  <2>. QED BY <2>1 DEF GrantRecords
<1>. QED BY <1>1 DEF TypeOK, RevokeRows

LEMMA StampTyped ==
    ASSUME TypeOK, NEW c \in Chains
    PROVE  [grant EXCEPT ![c].last = now] \in [Chains -> GrantRecords]
<1>1. [grant[c] EXCEPT !.last = now] \in GrantRecords
  <2>1. grant[c] \in GrantRecords /\ now \in Periods
    BY DEF TypeOK
  <2>. QED BY <2>1 DEF GrantRecords
<1>. QED BY <1>1 DEF TypeOK

\* Claiming, reserving and completing, or giving the key back.
LEMMA RequestKeeps ==
    ASSUME IInv, NEW r \in Requests, RequestStep(r)
    PROVE  IInv'
<1>. USE DEF IInv, client, onChain, bridge, hist
<1>1. CASE ClaimKey(r)
  <2>1. TypeOK'
    BY <1>1 DEF TypeOK, KeyRecords, Steps, ClaimKey, Goto
  <2>2. StepsAgree'
    BY <1>1 DEF StepsAgree, Early, Busy, ClaimKey, Goto
  <2>3. KeysHeld'
    <3>1. KeyRow(r) = KeyFree
      BY <1>1 DEF ClaimKey, Goto, MayClaim
    <3>2. \A q \in Requests \ {r} : ask[q].key = ask[r].key =>
              at[q] \notin {"claimed", "refused", "reserved"} /\ charge[q].status = "none"
      BY <3>1, OneHolder
    <3>3. \A q \in Requests : ask[q].key \in Keys
      BY DEF TypeOK
    <3>4. SUFFICES ASSUME NEW q \in Requests
                   PROVE  /\ at'[q] \in {"claimed", "refused", "reserved"} =>
                                 key'[ask[q].key] = [status |-> "in_flight", owner |-> q]
                          /\ charge'[q].status # "none" =>
                                 key'[ask[q].key] # KeyFree /\ key'[ask[q].key].owner = q
      BY <1>1 DEF KeysHeld, KeyRow, ClaimKey
    <3>5. CASE q = r
      BY <1>1, <3>1, <3>3, <3>5 DEF TypeOK, KeyFree, ClaimKey
    <3>6. CASE q # r /\ ask[q].key = ask[r].key
      BY <1>1, <3>2, <3>6 DEF ClaimKey, Goto, MayClaim
    <3>7. CASE ask[q].key # ask[r].key
      BY <1>1, <3>3, <3>7 DEF KeysHeld, KeyRow, ClaimKey, Goto
    <3>. QED BY <3>5, <3>6, <3>7
  <2>4. PulledByStep'
    BY <1>1 DEF PulledByStep, Early, ClaimKey, Goto
  <2>5. RowsBacked'
    BY <1>1 DEF RowsBacked, ClaimKey, Goto
  <2>. QED BY <2>1, <2>2, <2>3, <2>4, <2>5 DEF IInv
<1>2. CASE KeyTaken(r)
  <2>1. TypeOK'
    BY <1>2 DEF TypeOK, Steps, KeyTaken, Goto
  <2>2. StepsAgree'
    BY <1>2 DEF StepsAgree, Early, Busy, KeyTaken, Goto
  <2>3. KeysHeld'
    BY <1>2, HeldStays DEF TypeOK, KeyTaken, Goto
  <2>4. PulledByStep'
    BY <1>2 DEF PulledByStep, Early, KeyTaken, Goto
  <2>5. RowsBacked'
    BY <1>2 DEF RowsBacked, KeyTaken, Goto
  <2>. QED BY <2>1, <2>2, <2>3, <2>4, <2>5 DEF IInv
<1>3. CASE Reserve(r)
  <2>1. TypeOK'
    BY <1>3 DEF TypeOK, ChargeRecords, Steps, Reserve, Goto
  <2>2. StepsAgree'
    BY <1>3 DEF TypeOK, StepsAgree, Early, Reserve, Goto
  <2>3. KeysHeld'
    <3>1. KeyRow(r) = [status |-> "in_flight", owner |-> r]
      BY <1>3 DEF KeysHeld, Reserve, Goto
    <3>2. \A q \in Requests \ {r} : ask[q].key = ask[r].key =>
              at[q] \notin {"claimed", "refused", "reserved"} /\ charge[q].status = "none"
      BY <3>1, OneHolder
    <3>3. \A q \in Requests : ask[q].key \in Keys
      BY DEF TypeOK
    <3>4. SUFFICES ASSUME NEW q \in Requests
                   PROVE  /\ at'[q] \in {"claimed", "refused", "reserved"} =>
                                 key'[ask[q].key] = [status |-> "in_flight", owner |-> q]
                          /\ charge'[q].status # "none" =>
                                 key'[ask[q].key] # KeyFree /\ key'[ask[q].key].owner = q
      BY <1>3 DEF KeysHeld, KeyRow, Reserve
    <3>5. CASE q = r
      BY <1>3, <3>1, <3>3, <3>5 DEF KeyRow, KeyFree, Reserve
    <3>6. CASE q # r /\ ask[q].key = ask[r].key
      BY <1>3, <3>2, <3>6 DEF TypeOK, Reserve, Goto
    <3>7. CASE ask[q].key # ask[r].key
      BY <1>3, <3>3, <3>7 DEF KeysHeld, KeyRow, Reserve, Goto
    <3>. QED BY <3>5, <3>6, <3>7
  <2>4. PulledByStep'
    BY <1>3 DEF PulledByStep, Early, Reserve, Goto
  <2>5. RowsBacked'
    BY <1>3 DEF RowsBacked, Reserve, Goto
  <2>. QED BY <2>1, <2>2, <2>3, <2>4, <2>5 DEF IInv
<1>4. CASE RefuseReserve(r)
  <2>1. TypeOK'
    BY <1>4 DEF TypeOK, Steps, RefuseReserve, Goto
  <2>2. StepsAgree'
    BY <1>4 DEF StepsAgree, Early, Busy, RefuseReserve, Goto
  <2>3. KeysHeld'
    <3>1. KeyRow(r) = [status |-> "in_flight", owner |-> r]
      BY <1>4 DEF KeysHeld, RefuseReserve, Goto
    <3>2. \A q \in Requests \ {r} : ask[q].key = ask[r].key =>
              at[q] \notin {"claimed", "refused", "reserved"} /\ charge[q].status = "none"
      BY <3>1, OneHolder
    <3>3. \A q \in Requests : ask[q].key \in Keys
      BY DEF TypeOK
    <3>4. SUFFICES ASSUME NEW q \in Requests
                   PROVE  /\ at'[q] \in {"claimed", "refused", "reserved"} =>
                                 key'[ask[q].key] = [status |-> "in_flight", owner |-> q]
                          /\ charge'[q].status # "none" =>
                                 key'[ask[q].key] # KeyFree /\ key'[ask[q].key].owner = q
      BY <1>4 DEF KeysHeld, KeyRow, RefuseReserve
    <3>5. CASE q = r
      BY <1>4, <3>1, <3>3, <3>5 DEF KeyRow, KeyFree, RefuseReserve
    <3>6. CASE q # r /\ ask[q].key = ask[r].key
      BY <1>4, <3>2, <3>6 DEF TypeOK, RefuseReserve, Goto
    <3>7. CASE ask[q].key # ask[r].key
      BY <1>4, <3>3, <3>7 DEF KeysHeld, KeyRow, RefuseReserve, Goto
    <3>. QED BY <3>5, <3>6, <3>7
  <2>4. PulledByStep'
    BY <1>4 DEF PulledByStep, Early, RefuseReserve, Goto
  <2>5. RowsBacked'
    BY <1>4 DEF RowsBacked, RefuseReserve, Goto
  <2>. QED BY <2>1, <2>2, <2>3, <2>4, <2>5 DEF IInv
<1>5. CASE ReleaseKey(r)
  <2>1. TypeOK'
    BY <1>5 DEF TypeOK, KeyRecords, Steps, ReleaseKey, Goto
  <2>2. StepsAgree'
    BY <1>5 DEF StepsAgree, Early, Busy, ReleaseKey, Goto
  <2>3. KeysHeld'
    <3>1. KeyRow(r) = [status |-> "in_flight", owner |-> r]
      BY <1>5 DEF KeysHeld, ReleaseKey, Goto
    <3>2. \A q \in Requests \ {r} : ask[q].key = ask[r].key =>
              at[q] \notin {"claimed", "refused", "reserved"} /\ charge[q].status = "none"
      BY <3>1, OneHolder
    <3>3. \A q \in Requests : ask[q].key \in Keys
      BY DEF TypeOK
    <3>4. SUFFICES ASSUME NEW q \in Requests
                   PROVE  /\ at'[q] \in {"claimed", "refused", "reserved"} =>
                                 key'[ask[q].key] = [status |-> "in_flight", owner |-> q]
                          /\ charge'[q].status # "none" =>
                                 key'[ask[q].key] # KeyFree /\ key'[ask[q].key].owner = q
      BY <1>5 DEF KeysHeld, KeyRow, ReleaseKey
    <3>5. CASE q = r
      BY <1>5, <3>1, <3>3, <3>5 DEF TypeOK, StepsAgree, Early, NoCharge, ReleaseKey, Goto
    <3>6. CASE q # r /\ ask[q].key = ask[r].key
      BY <1>5, <3>2, <3>6 DEF TypeOK, ReleaseKey, Goto
    <3>7. CASE ask[q].key # ask[r].key
      BY <1>5, <3>3, <3>7 DEF KeysHeld, KeyRow, ReleaseKey, Goto
    <3>. QED BY <3>5, <3>6, <3>7
  <2>4. PulledByStep'
    BY <1>5 DEF PulledByStep, Early, ReleaseKey, Goto
  <2>5. RowsBacked'
    BY <1>5 DEF RowsBacked, ReleaseKey, Goto
  <2>. QED BY <2>1, <2>2, <2>3, <2>4, <2>5 DEF IInv
<1>6. CASE CompleteKey(r)
  <2>1. TypeOK'
    <3>1. KeyRow(r) = [status |-> "in_flight", owner |-> r]
      BY <1>6 DEF KeysHeld, CompleteKey, Goto
    <3>2. key' \in [Keys -> KeyRecords]
      BY <1>6, <3>1 DEF TypeOK, KeyRecords, KeyRow, CompleteKey
    <3>. QED BY <1>6, <3>2 DEF TypeOK, CompleteKey, Goto, Steps
  <2>2. StepsAgree'
    BY <1>6 DEF StepsAgree, Early, Busy, CompleteKey, Goto
  <2>3. KeysHeld'
    <3>1. KeyRow(r) = [status |-> "in_flight", owner |-> r]
      BY <1>6 DEF KeysHeld, CompleteKey, Goto
    <3>2. \A q \in Requests \ {r} : ask[q].key = ask[r].key =>
              at[q] \notin {"claimed", "refused", "reserved"} /\ charge[q].status = "none"
      BY <3>1, OneHolder
    <3>3. \A q \in Requests : ask[q].key \in Keys
      BY DEF TypeOK
    <3>4. SUFFICES ASSUME NEW q \in Requests
                   PROVE  /\ at'[q] \in {"claimed", "refused", "reserved"} =>
                                 key'[ask[q].key] = [status |-> "in_flight", owner |-> q]
                          /\ charge'[q].status # "none" =>
                                 key'[ask[q].key] # KeyFree /\ key'[ask[q].key].owner = q
      BY <1>6 DEF KeysHeld, KeyRow, CompleteKey
    <3>5. CASE q = r
      BY <1>6, <3>1, <3>3, <3>5 DEF TypeOK, KeyRow, KeyFree, CompleteKey, Goto
    <3>6. CASE q # r /\ ask[q].key = ask[r].key
      BY <1>6, <3>2, <3>6 DEF TypeOK, CompleteKey, Goto
    <3>7. CASE ask[q].key # ask[r].key
      BY <1>6, <3>3, <3>7 DEF KeysHeld, KeyRow, CompleteKey, Goto
    <3>. QED BY <3>5, <3>6, <3>7
  <2>4. PulledByStep'
    BY <1>6 DEF PulledByStep, CompleteKey, Goto
  <2>5. RowsBacked'
    BY <1>6 DEF RowsBacked, CompleteKey, Goto
  <2>. QED BY <2>1, <2>2, <2>3, <2>4, <2>5 DEF IInv
<1>7. CASE KeyWriteThrows(r)
  <2>1. TypeOK'
    BY <1>7 DEF TypeOK, Steps, KeyWriteThrows
  <2>2. StepsAgree'
    BY <1>7 DEF StepsAgree, Early, Busy, KeyWriteThrows
  <2>3. KeysHeld'
    BY <1>7, HeldStays DEF TypeOK, StepsAgree, KeyWriteThrows
  <2>4. PulledByStep'
    BY <1>7 DEF PulledByStep, Early, KeyWriteThrows
  <2>5. RowsBacked'
    BY <1>7 DEF TypeOK, RowsBacked, KeyWriteThrows
  <2>. QED BY <2>1, <2>2, <2>3, <2>4, <2>5 DEF IInv
<1>. QED BY <1>1, <1>2, <1>3, <1>4, <1>5, <1>6, <1>7 DEF RequestStep

\* executeCharge, from its plan to its bridge row.
LEMMA ExecutionKeeps ==
    ASSUME IInv, NEW r \in Requests, ExecutionStep(r)
    PROVE  IInv'
<1>. USE DEF IInv, client, onChain, bridge, hist
<1>1. CASE Plan(r)
  <2>1. TypeOK'
    <3>1. grant' \in [Chains -> GrantRecords]
      BY <1>1, RevokedTyped DEF Plan
    <3>2. chain' \in [Requests -> Chains]
      BY <1>1 DEF TypeOK, Plan, Usable
    <3>. QED BY <1>1, <3>1, <3>2 DEF TypeOK, Plan, Goto, Steps
  <2>2. StepsAgree'
    BY <1>1 DEF StepsAgree, Early, Busy, Plan, Goto
  <2>3. KeysHeld'
    BY <1>1, HeldStays DEF TypeOK, Plan, Goto
  <2>4. PulledByStep'
    BY <1>1 DEF PulledByStep, Plan, Goto
  <2>5. RowsBacked'
    BY <1>1 DEF RowsBacked, Plan, Goto
  <2>. QED BY <2>1, <2>2, <2>3, <2>4, <2>5 DEF IInv
<1>2. CASE PlanRefused(r)
  <2>1. TypeOK'
    <3>1. grant' \in [Chains -> GrantRecords]
      BY <1>2, RevokedTyped DEF PlanRefused
    <3>. QED BY <1>2, <3>1 DEF TypeOK, PlanRefused, Goto, Steps
  <2>2. StepsAgree'
    BY <1>2 DEF StepsAgree, Early, Busy, PlanRefused, Goto, RevokeRows
  <2>3. KeysHeld'
    BY <1>2, HeldStays DEF TypeOK, PlanRefused, Goto
  <2>4. PulledByStep'
    BY <1>2 DEF PulledByStep, PlanRefused, Goto, RevokeRows
  <2>5. RowsBacked'
    BY <1>2 DEF RowsBacked, PlanRefused, Goto, RevokeRows
  <2>. QED BY <2>1, <2>2, <2>3, <2>4, <2>5 DEF IInv
<1>3. CASE Redeem(r)
  <2>1. TypeOK'
    <3>1. Amount(r) \in Nat /\ now \in Periods
      BY DEF TypeOK, Amount
    <3>2. spent' \in [Chains -> Nat] /\ pool' \in [Chains -> Nat]
      BY <1>3, <3>1 DEF TypeOK, MoneyMoves, Redeem
    <3>3. pulls' \in [Requests -> Seq(Periods)]
      BY <1>3, <3>1 DEF TypeOK, MoneyMoves, Redeem
    <3>. QED BY <1>3, <3>2, <3>3 DEF TypeOK, Steps, Goto, Redeem
  <2>2. StepsAgree'
    BY <1>3 DEF StepsAgree, Early, Busy, Redeem, Goto, MoneyMoves
  <2>3. KeysHeld'
    BY <1>3, HeldStays DEF TypeOK, Redeem, Goto
  <2>4. PulledByStep'
    BY <1>3 DEF TypeOK, StepsAgree, PulledByStep, Early, Busy, Redeem, Goto, MoneyMoves
  <2>5. RowsBacked'
    BY <1>3 DEF RowsBacked, Redeem, Goto, MoneyMoves
  <2>. QED BY <2>1, <2>2, <2>3, <2>4, <2>5 DEF IInv
<1>4. CASE RedeemSeenAsFailed(r)
  <2>1. TypeOK'
    <3>1. Amount(r) \in Nat /\ now \in Periods
      BY DEF TypeOK, Amount
    <3>2. spent' \in [Chains -> Nat] /\ pool' \in [Chains -> Nat]
      BY <1>4, <3>1 DEF TypeOK, MoneyMoves, RedeemSeenAsFailed
    <3>3. pulls' \in [Requests -> Seq(Periods)]
      BY <1>4, <3>1 DEF TypeOK, MoneyMoves, RedeemSeenAsFailed
    <3>4. events' \in 0..MaxEvents /\ at' \in [Requests -> Steps]
      BY <1>4 DEF TypeOK, Steps, Goto, Event, RedeemSeenAsFailed
    <3>. QED BY <1>4, <3>2, <3>3, <3>4 DEF TypeOK, RedeemSeenAsFailed
  <2>2. StepsAgree'
    BY <1>4 DEF StepsAgree, Early, Busy, RedeemSeenAsFailed, Goto, MoneyMoves
  <2>3. KeysHeld'
    BY <1>4, HeldStays DEF TypeOK, RedeemSeenAsFailed, Goto
  <2>4. PulledByStep'
    BY <1>4 DEF TypeOK, StepsAgree, PulledByStep, Early, Busy, RedeemSeenAsFailed, Goto, MoneyMoves
  <2>5. RowsBacked'
    BY <1>4 DEF RowsBacked, RedeemSeenAsFailed, Goto, MoneyMoves
  <2>. QED BY <2>1, <2>2, <2>3, <2>4, <2>5 DEF IInv
<1>5. CASE RedeemFails(r)
  <2>1. TypeOK'
    BY <1>5 DEF TypeOK, Steps, RedeemFails, Goto
  <2>2. StepsAgree'
    BY <1>5 DEF StepsAgree, Early, Busy, RedeemFails, Goto
  <2>3. KeysHeld'
    BY <1>5, HeldStays DEF TypeOK, RedeemFails, Goto
  <2>4. PulledByStep'
    BY <1>5 DEF PulledByStep, RedeemFails, Goto
  <2>5. RowsBacked'
    BY <1>5 DEF RowsBacked, RedeemFails, Goto
  <2>. QED BY <2>1, <2>2, <2>3, <2>4, <2>5 DEF IInv
<1>6. CASE FailCharge(r)
  <2>1. TypeOK'
    <3>1. charge[r].status \in {"pending", "succeeded"}
      BY <1>6 DEF StepsAgree, Busy, FailCharge, Goto
    <3>2. charge' \in [Requests -> ChargeRecords]
      BY <1>6, <3>1, OutcomeTyped DEF FailCharge, Goto, AfterFailure
    <3>. QED BY <1>6, <3>2 DEF TypeOK, Steps, FailCharge, Goto, AfterFailure
  <2>2. StepsAgree'
    BY <1>6 DEF TypeOK, StepsAgree, Early, Busy, FailCharge, Goto, AfterFailure
  <2>3. KeysHeld'
    BY <1>6, HeldStays DEF StepsAgree, Busy, FailCharge, Goto, AfterFailure
  <2>4. PulledByStep'
    BY <1>6 DEF PulledByStep, Early, FailCharge, Goto, AfterFailure
  <2>5. RowsBacked'
    BY <1>6 DEF RowsBacked, FailCharge, Goto, AfterFailure
  <2>. QED BY <2>1, <2>2, <2>3, <2>4, <2>5 DEF IInv
<1>7. CASE Stamp(r)
  <2>1. TypeOK'
    <3>1. chain[r] \in Chains
      BY DEF TypeOK
    <3>2. grant' \in [Chains -> GrantRecords]
      BY <1>7, <3>1, StampTyped DEF Stamp
    <3>. QED BY <1>7, <3>2 DEF TypeOK, Stamp, Goto, Steps
  <2>2. StepsAgree'
    BY <1>7 DEF TypeOK, StepsAgree, Early, Busy, Stamp, Goto
  <2>3. KeysHeld'
    BY <1>7, HeldStays DEF TypeOK, Stamp, Goto
  <2>. /\ UNCHANGED <<pulls, charge, row, drive>>
       /\ at[r] \in {"pulled", "paid"} /\ at'[r] \in {"stamped", "settling"}
       /\ \A q \in Requests \ {r} : at'[q] = at[q]
    BY <1>7 DEF TypeOK, Stamp, Goto, bridge, hist
  <2>4. PulledByStep'
    BY DEF PulledByStep, Early
  <2>5. RowsBacked'
    BY DEF RowsBacked
  <2>. QED BY <2>1, <2>2, <2>3, <2>4, <2>5 DEF IInv
<1>8. CASE SettleDirect(r)
  <2>1. TypeOK'
    <3>1. charge[r].status \in {"pending", "succeeded"}
      BY <1>8 DEF StepsAgree, Busy, SettleDirect, Goto
    <3>2. charge' \in [Requests -> ChargeRecords]
      BY <1>8, <3>1, OutcomeTyped DEF SettleDirect, Goto
    <3>. QED BY <1>8, <3>2 DEF TypeOK, Steps, SettleDirect, Goto
  <2>2. StepsAgree'
    BY <1>8 DEF TypeOK, StepsAgree, Early, Busy, SettleDirect, Goto
  <2>3. KeysHeld'
    BY <1>8, HeldStays DEF StepsAgree, Busy, SettleDirect, Goto
  <2>4. PulledByStep'
    BY <1>8 DEF PulledByStep, Early, SettleDirect, Goto
  <2>5. RowsBacked'
    BY <1>8 DEF RowsBacked, SettleDirect, Goto
  <2>. QED BY <2>1, <2>2, <2>3, <2>4, <2>5 DEF IInv
<1>9. CASE DirectWriteThrows(r)
  <2>1. TypeOK'
    BY <1>9 DEF TypeOK, Steps, DirectWriteThrows
  <2>2. StepsAgree'
    BY <1>9 DEF StepsAgree, Early, Busy, DirectWriteThrows
  <2>3. KeysHeld'
    BY <1>9, HeldStays DEF TypeOK, StepsAgree, DirectWriteThrows
  <2>4. PulledByStep'
    BY <1>9 DEF PulledByStep, Early, DirectWriteThrows
  <2>5. RowsBacked'
    BY <1>9 DEF TypeOK, RowsBacked, DirectWriteThrows
  <2>. QED BY <2>1, <2>2, <2>3, <2>4, <2>5 DEF IInv
<1>10. CASE OpenBridge(r)
  <2>1. TypeOK'
    BY <1>10 DEF TypeOK, Steps, OpenBridge, Goto
  <2>2. StepsAgree'
    BY <1>10 DEF StepsAgree, Early, Busy, OpenBridge, Goto
  <2>3. KeysHeld'
    BY <1>10, HeldStays DEF TypeOK, OpenBridge, Goto
  <2>4. PulledByStep'
    BY <1>10 DEF PulledByStep, Early, OpenBridge, Goto
  <2>5. RowsBacked'
    BY <1>10 DEF TypeOK, StepsAgree, PulledByStep, RowsBacked, Busy, OpenBridge, Goto
  <2>. QED BY <2>1, <2>2, <2>3, <2>4, <2>5 DEF IInv
<1>11. CASE ExecutionDies(r)
  <2>1. TypeOK'
    BY <1>11 DEF TypeOK, Steps, ExecutionDies
  <2>2. StepsAgree'
    BY <1>11 DEF StepsAgree, Early, Busy, ExecutionDies
  <2>3. KeysHeld'
    BY <1>11, HeldStays DEF TypeOK, StepsAgree, ExecutionDies
  <2>4. PulledByStep'
    BY <1>11 DEF PulledByStep, Early, ExecutionDies
  <2>5. RowsBacked'
    BY <1>11 DEF TypeOK, RowsBacked, ExecutionDies
  <2>. QED BY <2>1, <2>2, <2>3, <2>4, <2>5 DEF IInv
<1>. QED BY <1>1, <1>2, <1>3, <1>4, <1>5, <1>6, <1>7, <1>8, <1>9, <1>10, <1>11 DEF ExecutionStep

\* advanceBridge, by whoever runs it.
LEMMA DriveKeeps ==
    ASSUME IInv, NEW d \in Drivers, NEW r \in Requests, DriveStep(d, r)
    PROVE  IInv'
<1>. USE DEF IInv, client, onChain, bridge, hist
<1>1. CASE Burn(d, r)
  <2>1. TypeOK'
    <3>1. Amount(r) \in Nat
      BY DEF TypeOK, Amount
    <3>2. pool' \in [Chains -> Nat] /\ burns' \in [Requests -> Nat]
      BY <1>1, <3>1 DEF TypeOK, BurnLands, Burn
    <3>. QED BY <1>1, <3>2 DEF TypeOK, Knows, Burn
  <2>2. StepsAgree'
    BY <1>1 DEF StepsAgree, Burn, BurnLands
  <2>3. KeysHeld'
    BY <1>1, HeldStays DEF Burn, Knows, BurnLands
  <2>4. PulledByStep'
    BY <1>1 DEF PulledByStep, Burn, BurnLands
  <2>5. RowsBacked'
    BY <1>1 DEF RowsBacked, Burn, Knows, BurnLands
  <2>. QED BY <2>1, <2>2, <2>3, <2>4, <2>5 DEF IInv
<1>2. CASE BurnSeenAsFailed(d, r)
  <2>1. TypeOK'
    <3>1. Amount(r) \in Nat
      BY DEF TypeOK, Amount
    <3>2. pool' \in [Chains -> Nat] /\ burns' \in [Requests -> Nat]
      BY <1>2, <3>1 DEF TypeOK, BurnLands, BurnSeenAsFailed
    <3>. QED BY <1>2, <3>2 DEF TypeOK, Knows, Event, BurnSeenAsFailed
  <2>2. StepsAgree'
    BY <1>2 DEF StepsAgree, BurnSeenAsFailed, BurnLands
  <2>3. KeysHeld'
    BY <1>2, HeldStays DEF BurnSeenAsFailed, Knows, BurnLands
  <2>4. PulledByStep'
    BY <1>2 DEF PulledByStep, BurnSeenAsFailed, BurnLands
  <2>5. RowsBacked'
    BY <1>2 DEF RowsBacked, BurnSeenAsFailed, Knows, BurnLands
  <2>. QED BY <2>1, <2>2, <2>3, <2>4, <2>5 DEF IInv
<1>3. CASE RecordBurn(d, r)
  <2>1. TypeOK'
    BY <1>3 DEF TypeOK, RecordBurn, Knows
  <2>2. StepsAgree'
    BY <1>3 DEF StepsAgree, RecordBurn, Knows
  <2>3. KeysHeld'
    BY <1>3, HeldStays DEF TypeOK, RecordBurn, Knows
  <2>4. PulledByStep'
    BY <1>3 DEF PulledByStep, RecordBurn, Knows
  <2>5. RowsBacked'
    BY <1>3 DEF RowsBacked, RecordBurn, Knows
  <2>. QED BY <2>1, <2>2, <2>3, <2>4, <2>5 DEF IInv
<1>4. CASE MintAndSettle(d, r)
  <2>1. TypeOK'
    <3>1. charge[r].status \in {"pending", "succeeded"}
      BY <1>4 DEF RowsBacked, MintAndSettle, Knows
    <3>2. charge' \in [Requests -> ChargeRecords]
      BY <1>4, <3>1, OutcomeTyped DEF MintAndSettle, Knows
    <3>. QED BY <1>4, <3>2 DEF TypeOK, MintAndSettle, Knows
  <2>2. StepsAgree'
    <3>1. at[r] = "over"
      BY <1>4 DEF RowsBacked, MintAndSettle, Knows
    <3>. QED BY <1>4, <3>1 DEF StepsAgree, Early, Busy, MintAndSettle
  <2>3. KeysHeld'
    <3>1. charge[r].status # "none"
      BY <1>4 DEF RowsBacked, MintAndSettle, Knows
    <3>. QED BY <1>4, <3>1, HeldStays DEF TypeOK, MintAndSettle
  <2>4. PulledByStep'
    BY <1>4 DEF PulledByStep, MintAndSettle, Knows
  <2>5. RowsBacked'
    <3>1. at[r] = "over" /\ pulls[r] # <<>>
      BY <1>4 DEF RowsBacked, MintAndSettle, Knows
    <3>2. charge'[r].status = "succeeded" /\ \A q \in Requests \ {r} : charge'[q] = charge[q]
      BY <1>4, <3>1 DEF TypeOK, MintAndSettle
    <3>3. /\ UNCHANGED <<at, pulls>>
          /\ \A q \in Requests \ {r} : row'[q] = row[q]
          /\ \A e \in Drivers, q \in Requests : drive'[e][q] # "off" => drive[e][q] # "off"
      BY <1>4 DEF MintAndSettle, Knows, hist
    <3>4. row'[r] = "minted"
      BY <1>4 DEF TypeOK, MintAndSettle
    <3>. QED BY <3>1, <3>2, <3>3, <3>4 DEF RowsBacked
  <2>. QED BY <2>1, <2>2, <2>3, <2>4, <2>5 DEF IInv
<1>5. CASE Stall(d, r)
  <2>1. TypeOK'
    BY <1>5 DEF TypeOK, Stall, Knows, AfterStall
  <2>2. StepsAgree'
    BY <1>5 DEF StepsAgree, Stall, AfterStall
  <2>3. KeysHeld'
    BY <1>5, HeldStays DEF Stall, Knows, AfterStall
  <2>4. PulledByStep'
    BY <1>5 DEF PulledByStep, Stall, AfterStall
  <2>5. RowsBacked'
    BY <1>5 DEF RowsBacked, Stall, Knows, AfterStall
  <2>. QED BY <2>1, <2>2, <2>3, <2>4, <2>5 DEF IInv
<1>. QED BY <1>1, <1>2, <1>3, <1>4, <1>5 DEF DriveStep

\* The resume pass' list, taken and dropped.
LEMMA PassKeeps ==
    ASSUME IInv, NEW p \in Passes, PassStep(p)
    PROVE  IInv'
<1>. USE DEF IInv, client, onChain, bridge, hist
<1>1. CASE ListRows(p)
  <2>1. TypeOK'
    BY <1>1 DEF TypeOK, ListRows, Resumable
  <2>2. StepsAgree'
    BY <1>1 DEF StepsAgree, ListRows, Resumable
  <2>3. KeysHeld'
    BY <1>1, HeldStays DEF TypeOK, ListRows, Resumable
  <2>4. PulledByStep'
    BY <1>1 DEF PulledByStep, ListRows, Resumable
  <2>5. RowsBacked'
    BY <1>1 DEF RowsBacked, ListRows, Resumable
  <2>. QED BY <2>1, <2>2, <2>3, <2>4, <2>5 DEF IInv
<1>2. CASE PassAborts(p)
  <2>1. TypeOK'
    BY <1>2 DEF TypeOK, Steps, PassAborts
  <2>2. StepsAgree'
    BY <1>2 DEF TypeOK, StepsAgree, PassAborts
  <2>3. KeysHeld'
    BY <1>2, HeldStays DEF TypeOK, StepsAgree, PassAborts
  <2>4. PulledByStep'
    BY <1>2 DEF TypeOK, PulledByStep, PassAborts
  <2>5. RowsBacked'
    BY <1>2 DEF TypeOK, RowsBacked, PassAborts
  <2>. QED BY <2>1, <2>2, <2>3, <2>4, <2>5 DEF IInv
<1>. QED BY <1>1, <1>2 DEF PassStep

\* Revokes, expiries, restarts and the clock.
LEMMA OthersKeep ==
    ASSUME IInv, Others
    PROVE  IInv'
<1>. USE DEF IInv, client, onChain, bridge, hist
<1>1. CASE RevokeMandate
  <2>1. TypeOK'
    <3>1. grant' \in [Chains -> GrantRecords]
      BY <1>1, RevokedTyped DEF RevokeMandate
    <3>. QED BY <1>1, <3>1 DEF TypeOK, RevokeMandate, Event
  <2>2. StepsAgree'
    BY <1>1 DEF StepsAgree, RevokeMandate, RevokeRows
  <2>3. KeysHeld'
    BY <1>1, HeldStays DEF RevokeMandate, RevokeRows, Event
  <2>4. PulledByStep'
    BY <1>1 DEF PulledByStep, RevokeMandate, RevokeRows
  <2>5. RowsBacked'
    BY <1>1 DEF RowsBacked, RevokeMandate, RevokeRows
  <2>. QED BY <2>1, <2>2, <2>3, <2>4, <2>5 DEF IInv
<1>2. CASE ExpireMandate
  <2>1. TypeOK'
    BY <1>2 DEF TypeOK, ExpireMandate, Event
  <2>2. StepsAgree'
    BY <1>2 DEF StepsAgree, ExpireMandate, Event
  <2>3. KeysHeld'
    BY <1>2, HeldStays DEF TypeOK, ExpireMandate, Event
  <2>4. PulledByStep'
    BY <1>2 DEF PulledByStep, ExpireMandate, Event
  <2>5. RowsBacked'
    BY <1>2 DEF RowsBacked, ExpireMandate, Event
  <2>. QED BY <2>1, <2>2, <2>3, <2>4, <2>5 DEF IInv
<1>3. CASE \E c \in Chains : Disable(c)
  <2>1. TypeOK'
    BY <1>3 DEF TypeOK, Disable, Event
  <2>2. StepsAgree'
    BY <1>3 DEF StepsAgree, Disable, Event
  <2>3. KeysHeld'
    BY <1>3, HeldStays DEF TypeOK, Disable, Event
  <2>4. PulledByStep'
    BY <1>3 DEF PulledByStep, Disable, Event
  <2>5. RowsBacked'
    BY <1>3 DEF RowsBacked, Disable, Event
  <2>. QED BY <2>1, <2>2, <2>3, <2>4, <2>5 DEF IInv
<1>4. CASE RestartApi
  <2>1. TypeOK'
    <3>1. at' \in [Requests -> Steps]
      BY <1>4 DEF TypeOK, RestartApi, Steps
    <3>2. drive' \in [Drivers -> [Requests -> {"off", "pulled", "burnt", "burned", "attest"}]]
      BY <1>4 DEF TypeOK, RestartApi, Drivers
    <3>3. events' \in 0..MaxEvents
      BY <1>4 DEF TypeOK, RestartApi, Event
    <3>4. direct' \in BOOLEAN
      BY <1>4 DEF TypeOK, RestartApi
    <3>. QED BY <1>4, <3>1, <3>2, <3>3, <3>4 DEF TypeOK, RestartApi
  <2>2. StepsAgree'
    BY <1>4 DEF StepsAgree, Early, Busy, RestartApi
  <2>3. KeysHeld'
    BY <1>4, HeldStays DEF TypeOK, RestartApi, Event
  <2>4. PulledByStep'
    BY <1>4 DEF PulledByStep, Early, RestartApi
  <2>5. RowsBacked'
    BY <1>4 DEF RowsBacked, RestartApi, Event
  <2>. QED BY <2>1, <2>2, <2>3, <2>4, <2>5 DEF IInv
<1>5. CASE RestartBilling
  <2>1. TypeOK'
    BY <1>5 DEF TypeOK, RestartBilling, Event
  <2>2. StepsAgree'
    BY <1>5 DEF StepsAgree, RestartBilling, Event
  <2>3. KeysHeld'
    BY <1>5, HeldStays DEF TypeOK, RestartBilling, Event
  <2>4. PulledByStep'
    BY <1>5 DEF PulledByStep, RestartBilling, Event
  <2>5. RowsBacked'
    BY <1>5 DEF RowsBacked, RestartBilling, Event
  <2>. QED BY <2>1, <2>2, <2>3, <2>4, <2>5 DEF IInv
<1>6. CASE Tick
  <2>1. TypeOK'
    BY <1>6 DEF TypeOK, Periods, Tick
  <2>2. StepsAgree'
    BY <1>6 DEF TypeOK, StepsAgree, Tick
  <2>3. KeysHeld'
    BY <1>6, HeldStays DEF TypeOK, StepsAgree, Tick
  <2>4. PulledByStep'
    BY <1>6 DEF TypeOK, PulledByStep, Tick
  <2>5. RowsBacked'
    BY <1>6 DEF TypeOK, RowsBacked, Tick
  <2>. QED BY <2>1, <2>2, <2>3, <2>4, <2>5 DEF IInv
<1>. QED BY <1>1, <1>2, <1>3, <1>4, <1>5, <1>6 DEF Others
LEMMA StutterKeeps == IInv /\ UNCHANGED vars => IInv'
BY DEF IInv, vars, client, onChain, bridge, hist, TypeOK, StepsAgree, KeysHeld, KeyRow,
       PulledByStep, RowsBacked

LEMMA NextKeeps == IInv /\ [Next]_vars => IInv'
<1>. SUFFICES ASSUME IInv, [Next]_vars PROVE IInv'
  OBVIOUS
<1>1. CASE \E r \in Requests : RequestStep(r)
  BY <1>1, RequestKeeps
<1>2. CASE \E r \in Requests : ExecutionStep(r)
  BY <1>2, ExecutionKeeps
<1>3. CASE \E d \in Drivers, r \in Requests : DriveStep(d, r)
  BY <1>3, DriveKeeps
<1>4. CASE \E p \in Passes : PassStep(p)
  BY <1>4, PassKeeps
<1>5. CASE Others
  BY <1>5, OthersKeep
<1>6. CASE UNCHANGED vars
  BY <1>6, StutterKeeps
<1>. QED BY <1>1, <1>2, <1>3, <1>4, <1>5, <1>6 DEF Next

\* The inductive invariant of the charge API, its executions and its resume passes.
THEOREM ChargeInductive == Spec => []IInv
BY InitInv, NextKeeps, PTL DEF Spec

\* Every variable keeps its type, whatever is reserved, pulled and burned at once.
THEOREM ChargeTypeCorrect == Spec => []TypeOK
<1>1. IInv => TypeOK
  BY DEF IInv
<1>. QED BY <1>1, ChargeInductive, PTL

\* A key is paid once however often and however concurrently it is sent: the unique row
\* claimKey inserts is never given back once a charge exists.
THEOREM KeyIsPaidOnce == Spec => []KeyPaidOnce
<1>1. IInv => KeyPaidOnce
  <2>. SUFFICES ASSUME IInv, NEW r \in Requests, NEW q \in Requests
                PROVE  /\ Len(pulls[r]) <= 1
                       /\ (pulls[r] # <<>> /\ pulls[q] # <<>> /\ ask[r].key = ask[q].key)
                              => r = q
    BY DEF KeyPaidOnce
  <2>1. Len(pulls[r]) <= 1
    BY DEF IInv, PulledByStep
  <2>2. ASSUME pulls[r] # <<>>, pulls[q] # <<>>, ask[r].key = ask[q].key
        PROVE  r = q
    <3>1. KeyRow(r).owner = r /\ KeyRow(q).owner = q
      BY <2>2 DEF IInv, PulledByStep, KeysHeld
    <3>. QED BY <2>2, <3>1 DEF KeyRow
  <2>. QED BY <2>1, <2>2
<1>. QED BY <1>1, ChargeInductive, PTL

\* No stall of a bridge, and no catch of executeCharge, fails a charge whose money is
\* on its way.
THEOREM FlightNeverFails == Spec => []RowNeverFailed
<1>1. IInv => RowNeverFailed
  BY DEF IInv, RowsBacked, RowNeverFailed
<1>. QED BY <1>1, ChargeInductive, PTL

---------------------------------------------------------------------------
(* Sums.  Total is a fold over a set; what is added up is finite because   *)
(* only finitely many requests have been served.                           *)

\* What the fold takes out of a set next.
Pick(s) == CHOOSE x \in s : TRUE

\* The table of sums over the subsets of T that the fold builds.
IsSum(f, T, g) ==
    g = [s \in SUBSET T |-> IF s = {} THEN 0 ELSE f[Pick(s)] + g[s \ {Pick(s)}]]

\* The library's sum is read off the table.
LEMMA SumIsChosen ==
    ASSUME NEW f, NEW S
    PROVE  SumFunctionOnSet(f, S) = (CHOOSE g : IsSum(f, S, g))[S]
BY DEF SumFunctionOnSet, FoldFunctionOnSet, MapThenFoldSet, IsSum, Pick

\* Among subsets of a finite set there is a least one: induction, said to the provers.
LEMMA SmallestOf ==
    ASSUME NEW S, IsFiniteSet(S), NEW Bad \in SUBSET (SUBSET S), Bad # {}
    PROVE  \E T \in Bad : \A U \in Bad : U \subseteq T => U = T
<1>1. IsWellFoundedOn(StrictSubsetOrdering(S), SUBSET S)
  BY FS_StrictSubsetOrderingWellFounded, FS_FiniteSubsetsOfFinite
<1>2. PICK T \in Bad : \A U \in Bad : ~ (<<U, T>> \in StrictSubsetOrdering(S))
  BY <1>1, WFMin
<1>3. ASSUME NEW U \in Bad, U \subseteq T PROVE U = T
  BY <1>2, <1>3 DEF StrictSubsetOrdering
<1>. QED BY <1>2, <1>3


\* Tables agree where they overlap ...
LEMMA PartAgrees ==
    ASSUME NEW f, NEW S, IsFiniteSet(S), NEW T \in SUBSET S, NEW U \in SUBSET T,
           NEW g, NEW h, IsSum(f, T, g), IsSum(f, U, h)
    PROVE  g[U] = h[U]
<1>. DEFINE Bad == {s \in SUBSET U : g[s] # h[s]}
<1>. SUFFICES ASSUME Bad # {} PROVE FALSE
  OBVIOUS
<1>1. PICK s \in Bad : \A u \in Bad : u \subseteq s => u = s
  <2>. HIDE DEF Bad
  <2>1. Bad \in SUBSET (SUBSET S)
    BY DEF Bad
  <2>. QED BY <2>1, SmallestOf
<1>2. /\ g[s] = IF s = {} THEN 0 ELSE f[Pick(s)] + g[s \ {Pick(s)}]
      /\ h[s] = IF s = {} THEN 0 ELSE f[Pick(s)] + h[s \ {Pick(s)}]
  BY <1>1 DEF IsSum
<1>3. s # {} /\ Pick(s) \in s
  BY <1>1, <1>2 DEF Pick
<1>4. s \ {Pick(s)} \notin Bad
  BY <1>1, <1>3
<1>. QED BY <1>1, <1>2, <1>3, <1>4

\* ... and every finite set has one.
LEMMA SumExists ==
    ASSUME NEW f, NEW S, IsFiniteSet(S)
    PROVE  \A T \in SUBSET S : \E g : IsSum(f, T, g)
<1>. DEFINE Bad == {T \in SUBSET S : ~ \E g : IsSum(f, T, g)}
<1>. SUFFICES ASSUME Bad # {} PROVE FALSE
  OBVIOUS
<1>1. PICK T \in Bad : \A U \in Bad : U \subseteq T => U = T
  <2>. HIDE DEF Bad
  <2>1. Bad \in SUBSET (SUBSET S)
    BY DEF Bad
  <2>. QED BY <2>1, SmallestOf
<1>. DEFINE Of(U) == CHOOSE g : IsSum(f, U, g)
            Body(g, s) == IF s = {} THEN 0 ELSE f[Pick(s)] + g[s \ {Pick(s)}]
            Low == [s \in SUBSET T |-> Of(s)[s]]
            All == [s \in SUBSET T |-> Body(Low, s)]
<1>2. \A U \in SUBSET T : U # T => IsSum(f, U, Of(U))
  BY <1>1
<1>3. \A s \in SUBSET T : s # {} => Pick(s) \in s
  BY DEF Pick
<1>4. ASSUME NEW s \in SUBSET T, s # T
      PROVE  All[s] = Low[s]
  <2>1. IsSum(f, s, Of(s))
    BY <1>2, <1>4
  <2>2. Of(s)[s] = Body(Of(s), s)
    <3>. HIDE DEF Of
    <3>. QED BY <2>1 DEF IsSum
  <2>3. CASE s = {}
    <3>. HIDE DEF Of
    <3>. QED BY <2>2, <2>3
  <2>4. CASE s # {}
    <3>. DEFINE u == s \ {Pick(s)}
    <3>1. u \in SUBSET T /\ u # T /\ u \subseteq s /\ u \in SUBSET S /\ s \in SUBSET S
      BY <1>1, <1>3, <1>4, <2>4
    <3>2. IsSum(f, u, Of(u))
      BY <1>2, <3>1
    <3>3. Of(s)[u] = Of(u)[u]
      <4>. HIDE DEF Of, u
      <4>. QED BY <2>1, <3>1, <3>2, PartAgrees
    <3>. HIDE DEF Of
    <3>. QED BY <2>2, <2>4, <3>1, <3>3
  <2>. QED BY <2>3, <2>4
<1>5. ASSUME NEW s \in SUBSET T
      PROVE  Body(Low, s) = Body(All, s)
  <2>1. CASE s = {}
    BY <2>1
  <2>2. CASE s # {}
    <3>1. s \ {Pick(s)} \in SUBSET T /\ s \ {Pick(s)} # T
      BY <1>3, <2>2
    <3>2. All[s \ {Pick(s)}] = Low[s \ {Pick(s)}]
      <4>. HIDE DEF All, Low
      <4>. QED BY <1>4, <3>1
    <3>. HIDE DEF All, Low
    <3>. QED BY <2>2, <3>2
  <2>. QED BY <2>1, <2>2
<1>6. All = [s \in SUBSET T |-> Body(All, s)]
  <2>. HIDE DEF Body
  <2>1. ASSUME NEW s \in SUBSET T PROVE All[s] = Body(All, s)
    <3>1. All[s] = Body(Low, s)
      OBVIOUS
    <3>. HIDE DEF All, Low
    <3>. QED BY <1>5, <3>1
  <2>2. All = [s \in SUBSET T |-> All[s]]
    OBVIOUS
  <2>. HIDE DEF All, Low
  <2>. QED BY <2>1, <2>2
<1>7. IsSum(f, T, All)
  <2>. HIDE DEF All
  <2>. QED BY <1>6 DEF IsSum
<1>. HIDE DEF All
<1>. QED BY <1>1, <1>7

\* So the fold computes what its equation says.
LEMMA SumOfEmpty ==
    ASSUME NEW f
    PROVE  SumFunctionOnSet(f, {}) = 0
<1>1. IsFiniteSet({})
  BY FS_EmptySet
<1>2. \E g : IsSum(f, {}, g)
  BY <1>1, SumExists
<1>3. IsSum(f, {}, CHOOSE g : IsSum(f, {}, g))
  BY <1>2
<1>. DEFINE G == CHOOSE g : IsSum(f, {}, g)
<1>4. G[{}] = 0
  <2>. HIDE DEF G
  <2>. QED BY <1>3 DEF IsSum, G
<1>. QED BY <1>4, SumIsChosen

LEMMA SumUnfolds ==
    ASSUME NEW f, NEW S, IsFiniteSet(S), S # {}
    PROVE  /\ Pick(S) \in S
           /\ SumFunctionOnSet(f, S) = f[Pick(S)] + SumFunctionOnSet(f, S \ {Pick(S)})
<1>. DEFINE Of(U) == CHOOSE g : IsSum(f, U, g)
            T == S \ {Pick(S)}
<1>0. Pick(S) \in S
  BY DEF Pick
<1>1. IsSum(f, S, Of(S)) /\ IsSum(f, T, Of(T))
  <2>1. (\E g : IsSum(f, S, g)) /\ (\E g : IsSum(f, T, g))
    <3>. HIDE DEF T
    <3>1. T \in SUBSET S /\ S \in SUBSET S
      BY DEF T
    <3>. QED BY <3>1, SumExists
  <2>. QED BY <2>1
<1>2. Of(S)[T] = Of(T)[T]
  <2>1. T \in SUBSET S
    OBVIOUS
  <2>2. S \in SUBSET S
    OBVIOUS
  <2>. HIDE DEF Of, T
  <2>. QED BY <1>1, <2>1, <2>2, PartAgrees
<1>3. Of(S)[S] = f[Pick(S)] + Of(S)[T]
  <2>. HIDE DEF Of
  <2>. QED BY <1>1 DEF IsSum
<1>4. SumFunctionOnSet(f, S) = Of(S)[S] /\ SumFunctionOnSet(f, T) = Of(T)[T]
  BY SumIsChosen
<1>. HIDE DEF Of
<1>. QED BY <1>0, <1>2, <1>3, <1>4


\* Sums of naturals are naturals, ...
LEMMA SumTyped ==
    ASSUME NEW f, NEW S, IsFiniteSet(S), \A x \in S : f[x] \in Nat
    PROVE  \A T \in SUBSET S : SumFunctionOnSet(f, T) \in Nat
<1>. DEFINE Bad == {T \in SUBSET S : SumFunctionOnSet(f, T) \notin Nat}
<1>. SUFFICES ASSUME Bad # {} PROVE FALSE
  OBVIOUS
<1>1. PICK T \in Bad : \A U \in Bad : U \subseteq T => U = T
  <2>. HIDE DEF Bad
  <2>1. Bad \in SUBSET (SUBSET S)
    BY DEF Bad
  <2>. QED BY <2>1, SmallestOf
<1>2. T # {}
  <2>1. SumFunctionOnSet(f, {}) = 0
    BY SumOfEmpty
  <2>2. SumFunctionOnSet(f, T) \notin Nat
    BY <1>1
  <2>. QED BY <2>1, <2>2
<1>3. IsFiniteSet(T)
  BY <1>1, FS_Subset
<1>4. /\ Pick(T) \in T
      /\ SumFunctionOnSet(f, T) = f[Pick(T)] + SumFunctionOnSet(f, T \ {Pick(T)})
  <2>. HIDE DEF Bad
  <2>. QED BY <1>2, <1>3, SumUnfolds
<1>5. T \ {Pick(T)} \notin Bad
  BY <1>1, <1>4
<1>6. SumFunctionOnSet(f, T \ {Pick(T)}) \in Nat
  BY <1>1, <1>5
<1>. QED BY <1>1, <1>4, <1>6

\* ... do not depend on the order in which the fold picks, ...
LEMMA SumRemoves ==
    ASSUME NEW f, NEW S, IsFiniteSet(S), \A x \in S : f[x] \in Nat
    PROVE  \A T \in SUBSET S : \A x \in T :
               SumFunctionOnSet(f, T) = f[x] + SumFunctionOnSet(f, T \ {x})
<1>. DEFINE Sum(T) == SumFunctionOnSet(f, T)
            Bad == {T \in SUBSET S : \E x \in T : Sum(T) # f[x] + Sum(T \ {x})}
<1>. SUFFICES ASSUME Bad # {} PROVE FALSE
  OBVIOUS
<1>0. \A T \in SUBSET S : Sum(T) \in Nat
  BY SumTyped
<1>1. PICK T \in Bad : \A U \in Bad : U \subseteq T => U = T
  <2>. HIDE DEF Bad
  <2>1. Bad \in SUBSET (SUBSET S)
    BY DEF Bad
  <2>. QED BY <2>1, SmallestOf
<1>2. T \in SUBSET S /\ IsFiniteSet(T)
  BY <1>1, FS_Subset
<1>3. PICK x \in T : Sum(T) # f[x] + Sum(T \ {x})
  BY <1>1
<1>. DEFINE p == Pick(T)
<1>4. p \in T /\ Sum(T) = f[p] + Sum(T \ {p})
  <2>1. T # {}
    BY <1>3
  <2>. HIDE DEF Bad
  <2>. QED BY <1>2, <2>1, SumUnfolds
<1>. HIDE DEF p
<1>5. p # x
  BY <1>3, <1>4
<1>6. T \ {p} \notin Bad /\ T \ {x} \notin Bad
  BY <1>1, <1>3, <1>4
<1>. HIDE DEF Sum
<1>7. Sum(T \ {p}) = f[x] + Sum((T \ {p}) \ {x})
  BY <1>2, <1>3, <1>5, <1>6
<1>8. Sum(T \ {x}) = f[p] + Sum((T \ {x}) \ {p})
  BY <1>2, <1>4, <1>5, <1>6
<1>9. (T \ {x}) \ {p} = (T \ {p}) \ {x}
  OBVIOUS
<1>10. Sum((T \ {p}) \ {x}) \in Nat /\ f[p] \in Nat /\ f[x] \in Nat
  BY <1>0, <1>2, <1>3, <1>4
<1>. QED BY <1>3, <1>4, <1>7, <1>8, <1>9, <1>10

\* ... and grow with the set.
LEMMA SumGrows ==
    ASSUME NEW f, NEW S, IsFiniteSet(S), \A x \in S : f[x] \in Nat, NEW U \in SUBSET S
    PROVE  SumFunctionOnSet(f, U) <= SumFunctionOnSet(f, S)
<1>. DEFINE Sum(T) == SumFunctionOnSet(f, T)
            Bad == {T \in SUBSET S : U \subseteq T /\ ~(Sum(U) <= Sum(T))}
<1>. SUFFICES ASSUME Bad # {} PROVE FALSE
  OBVIOUS
<1>0. \A T \in SUBSET S : Sum(T) \in Nat
  BY SumTyped
<1>1. PICK T \in Bad : \A V \in Bad : V \subseteq T => V = T
  <2>. HIDE DEF Bad
  <2>1. Bad \in SUBSET (SUBSET S)
    BY DEF Bad
  <2>. QED BY <2>1, SmallestOf
<1>2. T # U /\ U \subseteq T
  <2>. HIDE DEF Sum
  <2>. QED BY <1>0, <1>1
<1>3. PICK x \in T : x \notin U
  BY <1>2
<1>4. T \ {x} \notin Bad
  BY <1>1, <1>3
<1>5. Sum(T) = f[x] + Sum(T \ {x})
  BY <1>1, <1>3, SumRemoves
<1>6. Sum(U) <= Sum(T \ {x})
  BY <1>1, <1>2, <1>3, <1>4
<1>. HIDE DEF Sum
<1>. QED BY <1>0, <1>1, <1>3, <1>5, <1>6

---------------------------------------------------------------------------
(* The ceiling.                                                            *)

Kept(p) == {r \in Requests : charge[r].status \in {"pending", "succeeded"}
                              /\ charge[r].created = p}

\* Charges are finitely many, and none is of a period still to come.
ChargesCounted ==
    /\ IsFiniteSet({r \in Requests : charge[r].status # "none"})
    /\ \A r \in Requests : charge[r].status # "none" => charge[r].created <= now

CeilingInv == ChargesCounted /\ CeilingHolds

\* An outcome is recorded for a charge that is pending, or was settled before.
Settles(r) ==
    /\ charge[r].status \in {"pending", "succeeded"}
    /\ \E s \in {"succeeded", "failed"} : charge' = [charge EXCEPT ![r].status = s]

\* What can become of the charges in one step.
LEMMA ChargeSteps ==
    ASSUME IInv, [Next]_vars
    PROVE  /\ UNCHANGED ask
           /\ now <= now'
           /\ \/ UNCHANGED charge
              \/ \E r \in Requests : Reserve(r) \/ Settles(r)
<1>. USE DEF client, onChain, bridge, hist
<1>0. now \in Int
  BY DEF IInv, TypeOK, Periods
<1>1. ASSUME NEW r \in Requests, FailCharge(r) \/ SettleDirect(r)
      PROVE  Settles(r) /\ UNCHANGED <<ask, now>>
  BY <1>1 DEF IInv, StepsAgree, Busy, Settles, FailCharge, SettleDirect, Goto
<1>2. ASSUME NEW d \in Drivers, NEW r \in Requests, MintAndSettle(d, r)
      PROVE  Settles(r) /\ UNCHANGED <<ask, now>>
  BY <1>2 DEF IInv, RowsBacked, Settles, MintAndSettle, Knows
<1>3. ASSUME NEW r \in Requests, RequestStep(r), ~ Reserve(r)
      PROVE  UNCHANGED <<ask, now, charge>>
  BY <1>3 DEF RequestStep, ClaimKey, KeyTaken, RefuseReserve, ReleaseKey, CompleteKey,
              KeyWriteThrows
<1>4. ASSUME NEW r \in Requests, Reserve(r)
      PROVE  UNCHANGED <<ask, now>>
  BY <1>4 DEF Reserve
<1>5. ASSUME NEW r \in Requests, ExecutionStep(r), ~ FailCharge(r), ~ SettleDirect(r)
      PROVE  UNCHANGED <<ask, now, charge>>
  BY <1>5 DEF ExecutionStep, Plan, PlanRefused, Redeem, RedeemSeenAsFailed, RedeemFails,
              Stamp, DirectWriteThrows, OpenBridge, ExecutionDies
<1>6. ASSUME NEW d \in Drivers, NEW r \in Requests, DriveStep(d, r), ~ MintAndSettle(d, r)
      PROVE  UNCHANGED <<ask, now, charge>>
  BY <1>6 DEF DriveStep, Burn, BurnSeenAsFailed, RecordBurn, Stall
<1>7. ASSUME NEW p \in Passes, PassStep(p)
      PROVE  UNCHANGED <<ask, now, charge>>
  BY <1>7 DEF PassStep, ListRows, PassAborts
<1>8. CASE Others
  <2>1. CASE Tick
    BY <1>0, <2>1 DEF Tick
  <2>2. CASE RevokeMandate \/ ExpireMandate \/ \E c \in Chains : Disable(c)
    BY <1>0, <2>2 DEF RevokeMandate, ExpireMandate, Disable
  <2>3. CASE RestartApi \/ RestartBilling
    <3>1. UNCHANGED <<ask, now, charge>>
      BY <2>3 DEF RestartApi, RestartBilling
    <3>. QED BY <1>0, <3>1
  <2>. QED BY <1>8, <2>1, <2>2, <2>3 DEF Others
<1>9. CASE UNCHANGED vars
  BY <1>0, <1>9 DEF vars
<1>. QED BY <1>0, <1>1, <1>2, <1>3, <1>4, <1>5, <1>6, <1>7, <1>8, <1>9 DEF Next

\* What each request asks for, in a table that no step changes.
Asked == [q \in Requests |-> Amount(q)]

LEMMA TotalOfAsked ==
    ASSUME TypeOK, UNCHANGED ask
    PROVE  /\ \A p \in Periods :
                 /\ Total(Kept(p)) = SumFunctionOnSet(Asked, Kept(p))
                 /\ Total(Kept(p))' = SumFunctionOnSet(Asked, Kept(p)')
           /\ \A r \in Requests : Asked[r] = Amount(r) /\ Asked[r] \in Nat
<1>1. Asked' = Asked
  BY DEF Asked, Amount
<1>2. \A r \in Requests : Asked[r] = Amount(r) /\ Asked[r] \in Nat
  BY DEF TypeOK, Amount, Asked
<1>3. ASSUME NEW p \in Periods
      PROVE  /\ Total(Kept(p)) = SumFunctionOnSet(Asked, Kept(p))
             /\ Total(Kept(p))' = SumFunctionOnSet(Asked, Kept(p)')
  BY <1>1 DEF Total, Asked
<1>. QED BY <1>2, <1>3

LEMMA KeptFinite ==
    ASSUME ChargesCounted, NEW p
    PROVE  IsFiniteSet(Kept(p))
<1>. DEFINE All == {r \in Requests : charge[r].status # "none"}
<1>1. Kept(p) \in SUBSET All
  BY DEF Kept
<1>2. IsFiniteSet(All)
  BY DEF ChargesCounted
<1>. HIDE DEF All
<1>. QED BY <1>1, <1>2, FS_Subset

LEMMA CountedKeeps ==
    ASSUME IInv, ChargesCounted, [Next]_vars
    PROVE  ChargesCounted'
<1>. DEFINE Charged == {r \in Requests : charge[r].status # "none"}
<1>1. /\ now <= now' /\ now \in Int /\ now' \in Int
      /\ \A r \in Requests : charge[r].status # "none" => charge[r].created \in Int
  <2>1. IInv'
    BY NextKeeps
  <2>2. \A r \in Requests : charge[r].status # "none" => charge[r].created \in Int
    BY DEF IInv, TypeOK, ChargeRecords, NoCharge, Periods
  <2>. QED BY <2>1, <2>2, ChargeSteps DEF IInv, TypeOK, Periods
<1>2. CASE UNCHANGED charge
  BY <1>1, <1>2 DEF ChargesCounted
<1>3. ASSUME NEW r \in Requests, Reserve(r)
      PROVE  ChargesCounted'
  <2>1. charge' = [charge EXCEPT ![r] = [status |-> "pending", created |-> now]]
    BY <1>3 DEF Reserve
  <2>2. Charged' = Charged \cup {r}
    BY <2>1 DEF IInv, TypeOK
  <2>3. IsFiniteSet(Charged')
    <3>1. IsFiniteSet(Charged)
      BY DEF ChargesCounted
    <3>. HIDE DEF Charged
    <3>. QED BY <2>2, <3>1, FS_AddElement
  <2>4. \A q \in Requests : charge'[q].status # "none" => charge'[q].created <= now'
    BY <1>1, <2>1 DEF IInv, TypeOK, ChargesCounted
  <2>. QED BY <2>3, <2>4 DEF ChargesCounted
<1>4. ASSUME NEW r \in Requests, Settles(r)
      PROVE  ChargesCounted'
  <2>1. PICK s \in {"succeeded", "failed"} : charge' = [charge EXCEPT ![r].status = s]
    BY <1>4 DEF Settles
  <2>2. \A q \in Requests :
            /\ charge'[q].status # "none" <=> charge[q].status # "none"
            /\ charge'[q].status # "none" => charge'[q].created = charge[q].created
    <3>1. charge[r] \in [status : {"pending", "succeeded", "failed"}, created : Periods]
      BY <1>4 DEF Settles, IInv, TypeOK, ChargeRecords, NoCharge
    <3>. QED BY <2>1, <3>1 DEF IInv, TypeOK
  <2>3. {q \in Requests : charge'[q].status # "none"} = {q \in Requests : charge[q].status # "none"}
    BY <2>2
  <2>4. \A q \in Requests : charge'[q].status # "none" => charge'[q].created <= now'
    BY <1>1, <2>2 DEF ChargesCounted
  <2>. QED BY <2>3, <2>4 DEF ChargesCounted
<1>. QED BY <1>2, <1>3, <1>4, ChargeSteps

LEMMA CeilingKeeps ==
    ASSUME IInv, CeilingInv, [Next]_vars
    PROVE  CeilingHolds'
<1>. SUFFICES ASSUME NEW p \in Periods
              PROVE  Total(Kept(p))' <= MaxAmount
  BY DEF CeilingHolds, Kept
<1>1. Total(Kept(p)) <= MaxAmount
  BY DEF CeilingInv, CeilingHolds, Kept
<1>2. TypeOK /\ UNCHANGED ask
  BY ChargeSteps DEF IInv
<1>3. IsFiniteSet(Kept(p)) /\ Kept(p) \subseteq Requests
  BY KeptFinite DEF CeilingInv, Kept
<1>4. /\ Total(Kept(p)) = SumFunctionOnSet(Asked, Kept(p))
      /\ Total(Kept(p))' = SumFunctionOnSet(Asked, Kept(p)')
      /\ \A r \in Requests : Asked[r] = Amount(r) /\ Asked[r] \in Nat
  BY <1>2, TotalOfAsked
<1>. DEFINE Now == SumFunctionOnSet(Asked, Kept(p))
            Then == SumFunctionOnSet(Asked, Kept(p)')
<1>5. Now \in Nat
  BY <1>3, <1>4, SumTyped
<1>6. ASSUME Kept(p)' \subseteq Kept(p)
      PROVE  Total(Kept(p))' <= MaxAmount
  <2>. DEFINE K == Kept(p)
              L == Kept(p)'
  <2>1. IsFiniteSet(K) /\ L \in SUBSET K /\ \A r \in K : Asked[r] \in Nat
    BY <1>3, <1>4, <1>6
  <2>2. /\ SumFunctionOnSet(Asked, L) <= SumFunctionOnSet(Asked, K)
        /\ SumFunctionOnSet(Asked, L) \in Nat
    <3>. HIDE DEF K, L
    <3>. QED BY <2>1, SumGrows, SumTyped
  <2>. QED BY <1>1, <1>4, <1>5, <2>2
<1>7. CASE UNCHANGED charge
  BY <1>6, <1>7 DEF Kept
<1>8. ASSUME NEW r \in Requests, Settles(r)
      PROVE  Total(Kept(p))' <= MaxAmount
  <2>1. PICK s \in {"succeeded", "failed"} : charge' = [charge EXCEPT ![r].status = s]
    BY <1>8 DEF Settles
  <2>2. charge[r] \in [status : {"pending", "succeeded", "failed"}, created : Periods]
    BY <1>8 DEF Settles, IInv, TypeOK, ChargeRecords, NoCharge
  <2>3. Kept(p)' \subseteq Kept(p)
    BY <1>8, <2>1, <2>2 DEF Kept, Settles, IInv, TypeOK
  <2>. QED BY <1>6, <2>3
<1>9. ASSUME NEW r \in Requests, Reserve(r)
      PROVE  Total(Kept(p))' <= MaxAmount
  <2>1. charge[r].status = "none"
    BY <1>9 DEF IInv, StepsAgree, Early, NoCharge, Reserve, Goto
  <2>2. charge' = [charge EXCEPT ![r] = [status |-> "pending", created |-> now]]
    BY <1>9 DEF Reserve
  <2>3. CASE p # now
    <3>1. Kept(p)' \subseteq Kept(p)
      BY <2>2, <2>3 DEF Kept, IInv, TypeOK
    <3>. QED BY <1>6, <3>1
  <2>4. CASE p = now
    <3>1. Kept(p)' = Kept(p) \cup {r} /\ r \notin Kept(p)
      BY <2>1, <2>2, <2>4 DEF Kept, IInv, TypeOK
    <3>2. CommittedBy(now) = Kept(p)
      <4>1. \A q \in Requests : charge[q].status \in {"pending", "succeeded"} =>
                /\ charge[q].created \in Int /\ charge[q].created <= now
        BY DEF IInv, TypeOK, ChargeRecords, NoCharge, Periods, CeilingInv, ChargesCounted
      <4>2. now \in Int
        BY DEF IInv, TypeOK, Periods
      <4>. QED BY <2>4, <4>1, <4>2 DEF CommittedBy, Counted, Kept
    <3>3. Now + Asked[r] <= MaxAmount
      BY <1>4, <1>9, <3>2 DEF Reserve
    <3>4. Then = Asked[r] + Now
      <4>. DEFINE K == Kept(p)
                  L == Kept(p)'
      <4>1. /\ IsFiniteSet(K) /\ L = K \cup {r} /\ L \ {r} = K
            /\ \A q \in L : Asked[q] \in Nat
        BY <1>3, <1>4, <3>1
      <4>2. SumFunctionOnSet(Asked, L) = Asked[r] + SumFunctionOnSet(Asked, K)
        <5>. HIDE DEF K, L
        <5>1. IsFiniteSet(L) /\ L \in SUBSET L /\ r \in L
          BY <4>1, FS_AddElement
        <5>2. SumFunctionOnSet(Asked, L) = Asked[r] + SumFunctionOnSet(Asked, L \ {r})
          BY <4>1, <5>1, SumRemoves
        <5>. QED BY <4>1, <5>2
      <4>. QED BY <4>2
    <3>. QED BY <1>4, <1>5, <3>3, <3>4
  <2>. QED BY <2>3, <2>4
<1>. QED BY <1>7, <1>8, <1>9, ChargeSteps

\* However many requests reserve at once, what a period's charges amount to, failed
\* ones aside, stays within the mandate's ceiling: the check and the insert of
\* createCharge are one serializable transaction, and no charge comes back from failed.
THEOREM ChargeCeiling == Spec => []CeilingHolds
<1>1. Init => CeilingInv
  <2>. SUFFICES ASSUME Init PROVE CeilingInv
    OBVIOUS
  <2>1. \A r \in Requests : charge[r].status = "none"
    BY DEF Init, NoCharge
  <2>2. {r \in Requests : charge[r].status # "none"} = {}
    BY <2>1
  <2>3. ChargesCounted
    BY <2>1, <2>2, FS_EmptySet DEF ChargesCounted
  <2>4. \A p : Kept(p) = {}
    BY <2>1 DEF Kept
  <2>5. Total({}) = 0
    BY SumOfEmpty DEF Total
  <2>6. CeilingHolds
    BY <2>4, <2>5 DEF CeilingHolds, Kept
  <2>. QED BY <2>3, <2>6 DEF CeilingInv
<1>2. IInv /\ CeilingInv /\ [Next]_vars => CeilingInv'
  BY CountedKeeps, CeilingKeeps DEF CeilingInv
<1>3. CeilingInv => CeilingHolds
  BY DEF CeilingInv
<1>. QED BY <1>1, <1>2, <1>3, ChargeInductive, PTL DEF Spec

---------------------------------------------------------------------------
(* The refinement of ChargeLedger. *)

\* Under the mapping, what changes no charge's status and pulls nothing is a stutter.
LEMMA QuietStep ==
    ASSUME UNCHANGED <<ask, charge, pulls>>
    PROVE  UNCHANGED Ledger!ledgerVars
BY DEF Ledger!ledgerVars

\* A charge that changes its status alone.
LEMMA StatusStep ==
    ASSUME TypeOK, NEW r \in Requests, NEW s, UNCHANGED <<ask, pulls>>,
           charge'[r].status = s,
           \A q \in Requests \ {r} : charge'[q] = charge[q]
    PROVE  Ledger!Become(r, s)
BY DEF Ledger!Become, TypeOK

\* Its money moves: for the first time for its key.
LEMMA CollectStep ==
    ASSUME IInv, NEW r \in Requests, at[r] = "redeeming", MoneyMoves(r),
           UNCHANGED <<ask, charge>>
    PROVE  Ledger!Collect(r)
<1>1. charge[r].status = "pending" /\ pulls[r] = <<>>
  BY DEF IInv, StepsAgree, Busy, PulledByStep
<1>2. ASSUME NEW q \in Requests, pulls[q] # <<>>
      PROVE  ask[q].key # ask[r].key
  <2>1. KeyRow(q).owner = q
    BY <1>2, HeldByOwner DEF IInv, PulledByStep
  <2>2. KeyRow(r).owner = r
    BY <1>1, HeldByOwner DEF IInv
  <2>. QED BY <1>1, <1>2, <2>1, <2>2 DEF KeyRow
<1>3. {q \in Requests : pulls'[q] # <<>>} = {q \in Requests : pulls[q] # <<>>} \cup {r}
  <2>1. now \in Periods /\ pulls \in [Requests -> Seq(Periods)]
    BY DEF IInv, TypeOK
  <2>2. Append(pulls[r], now) # <<>>
    BY <2>1
  <2>. QED BY <2>1, <2>2 DEF MoneyMoves
<1>. QED BY <1>1, <1>2, <1>3 DEF Ledger!Collect

LEMMA InitRefines == Init => Ledger!Init
BY DEF Init, Ledger!Init, NoCharge

LEMMA ExecutionRefines ==
    ASSUME IInv, NEW r \in Requests, ExecutionStep(r)
    PROVE  [Ledger!Next]_(Ledger!ledgerVars)
<1>. USE DEF client, onChain, bridge, hist
<1>1. CASE Redeem(r) \/ RedeemSeenAsFailed(r)
  <2>1. Ledger!Collect(r)
    BY <1>1, CollectStep DEF Redeem, RedeemSeenAsFailed, Goto
  <2>. QED BY <2>1 DEF Ledger!Next
<1>2. CASE FailCharge(r)
  <2>1. charge[r].status = "pending"
    BY <1>2 DEF IInv, StepsAgree, Busy, FailCharge, Goto
  <2>2. Ledger!Become(r, "failed")
    <3>1. charge \in [Requests -> ChargeRecords] /\ TypeOK
      BY DEF IInv, TypeOK
    <3>2. charge'[r].status = "failed"
      BY <1>2, <3>1 DEF FailCharge, ChargeRecords, NoCharge
    <3>3. \A q \in Requests \ {r} : charge'[q] = charge[q]
      BY <1>2, <3>1 DEF FailCharge
    <3>4. UNCHANGED <<ask, pulls>>
      BY <1>2 DEF FailCharge
    <3>. QED BY <3>1, <3>2, <3>3, <3>4, StatusStep
  <2>. QED BY <2>1, <2>2 DEF Ledger!Next, Ledger!Fail
<1>3. CASE SettleDirect(r)
  <2>1. charge[r].status = "pending" /\ pulls[r] # <<>>
    BY <1>3 DEF IInv, StepsAgree, Busy, PulledByStep, SettleDirect, Goto
  <2>2. Ledger!Become(r, "succeeded")
    <3>1. charge \in [Requests -> ChargeRecords] /\ TypeOK
      BY DEF IInv, TypeOK
    <3>2. charge'[r].status = "succeeded"
      BY <1>3, <3>1 DEF SettleDirect, ChargeRecords, NoCharge
    <3>3. \A q \in Requests \ {r} : charge'[q] = charge[q]
      BY <1>3, <3>1 DEF SettleDirect
    <3>4. UNCHANGED <<ask, pulls>>
      BY <1>3 DEF SettleDirect
    <3>. QED BY <3>1, <3>2, <3>3, <3>4, StatusStep
  <2>. QED BY <2>1, <2>2 DEF Ledger!Next, Ledger!Succeed
<1>4. CASE \/ Plan(r) \/ PlanRefused(r) \/ RedeemFails(r) \/ Stamp(r)
           \/ DirectWriteThrows(r) \/ OpenBridge(r) \/ ExecutionDies(r)
  BY <1>4, QuietStep DEF Plan, PlanRefused, RedeemFails, Stamp, DirectWriteThrows,
                         OpenBridge, ExecutionDies
<1>. QED BY <1>1, <1>2, <1>3, <1>4 DEF ExecutionStep

LEMMA RequestRefines ==
    ASSUME IInv, NEW r \in Requests, RequestStep(r)
    PROVE  [Ledger!Next]_(Ledger!ledgerVars)
<1>. USE DEF client, onChain, bridge, hist
<1>1. CASE Reserve(r)
  <2>1. charge[r].status = "none"
    BY <1>1 DEF IInv, StepsAgree, Early, NoCharge, Reserve, Goto
  <2>2. Ledger!Become(r, "pending")
    <3>1. charge \in [Requests -> ChargeRecords] /\ TypeOK
      BY DEF IInv, TypeOK
    <3>2. charge'[r].status = "pending"
      BY <1>1, <3>1 DEF Reserve, ChargeRecords, NoCharge
    <3>3. \A q \in Requests \ {r} : charge'[q] = charge[q]
      BY <1>1, <3>1 DEF Reserve
    <3>4. UNCHANGED <<ask, pulls>>
      BY <1>1 DEF Reserve
    <3>. QED BY <3>1, <3>2, <3>3, <3>4, StatusStep
  <2>. QED BY <2>1, <2>2 DEF Ledger!Next, Ledger!Promise
<1>2. CASE \/ ClaimKey(r) \/ KeyTaken(r) \/ RefuseReserve(r)
           \/ ReleaseKey(r) \/ CompleteKey(r) \/ KeyWriteThrows(r)
  BY <1>2, QuietStep DEF ClaimKey, KeyTaken, RefuseReserve, ReleaseKey, CompleteKey,
                         KeyWriteThrows
<1>. QED BY <1>1, <1>2 DEF RequestStep

\* A second driver that settles a settled charge again changes nothing of it.
LEMMA DriveRefines ==
    ASSUME IInv, NEW d \in Drivers, NEW r \in Requests, DriveStep(d, r)
    PROVE  [Ledger!Next]_(Ledger!ledgerVars)
<1>. USE DEF client, onChain, bridge, hist
<1>1. CASE MintAndSettle(d, r)
  <2>1. charge[r].status \in {"pending", "succeeded"} /\ pulls[r] # <<>>
    BY <1>1 DEF IInv, RowsBacked, MintAndSettle, Knows
  <2>2. Ledger!Become(r, "succeeded")
    <3>1. charge \in [Requests -> ChargeRecords] /\ TypeOK
      BY DEF IInv, TypeOK
    <3>2. charge'[r].status = "succeeded"
      BY <1>1, <3>1 DEF MintAndSettle, ChargeRecords, NoCharge
    <3>3. \A q \in Requests \ {r} : charge'[q] = charge[q]
      BY <1>1, <3>1 DEF MintAndSettle
    <3>4. UNCHANGED <<ask, pulls>>
      BY <1>1 DEF MintAndSettle
    <3>. QED BY <3>1, <3>2, <3>3, <3>4, StatusStep
  <2>3. CASE charge[r].status = "pending"
    BY <2>1, <2>2, <2>3 DEF Ledger!Next, Ledger!Succeed
  <2>4. CASE charge[r].status = "succeeded"
    BY <2>2, <2>4 DEF Ledger!Become, Ledger!ledgerVars
  <2>. QED BY <2>1, <2>3, <2>4
<1>2. CASE Burn(d, r) \/ BurnSeenAsFailed(d, r) \/ RecordBurn(d, r) \/ Stall(d, r)
  BY <1>2, QuietStep DEF Burn, BurnSeenAsFailed, BurnLands, RecordBurn, Stall
<1>. QED BY <1>1, <1>2 DEF DriveStep

LEMMA StepRefines == IInv /\ [Next]_vars => [Ledger!Next]_(Ledger!ledgerVars)
<1>. SUFFICES ASSUME IInv, [Next]_vars PROVE [Ledger!Next]_(Ledger!ledgerVars)
  OBVIOUS
<1>1. CASE \E r \in Requests : RequestStep(r)
  BY <1>1, RequestRefines
<1>2. CASE \E r \in Requests : ExecutionStep(r)
  BY <1>2, ExecutionRefines
<1>3. CASE \E d \in Drivers, r \in Requests : DriveStep(d, r)
  BY <1>3, DriveRefines
<1>4. CASE (\E p \in Passes : PassStep(p)) \/ Others \/ UNCHANGED vars
  BY <1>4, QuietStep DEF PassStep, ListRows, PassAborts, Others, RevokeMandate,
        ExpireMandate, Disable, RestartApi, RestartBilling, Tick, vars, client, onChain,
        bridge, hist
<1>. QED BY <1>1, <1>2, <1>3, <1>4 DEF Next

\* The charge API implements the ledger: only a charge that was collected succeeds, a key
\* collects once, and an outcome a developer was told never changes.
THEOREM ChargeRefinement == Spec => ImplementsChargeLedger
<1>. QED BY InitRefines, StepRefines, ChargeInductive, PTL
        DEF Spec, ImplementsChargeLedger, Ledger!Spec
==============================================================================
