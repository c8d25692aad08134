--------------------------- MODULE DelegateProofs ---------------------------
(***************************************************************************)
(* Proofs about Delegate, for any number of renewals, single redeems,      *)
(* payers and faults, any kind of account, and any amounts of ETH.         *)
(***************************************************************************)
EXTENDS Delegate, FiniteSetTheorems, SequenceTheorems, TLAPS

-----------------------------------------------------------------------------
(***************************************************************************)
(* The inductive invariant.                                                *)
(***************************************************************************)

\* The pass redeems renewals it has taken off its group; a single redeem, itself.
Own(w) == IF w = Pass THEN Renewals \ group ELSE {w}

Single(S) == \A i, j \in S : i = j

\* The sender of a transaction, if one waits for it, is where it waits for this one;
\* what nobody waits for was given up on unseen.
Awaited(tx, jobs, lost) ==
    LET j == jobs[tx.by] IN
    IF tx.what = "deposit"
    THEN tx.by # None => j.at = "confirm" /\ ~j.ok
    ELSE /\ tx.what = "direct" => Single(tx.items)
         /\ IF tx.by = None THEN tx.items \subseteq lost
            ELSE j.at = "wait" /\ j.path = tx.what /\ j.items = tx.items

PoolHolds ==
    /\ \A k \in DOMAIN pool : Awaited(pool[k], worker, blind)
    /\ \A k, l \in DOMAIN pool : pool[k].by = pool[l].by => pool[k].by = None \/ k = l

\* What is being redeemed has not moved, unless in a transaction given up on, until
\* its receipt is there; and then the receipt tells it.
JobHolds(w) ==
    LET j == worker[w] IN
    /\ j.items \subseteq Own(w)
    /\ j.path = "direct" => Single(j.items)
    /\ j.at = "read" => ~j.ok
    /\ j.at # "mined" => j.items \cap moved \subseteq blind
    /\ j.at = "mined" =>
          /\ Reported(j) \subseteq j.items
          /\ j.items \cap moved \subseteq Reported(j) \cup blind
          /\ strayed \/ Reported(j) \subseteq moved

WorkersHold == \A w \in Workers : worker[w] \in Jobs => JobHolds(w)

\* What may still be begun is not taken for pulled.
UnbegunHolds ==
    /\ group \subseteq Renewals \ pulled
    /\ \A o \in Others : worker[o] = Idle => o \notin pulled

IInv == TypeOK /\ PoolHolds /\ WorkersHold /\ UnbegunHolds /\ BooksMatchChain

-----------------------------------------------------------------------------
(***************************************************************************)
(* Jobs.                                                                   *)
(***************************************************************************)

\* A worker that is neither idle nor over has a job.
LEMMA Busy ==
  ASSUME TypeOK, NEW w \in Workers, worker[w].at \notin {"idle", "over"}
  PROVE  worker[w] \in Jobs
<1>1. worker[w] \in {Idle, Over} \cup Jobs
  BY DEF TypeOK
<1>2. Idle.at = "idle" /\ Over.at = "over"
  BY DEF Idle, Over
<1> QED BY <1>1, <1>2

\* An idle worker, and one whose redeem is over, are those.
LEMMA NotBusy ==
  ASSUME TypeOK, NEW w \in Workers
  PROVE  /\ At(w, "idle") => worker[w] = Idle
         /\ worker[w] \in Jobs => worker[w].at \notin {"idle", "over"}
         /\ worker[w] \notin Jobs => worker[w] \in {Idle, Over}
<1>1. worker[w] \in {Idle, Over} \cup Jobs
  BY DEF TypeOK
<1>2. Idle.at = "idle" /\ Over.at = "over"
  BY DEF Idle, Over
<1>3. worker[w] \in Jobs => worker[w].at \notin {"idle", "over"}
  BY DEF Jobs
<1> QED BY <1>1, <1>2, <1>3 DEF At

\* The fields of a job.
LEMMA JobFields ==
  ASSUME NEW j \in Jobs
  PROVE  /\ j.at \in {"read", "confirm", "nonce", "send", "wait", "mined"}
         /\ j.path \in Paths /\ j.items \subseteq Items
         /\ j.fresh \in BOOLEAN /\ j.auth \in BOOLEAN /\ j.ok \in BOOLEAN
         /\ j.done \subseteq Items
BY DEF Jobs

-----------------------------------------------------------------------------
(***************************************************************************)
(* What a step leaves alone.                                               *)
(***************************************************************************)

\* Of v's job at most that something was read before it went stale.
Alike(v) ==
    \/ worker'[v] = worker[v]
    \/ worker[v] \in Jobs /\ worker'[v] = [worker[v] EXCEPT !.fresh = FALSE]

LEMMA AlikeFields ==
  ASSUME TypeOK, NEW v \in Workers, Alike(v)
  PROVE  /\ worker'[v] \in {Idle, Over} \cup Jobs
         /\ worker'[v] \in Jobs <=> worker[v] \in Jobs
         /\ worker[v] \notin Jobs => worker'[v] = worker[v]
         /\ worker'[v].at = worker[v].at
         /\ worker[v] \in Jobs =>
               /\ worker'[v].items = worker[v].items
               /\ worker'[v].path = worker[v].path
               /\ worker'[v].ok = worker[v].ok
               /\ worker'[v].done = worker[v].done
<1>1. worker[v] \in {Idle, Over} \cup Jobs
  BY DEF TypeOK
<1>2. CASE worker'[v] = worker[v]
  BY <1>1, <1>2
<1>3. CASE worker[v] \in Jobs /\ worker'[v] = [worker[v] EXCEPT !.fresh = FALSE]
  BY <1>3 DEF Jobs
<1> QED BY <1>2, <1>3 DEF Alike

\* A job that a step leaves alone keeps its promise, unless what it redeems moves.
LEMMA JobKept ==
  ASSUME TypeOK, NEW v \in Workers, Alike(v), worker[v] \in Jobs => JobHolds(v),
         v = Pass => group' \subseteq group,
         blind \subseteq blind', strayed => strayed', moved \subseteq moved',
         worker[v] \in Jobs => worker[v].items \cap (moved' \ moved) \subseteq blind
  PROVE  worker'[v] \in Jobs => JobHolds(v)'
<1> SUFFICES ASSUME worker'[v] \in Jobs PROVE JobHolds(v)'
  OBVIOUS
<1>1. /\ worker[v] \in Jobs
      /\ worker'[v].at = worker[v].at /\ worker'[v].items = worker[v].items
      /\ worker'[v].path = worker[v].path /\ worker'[v].ok = worker[v].ok
      /\ worker'[v].done = worker[v].done
  BY AlikeFields
<1>2. Reported(worker'[v]) = Reported(worker[v])
  BY <1>1 DEF Reported
<1>3. Own(v) \subseteq Own(v)'
  BY DEF Own
<1> QED BY <1>1, <1>2, <1>3 DEF JobHolds

\* The same transaction, but for what it was signed over.
SameTx(ux, tx) ==
    /\ ux.what = tx.what /\ ux.by = tx.by
    /\ tx.what # "deposit" => ux.items = tx.items

LEMMA AwaitedKept ==
  ASSUME TypeOK, NEW tx \in Txs, NEW ux, SameTx(ux, tx), Awaited(tx, worker, blind),
         blind \subseteq blind', tx.by # None => Alike(tx.by)
  PROVE  Awaited(ux, worker', blind')
<1>1. CASE tx.by = None
  BY <1>1 DEF Awaited, SameTx
<1>2. CASE tx.by # None
  <2>1. tx.by \in Workers
    BY <1>2 DEF Txs
  <2>2. worker[tx.by].at \notin {"idle", "over"}
    BY <1>2 DEF Awaited, At
  <2>3. worker[tx.by] \in Jobs
    BY <2>1, <2>2, Busy
  <2>4. /\ worker'[tx.by].at = worker[tx.by].at
        /\ worker'[tx.by].items = worker[tx.by].items
        /\ worker'[tx.by].path = worker[tx.by].path /\ worker'[tx.by].ok = worker[tx.by].ok
    BY <1>2, <2>1, <2>3, AlikeFields
  <2> QED BY <1>2, <2>4 DEF Awaited, SameTx, At, On
<1> QED BY <1>1, <1>2

LEMMA PoolFields ==
  ASSUME TypeOK
  PROVE  /\ Len(pool) \in Nat /\ DOMAIN pool = 1..Len(pool)
         /\ \A k \in DOMAIN pool : /\ pool[k] \in Txs
                                   /\ pool[k].by \in Workers \cup {None}
<1>1. /\ Len(pool) \in Nat /\ DOMAIN pool = 1..Len(pool)
      /\ pool \in [1..Len(pool) -> Txs]
  BY LenProperties DEF TypeOK
<1>2. \A tx \in Txs : tx.by \in Workers \cup {None}
  BY DEF Txs
<1> QED BY <1>1, <1>2

LEMMA PoolSame ==
  ASSUME TypeOK, PoolHolds, pool' = pool, blind \subseteq blind',
         \A k \in DOMAIN pool : pool[k].by # None => Alike(pool[k].by)
  PROVE  PoolHolds'
<1>1. ASSUME NEW k \in DOMAIN pool PROVE Awaited(pool'[k], worker', blind')
  <2>1. pool[k] \in Txs /\ Awaited(pool[k], worker, blind) /\ SameTx(pool[k], pool[k])
    BY PoolFields DEF PoolHolds, SameTx
  <2>2. \A ux : SameTx(ux, pool[k]) => Awaited(ux, worker', blind')
    BY <2>1, AwaitedKept
  <2> QED BY <2>1, <2>2
<1> QED BY <1>1 DEF PoolHolds

\* Whoever is not waiting has no transaction in the pool.
LEMMA NotWaiting ==
  ASSUME TypeOK, PoolHolds, NEW w \in Workers,
         ~At(w, "wait"), ~(At(w, "confirm") /\ ~worker[w].ok)
  PROVE  \A k \in DOMAIN pool : pool[k].by # w
<1>1. w # None
  BY ItemsAssumption
<1> QED BY <1>1 DEF PoolHolds, Awaited, At

\* A transaction is given up on.
LEMMA PoolForgets ==
  ASSUME TypeOK, PoolHolds, NEW w \in Workers, pool' = Forgotten(w),
         \A v \in Workers : v # w => Alike(v),
         blind \subseteq blind', At(w, "wait") => worker[w].items \subseteq blind'
  PROVE  pool' \in Seq(Txs) /\ PoolHolds'
<1>0. w # None
  BY ItemsAssumption
<1>1. /\ Len(pool) \in Nat /\ DOMAIN pool = 1..Len(pool) /\ DOMAIN pool' = DOMAIN pool
      /\ \A k \in DOMAIN pool :
            pool'[k] = IF pool[k].by = w THEN [pool[k] EXCEPT !.by = None] ELSE pool[k]
  BY PoolFields DEF Forgotten
<1>2. ASSUME NEW k \in DOMAIN pool
      PROVE  /\ pool'[k] \in Txs /\ Awaited(pool'[k], worker', blind')
             /\ pool'[k].by = IF pool[k].by = w THEN None ELSE pool[k].by
  <2>0. pool[k] \in Txs /\ Awaited(pool[k], worker, blind) /\ pool[k].by \in Workers \cup {None}
    BY PoolFields DEF PoolHolds
  <2>1. CASE pool[k].by = w
    <3>1. pool'[k] = [pool[k] EXCEPT !.by = None]
      BY <1>1, <2>1
    <3>2. /\ pool'[k] \in Txs /\ pool'[k].by = None /\ pool'[k].what = pool[k].what
          /\ pool[k].what # "deposit" => pool'[k].items = pool[k].items
      BY <2>0, <3>1 DEF Txs, Paths
    <3>3. /\ pool[k].what # "deposit" => pool[k].items \subseteq blind'
          /\ pool[k].what = "direct" => Single(pool[k].items)
      BY <1>0, <2>0, <2>1 DEF Awaited, At
    <3> QED BY <2>1, <3>2, <3>3 DEF Awaited
  <2>2. CASE pool[k].by # w
    <3>1. pool'[k] = pool[k] /\ SameTx(pool[k], pool[k])
      BY <1>1, <2>2 DEF SameTx
    <3>2. \A ux : SameTx(ux, pool[k]) => Awaited(ux, worker', blind')
      BY <2>0, <2>2, AwaitedKept
    <3> QED BY <2>0, <2>2, <3>1, <3>2
  <2> QED BY <2>1, <2>2
<1>3. pool' \in Seq(Txs)
  <2>1. pool' = [k \in 1..Len(pool) |-> pool'[k]]
    BY <1>1 DEF Forgotten
  <2> QED BY <1>1, <1>2, <2>1
<1>4. \A k, l \in DOMAIN pool' : pool'[k].by = pool'[l].by => pool'[k].by = None \/ k = l
  BY <1>0, <1>1, <1>2 DEF PoolHolds
<1> QED BY <1>1, <1>2, <1>3, <1>4 DEF PoolHolds

\* A transaction is sent.
LEMMA PoolGrows ==
  ASSUME TypeOK, PoolHolds, NEW w \in Workers, NEW tx \in Txs, tx.by = w,
         Send(tx), Awaited(tx, worker', blind'), ~At(w, "wait"), ~At(w, "confirm"),
         \A v \in Workers : v # w => Alike(v), UNCHANGED blind
  PROVE  pool' \in Seq(Txs) /\ PoolHolds'
<1>1. /\ Len(pool) \in Nat /\ DOMAIN pool = 1..Len(pool)
      /\ \A k \in DOMAIN pool : pool[k] \in Txs /\ pool[k].by \in Workers \cup {None}
  BY PoolFields
<1>2. /\ pool' \in Seq(Txs) /\ DOMAIN pool' = 1..(Len(pool) + 1)
      /\ pool'[Len(pool) + 1] = tx
      /\ \A k \in 1..Len(pool) : pool'[k] = pool[k]
  <2>1. pool \in Seq(Txs) /\ pool' = Append(pool, tx)
    BY DEF TypeOK, Send
  <2> QED BY <2>1, AppendProperties, LenProperties
<1>3. \A k \in DOMAIN pool : pool[k].by # w
  BY NotWaiting
<1>4. ASSUME NEW k \in DOMAIN pool PROVE Awaited(pool'[k], worker', blind')
  <2>1. pool[k] \in Txs /\ Awaited(pool[k], worker, blind) /\ SameTx(pool[k], pool[k])
    BY PoolFields DEF PoolHolds, SameTx
  <2>2. \A ux : SameTx(ux, pool[k]) => Awaited(ux, worker', blind')
    BY <1>1, <1>3, <2>1, AwaitedKept
  <2>3. pool'[k] = pool[k]
    BY <1>1, <1>2
  <2> QED BY <2>1, <2>2, <2>3
<1>5. \A k \in DOMAIN pool' : Awaited(pool'[k], worker', blind')
  <2> TAKE k \in DOMAIN pool'
  <2>1. CASE k = Len(pool) + 1
    BY <1>2, <2>1
  <2>2. CASE k \in 1..Len(pool)
    BY <1>1, <1>4, <2>2
  <2> QED BY <1>1, <1>2, <2>1, <2>2
<1>6. \A k, l \in DOMAIN pool' : pool'[k].by = pool'[l].by => pool'[k].by = None \/ k = l
  <2> TAKE k, l \in DOMAIN pool'
  <2>1. CASE k \in DOMAIN pool /\ l \in DOMAIN pool
    BY <1>1, <1>2, <2>1 DEF PoolHolds
  <2>2. CASE k = Len(pool) + 1 \/ l = Len(pool) + 1
    BY <1>1, <1>2, <1>3, <2>2
  <2> QED BY <1>1, <1>2, <2>1, <2>2
<1> QED BY <1>2, <1>5, <1>6 DEF PoolHolds

\* A transaction is mined: the pool moves up.
LEMMA PoolMined ==
  ASSUME TypeOK, PoolHolds, pool # <<>>, pool' \in Seq(Txs),
         Len(pool') = Len(pool) - 1,
         \A k \in 1..Len(pool') : SameTx(pool'[k], pool[k + 1]),
         \A v \in Workers : v # First.by => Alike(v), UNCHANGED blind
  PROVE  PoolHolds'
<1>1. /\ Len(pool) \in Nat /\ DOMAIN pool = 1..Len(pool)
      /\ \A k \in DOMAIN pool : pool[k] \in Txs /\ pool[k].by \in Workers \cup {None}
  BY PoolFields
<1>2. Len(pool') \in Nat /\ DOMAIN pool' = 1..Len(pool')
  BY LenProperties
<1>3. ASSUME NEW k \in DOMAIN pool' PROVE Awaited(pool'[k], worker', blind')
  <2>1. k + 1 \in DOMAIN pool /\ 1 \in DOMAIN pool /\ k + 1 # 1
    BY <1>1, <1>2
  <2>2. pool[k + 1].by # None => pool[k + 1].by # First.by
    BY <2>1 DEF PoolHolds, First
  <2>3. /\ pool[k + 1] \in Txs /\ Awaited(pool[k + 1], worker, blind)
        /\ SameTx(pool'[k], pool[k + 1])
        /\ pool[k + 1].by # None => Alike(pool[k + 1].by)
    BY <1>1, <1>2, <2>1, <2>2 DEF PoolHolds
  <2>4. \A ux : SameTx(ux, pool[k + 1]) => Awaited(ux, worker', blind')
    BY <2>3, AwaitedKept
  <2> QED BY <2>3, <2>4
<1>4. \A k, l \in DOMAIN pool' : pool'[k].by = pool'[l].by => pool'[k].by = None \/ k = l
  <2> TAKE k, l \in DOMAIN pool'
  <2>1. k + 1 \in DOMAIN pool /\ l + 1 \in DOMAIN pool
    BY <1>1, <1>2
  <2>2. pool'[k].by = pool[k + 1].by /\ pool'[l].by = pool[l + 1].by
    BY <1>2 DEF SameTx
  <2>3. k + 1 = l + 1 => k = l
    BY <1>2
  <2> QED BY <2>1, <2>2, <2>3 DEF PoolHolds
<1> QED BY <1>3, <1>4 DEF PoolHolds

-----------------------------------------------------------------------------
(***************************************************************************)
(* Steps that move nothing.                                                *)
(***************************************************************************)

\* What is in flight stays so, but for what the worker that steps had.
LEMMA FlightKept ==
  ASSUME TypeOK, NEW w \in Workers, \A v \in Workers : v # w => Alike(v)
  PROVE  \A i \in InFlight :
            i \in InFlight' \/ (worker[w].at \in {"wait", "mined"} /\ i \in worker[w].items)
<1> SUFFICES ASSUME NEW i \in InFlight,
                    ~(worker[w].at \in {"wait", "mined"} /\ i \in worker[w].items)
             PROVE  i \in InFlight'
  OBVIOUS
<1>1. PICK v \in Workers : worker[v].at \in {"wait", "mined"} /\ i \in worker[v].items
  BY DEF InFlight
<1>2. v # w /\ worker[v] \in Jobs
  BY <1>1, Busy
<1>3. worker'[v].at = worker[v].at /\ worker'[v].items = worker[v].items
  BY <1>2, AlikeFields
<1> QED BY <1>1, <1>3 DEF InFlight

\* Nobody works on what another works on.
LEMMA Apart ==
  ASSUME IInv, NEW v \in Workers, NEW w \in Workers, v # w,
         worker[v] \in Jobs, worker[w] \in Jobs
  PROVE  worker[v].items \cap worker[w].items = {}
<1>1. worker[v].items \subseteq Own(v) /\ worker[w].items \subseteq Own(w)
  BY DEF IInv, WorkersHold, JobHolds
<1> QED BY <1>1, ItemsAssumption DEF Own, Workers

\* Nothing happens to the pool, the workers and the books.
LEMMA Still ==
  ASSUME IInv, UNCHANGED <<pool, moved, group, worker, pulled, blind, strayed>>
  PROVE  PoolHolds' /\ WorkersHold' /\ UnbegunHolds' /\ BooksMatchChain'
<1>0. TypeOK /\ \A v \in Workers : Alike(v)
  BY DEF IInv, Alike
<1>1. PoolHolds'
  BY <1>0, PoolSame, PoolFields DEF IInv
<1>2. WorkersHold'
  BY <1>0, JobKept DEF IInv, WorkersHold
<1> QED BY <1>1, <1>2 DEF IInv, UnbegunHolds, BooksMatchChain, InFlight

\* A worker takes its redeem further, on the way to its transaction.
LEMMA Advance ==
  ASSUME IInv, NEW w \in Workers, NEW j \in Jobs, worker[w] \in Jobs,
         worker' = [worker EXCEPT ![w] = j],
         j.at \in {"nonce", "send"}, j.path = worker[w].path, j.items = worker[w].items,
         worker[w].at \notin {"wait", "mined"},
         \/ UNCHANGED pool /\ ~(At(w, "confirm") /\ ~worker[w].ok)
         \/ pool' = Forgotten(w),
         UNCHANGED <<kind, code, deposit, eth, moved, disabled, funds, group, pulled,
                     blind, strayed>>,
         events' \in 0..MaxEvents
  PROVE  IInv'
<1>0. TypeOK /\ PoolHolds /\ JobHolds(w)
  BY DEF IInv, WorkersHold
<1>1. worker'[w] = j /\ \A v \in Workers : v # w => worker'[v] = worker[v]
  BY <1>0 DEF TypeOK
<1>2. \A v \in Workers : v # w => Alike(v)
  BY <1>1 DEF Alike
<1>3. pool' \in Seq(Txs) /\ PoolHolds'
  <2>1. CASE UNCHANGED pool /\ ~(At(w, "confirm") /\ ~worker[w].ok)
    <3>1. \A k \in DOMAIN pool : pool[k].by # None => Alike(pool[k].by)
      BY <1>0, <1>2, <2>1, NotWaiting, PoolFields DEF At
    <3> QED BY <1>0, <2>1, <3>1, PoolSame DEF TypeOK
  <2>2. CASE pool' = Forgotten(w)
    BY <1>0, <1>2, <2>2, PoolForgets DEF At
  <2> QED BY <2>1, <2>2
<1>4. TypeOK'
  BY <1>0, <1>3 DEF TypeOK
<1>5. JobHolds(w)'
  <2>1. j.at # "mined" /\ j.at # "read"
    OBVIOUS
  <2>2. worker[w].at # "mined" /\ Own(w)' = Own(w)
    BY DEF Own
  <2> QED BY <1>0, <1>1, <2>1, <2>2 DEF JobHolds
<1>6. WorkersHold'
  BY <1>0, <1>2, <1>5, JobKept DEF IInv, WorkersHold
<1>7. UnbegunHolds'
  <2>1. j # Idle
    BY DEF Jobs, Idle
  <2> QED BY <1>1, <2>1, ItemsAssumption DEF IInv, UnbegunHolds, Workers
<1>8. BooksMatchChain'
  BY <1>0, <1>2, FlightKept DEF IInv, BooksMatchChain
<1> QED BY <1>3, <1>4, <1>6, <1>7, <1>8 DEF IInv

\* A worker stops: nothing was sent, or its receipt tells what moved, or it gives up on
\* a transaction unseen.
LEMMA Stop ==
  ASSUME IInv, NEW w \in Workers, worker[w] \in Jobs, End(w),
         \/ /\ worker[w].at \in {"read", "nonce", "send"}
            /\ UNCHANGED <<pool, pulled, blind>>
         \/ /\ At(w, "confirm") /\ pool' = Forgotten(w)
            /\ UNCHANGED <<pulled, blind>>
         \/ /\ At(w, "mined") /\ pulled' = pulled \cup Reported(worker[w])
            /\ UNCHANGED <<pool, blind>>
         \/ /\ worker[w].at \in {"wait", "mined"} /\ pool' = Forgotten(w)
            /\ blind' = blind \cup worker[w].items
            /\ UNCHANGED pulled,
         UNCHANGED <<kind, code, deposit, eth, moved, disabled, funds, group, strayed>>,
         events' \in 0..MaxEvents
  PROVE  IInv'
<1>0. TypeOK /\ PoolHolds /\ JobHolds(w)
  BY DEF IInv, WorkersHold
<1>1. worker'[w] = Rest(w) /\ \A v \in Workers : v # w => worker'[v] = worker[v]
  BY <1>0 DEF TypeOK, End
<1>2. /\ \A v \in Workers : v # w => Alike(v)
      /\ Rest(w) \in {Idle, Over} /\ Rest(w) \notin Jobs
  BY <1>1 DEF Alike, Rest, Jobs, Idle, Over
<1>3. worker[w].items \subseteq Items /\ blind \subseteq blind' /\ blind' \subseteq Items
  <2>1. worker[w].items \subseteq Items
    BY JobFields
  <2> QED BY <1>0, <2>1 DEF TypeOK
<1>4. \E R \in SUBSET worker[w].items :
         /\ pulled' = pulled \cup R
         /\ strayed \/ R \subseteq moved
  <2>1. CASE At(w, "mined") /\ pulled' = pulled \cup Reported(worker[w])
    BY <1>0, <2>1 DEF JobHolds, At
  <2>2. CASE UNCHANGED pulled
    <3> WITNESS {} \in SUBSET worker[w].items
    <3> QED BY <2>2
  <2> QED BY <2>1, <2>2
<1>5. pool' \in Seq(Txs) /\ PoolHolds'
  <2>1. CASE UNCHANGED <<pool, blind>> /\ worker[w].at \notin {"wait", "confirm"}
    <3>1. \A k \in DOMAIN pool : pool[k].by # None => Alike(pool[k].by)
      BY <1>0, <1>2, <2>1, NotWaiting, PoolFields DEF At
    <3> QED BY <1>0, <2>1, <3>1, PoolSame DEF TypeOK
  <2>2. CASE pool' = Forgotten(w) /\ (At(w, "wait") => worker[w].items \subseteq blind')
    BY <1>0, <1>2, <1>3, <2>2, PoolForgets
  <2> QED BY <2>1, <2>2 DEF At
<1>6. TypeOK'
  <2>1. worker' \in [Workers -> {Idle, Over} \cup Jobs]
    BY <1>0, <1>1, <1>2 DEF TypeOK, End
  <2>2. pulled' \subseteq Items
    BY <1>0, <1>3, <1>4 DEF TypeOK
  <2> QED BY <1>0, <1>3, <1>5, <2>1, <2>2 DEF TypeOK
<1>7. WorkersHold'
  BY <1>0, <1>1, <1>2, <1>3, JobKept DEF IInv, WorkersHold
<1>8. UnbegunHolds'
  <2>1. worker[w].items \subseteq Own(w)
    BY <1>0 DEF JobHolds
  <2>2. w # Pass => worker'[w] # Idle
    BY <1>1 DEF Rest, Idle, Over
  <2>3. group' \subseteq Renewals \ pulled'
    BY <1>4, <2>1, ItemsAssumption DEF IInv, UnbegunHolds, Own, Workers
  <2>4. \A o \in Others : worker'[o] = Idle => o \notin pulled'
    BY <1>1, <1>4, <2>1, <2>2, ItemsAssumption DEF IInv, UnbegunHolds, Own, Workers
  <2> QED BY <2>3, <2>4 DEF UnbegunHolds
<1>9. BooksMatchChain'
  <2>1. strayed' \/ pulled' \subseteq moved'
    BY <1>4 DEF IInv, BooksMatchChain
  <2>2. ASSUME NEW i \in moved' PROVE i \in pulled' \cup blind' \cup InFlight'
    <3>1. CASE i \in pulled \cup blind
      BY <1>3, <1>4, <3>1
    <3>2. CASE i \in InFlight'
      BY <3>2
    <3>3. CASE worker[w].at \in {"wait", "mined"} /\ i \in worker[w].items
      <4>1. CASE At(w, "mined") /\ pulled' = pulled \cup Reported(worker[w])
        BY <1>0, <1>3, <3>3, <4>1 DEF JobHolds, At
      <4>2. CASE blind' = blind \cup worker[w].items
        BY <3>3, <4>2
      <4> QED BY <3>3, <4>1, <4>2 DEF At
    <3>4. i \in pulled \cup blind \cup InFlight
      BY DEF IInv, BooksMatchChain
    <3> QED BY <1>0, <1>2, <3>1, <3>2, <3>3, <3>4, FlightKept
  <2> QED BY <2>1, <2>2 DEF BooksMatchChain
<1> QED BY <1>5, <1>6, <1>7, <1>8, <1>9 DEF IInv

\* A worker sends its transaction.
LEMMA Sent ==
  ASSUME IInv, NEW w \in Workers, NEW j \in Jobs, NEW tx \in Txs, worker[w] \in Jobs,
         worker[w].at \in {"read", "send"}, worker'[w] = j,
         j.at \in {"confirm", "wait"}, j.path = worker[w].path, j.items = worker[w].items,
         \A v \in Workers : v # w => Alike(v),
         worker' \in [Workers -> {Idle, Over} \cup Jobs],
         tx.by = w, Send(tx), Awaited(tx, worker', blind'), eth' \in 0..Supply,
         UNCHANGED <<kind, code, deposit, moved, disabled, funds, group, pulled, blind,
                     strayed, events>>
  PROVE  IInv'
<1>0. TypeOK /\ PoolHolds /\ JobHolds(w)
  BY DEF IInv, WorkersHold
<1>1. pool' \in Seq(Txs) /\ PoolHolds'
  BY <1>0, PoolGrows DEF At
<1>2. TypeOK'
  BY <1>0, <1>1 DEF TypeOK
<1>3. JobHolds(w)'
  <2>1. worker[w].at # "mined" /\ Own(w)' = Own(w)
    BY DEF Own
  <2>2. j.at # "mined" /\ j.at # "read"
    OBVIOUS
  <2> QED BY <1>0, <2>1, <2>2 DEF JobHolds
<1>4. WorkersHold'
  BY <1>0, <1>3, JobKept DEF IInv, WorkersHold
<1>5. UnbegunHolds'
  <2>1. j # Idle
    BY DEF Jobs, Idle
  <2>2. \A v \in Workers : v # w /\ worker'[v] = Idle => worker[v] = Idle
    <3>1. Idle \notin Jobs
      BY DEF Jobs, Idle
    <3> QED BY <1>0, <3>1, AlikeFields
  <2> QED BY <2>1, <2>2, ItemsAssumption DEF IInv, UnbegunHolds, Workers
<1>6. BooksMatchChain'
  BY <1>0, FlightKept DEF IInv, BooksMatchChain
<1> QED BY <1>1, <1>2, <1>4, <1>5, <1>6 DEF IInv

\* A redeem begins.
LEMMA Begun ==
  ASSUME IInv, NEW w \in Workers, NEW S \in SUBSET Items, worker[w] = Idle, Begin(w, S),
         S \subseteq Own(w)', S \cap pulled = {}, PathOf(S) = "direct" => Single(S),
         \A v \in Workers : v # w /\ worker[v] \in Jobs => worker[v].items \cap S = {},
         group' \subseteq group, w # Pass => UNCHANGED group,
         UNCHANGED <<kind, chain, pulled, blind, strayed, events>>
  PROVE  IInv'
<1> DEFINE j == [at |-> "read", path |-> PathOf(S), items |-> S, fresh |-> FALSE,
                 auth |-> FALSE, ok |-> FALSE, done |-> {}]
<1>0. TypeOK /\ PoolHolds
  BY DEF IInv
<1>1. worker'[w] = j /\ \A v \in Workers : v # w => worker'[v] = worker[v]
  BY <1>0 DEF TypeOK, Begin
<1>2. j \in Jobs
  BY DEF Jobs, PathOf, Paths
<1>3. \A v \in Workers : v # w => Alike(v)
  BY <1>1 DEF Alike
<1>4. PoolHolds'
  <2>1. ~At(w, "wait") /\ ~At(w, "confirm")
    BY DEF At, Idle
  <2>2. \A k \in DOMAIN pool : pool[k].by # None => Alike(pool[k].by)
    BY <1>0, <1>3, <2>1, NotWaiting, PoolFields
  <2> QED BY <1>0, <2>2, PoolSame DEF chain
<1>5. TypeOK'
  BY <1>0, <1>2 DEF TypeOK, chain, Begin
<1>6. JobHolds(w)'
  <2>1. S \cap moved \subseteq blind
    <3> SUFFICES ASSUME NEW i \in S, i \in InFlight PROVE FALSE
      BY DEF IInv, BooksMatchChain
    <3>1. PICK v \in Workers : worker[v].at \in {"wait", "mined"} /\ i \in worker[v].items
      BY DEF InFlight
    <3>2. v # w /\ worker[v] \in Jobs
      BY <1>0, <3>1, Busy DEF Idle
    <3> QED BY <3>1, <3>2
  <2>2. /\ worker'[w].at = "read" /\ worker'[w].path = PathOf(S) /\ worker'[w].items = S
        /\ ~worker'[w].ok
    BY <1>1
  <2> QED BY <2>1, <2>2 DEF JobHolds, chain
<1>7. WorkersHold'
  BY <1>0, <1>3, <1>6, JobKept DEF IInv, WorkersHold, chain
<1>8. UnbegunHolds'
  <2>1. worker'[w] # Idle
    BY <1>1 DEF Idle
  <2> QED BY <1>1, <2>1, ItemsAssumption DEF IInv, UnbegunHolds, Workers
<1>9. BooksMatchChain'
  <2>1. worker[w].at \notin {"wait", "mined"}
    BY DEF Idle
  <2> QED BY <1>0, <1>3, <2>1, FlightKept DEF IInv, BooksMatchChain, chain
<1> QED BY <1>4, <1>5, <1>7, <1>8, <1>9 DEF IInv

-----------------------------------------------------------------------------
(***************************************************************************)
(* A transaction is mined.                                                 *)
(***************************************************************************)

\* What a receipt makes of its sender's job.
LEMMA ReceiptFields ==
  ASSUME TypeOK, NEW tx \in Txs, Awaited(tx, worker, blind), NEW ok \in BOOLEAN,
         NEW done \in SUBSET Items, NEW v \in Workers
  PROVE  /\ Receipt(tx, ok, done)[v] \in {Idle, Over} \cup Jobs
         /\ v # tx.by => Receipt(tx, ok, done)[v] = worker[v]
         /\ v = tx.by =>
               /\ worker[v] \in Jobs /\ Receipt(tx, ok, done)[v] \in Jobs
               /\ Receipt(tx, ok, done)[v].items = worker[v].items
               /\ Receipt(tx, ok, done)[v].path = worker[v].path
         /\ v = tx.by /\ tx.what = "deposit" =>
               worker[v].at = "confirm" /\ Receipt(tx, ok, done)[v].at = "confirm"
         /\ v = tx.by /\ tx.what # "deposit" =>
               /\ worker[v].at = "wait" /\ Receipt(tx, ok, done)[v].at = "mined"
               /\ worker[v].path = tx.what /\ worker[v].items = tx.items
               /\ Receipt(tx, ok, done)[v].ok = ok
               /\ Receipt(tx, ok, done)[v].done = done
<1> DEFINE r == Receipt(tx, ok, done)[v]
<1>1. r = IF v # tx.by THEN worker[v]
          ELSE IF tx.what = "deposit" THEN [worker[v] EXCEPT !.ok = ok]
          ELSE [worker[v] EXCEPT !.at = "mined", !.ok = ok, !.done = done]
  BY DEF Receipt
<1>2. v # None
  BY ItemsAssumption
<1>3. CASE v # tx.by
  BY <1>1, <1>3 DEF TypeOK
<1>4. CASE v = tx.by /\ tx.what = "deposit"
  <2>1. worker[v].at = "confirm"
    BY <1>2, <1>4 DEF Awaited
  <2>2. worker[v] \in Jobs
    BY <2>1, Busy
  <2>3. r = [worker[v] EXCEPT !.ok = ok]
    BY <1>1, <1>4
  <2>4. r \in Jobs /\ r.at = worker[v].at /\ r.items = worker[v].items /\ r.path = worker[v].path
    BY <2>2, <2>3 DEF Jobs
  <2> QED BY <1>4, <2>1, <2>2, <2>4
<1>5. CASE v = tx.by /\ tx.what # "deposit"
  <2>1. worker[v].at = "wait" /\ worker[v].path = tx.what /\ worker[v].items = tx.items
    BY <1>2, <1>5 DEF Awaited
  <2>2. worker[v] \in Jobs
    BY <2>1, Busy
  <2>3. r = [worker[v] EXCEPT !.at = "mined", !.ok = ok, !.done = done]
    BY <1>1, <1>5
  <2>4. /\ r \in Jobs /\ r.at = "mined" /\ r.items = worker[v].items
        /\ r.path = worker[v].path /\ r.ok = ok /\ r.done = done
    BY <2>2, <2>3 DEF Jobs
  <2> QED BY <1>5, <2>1, <2>2, <2>4
<1> QED BY <1>3, <1>4, <1>5

\* What a receipt reports of a transaction.
Reports(tx, ok, done) ==
    IF ~ok \/ tx.what = "deposit" THEN {} ELSE IF tx.what = "ops" THEN done ELSE tx.items

\* The head of the pool is mined, and moves what it reports, or strays.
LEMMA Mined ==
  ASSUME IInv, pool # <<>>, NEW ok \in BOOLEAN, NEW done \in SUBSET Items, NEW M,
         \A v \in Workers : v # First.by => Alike(v),
         \A v \in Workers : v = First.by => worker'[v] = Receipt(First, ok, done)[v],
         pool' \in Seq(Txs), Len(pool') = Len(pool) - 1,
         \A k \in 1..Len(pool') : SameTx(pool'[k], pool[k + 1]),
         moved' = moved \cup M, M \subseteq Reports(First, ok, done),
         First.what = "ops" => done \subseteq First.items,
         strayed' \/ Reports(First, ok, done) \subseteq M,
         strayed => strayed', UNCHANGED <<group, pulled, blind>>
  PROVE  PoolHolds' /\ WorkersHold' /\ UnbegunHolds' /\ BooksMatchChain'
<1> DEFINE R == Reports(First, ok, done)
<1>0. TypeOK /\ PoolHolds /\ First \in Txs /\ Awaited(First, worker, blind)
  <2>1. 1 \in DOMAIN pool
    BY EmptySeq, PoolFields DEF IInv, TypeOK
  <2> QED BY <2>1, PoolFields DEF IInv, PoolHolds, First
<1>1. PoolHolds'
  BY <1>0, PoolMined
<1>2. /\ First.what # "deposit" => R \subseteq First.items
      /\ First.what = "deposit" => R = {}
      /\ M \subseteq R
  BY DEF Reports
<1>3. ASSUME NEW v \in Workers, worker[v] \in Jobs, v # First.by
      PROVE  worker[v].items \cap R \subseteq blind
  <2>1. CASE First.what = "deposit"
    BY <1>2, <2>1
  <2>2. CASE First.what # "deposit" /\ First.by = None
    BY <1>0, <1>2, <2>2 DEF Awaited
  <2>3. CASE First.what # "deposit" /\ First.by # None
    <3>1. First.by \in Workers
      BY <1>0, <2>3 DEF Txs
    <3>2. worker[First.by] \in Jobs /\ worker[First.by].items = First.items
      BY <1>0, <2>3, <3>1, Busy DEF Awaited
    <3> QED BY <1>2, <1>3, <2>3, <3>1, <3>2, Apart
  <2> QED BY <2>1, <2>2, <2>3
<1>4. ASSUME NEW v \in Workers, worker'[v] \in Jobs PROVE JobHolds(v)'
  <2>1. CASE v # First.by
    <3>1. worker[v] \in Jobs /\ Alike(v)
      BY <1>0, <1>4, <2>1, AlikeFields
    <3>2. worker[v].items \cap (moved' \ moved) \subseteq blind
      BY <1>3, <2>1, <3>1
    <3>3. JobHolds(v)
      BY <3>1 DEF IInv, WorkersHold
    <3> QED BY <1>0, <1>4, <2>1, <3>1, <3>2, <3>3, JobKept
  <2>2. CASE v = First.by
    <3>1. /\ worker[v] \in Jobs
          /\ worker'[v].items = worker[v].items /\ worker'[v].path = worker[v].path
      BY <1>0, <2>2, ReceiptFields
    <3>2. JobHolds(v) /\ Own(v)' = Own(v)
      BY <3>1 DEF IInv, WorkersHold, Own
    <3>3. CASE First.what = "deposit"
      <4>1. worker[v].at = "confirm" /\ worker'[v].at = "confirm"
        BY <1>0, <2>2, <3>3, ReceiptFields
      <4>2. moved' = moved
        BY <1>2, <3>3
      <4> QED BY <3>1, <3>2, <4>1, <4>2 DEF JobHolds
    <3>4. CASE First.what # "deposit"
      <4>1. /\ worker[v].at = "wait" /\ worker'[v].at = "mined"
            /\ worker[v].path = First.what /\ worker[v].items = First.items
            /\ worker'[v].ok = ok /\ worker'[v].done = done
        BY <1>0, <2>2, <3>4, ReceiptFields
      <4>2. Reported(worker'[v]) = R
        BY <3>1, <3>4, <4>1 DEF Reported, Reports
      <4>3. worker[v].items \cap moved \subseteq blind
        BY <3>2, <4>1 DEF JobHolds
      <4>4. strayed' \/ R \subseteq moved'
        OBVIOUS
      <4>5. Reported(worker[v])' = R
        BY <4>2
      <4> HIDE DEF R
      <4> QED BY <1>2, <3>1, <3>2, <3>4, <4>1, <4>3, <4>4, <4>5 DEF JobHolds
    <3> QED BY <3>3, <3>4
  <2> QED BY <2>1, <2>2
<1>5. UnbegunHolds'
  <2>1. \A v \in Workers : worker'[v] = Idle => worker[v] = Idle
    <3>1. Idle \notin Jobs
      BY DEF Jobs, Idle
    <3> QED BY <1>0, <3>1, AlikeFields, ReceiptFields
  <2> QED BY <2>1 DEF IInv, UnbegunHolds, Workers
<1>6. BooksMatchChain'
  <2>1. strayed' \/ pulled' \subseteq moved'
    BY DEF IInv, BooksMatchChain
  <2>2. ASSUME NEW i \in InFlight PROVE i \in InFlight'
    <3>1. PICK v \in Workers : worker[v].at \in {"wait", "mined"} /\ i \in worker[v].items
      BY DEF InFlight
    <3>2. worker[v] \in Jobs
      BY <1>0, <3>1, Busy
    <3>3. worker'[v].at \in {"wait", "mined"} /\ worker'[v].items = worker[v].items
      BY <1>0, <3>1, <3>2, AlikeFields, ReceiptFields
    <3> QED BY <3>1, <3>3 DEF InFlight
  <2>3. ASSUME NEW i \in R PROVE i \in blind' \cup InFlight'
    <3>1. First.what # "deposit" /\ i \in First.items
      BY <1>2, <2>3
    <3>2. CASE First.by = None
      BY <1>0, <3>1, <3>2 DEF Awaited
    <3>3. CASE First.by # None
      <4>1. First.by \in Workers
        BY <1>0, <3>3 DEF Txs
      <4>2. /\ worker'[First.by].at = "mined" /\ worker'[First.by].items = First.items
        BY <1>0, <3>1, <4>1, ReceiptFields
      <4> QED BY <3>1, <4>1, <4>2 DEF InFlight
    <3> QED BY <3>2, <3>3
  <2>4. moved \subseteq pulled \cup blind \cup InFlight
    BY DEF IInv, BooksMatchChain
  <2> HIDE DEF R
  <2>5. moved' \subseteq pulled' \cup blind' \cup InFlight'
    BY <1>2, <2>2, <2>3, <2>4
  <2> QED BY <2>1, <2>5 DEF BooksMatchChain
<1>7. WorkersHold'
  BY <1>4 DEF WorkersHold
<1> QED BY <1>1, <1>5, <1>6, <1>7

\* The head of the pool, and what is left of it.
LEMMA HeadOfPool ==
  ASSUME IInv, pool # <<>>
  PROVE  /\ First \in Txs /\ Awaited(First, worker, blind)
         /\ Tail(pool) \in Seq(Txs) /\ Len(Tail(pool)) = Len(pool) - 1
         /\ DOMAIN Tail(pool) = 1..Len(Tail(pool)) /\ Len(Tail(pool)) \in Nat
         /\ \A k \in 1..Len(Tail(pool)) : Tail(pool)[k] \in Txs /\ Tail(pool)[k] = pool[k + 1]
<1>1. pool \in Seq(Txs)
  BY DEF IInv, TypeOK
<1>2. 1 \in DOMAIN pool
  BY <1>1, EmptySeq, PoolFields DEF IInv
<1>3. /\ Tail(pool) \in Seq(Txs) /\ Len(Tail(pool)) = Len(pool) - 1
      /\ \A k \in 1..Len(Tail(pool)) : Tail(pool)[k] = pool[k + 1]
  BY <1>1, HeadTailProperties
<1>4. /\ Len(Tail(pool)) \in Nat /\ DOMAIN Tail(pool) = 1..Len(Tail(pool))
      /\ \A k \in 1..Len(Tail(pool)) : Tail(pool)[k] \in Txs
  BY <1>3, LenProperties, ElementOfSeq
<1> QED BY <1>2, <1>3, <1>4, PoolFields DEF IInv, PoolHolds, First

\* The workers once the head of the pool has its receipt.
LEMMA Received ==
  ASSUME IInv, pool # <<>>, NEW ok \in BOOLEAN, NEW done \in SUBSET Items,
         worker' = Receipt(First, ok, done)
  PROVE  /\ worker' \in [Workers -> {Idle, Over} \cup Jobs]
         /\ \A v \in Workers : v # First.by => Alike(v)
         /\ \A v \in Workers : v = First.by => worker'[v] = Receipt(First, ok, done)[v]
<1>1. TypeOK /\ First \in Txs /\ Awaited(First, worker, blind)
  BY HeadOfPool DEF IInv
<1>2. \A v \in Workers : /\ worker'[v] \in {Idle, Over} \cup Jobs
                         /\ v # First.by => worker'[v] = worker[v]
  BY <1>1, ReceiptFields
<1>3. worker' \in [Workers -> {Idle, Over} \cup Jobs]
  BY <1>2 DEF Receipt
<1> QED BY <1>2, <1>3 DEF Alike

-----------------------------------------------------------------------------
(***************************************************************************)
(* The payers' money.                                                      *)
(***************************************************************************)

LEMMA Counted ==
  ASSUME NEW S \in SUBSET Items, NEW p
  PROVE  IsFiniteSet(S \cap Of(p)) /\ Cardinality(S \cap Of(p)) \in Nat
<1>1. S \cap Of(p) \in SUBSET Items /\ IsFiniteSet(Items)
  BY ItemsAssumption
<1> QED BY <1>1, FS_Subset, FS_CardinalityType

\* What comes of redeeming each for itself is what was asked for, and is paid for.
LEMMA OutcomePaid ==
  ASSUME TypeOK, NEW S \in SUBSET Items, NEW done, Outcome(S, done)
  PROVE  /\ done \subseteq S
         /\ \A p \in Payers : Cardinality(done \cap Of(p)) <= funds[p]
<1>1. done \subseteq S
  BY DEF Outcome
<1>2. ASSUME NEW p \in Payers PROVE Cardinality(done \cap Of(p)) <= funds[p]
  <2> DEFINE g == Cardinality((S \ (moved \cup disabled)) \cap Of(p))
  <2>1. g \in Nat /\ funds[p] \in Nat
    BY Counted DEF TypeOK
  <2>2. Cardinality(done \cap Of(p)) = Lesser(funds[p], g)
    BY DEF Outcome
  <2> HIDE DEF g
  <2> QED BY <2>1, <2>2 DEF Lesser
<1> QED BY <1>1, <1>2

\* A single redeem whose payer holds a period is paid for.
LEMMA SinglePaid ==
  ASSUME TypeOK, NEW S \in SUBSET Items, Single(S), \A i \in S : Redeemable(i)
  PROVE  \A p \in Payers : Cardinality(S \cap Of(p)) <= funds[p]
<1> SUFFICES ASSUME NEW p \in Payers PROVE Cardinality(S \cap Of(p)) <= funds[p]
  OBVIOUS
<1>1. funds[p] \in Nat
  BY DEF TypeOK
<1>2. CASE S \cap Of(p) = {}
  BY <1>1, <1>2, FS_EmptySet
<1>3. CASE S \cap Of(p) # {}
  <2>1. PICK i \in S \cap Of(p) : TRUE
    BY <1>3
  <2>2. S \cap Of(p) = {i}
    BY <2>1 DEF Single
  <2>3. funds[p] > 0
    BY <2>1 DEF Redeemable, Holds, Of
  <2> QED BY <1>1, <2>2, <2>3, FS_Singleton
<1> QED BY <1>2, <1>3

LEMMA MoneyMoves ==
  ASSUME TypeOK, NEW S \in SUBSET Items, Move(S),
         \A p \in Payers : Cardinality(S \cap Of(p)) <= funds[p]
  PROVE  moved' \subseteq Items /\ funds' \in [Payers -> Nat] /\ moved' = moved \cup S
<1>1. ASSUME NEW p \in Payers PROVE funds[p] - Cardinality(S \cap Of(p)) \in Nat
  <2>1. funds[p] \in Nat /\ Cardinality(S \cap Of(p)) \in Nat
    BY Counted DEF TypeOK
  <2> QED BY <2>1
<1>2. moved' = moved \cup S /\ moved \subseteq Items
  BY DEF Move, TypeOK
<1>3. funds' = [p \in Payers |-> funds[p] - Cardinality(S \cap Of(p))]
  BY DEF Move
<1> QED BY <1>1, <1>2, <1>3

-----------------------------------------------------------------------------
(***************************************************************************)
(* The invariant is inductive.                                             *)
(***************************************************************************)

LEMMA InitIInv == Init => IInv
<1> SUFFICES ASSUME Init PROVE IInv
  OBVIOUS
<1>1. pool \in Seq(Txs) /\ DOMAIN pool = {}
  <2>1. pool = <<>>
    BY DEF Init
  <2> QED BY <2>1, EmptySeq, LenProperties
<1>2. \A w \in Workers : worker[w] = Idle
  BY DEF Init
<1>3. TypeOK
  <2>1. /\ kind \in {"eoa", "msca", "7702"} /\ code \in {"none", "ours", "foreign"}
        /\ deposit \in Nat /\ eth \in 0..Supply /\ events \in 0..MaxEvents
    BY AmountsAssumption, BoundAssumption DEF Init
  <2>2. /\ moved \subseteq Items /\ disabled \subseteq Items /\ group \subseteq Renewals
        /\ pulled \subseteq Items /\ blind \subseteq Items /\ strayed \in BOOLEAN
    BY DEF Init
  <2>3. /\ funds \in [Payers -> Nat]
        /\ worker \in [Workers -> {Idle, Over} \cup Jobs]
    BY DEF Init
  <2> QED BY <1>1, <2>1, <2>2, <2>3 DEF TypeOK
<1>4. PoolHolds
  BY <1>1 DEF PoolHolds
<1>5. WorkersHold
  BY <1>2 DEF WorkersHold, Jobs, Idle
<1>6. UnbegunHolds /\ BooksMatchChain
  BY DEF Init, UnbegunHolds, BooksMatchChain
<1> QED BY <1>3, <1>4, <1>5, <1>6 DEF IInv

\* The pass prepares its group while it redeems nothing.
LEMMA StepPrepare == IInv /\ Prepare => IInv'
<1> SUFFICES ASSUME IInv, Prepare PROVE IInv'
  OBVIOUS
<1>0. TypeOK /\ worker[Pass] = Idle /\ Idle \notin Jobs
  BY NotBusy DEF IInv, Prepare, Workers, Jobs, Idle
<1>1. UNCHANGED <<kind, chain, worker, pulled, blind, strayed, events>>
  BY DEF Prepare
<1>2. \A v \in Workers : Alike(v)
  BY <1>1 DEF Alike
<1>3. PoolHolds'
  BY <1>0, <1>1, <1>2, PoolSame, PoolFields DEF IInv, chain
<1>4. group' \subseteq Renewals \ pulled
  BY DEF Prepare
<1>5. TypeOK'
  BY <1>0, <1>1, <1>4 DEF TypeOK, chain
<1>6. ASSUME NEW v \in Workers, worker'[v] \in Jobs PROVE JobHolds(v)'
  <2>1. worker[v] \in Jobs /\ v # Pass
    BY <1>0, <1>1, <1>6
  <2>2. JobHolds(v) /\ Own(v)' = Own(v)
    BY <2>1 DEF IInv, WorkersHold, Own
  <2> QED BY <1>1, <2>2 DEF JobHolds, chain
<1>7. UnbegunHolds' /\ BooksMatchChain'
  BY <1>1, <1>4 DEF IInv, UnbegunHolds, BooksMatchChain, InFlight, chain
<1>8. WorkersHold'
  BY <1>6 DEF WorkersHold
<1> QED BY <1>3, <1>5, <1>7, <1>8 DEF IInv

\* An ordinary redeem is of one item.
LEMMA DirectIsSingle ==
  ASSUME TypeOK, NEW S \in SUBSET Items, PathOf(S) = "direct",
         kind = "eoa" => Cardinality(S) = 1
  PROVE  Single(S)
<1>0. IsFiniteSet(S) /\ Cardinality(S) \in Nat
  BY ItemsAssumption, FS_Subset, FS_CardinalityType
<1>1. Cardinality(S) <= 1
  BY <1>0 DEF PathOf, TypeOK
<1>2. CASE Cardinality(S) = 0
  BY <1>0, <1>2, FS_EmptySet DEF Single
<1>3. CASE Cardinality(S) = 1
  BY <1>0, <1>3, FS_Singleton DEF Single
<1> QED BY <1>0, <1>1, <1>2, <1>3

LEMMA StepRedeemPrepared == IInv /\ RedeemPrepared => IInv'
<1> SUFFICES ASSUME IInv, RedeemPrepared PROVE IInv'
  OBVIOUS
<1>0. TypeOK /\ worker[Pass] = Idle /\ Pass \in Workers
  BY NotBusy DEF IInv, RedeemPrepared, Workers
<1>1. PICK S \in SUBSET group \ {{}} :
         /\ IF kind = "eoa" THEN Cardinality(S) = 1 ELSE S = group
         /\ Begin(Pass, S)
         /\ group' = group \ S
  BY DEF RedeemPrepared
<1>2. group \subseteq Renewals \ pulled /\ S \subseteq group /\ S \in SUBSET Items
  BY DEF IInv, UnbegunHolds, Items
<1>3. S \subseteq Own(Pass)' /\ S \cap pulled = {}
  BY <1>1, <1>2 DEF Own
<1>4. PathOf(S) = "direct" => Single(S)
  BY <1>0, <1>1, <1>2, DirectIsSingle
<1>5. ASSUME NEW v \in Workers, v # Pass, worker[v] \in Jobs
      PROVE  worker[v].items \cap S = {}
  <2>1. worker[v].items \subseteq {v} /\ v \in Others
    BY <1>5 DEF IInv, WorkersHold, JobHolds, Own, Workers
  <2> QED BY <1>2, <2>1, ItemsAssumption
<1>6. UNCHANGED <<kind, chain, pulled, blind, strayed, events>> /\ group' \subseteq group
  BY <1>1 DEF RedeemPrepared
<1> QED BY <1>0, <1>1, <1>2, <1>3, <1>4, <1>5, <1>6, Begun

LEMMA StepRedeemCalls ==
  ASSUME IInv, NEW o \in Others, RedeemCalls(o)
  PROVE  IInv'
<1>0. TypeOK /\ o \in Workers /\ o # Pass /\ {o} \in SUBSET Items
  BY ItemsAssumption DEF IInv, Workers, Items
<1>1. /\ worker[o] = Idle /\ Begin(o, {o})
      /\ UNCHANGED <<kind, chain, group, pulled, blind, strayed, events>>
  BY <1>0, NotBusy DEF RedeemCalls
<1>2. {o} \subseteq Own(o)' /\ {o} \cap pulled = {} /\ Single({o})
  BY <1>0, <1>1 DEF Own, IInv, UnbegunHolds, Single
<1>3. ASSUME NEW v \in Workers, v # o, worker[v] \in Jobs
      PROVE  worker[v].items \cap {o} = {}
  <2>1. worker[v].items \subseteq Own(v)
    BY <1>3 DEF IInv, WorkersHold, JobHolds
  <2> QED BY <1>3, <2>1, ItemsAssumption DEF Own
<1> QED BY <1>0, <1>1, <1>2, <1>3, Begun

\* On the way to a transaction.
LEMMA StepAdvance ==
  ASSUME IInv, NEW w \in Workers,
         \/ DepositSuffices(w) \/ ConfirmDeposit(w) \/ ReadNonce(w)
         \/ ReadDelegation(w) \/ Simulate(w)
  PROVE  IInv'
<1>0. TypeOK /\ worker[w].at \in {"read", "confirm", "nonce"}
  BY DEF IInv, DepositSuffices, ConfirmDeposit, ReadNonce, ReadDelegation, Simulate, At
<1>1. worker[w] \in Jobs
  BY <1>0, Busy
<1>2. /\ UNCHANGED <<kind, code, deposit, eth, moved, disabled, funds, group, pulled,
                     blind, strayed, pool, events>>
      /\ At(w, "confirm") => worker[w].ok
  BY DEF DepositSuffices, ConfirmDeposit, ReadNonce, ReadDelegation, Simulate, At, chain
<1>3. events' \in 0..MaxEvents
  BY <1>0, <1>2 DEF TypeOK
<1>4. ASSUME NEW j, worker' = [worker EXCEPT ![w] = j], j \in Jobs, j.at \in {"nonce", "send"},
             j.path = worker[w].path, j.items = worker[w].items
      PROVE  IInv'
  BY <1>0, <1>1, <1>2, <1>3, <1>4, Advance
<1>5. CASE DepositSuffices(w)
  <2> DEFINE j == [worker[w] EXCEPT !.at = "nonce"]
  <2>1. j \in Jobs /\ j.at = "nonce" /\ j.path = worker[w].path /\ j.items = worker[w].items
    BY <1>1 DEF Jobs
  <2>2. worker' = [worker EXCEPT ![w] = j]
    BY <1>5 DEF DepositSuffices, Goto
  <2> HIDE DEF j
  <2> QED BY <1>4, <2>1, <2>2
<1>6. CASE ConfirmDeposit(w)
  <2> DEFINE j == [worker[w] EXCEPT !.at = "nonce", !.ok = FALSE]
  <2>1. j \in Jobs /\ j.at = "nonce" /\ j.path = worker[w].path /\ j.items = worker[w].items
    BY <1>1 DEF Jobs
  <2>2. worker' = [worker EXCEPT ![w] = j]
    BY <1>0, <1>6 DEF ConfirmDeposit, TypeOK
  <2> HIDE DEF j
  <2> QED BY <1>4, <2>1, <2>2
<1>7. CASE ReadNonce(w)
  <2> DEFINE j == [worker[w] EXCEPT !.at = "send", !.fresh = TRUE]
  <2>1. j \in Jobs /\ j.at = "send" /\ j.path = worker[w].path /\ j.items = worker[w].items
    BY <1>1 DEF Jobs
  <2>2. worker' = [worker EXCEPT ![w] = j]
    BY <1>0, <1>7 DEF ReadNonce, TypeOK
  <2> HIDE DEF j
  <2> QED BY <1>4, <2>1, <2>2
<1>8. CASE ReadDelegation(w)
  <2> DEFINE j == [worker[w] EXCEPT !.at = "send", !.fresh = TRUE, !.auth = (code = "none")]
  <2>1. j \in Jobs /\ j.at = "send" /\ j.path = worker[w].path /\ j.items = worker[w].items
    BY <1>1 DEF Jobs
  <2>2. worker' = [worker EXCEPT ![w] = j]
    BY <1>0, <1>8 DEF ReadDelegation, TypeOK
  <2> HIDE DEF j
  <2> QED BY <1>4, <2>1, <2>2
<1>9. CASE Simulate(w)
  <2> DEFINE j == [worker[w] EXCEPT !.at = "send"]
  <2>1. j \in Jobs /\ j.at = "send" /\ j.path = worker[w].path /\ j.items = worker[w].items
    BY <1>1 DEF Jobs
  <2>2. worker' = [worker EXCEPT ![w] = j]
    BY <1>9 DEF Simulate, Goto
  <2> HIDE DEF j
  <2> QED BY <1>4, <2>1, <2>2
<1> QED BY <1>5, <1>6, <1>7, <1>8, <1>9

\* Another of the bounded events.
LEMMA NextEvent ==
  ASSUME TypeOK, Event
  PROVE  events' \in 0..MaxEvents
BY BoundAssumption DEF TypeOK, Event

\* A redeem that ends, for better or worse.
LEMMA StepStop ==
  ASSUME IInv, NEW w \in Workers,
         \/ TopUpRefused(w) \/ ForeignDelegation(w) \/ SimulateReverts(w)
         \/ EstimateReverts(w) \/ NodeThrows(w) \/ Learn(w) \/ ReceiptLost(w)
  PROVE  IInv'
<1>0. TypeOK /\ End(w) /\ events' \in 0..MaxEvents
  BY NextEvent DEF IInv, TypeOK, TopUpRefused, ForeignDelegation, SimulateReverts,
     EstimateReverts, NodeThrows, Learn, ReceiptLost, Throw
<1>1. UNCHANGED <<kind, code, deposit, eth, moved, disabled, funds, group, strayed>>
  BY DEF TopUpRefused, ForeignDelegation, SimulateReverts, EstimateReverts, NodeThrows,
     Learn, ReceiptLost, Throw, chain
<1>2. CASE \/ TopUpRefused(w) \/ ForeignDelegation(w) \/ SimulateReverts(w)
           \/ EstimateReverts(w) \/ NodeThrows(w)
  <2>1. worker[w].at \in {"read", "nonce", "send"} /\ UNCHANGED <<pool, pulled, blind>>
    BY <1>2 DEF TopUpRefused, ForeignDelegation, SimulateReverts, EstimateReverts,
       NodeThrows, Throw, At, chain
  <2>2. worker[w] \in Jobs
    BY <1>0, <2>1, Busy
  <2> QED BY <1>0, <1>1, <2>1, <2>2, Stop
<1>3. CASE Learn(w)
  <2>1. /\ At(w, "mined") /\ pulled' = pulled \cup Reported(worker[w])
        /\ UNCHANGED <<pool, blind>>
    BY <1>3 DEF Learn, chain
  <2>2. worker[w] \in Jobs
    BY <1>0, <2>1, Busy DEF At
  <2> QED BY <1>0, <1>1, <2>1, <2>2, Stop
<1>4. CASE ReceiptLost(w)
  <2>1. /\ worker[w].at \in {"wait", "mined"} /\ pool' = Forgotten(w)
        /\ blind' = blind \cup worker[w].items /\ UNCHANGED pulled
    BY <1>4 DEF ReceiptLost
  <2>2. worker[w] \in Jobs
    BY <1>0, <2>1, Busy
  <2> QED BY <1>0, <1>1, <2>1, <2>2, Stop
<1> QED BY <1>2, <1>3, <1>4

\* The balance decides about a top-up whose receipt does not come.
LEMMA StepPollDeposit ==
  ASSUME IInv, NEW w \in Workers, PollDeposit(w)
  PROVE  IInv'
<1>0. /\ TypeOK /\ At(w, "confirm") /\ pool' = Forgotten(w) /\ events' \in 0..MaxEvents
      /\ UNCHANGED <<kind, code, deposit, eth, moved, disabled, funds, group, pulled,
                     blind, strayed>>
  BY NextEvent DEF IInv, PollDeposit
<1>1. worker[w] \in Jobs
  BY <1>0, Busy DEF At
<1>2. CASE deposit >= Required(worker[w].items)
  <2> DEFINE j == [worker[w] EXCEPT !.at = "nonce", !.ok = FALSE]
  <2>1. j \in Jobs /\ j.at = "nonce" /\ j.path = worker[w].path /\ j.items = worker[w].items
    BY <1>1 DEF Jobs
  <2>2. worker' = [worker EXCEPT ![w] = j]
    BY <1>2 DEF PollDeposit
  <2> HIDE DEF j
  <2> QED BY <1>0, <1>1, <2>1, <2>2, Advance DEF At
<1>3. CASE ~(deposit >= Required(worker[w].items))
  <2>1. End(w)
    BY <1>3 DEF PollDeposit, End
  <2> QED BY <1>0, <1>1, <2>1, Stop
<1> QED BY <1>2, <1>3

\* The deposit is topped up with what there is, and no more.
LEMMA StepTopUp ==
  ASSUME IInv, NEW w \in Workers, TopUp(w)
  PROVE  IInv'
<1> DEFINE need == Required(worker[w].items)
           most == Affordable(eth, Reserve)
           top == TopUpAmount(most, Floor)
           tx == [what |-> "deposit", by |-> w, value |-> top]
           j == [worker[w] EXCEPT !.at = "confirm"]
<1>0. TypeOK /\ At(w, "read")
  BY DEF IInv, TopUp
<1>1. worker[w] \in Jobs
  BY <1>0, Busy DEF At
<1>2. j \in Jobs /\ j.at = "confirm" /\ j.path = worker[w].path
      /\ j.items = worker[w].items /\ ~j.ok
  <2>1. ~worker[w].ok
    BY <1>0, <1>1 DEF IInv, WorkersHold, JobHolds, At
  <2> QED BY <1>1, <2>1 DEF Jobs
<1>3. worker' = [worker EXCEPT ![w] = j]
  BY DEF TopUp, Goto
<1>4. top \in Nat /\ eth - top - Reserve \in 0..Supply
  <2>1. Cardinality(worker[w].items) \in Nat
    BY <1>1, JobFields, ItemsAssumption, FS_Subset, FS_CardinalityType
  <2>2. need \in Nat
    BY <2>1 DEF Required
  <2>3. deposit \in Nat /\ deposit < need /\ most >= need
    BY <1>0 DEF TypeOK, TopUp
  <2>4. eth \in 0..Supply
    BY <1>0 DEF TypeOK
  <2>5. most = eth - Reserve /\ most \in Nat
    BY <2>2, <2>3, <2>4, AmountsAssumption DEF Affordable
  <2>6. top \in Nat /\ top <= most
    BY <2>5, AmountsAssumption DEF TopUpAmount, Lesser
  <2> HIDE DEF need, most, top
  <2> QED BY <2>4, <2>5, <2>6, AmountsAssumption
<1>5. eth' \in 0..Supply /\ Send(tx)
  BY <1>4 DEF TopUp
<1>6. tx \in Txs /\ tx.by = w /\ tx.what = "deposit"
  BY <1>4 DEF Txs
<1>7. worker'[w] = j /\ \A v \in Workers : v # w => worker'[v] = worker[v]
  BY <1>0, <1>3 DEF TypeOK
<1>8. /\ \A v \in Workers : v # w => Alike(v)
      /\ worker' \in [Workers -> {Idle, Over} \cup Jobs]
  BY <1>0, <1>2, <1>3, <1>7 DEF TypeOK, Alike
<1>9. worker[w].at = "read" /\ UNCHANGED <<kind, code, deposit, moved, disabled, funds,
                                          group, pulled, blind, strayed, events>>
  BY <1>0 DEF At, TopUp
<1> HIDE DEF j, tx
<1>10. Awaited(tx, worker', blind')
  BY <1>2, <1>6, <1>7 DEF Awaited
<1> QED BY <1>1, <1>2, <1>5, <1>6, <1>7, <1>8, <1>9, <1>10, Sent

\* The redeem is sent, and what the others signed over goes stale.
LEMMA StepSubmit ==
  ASSUME IInv, NEW w \in Workers, Submit(w)
  PROVE  IInv'
<1> DEFINE j == [worker[w] EXCEPT !.at = "wait"]
           tx == [what |-> worker[w].path, by |-> w, items |-> worker[w].items,
                  fresh |-> worker[w].fresh, auth |-> worker[w].auth]
<1>0. TypeOK /\ At(w, "send")
  BY DEF IInv, Submit
<1>1. worker[w] \in Jobs
  BY <1>0, Busy DEF At
<1>2. /\ j \in Jobs /\ j.at = "wait" /\ j.path = worker[w].path
      /\ j.items = worker[w].items
  BY <1>1 DEF Jobs
<1>3. worker' = [Staled EXCEPT ![w] = j] /\ Send(tx)
  BY DEF Submit
<1>4. /\ tx \in Txs /\ tx.by = w /\ tx.what = worker[w].path
      /\ tx.items = worker[w].items /\ tx.what # "deposit"
  BY <1>1, JobFields DEF Txs, Paths
<1>5. /\ worker'[w] = j
      /\ \A v \in Workers : v # w => worker'[v] = Staled[v]
  BY <1>3 DEF Staled
<1> HIDE DEF j, tx
<1>6. ASSUME NEW v \in Workers, v # w PROVE Alike(v)
  <2>1. At(v, "send") => worker[v] \in Jobs
    BY <1>0, Busy DEF At
  <2>2. Staled[v] = IF At(v, "send") /\ On(v, "batch")
                    THEN [worker[v] EXCEPT !.fresh = FALSE] ELSE worker[v]
    BY DEF Staled
  <2> QED BY <1>5, <1>6, <2>1, <2>2 DEF Alike
<1>7. worker' \in [Workers -> {Idle, Over} \cup Jobs]
  <2>1. \A v \in Workers : worker'[v] \in {Idle, Over} \cup Jobs
    BY <1>0, <1>2, <1>5, <1>6, AlikeFields
  <2>2. worker' = [v \in Workers |-> worker'[v]]
    BY <1>3 DEF Staled
  <2> QED BY <2>1, <2>2
<1>8. Awaited(tx, worker', blind')
  <2>1. worker[w].path = "direct" => Single(worker[w].items)
    BY <1>1 DEF IInv, WorkersHold, JobHolds
  <2>2. w # None
    BY ItemsAssumption
  <2> QED BY <1>2, <1>4, <1>5, <2>1, <2>2 DEF Awaited
<1>9. worker[w].at = "send" /\ eth' \in 0..Supply
      /\ UNCHANGED <<kind, code, deposit, moved, disabled, funds, group, pulled, blind,
                     strayed, events>>
  BY <1>0 DEF At, Submit, TypeOK
<1> QED BY <1>1, <1>2, <1>3, <1>4, <1>5, <1>6, <1>7, <1>8, <1>9, Sent

\* What is mined and moves one transaction up.
LEMMA StepMined ==
  ASSUME IInv, pool # <<>>, NEW ok \in BOOLEAN, NEW done \in SUBSET Items, NEW M,
         worker' = Receipt(First, ok, done), pool' = Tail(pool),
         moved' = moved \cup M, M \subseteq Reports(First, ok, done),
         First.what = "ops" => done \subseteq First.items,
         strayed' \/ Reports(First, ok, done) \subseteq M,
         strayed => strayed', UNCHANGED <<group, pulled, blind>>
  PROVE  /\ PoolHolds' /\ WorkersHold' /\ UnbegunHolds' /\ BooksMatchChain'
         /\ pool' \in Seq(Txs) /\ worker' \in [Workers -> {Idle, Over} \cup Jobs]
<1>1. /\ pool' \in Seq(Txs) /\ Len(pool') = Len(pool) - 1
      /\ \A k \in 1..Len(pool') : SameTx(pool'[k], pool[k + 1])
  BY HeadOfPool DEF SameTx
<1>2. /\ worker' \in [Workers -> {Idle, Over} \cup Jobs]
      /\ \A v \in Workers : v # First.by => Alike(v)
      /\ \A v \in Workers : v = First.by => worker'[v] = Receipt(First, ok, done)[v]
  BY Received
<1> QED BY <1>1, <1>2, Mined

LEMMA StepMineDeposit == IInv /\ MineDeposit => IInv'
<1> SUFFICES ASSUME IInv, MineDeposit PROVE IInv'
  OBVIOUS
<1>0. TypeOK /\ pool # <<>> /\ First.what = "deposit" /\ First \in Txs
  BY HeadOfPool DEF IInv, MineDeposit, Mining
<1>1. /\ worker' = Receipt(First, TRUE, {}) /\ pool' = Tail(pool)
      /\ deposit' = deposit + First.value
      /\ UNCHANGED <<kind, code, eth, moved, disabled, funds, group, pulled, blind,
                     strayed, events>>
  BY DEF MineDeposit
<1>2. Reports(First, TRUE, {}) = {} /\ moved' = moved \cup {}
  BY <1>0, <1>1 DEF Reports
<1>3. /\ PoolHolds' /\ WorkersHold' /\ UnbegunHolds' /\ BooksMatchChain'
      /\ pool' \in Seq(Txs) /\ worker' \in [Workers -> {Idle, Over} \cup Jobs]
  BY <1>0, <1>1, <1>2, StepMined
<1>4. deposit' \in Nat
  <2>1. First.value \in Nat
    BY <1>0 DEF Txs, Paths
  <2> QED BY <1>0, <1>1, <2>1 DEF TypeOK
<1>5. TypeOK'
  BY <1>0, <1>1, <1>3, <1>4 DEF TypeOK
<1> QED BY <1>3, <1>5 DEF IInv

\* The transactions that one status decides, and those that are refused.
LEMMA StepOneStatus ==
  ASSUME IInv, OpsRefused \/ MineBatch \/ BatchStrays \/ MineDirect
  PROVE  IInv'
<1>0. /\ TypeOK /\ pool # <<>> /\ First.what \in Paths /\ First \in Txs
      /\ First.items \in SUBSET Items
  <2>1. pool # <<>> /\ First.what \in Paths
    BY DEF OpsRefused, MineBatch, BatchStrays, MineDirect, Mining, Paths
  <2>2. TypeOK /\ First \in Txs
    BY <2>1, HeadOfPool DEF IInv
  <2> QED BY <2>1, <2>2 DEF Txs, Paths
<1>1. /\ pool' = Tail(pool)
      /\ code' \in {"none", "ours", "foreign"}
      /\ UNCHANGED <<kind, deposit, eth, disabled, group, pulled, blind, events>>
  BY <1>0 DEF OpsRefused, MineBatch, BatchStrays, MineDirect, TypeOK
<1>2. ASSUME NEW ok \in BOOLEAN, NEW done \in SUBSET Items, NEW M \in SUBSET Items,
             worker' = Receipt(First, ok, done), moved' = moved \cup M,
             funds' \in [Payers -> Nat], M \subseteq Reports(First, ok, done),
             First.what = "ops" => done \subseteq First.items,
             strayed' \/ Reports(First, ok, done) \subseteq M,
             strayed => strayed', strayed' \in BOOLEAN
      PROVE  IInv'
  <2>1. /\ PoolHolds' /\ WorkersHold' /\ UnbegunHolds' /\ BooksMatchChain'
        /\ pool' \in Seq(Txs) /\ worker' \in [Workers -> {Idle, Over} \cup Jobs]
    BY <1>0, <1>1, <1>2, StepMined
  <2>2. moved' \subseteq Items
    BY <1>0, <1>2 DEF TypeOK
  <2>3. TypeOK'
    BY <1>0, <1>1, <1>2, <2>1, <2>2 DEF TypeOK
  <2> QED BY <2>1, <2>3 DEF IInv
\* Nothing moves.
<1>3. ASSUME worker' = Receipt(First, FALSE, {}), UNCHANGED <<moved, funds, strayed>>
      PROVE  IInv'
  <2>1. Reports(First, FALSE, {}) = {} /\ moved' = moved \cup {}
    BY <1>3 DEF Reports
  <2>2. funds' \in [Payers -> Nat] /\ strayed' \in BOOLEAN
    BY <1>0, <1>3 DEF TypeOK
  <2> QED BY <1>2, <1>3, <2>1, <2>2
\* All of it moves.
<1>4. ASSUME worker' = Receipt(First, TRUE, First.items), Move(First.items),
             \A p \in Payers : Cardinality(First.items \cap Of(p)) <= funds[p],
             UNCHANGED strayed
      PROVE  IInv'
  <2>1. Reports(First, TRUE, First.items) = First.items
    BY <1>0 DEF Reports, Paths
  <2>2. funds' \in [Payers -> Nat] /\ moved' = moved \cup First.items /\ strayed' \in BOOLEAN
    BY <1>0, <1>4, MoneyMoves DEF TypeOK
  <2> QED BY <1>0, <1>2, <1>4, <2>1, <2>2
<1>5. CASE OpsRefused
  BY <1>3, <1>5 DEF OpsRefused
<1>6. CASE MineBatch
  <2>1. CASE AllMove(First.items)
    <3>1. \A p \in Payers : Cardinality(First.items \cap Of(p)) <= funds[p]
      BY <1>0, <2>1, OutcomePaid DEF AllMove
    <3>2. worker' = Receipt(First, TRUE, First.items) /\ Move(First.items) /\ UNCHANGED strayed
      BY <1>6, <2>1 DEF MineBatch
    <3> QED BY <1>4, <3>1, <3>2
  <2>2. CASE ~AllMove(First.items)
    BY <1>3, <1>6, <2>2 DEF MineBatch
  <2> QED BY <2>1, <2>2
<1>7. CASE BatchStrays
  <2>1. /\ worker' = Receipt(First, TRUE, {}) /\ strayed' = TRUE
        /\ moved' = moved \cup {} /\ funds' = funds
    BY <1>7 DEF BatchStrays
  <2>2. funds' \in [Payers -> Nat]
    BY <1>0, <2>1 DEF TypeOK
  <2>3. strayed' \in BOOLEAN /\ {} \subseteq Reports(First, TRUE, {})
    BY <2>1
  <2>4. /\ strayed' \/ Reports(First, TRUE, {}) \subseteq {}
        /\ strayed => strayed'
        /\ First.what = "ops" => {} \subseteq First.items
    BY <2>1
  <2>5. worker' = Receipt(First, TRUE, {}) /\ moved' = moved \cup {}
    BY <2>1
  <2>6. TRUE \in BOOLEAN /\ {} \in SUBSET Items
    OBVIOUS
  <2> QED BY <1>2, <2>2, <2>3, <2>4, <2>5, <2>6, Zenon
<1>8. CASE MineDirect
  <2>1. CASE \A i \in First.items : Redeemable(i)
    <3>1. Single(First.items)
      BY <1>0, <1>8, HeadOfPool DEF Awaited, MineDirect, Mining
    <3>2. \A p \in Payers : Cardinality(First.items \cap Of(p)) <= funds[p]
      BY <1>0, <2>1, <3>1, SinglePaid
    <3>3. worker' = Receipt(First, TRUE, First.items) /\ Move(First.items) /\ UNCHANGED strayed
      BY <1>8, <2>1 DEF MineDirect
    <3> QED BY <1>4, <3>2, <3>3
  <2>2. CASE ~(\A i \in First.items : Redeemable(i))
    BY <1>3, <1>8, <2>2 DEF MineDirect
  <2> QED BY <2>1, <2>2
<1> QED BY <1>5, <1>6, <1>7, <1>8

\* A handleOps: each operation for itself.
LEMMA StepMineOps == IInv /\ MineOps => IInv'
<1> SUFFICES ASSUME IInv, MineOps PROVE IInv'
  OBVIOUS
<1>0. /\ TypeOK /\ pool # <<>> /\ First.what = "ops" /\ First \in Txs
      /\ Awaited(First, worker, blind) /\ Valid(First)
  BY HeadOfPool DEF IInv, MineOps, Mining
<1>1. First.items \in SUBSET Items
  BY <1>0 DEF Txs, Paths
<1>2. PICK done \in SUBSET First.items, used \in 0..Cardinality(First.items) :
         /\ Outcome(First.items, done)
         /\ Move(done)
         /\ deposit' = deposit - used
         /\ worker' = [v \in Workers |->
                IF At(v, "send") /\ On(v, "ops") THEN [worker[v] EXCEPT !.fresh = FALSE]
                ELSE Receipt(First, TRUE, done)[v]]
  BY DEF MineOps
<1>3. /\ pool' = [k \in DOMAIN Tail(pool) |->
             IF Tail(pool)[k].what = "ops" THEN [Tail(pool)[k] EXCEPT !.fresh = FALSE]
             ELSE Tail(pool)[k]]
      /\ UNCHANGED <<kind, code, eth, disabled, group, pulled, blind, strayed, events>>
  BY DEF MineOps
<1>4. done \in SUBSET Items
  BY <1>1, <1>2
<1>5. ASSUME NEW v \in Workers
      PROVE  /\ worker'[v] \in {Idle, Over} \cup Jobs
             /\ v # First.by => Alike(v)
             /\ v = First.by => worker'[v] = Receipt(First, TRUE, done)[v]
  <2>1. CASE At(v, "send") /\ On(v, "ops")
    <3>1. worker[v] \in Jobs
      BY <1>0, <2>1, Busy DEF At
    <3>2. worker'[v] = [worker[v] EXCEPT !.fresh = FALSE] /\ Alike(v)
      BY <1>2, <2>1, <3>1 DEF Alike
    <3>3. v # First.by
      BY <1>0, <1>4, <2>1, ReceiptFields DEF At
    <3> QED BY <1>0, <3>2, <3>3, AlikeFields
  <2>2. CASE ~(At(v, "send") /\ On(v, "ops"))
    <3>1. worker'[v] = Receipt(First, TRUE, done)[v]
      BY <1>2, <2>2
    <3> QED BY <1>0, <1>4, <3>1, ReceiptFields DEF Alike
  <2> QED BY <2>1, <2>2
<1>6. worker' \in [Workers -> {Idle, Over} \cup Jobs]
  <2>1. worker' = [v \in Workers |-> worker'[v]]
    BY <1>2
  <2> QED BY <1>5, <2>1
<1>7. /\ pool' \in Seq(Txs) /\ Len(pool') = Len(pool) - 1
      /\ \A k \in 1..Len(pool') : SameTx(pool'[k], pool[k + 1])
  <2> DEFINE n == Len(Tail(pool))
  <2>1. /\ n \in Nat /\ n = Len(pool) - 1 /\ DOMAIN Tail(pool) = 1..n
        /\ \A k \in 1..n : Tail(pool)[k] \in Txs /\ Tail(pool)[k] = pool[k + 1]
    BY <1>0, HeadOfPool
  <2>2. ASSUME NEW k \in 1..n PROVE pool'[k] \in Txs /\ SameTx(pool'[k], pool[k + 1])
    <3> DEFINE tx == Tail(pool)[k]
    <3>1. tx \in Txs /\ tx = pool[k + 1]
      BY <2>1
    <3>2. pool'[k] = IF tx.what = "ops" THEN [tx EXCEPT !.fresh = FALSE] ELSE tx
      BY <1>3, <2>1
    <3> HIDE DEF tx
    <3>3. CASE tx.what = "ops"
      <4>1. pool'[k] = [tx EXCEPT !.fresh = FALSE]
        BY <3>2, <3>3
      <4>2. /\ pool'[k] \in Txs /\ pool'[k].what = tx.what /\ pool'[k].by = tx.by
            /\ pool'[k].items = tx.items
        BY <3>1, <3>3, <4>1 DEF Txs
      <4> QED BY <3>1, <4>2 DEF SameTx
    <3>4. CASE tx.what # "ops"
      BY <3>1, <3>2, <3>4 DEF SameTx
    <3> QED BY <3>3, <3>4
  <2>3. pool' = [k \in 1..n |-> pool'[k]]
    BY <1>3, <2>1
  <2> HIDE DEF n
  <2>4. pool' \in Seq(Txs) /\ Len(pool') = n
    BY <2>1, <2>2, <2>3
  <2> QED BY <2>1, <2>2, <2>4
<1>8. /\ done \subseteq First.items
      /\ \A p \in Payers : Cardinality(done \cap Of(p)) <= funds[p]
  BY <1>0, <1>1, <1>2, OutcomePaid
<1>9. moved' \subseteq Items /\ funds' \in [Payers -> Nat] /\ moved' = moved \cup done
  BY <1>0, <1>2, <1>4, <1>8, MoneyMoves
<1>10. deposit' \in Nat
  <2>1. Cardinality(First.items) \in Nat
    BY <1>1, ItemsAssumption, FS_Subset, FS_CardinalityType
  <2>2. deposit \in Nat /\ deposit >= Cardinality(First.items)
    BY <1>0 DEF TypeOK, Valid
  <2> QED BY <1>2, <2>1, <2>2
<1>11. Reports(First, TRUE, done) = done
  BY <1>0 DEF Reports
<1>12. PoolHolds' /\ WorkersHold' /\ UnbegunHolds' /\ BooksMatchChain'
  BY <1>0, <1>3, <1>4, <1>5, <1>7, <1>8, <1>9, <1>11, Mined
<1>13. TypeOK'
  BY <1>0, <1>3, <1>6, <1>7, <1>9, <1>10 DEF TypeOK
<1> QED BY <1>12, <1>13 DEF IInv

\* Payers, the operator, and nothing at all.
LEMMA StepOutside ==
  ASSUME IInv,
         \/ \E i \in Items : DisableGrant(i)
         \/ \E p \in Payers : Spend(p)
         \/ Refuel
         \/ UNCHANGED vars
  PROVE  IInv'
<1>0. TypeOK
  BY DEF IInv
<1>1. UNCHANGED <<kind, code, deposit, pool, moved, group, worker, pulled, blind, strayed>>
  BY DEF DisableGrant, Spend, Refuel, vars, chain
<1>2. disabled' \subseteq Items
  BY <1>0 DEF DisableGrant, Spend, Refuel, vars, chain, TypeOK
<1>3. funds' \in [Payers -> Nat]
  <2>1. CASE \E p \in Payers : Spend(p)
    <3>1. PICK p \in Payers : funds[p] > 0 /\ funds' = [funds EXCEPT ![p] = @ - 1]
      BY <2>1 DEF Spend
    <3>2. funds[p] - 1 \in Nat
      BY <1>0, <3>1 DEF TypeOK
    <3> QED BY <1>0, <3>1, <3>2 DEF TypeOK
  <2>2. CASE UNCHANGED funds
    BY <1>0, <2>2 DEF TypeOK
  <2> QED BY <2>1, <2>2 DEF DisableGrant, Refuel, vars, chain
<1>4. eth' \in 0..Supply
  BY <1>0, AmountsAssumption DEF DisableGrant, Spend, Refuel, vars, chain, TypeOK
<1>5. events' \in 0..MaxEvents
  <2>1. Event \/ UNCHANGED events
    BY DEF DisableGrant, Spend, Refuel, vars
  <2> QED BY <1>0, <2>1, NextEvent DEF TypeOK
<1>6. TypeOK'
  BY <1>0, <1>1, <1>2, <1>3, <1>4, <1>5 DEF TypeOK
<1> QED BY <1>1, <1>6, Still DEF IInv

\* The invariant is inductive.
LEMMA StepIInv == IInv /\ [Next]_vars => IInv'
<1> SUFFICES ASSUME IInv, [Next]_vars PROVE IInv'
  OBVIOUS
<1>1. CASE UNCHANGED vars
  BY <1>1, StepOutside
<1>2. CASE PassStarts \/ \E o \in Others : RedeemCalls(o)
  BY <1>2, StepPrepare, StepRedeemPrepared, StepRedeemCalls DEF PassStarts
<1>3. ASSUME NEW w \in Workers, Step(w) \/ PollDeposit(w) \/ NodeThrows(w) \/ ReceiptLost(w)
      PROVE  IInv'
  BY <1>3, StepAdvance, StepStop, StepPollDeposit, StepTopUp, StepSubmit DEF Step
<1>4. CASE Mine
  BY <1>4, StepMineDeposit, StepOneStatus, StepMineOps DEF Mine
<1>5. CASE \/ \E i \in Items : DisableGrant(i)
           \/ \E p \in Payers : Spend(p)
           \/ Refuel
  BY <1>5, StepOutside
<1> QED BY <1>1, <1>2, <1>3, <1>4, <1>5 DEF Next

-----------------------------------------------------------------------------
(***************************************************************************)
(* What follows.                                                           *)
(***************************************************************************)

\* The inductive invariant of a delegate account: whoever waits for a transaction waits
\* for the items in it, no two wait for the same one, and what a job redeems has not moved
\* before its receipt is there, unless in a transaction given up on.
THEOREM DelegateInductive == Spec => []IInv
<1> QED BY InitIInv, StepIInv, PTL DEF Spec

\* Jobs, transactions, deposits and wallets have the shape the code gives them: no
\* top-up spends ETH the gas payer does not hold, no operation a deposit that is not
\* there, and no redeem money its payer does not have.
THEOREM DelegateTypeCorrect == Spec => []TypeOK
<1>1. IInv => TypeOK
  BY DEF IInv
<1> QED BY <1>1, DelegateInductive, PTL

\* What the engine takes for pulled has moved, and what has moved it takes for pulled,
\* but for a transaction in flight and one given up on unseen: for any batch of
\* successes and failures, and whoever else redeems through the account meanwhile.
THEOREM DelegateBooksMatch == Spec => []BooksMatchChain
<1>1. IInv => BooksMatchChain
  BY DEF IInv
<1> QED BY <1>1, DelegateInductive, PTL
=============================================================================
