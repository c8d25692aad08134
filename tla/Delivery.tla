------------------------------- MODULE Delivery -------------------------------
(***************************************************************************)
(* Webhook delivery: the first attempt, made by whoever fires the event    *)
(* (lib/webhooks/delivery.ts), the retry pass of the billing scheduler     *)
(* (billing/engine.ts), the replay a merchant asks for (routes/webhooks.ts)*)
(* and the endpoints themselves (routes/webhooks.ts, routes/portal.ts).    *)
(*                                                                         *)
(* A job is an event for one endpoint.  Every sender of a job, the first,  *)
(* a pass or a replay, signs with the secret it has read, dials, and writes*)
(* the outcome by id in a later step.  The receiver verifies with the      *)
(* endpoint's secret of the day; it may refuse for reasons of its own.     *)
(*                                                                         *)
(* Abstracted: payloads, event types beyond the set Subscribed, and the    *)
(* lengths of the backoff: a retry time is none, ahead or past.  A URL the *)
(* guard refuses counts as a request that threw.                           *)
(***************************************************************************)
EXTENDS Integers, FiniteSets

CONSTANTS
    Events,       \* occurrences fireWebhook is called for
    Endpoints,    \* ids for WebhookEndpoint rows
    Subscribed,   \* jobs whose endpoint asked for the event's type, in its mode
    Passes,       \* runs of the retry pass that may be under way together
    Take,         \* how many rows a pass reads (100 in the code)
    MaxAttempts,  \* attempts after which a row is left alone (5 in the code)
    None,
    MaxChanges,   \* bound: secrets rolled and endpoints deleted in all
    MaxReplays,   \* bound: replays in all
    MaxFaults     \* bound: failed writes, restarts and answers lost in all

Jobs == Events \X Endpoints

ASSUME SubscribedAssumption == Subscribed \subseteq Jobs
ASSUME LimitsAssumption == Take \in Nat \ {0} /\ MaxAttempts \in Nat \ {0}
ASSUME PassesAssumption == IsFiniteSet(Passes)
ASSUME NoneAssumption == None \notin Jobs
ASSUME BoundsAssumption == MaxChanges \in Nat /\ MaxReplays \in Nat /\ MaxFaults \in Nat

VARIABLES
    faults,       \* how many of MaxFaults have happened
    endpoint,     \* the WebhookEndpoint rows
    row,          \* the WebhookDelivery rows, by event and endpoint
    first,        \* the first deliveries in the process that fired the event
    pass,         \* the retry passes in the billing process
    replay,       \* the replay request in the API process
    replays,      \* how often each job has been replayed
    shared,       \* history: listings of a job another pass still had on its list
    accepted      \* history: how often each endpoint has taken each event

vars == <<faults, endpoint, row, first, pass, replay, replays, shared, accepted>>

Secrets == Nat
Answers == {"ok", "bad", "throw"}

EndpointRecords == [state : {"none", "active", "deleted"}, secret : Secrets]

NoRow == [status |-> "none"]
RowRecords == {NoRow} \cup [status   : {"pending", "delivered", "failed"},
                            attempts : Nat,
                            next     : {"null", "ahead", "past"}]     \* nextRetryAt

\* A job as a pass has read it, with its endpoint's secret.
Item(j, s) == [job |-> j, secret |-> s]
Items == [job : Jobs, secret : Secrets]

Resting == {[at |-> "idle"], [at |-> "over"]}
FirstRecords == Resting \cup [at : {"create", "send"}, secret : Secrets]
                        \cup [at : {"write"}, answer : Answers]

Idle == [at |-> "idle"]
PassRecords == {Idle} \cup [at : {"next"}, todo : SUBSET Items]
                      \cup [at : {"write"}, todo : SUBSET Items, job : Jobs, answer : Answers]
ReplayRecords == {Idle} \cup [at : {"send"}, job : Jobs, secret : Secrets]
                        \cup [at : {"write"}, job : Jobs, answer : Answers]

Fault(n) == faults + n <= MaxFaults /\ faults' = faults + n

Current(j) == endpoint[j[2]].secret

---------------------------------------------------------------------------
(* The merchant. *)

Change == Cardinality({w \in Endpoints : endpoint[w].state = "deleted"})
          + Cardinality({x \in Endpoints \X (1..MaxChanges) : x[2] <= endpoint[x[1]].secret})
             < MaxChanges

Register(w) ==
    /\ endpoint[w].state = "none"
    /\ endpoint' = [endpoint EXCEPT ![w].state = "active"]
    /\ UNCHANGED <<faults, row, first, pass, replay, replays, shared, accepted>>

Delete(w) ==
    /\ endpoint[w].state = "active" /\ Change
    /\ endpoint' = [endpoint EXCEPT ![w].state = "deleted"]
    /\ UNCHANGED <<faults, row, first, pass, replay, replays, shared, accepted>>

Roll(w) ==
    /\ endpoint[w].state = "active" /\ Change
    /\ endpoint' = [endpoint EXCEPT ![w].secret = @ + 1]
    /\ UNCHANGED <<faults, row, first, pass, replay, replays, shared, accepted>>

---------------------------------------------------------------------------
(* A request, and what a sender may see of it.  Only the holder of the     *)
(* current secret is believed.  The endpoint may have taken a request that *)
(* the sender gives up on after ten seconds.                               *)

Dial(j, s, answer) ==
    /\ answer = "ok" => s = Current(j)
    /\ \/ /\ answer = "ok"
          /\ accepted' = [accepted EXCEPT ![j] = @ + 1]
          /\ UNCHANGED faults
       \/ answer # "ok" /\ UNCHANGED <<faults, accepted>>
       \/ /\ answer = "throw" /\ s = Current(j)
          /\ Fault(1)
          /\ accepted' = [accepted EXCEPT ![j] = @ + 1]

\* The update after the answer, and the catch that covers it: of two writes none, the
\* first, or both may fail.  A request that threw goes to the catch at once.
Recorded(j, answer, onAnswer, onThrow) ==
    \/ /\ answer # "throw"
       /\ row' = [row EXCEPT ![j] = onAnswer]
       /\ UNCHANGED faults
    \/ /\ row' = [row EXCEPT ![j] = onThrow]
       /\ IF answer = "throw" THEN UNCHANGED faults ELSE Fault(1)

\* Neither write went through.
Unrecorded(answer) == Fault(IF answer = "throw" THEN 1 ELSE 2) /\ UNCHANGED row

OutcomeOfCharge(answer) == IF answer = "ok" THEN "succeeded" ELSE "failed"
Outcome(answer) == IF answer = "ok" THEN "delivered" ELSE "failed"
Backoff(answer) == IF answer = "ok" THEN "null" ELSE "ahead"

---------------------------------------------------------------------------
(* fireWebhook and deliverToEndpoint. *)

Listening(e) == {w \in Endpoints : <<e, w>> \in Subscribed /\ endpoint[w].state = "active"}

Fire(e) ==
    /\ \A w \in Endpoints : first[<<e, w>>].at = "idle"
    /\ Listening(e) # {}
    /\ first' = [j \in Jobs |-> IF j[1] = e /\ j[2] \in Listening(e)
                                THEN [at |-> "create", secret |-> Current(j)]
                                ELSE first[j]]
    /\ UNCHANGED <<faults, endpoint, row, pass, replay, replays, shared, accepted>>

\* eventId is unique, and fireWebhook draws one for all its endpoints.
Taken(j) == \E w \in Endpoints : row[<<j[1], w>>] # NoRow

NewRow == [status |-> "pending", attempts |-> 0, next |-> "null"]

CreateRow(j) ==
    /\ first[j].at = "create" /\ ~Taken(j)
    /\ row' = [row EXCEPT ![j] = NewRow]
    /\ first' = [first EXCEPT ![j].at = "send"]
    /\ UNCHANGED <<faults, endpoint, pass, replay, replays, shared, accepted>>

\* allSettled keeps the rejection to itself.
CreateFails(j) ==
    /\ first[j].at = "create"
    /\ IF Taken(j) THEN UNCHANGED faults ELSE Fault(1)
    /\ first' = [first EXCEPT ![j] = [at |-> "over"]]
    /\ UNCHANGED <<endpoint, row, pass, replay, replays, shared, accepted>>

FirstSend(j) ==
    /\ first[j].at = "send"
    /\ \E a \in Answers :
          /\ Dial(j, first[j].secret, a)
          /\ first' = [first EXCEPT ![j] = [at |-> "write", answer |-> a]]
    /\ UNCHANGED <<endpoint, row, pass, replay, replays, shared>>

FirstRow(answer) == [status |-> Outcome(answer), attempts |-> 1, next |-> Backoff(answer)]
FirstRowForgets == [FirstRow("throw") EXCEPT !.next = "null"]
FirstRowThrown == FirstRow("throw")

FirstWrite(j) ==
    /\ first[j].at = "write"
    /\ \/ Recorded(j, first[j].answer, FirstRow(first[j].answer), FirstRowThrown)
       \/ Unrecorded(first[j].answer)
    /\ first' = [first EXCEPT ![j] = [at |-> "over"]]
    /\ UNCHANGED <<endpoint, pass, replay, replays, shared, accepted>>

---------------------------------------------------------------------------
(* retryWebhooks.  Nothing keeps two runs of it apart. *)

GetLate(j) ==
    /\ row[j] # NoRow /\ row[j].next = "ahead"
    /\ row' = [row EXCEPT ![j].next = "past"]
    /\ UNCHANGED <<faults, endpoint, first, pass, replay, replays, shared, accepted>>

DueOrPending(j) == /\ row[j] # NoRow /\ row[j].attempts < MaxAttempts
                   /\ \/ row[j].status = "pending"
                      \/ row[j].status = "failed" /\ row[j].next = "past"
Due(j) == /\ row[j] # NoRow
          /\ row[j].status = "failed" /\ row[j].attempts < MaxAttempts /\ row[j].next = "past"

Held(p) == IF pass[p].at = "idle" THEN {}
           ELSE {i.job : i \in pass[p].todo} \cup (IF pass[p].at = "write" THEN {pass[p].job} ELSE {})

\* take: 100, in no order.
Batches == LET D == {j \in Jobs : Due(j)} IN
           {B \in SUBSET D : Cardinality(B) = IF Cardinality(D) < Take THEN Cardinality(D) ELSE Take}

ListDue(p) ==
    /\ pass[p].at = "idle"
    /\ \E B \in Batches \ {{}} :
          /\ pass' = [pass EXCEPT ![p] = [at |-> "next", todo |-> {Item(j, Current(j)) : j \in B}]]
          /\ shared' = [j \in Jobs |-> IF j \in B /\ \E q \in Passes : j \in Held(q)
                                       THEN shared[j] + 1 ELSE shared[j]]
    /\ UNCHANGED <<faults, endpoint, row, first, replay, replays, accepted>>

PassSend(p) ==
    /\ pass[p].at = "next"
    /\ \E i \in pass[p].todo, a \in Answers :
          /\ Dial(i.job, i.secret, a)
          /\ pass' = [pass EXCEPT ![p] = [at |-> "write", todo |-> pass[p].todo \ {i},
                                          job |-> i.job, answer |-> a]]
    /\ UNCHANGED <<endpoint, row, first, replay, replays, shared>>

\* The answer sets the status; the catch leaves it as it finds it.
Retried(j, answer) == [status   |-> Outcome(answer),
                       attempts |-> row[j].attempts + 1,
                       next     |-> Backoff(answer)]
RetryUncounted(j) == [row[j] EXCEPT !.next = "ahead"]
RetryThrown(j) == [row[j] EXCEPT !.attempts = @ + 1, !.next = "ahead"]

Left(p) == IF pass[p].todo = {} THEN Idle ELSE [at |-> "next", todo |-> pass[p].todo]

PassWrite(p) ==
    /\ pass[p].at = "write"
    /\ Recorded(pass[p].job, pass[p].answer,
                Retried(pass[p].job, pass[p].answer), RetryThrown(pass[p].job))
    /\ pass' = [pass EXCEPT ![p] = Left(p)]
    /\ UNCHANGED <<endpoint, first, replay, replays, shared, accepted>>

\* The write in the catch throws out of the loop: the rest of the list is left.
PassThrows(p) ==
    /\ pass[p].at = "write"
    /\ Unrecorded(pass[p].answer)
    /\ pass' = [pass EXCEPT ![p] = Idle]
    /\ UNCHANGED <<endpoint, first, replay, replays, shared, accepted>>

---------------------------------------------------------------------------
(* POST /webhooks/:id/replay/:event_id.  The endpoint may be deleted and the *)
(* row in any state.                                                        *)

Total(f) == Cardinality({x \in Jobs \X (1..MaxReplays) : x[2] <= f[x[1]]})

Replay(j) ==
    /\ replay = Idle /\ row[j] # NoRow /\ Total(replays) < MaxReplays
    /\ replay' = [at |-> "send", job |-> j, secret |-> Current(j)]
    /\ replays' = [replays EXCEPT ![j] = @ + 1]
    /\ UNCHANGED <<faults, endpoint, row, first, pass, shared, accepted>>

ReplaySend ==
    /\ replay.at = "send"
    /\ \E a \in Answers :
          /\ Dial(replay.job, replay.secret, a)
          /\ replay' = [at |-> "write", job |-> replay.job, answer |-> a]
    /\ UNCHANGED <<endpoint, row, first, pass, replays, shared>>

\* nextRetryAt stays as it is.
ReplayWrite ==
    /\ replay.at = "write"
    /\ \/ /\ row' = [row EXCEPT ![replay.job].status = Outcome(replay.answer),
                                ![replay.job].attempts = @ + 1]
          /\ UNCHANGED faults
       \/ Fault(1) /\ UNCHANGED row
    /\ replay' = Idle
    /\ UNCHANGED <<endpoint, first, pass, replays, shared, accepted>>

---------------------------------------------------------------------------
(* A restart forgets the requests under way in the process. *)

RestartApi ==
    /\ replay # Idle \/ \E j \in Jobs : first[j] \notin Resting
    /\ Fault(1)
    /\ replay' = Idle
    /\ first' = [j \in Jobs |-> IF first[j].at = "idle" THEN first[j] ELSE [at |-> "over"]]
    /\ UNCHANGED <<endpoint, row, pass, replays, shared, accepted>>

RestartBilling ==
    /\ \E p \in Passes : pass[p] # Idle
    /\ Fault(1)
    /\ pass' = [p \in Passes |-> Idle]
    /\ UNCHANGED <<endpoint, row, first, replay, replays, shared, accepted>>

---------------------------------------------------------------------------
Init ==
    /\ faults = 0
    /\ endpoint = [w \in Endpoints |-> [state |-> "none", secret |-> 0]]
    /\ row = [j \in Jobs |-> NoRow]
    /\ first = [j \in Jobs |-> Idle]
    /\ pass = [p \in Passes |-> Idle]
    /\ replay = Idle
    /\ replays = [j \in Jobs |-> 0]
    /\ shared = [j \in Jobs |-> 0]
    /\ accepted = [j \in Jobs |-> 0]

Merchant == \E w \in Endpoints : Register(w) \/ Delete(w) \/ Roll(w)
FirstStep(j) == CreateRow(j) \/ CreateFails(j) \/ FirstSend(j) \/ FirstWrite(j)
PassStep(p) == ListDue(p) \/ PassSend(p) \/ PassWrite(p) \/ PassThrows(p)

Next ==
    \/ Merchant
    \/ \E e \in Events : Fire(e)
    \/ \E j \in Jobs : FirstStep(j) \/ GetLate(j) \/ Replay(j)
    \/ \E p \in Passes : PassStep(p)
    \/ ReplaySend \/ ReplayWrite
    \/ RestartApi \/ RestartBilling

Spec == Init /\ [][Next]_vars

\* The cron starts the pass every ten minutes and a request ends within ten seconds;
\* the clock moves.
Fairness ==
    /\ \A j \in Jobs : WF_vars(FirstStep(j)) /\ WF_vars(GetLate(j))
    /\ \A p \in Passes : WF_vars(PassStep(p))
    /\ WF_vars(ReplaySend \/ ReplayWrite)

FairSpec == Spec /\ Fairness

---------------------------------------------------------------------------
(* Type invariant. *)
TypeOK ==
    /\ faults \in 0..MaxFaults
    /\ endpoint \in [Endpoints -> EndpointRecords]
    /\ row \in [Jobs -> RowRecords]
    /\ first \in [Jobs -> FirstRecords]
    /\ pass \in [Passes -> PassRecords]
    /\ replay \in ReplayRecords
    /\ replays \in [Jobs -> Nat]
    /\ shared \in [Jobs -> Nat]
    /\ accepted \in [Jobs -> Nat]

(* The endpoint takes an event more than once only as often as the merchant *)
(* replayed it, as two passes had it on their lists together, or as a       *)
(* write, an answer or a process was lost: a pass never repeats what it     *)
(* knows was delivered.                                                     *)
AcceptedOnce == \A j \in Jobs : accepted[j] <= 1 + replays[j] + shared[j] + faults

Settled(j) == row[j] # NoRow /\ (row[j].status = "delivered" \/ row[j].attempts >= MaxAttempts)

(* Nothing is dropped: a row short of its limit and not delivered is with   *)
(* the sender of its first attempt or has a retry time, unless a fault or a *)
(* replay came between.                                                     *)
NothingDropped ==
    \A j \in Jobs :
        \/ row[j] = NoRow \/ Settled(j)
        \/ row[j].status = "failed" /\ row[j].next # "null"
        \/ row[j].status = "pending" /\ first[j].at \in {"send", "write"}
        \/ faults > 0 \/ replays[j] > 0

(* A failed row with a retry time is retried until it is delivered or its   *)
(* attempts are used up, whatever is rolled, deleted, replayed or restarted *)
(* meanwhile.                                                               *)
FailureIsRetried ==
    \A j \in Jobs :
        (row[j] # NoRow /\ row[j].status = "failed" /\ row[j].next # "null")
        ~> Settled(j)
==============================================================================
