------------------------------- MODULE Checkout -------------------------------
(***************************************************************************)
(* Hosted checkout: the page (web CheckoutShell, GatewaySweepPanel), the   *)
(* requests it makes (routes/delegation.ts, routes/public.ts,              *)
(* routes/gateway.ts), the detached run that collects the first payment and*)
(* records the subscription (lib/checkout/cctp-activate.ts, complete.ts),  *)
(* and the nightly sweep of grants that belong to no subscription          *)
(* (lib/subscriptions/orphan-grants.ts).                                   *)
(*                                                                         *)
(* One payer, with one wallet and one proven address, at one merchant with *)
(* one plan.  A tier is named by its price, and so is the cap of the       *)
(* context signed for it.  Every signature is a new context; the enforcer  *)
(* lets a context be redeemed once (a checkout is shorter than a period).  *)
(* A sweep and its run have one name; so has the subscription they create. *)
(*                                                                         *)
(* Abstracted: the wallet guard and the customer records (one payer); the  *)
(* direct and the bridged settlement are one step, which may throw before  *)
(* and after the money has arrived; receipts and webhooks.                 *)
(***************************************************************************)
EXTENDS Integers, Sequences, FiniteSets

CONSTANTS
    Sessions,     \* checkout sessions
    Tabs,         \* pages the payer has open
    Chains,       \* source chains
    Rows,         \* ids for RenewalDelegation rows
    Sweeps,       \* ids for Sweep rows and the runs that work on them
    Tiers,        \* prices of the plan's tiers
    Trials,       \* those that start with a trial
    None,
    MaxSign,      \* bound: signatures in all
    MaxEvents     \* bound: sessions past their date, forced expiries, cancellations
                  \* and restarts in all

ASSUME NoneAssumption == None \notin Rows \cup Chains \cup Sweeps
ASSUME TiersAssumption == Tiers \subseteq Nat \ {0} /\ Tiers # {} /\ Trials \subseteq Tiers
ASSUME BoundsAssumption == MaxSign \in Nat /\ MaxEvents \in Nat

VARIABLES
    events,       \* how many of MaxEvents have happened
    session,      \* the CheckoutSession rows
    expiring,     \* sessions a POST /expire has read as open
    sweep,        \* the Sweep rows
    row,          \* the RenewalDelegation rows with mode hosted
    signed,       \* the caps of the contexts signed, in order
    spent,        \* on chain: contexts redeemed in this period
    sub,          \* the Subscription rows
    tab,          \* the pages, each with its request in the API process
    run,          \* the detached runs in the API process
    orphan,       \* the orphan sweep in the billing process
    pulled,       \* history: what each run has pulled
    untidy        \* history: a run did not get to retire every prior subscription

vars == <<events, session, expiring, sweep, row, signed, spent, sub, tab, run, orphan,
          pulled, untidy>>

Contexts == 1..MaxSign

SessionRecords == [status : {"open", "complete", "expired"},
                   late   : BOOLEAN,             \* past expiresAt
                   tier   : Tiers,               \* tierId
                   sub    : Sweeps \cup {None}]  \* subscriptionId

NoSweep == [status |-> "none"]
SweepRecords == {NoSweep} \cup [status : {"working", "complete", "failed"}, s : Sessions]

NoRow == [status |-> "none"]
RowRecords == {NoRow} \cup [status : {"active", "revoked"}, s : Sessions, chain : Chains,
                            ctx : Contexts, sub : Sweeps \cup {None}]

NoSub == [status |-> "none"]
SubRecords == {NoSub} \cup [status : {"live", "cancelled"}, tier : Tiers]

TabRecords == [at      : {"pay", "signing", "sent", "found", "enable", "panel", "ask",
                          "create", "wait", "success"},
               s       : Sessions,
               granted : SUBSET Chains,           \* grantedChains
               chain   : Chains \cup {None},
               then    : {"enable", "ask"},       \* who grants: the shell, or the panel
               ctx     : 0..MaxSign,
               found   : Rows \cup {None},
               w       : Sweeps \cup {None}]      \* the sweep it polls

Thrown == [at |-> "thrown"]
Gone == {[at |-> "none"], [at |-> "ended"], [at |-> "dead"], Thrown}
Failing == [at |-> "failing"]
RunRecords == Gone \cup {Failing} \cup
    [at   : {"start", "loaded", "trial", "picked", "refused", "clear", "pulled", "paid",
             "created", "linked", "retire", "closed"},
     tier : Tiers,                                \* of the session as it was read
     ctx  : 0..MaxSign,                           \* of the grant it picked
     due  : SUBSET Sweeps]                        \* what retirePriorActive has listed

Event == events < MaxEvents /\ events' = events + 1

Open(s)    == session[s].status = "open" /\ ~session[s].late
Live(v)    == sub[v].status = "live"
OfSession(s) == {i \in Rows : row[i] # NoRow /\ row[i].s = s}
ActiveOf(s)  == {i \in OfSession(s) : row[i].status = "active"}
Unlinked(s)  == {i \in ActiveOf(s) : row[i].sub = None}

Revoked(I) == row' = [i \in Rows |-> IF i \in I THEN [row[i] EXCEPT !.status = "revoked"]
                                                ELSE row[i]]

\* updateMany where subscriptionId is null, whatever the status of the grant.
Link(s, v) == row' = [i \in Rows |-> IF i \in OfSession(s) /\ row[i].sub = None
                                     THEN [row[i] EXCEPT !.sub = v] ELSE row[i]]

\* granted_chain_ids: this session's grants, or those of any subscription here.
Covered(s, c) ==
    \E i \in Rows :
        /\ row[i].status = "active" /\ row[i].chain = c
        /\ row[i].s = s \/ row[i].sub # None
        /\ signed[row[i].ctx] >= session[s].tier

---------------------------------------------------------------------------
(* The page. *)

Go(t, from, to) == tab[t].at = from /\ tab' = [tab EXCEPT ![t].at = to]

\* The panel closed, a page that knows which chains it has seen granted.
Page(s, G) == [at |-> "pay", s |-> s, granted |-> G, chain |-> None, then |-> "enable",
               ctx |-> 0, found |-> None, w |-> None]

At(t, place) == [Page(tab[t].s, tab[t].granted) EXCEPT !.at = place]

SelectTier(t, k) ==
    /\ tab[t].at = "pay"
    /\ session[tab[t].s].status = "open"
    /\ session' = [session EXCEPT ![tab[t].s].tier = k]
    /\ UNCHANGED <<events, expiring, sweep, row, signed, spent, sub, tab, run, orphan, pulled,
                   untidy>>

\* A chain that is covered is marked as granted; one that is not opens the wallet.
PickChain(t, c) ==
    /\ tab[t].at = "pay"
    /\ LET known == c \in tab[t].granted IN
       tab' = [tab EXCEPT ![t].chain = c,
                          ![t].at = IF known THEN "panel"
                                    ELSE IF Covered(tab[t].s, c) THEN "enable" ELSE "signing",
                          ![t].granted = IF Covered(tab[t].s, c) THEN @ \cup {c} ELSE @]
    /\ UNCHANGED <<events, session, expiring, sweep, row, signed, spent, sub, run, orphan,
                   pulled, untidy>>

Sign(t) ==
    /\ tab[t].at = "signing"
    /\ Len(signed) < MaxSign
    /\ signed' = Append(signed, session[tab[t].s].tier)
    /\ tab' = [tab EXCEPT ![t].at = "sent", ![t].ctx = Len(signed')]
    /\ UNCHANGED <<events, session, expiring, sweep, row, spent, sub, run, orphan, pulled,
                   untidy>>

\* POST /delegation, on a session in any state: a cap below the tier is refused.
FindGrant(t) ==
    LET old == {i \in ActiveOf(tab[t].s) : row[i].chain = tab[t].chain} IN
    /\ tab[t].at = "sent"
    /\ signed[tab[t].ctx] >= session[tab[t].s].tier
    /\ \E i \in IF old = {} THEN {None} ELSE old :
          tab' = [tab EXCEPT ![t].at = "found", ![t].found = i]
    /\ UNCHANGED <<events, session, expiring, sweep, row, signed, spent, sub, run, orphan,
                   pulled, untidy>>

\* By id: a row that was linked or revoked since is active again, its link kept.
SaveGrant(t) ==
    LET u == tab[t]
        new == [status |-> "active", s |-> u.s, chain |-> u.chain, ctx |-> u.ctx,
                sub |-> None] IN
    /\ u.at = "found"
    /\ IF u.found = None
         THEN \E i \in Rows : row[i] = NoRow /\ row' = [row EXCEPT ![i] = new]
         ELSE row' = [row EXCEPT ![u.found] = [new EXCEPT !.sub = row[u.found].sub]]
    /\ tab' = [tab EXCEPT ![t] =
                   IF u.then = "enable"
                     THEN [Page(u.s, u.granted \cup {u.chain}) EXCEPT !.at = "enable",
                                                                      !.chain = u.chain]
                     ELSE At(t, "ask")]
    /\ UNCHANGED <<events, session, expiring, sweep, signed, spent, sub, run, orphan, pulled,
                   untidy>>

\* POST /cross-chain/enable: links what a checkout that is already paid for left behind.
Enable(t) ==
    /\ Go(t, "enable", "panel")
    /\ LET v == session[tab[t].s].sub IN
         IF v = None THEN UNCHANGED row ELSE Link(tab[t].s, v)
    /\ UNCHANGED <<events, session, expiring, sweep, signed, spent, sub, run, orphan, pulled,
                   untidy>>

\* loadPlan, and the panel's own start: it grants only when no chain at all is covered.
PanelPlan(t) ==
    /\ tab[t].at = "panel"
    /\ tab' = [tab EXCEPT ![t].then = "ask",
                          ![t].at = IF \E c \in Chains : Covered(tab[t].s, c)
                                    THEN "ask" ELSE "signing"]
    /\ UNCHANGED <<events, session, expiring, sweep, row, signed, spent, sub, run, orphan,
                   pulled, untidy>>

\* "One non-failed sweep per session."
Standing(s) == {w \in Sweeps : sweep[w] # NoSweep /\ sweep[w].s = s
                               /\ sweep[w].status # "failed"}

\* POST /cross-chain/activate, up to the reads.
Ask(t) ==
    /\ tab[t].at = "ask"
    /\ Open(tab[t].s)
    /\ IF Standing(tab[t].s) = {}
         THEN tab' = [tab EXCEPT ![t] = At(t, "create")]
         ELSE \E w \in Standing(tab[t].s) :
                 tab' = [tab EXCEPT ![t] = [At(t, "wait") EXCEPT !.w = w]]
    /\ UNCHANGED <<events, session, expiring, sweep, row, signed, spent, sub, run, orphan,
                   pulled, untidy>>

\* An id is fresh when nothing remembers it: what a failed sweep leaves is never read again.
Fresh(w) ==
    /\ sweep[w] = NoSweep \/ (sweep[w].status = "failed" /\ run[w].at = "ended")
    /\ sub[w] = NoSub /\ pulled[w] = 0
    /\ \A t \in Tabs : tab[t].w # w

CreateSweep(t, w) ==
    /\ tab[t].at = "create"
    /\ Fresh(w)
    /\ sweep' = [sweep EXCEPT ![w] = [status |-> "working", s |-> tab[t].s]]
    /\ run' = [run EXCEPT ![w] = [at |-> "start", tier |-> session[tab[t].s].tier, ctx |-> 0,
                                  due |-> {}]]
    /\ tab' = [tab EXCEPT ![t].at = "wait", ![t].w = w]
    /\ UNCHANGED <<events, session, expiring, row, signed, spent, sub, orphan, pulled, untidy>>

\* GET /sweep/:id, every three seconds; a page that shows an error has only its way back.
Poll(t) ==
    /\ tab[t].at = "wait"
    /\ sweep[tab[t].w].status # "working"
    /\ tab' = [tab EXCEPT ![t] = At(t, IF sweep[tab[t].w].status = "complete" THEN "success"
                                       ELSE "pay")]
    /\ UNCHANGED <<events, session, expiring, sweep, row, signed, spent, sub, run, orphan,
                   pulled, untidy>>

\* The wallet declines, or a request is refused or fails; the payer closes the panel.
Back(t) ==
    /\ tab[t].at \in {"signing", "sent", "found", "enable", "panel", "ask", "create"}
    /\ tab' = [tab EXCEPT ![t] = At(t, "pay")]
    /\ UNCHANGED <<events, session, expiring, sweep, row, signed, spent, sub, run, orphan,
                   pulled, untidy>>

\* GET /public/checkout/:id: the same link again, or another one.
Visit(t, s) ==
    /\ Open(s)
    /\ tab[t].at \in {"pay", "wait", "success"}
    /\ tab' = [tab EXCEPT ![t] = Page(s, {})]
    /\ UNCHANGED <<events, session, expiring, sweep, row, signed, spent, sub, run, orphan,
                   pulled, untidy>>

\* POST /grant-revoke from the toggle; the shell goes on taking the chain for granted.
RevokeGrant(t, c) ==
    /\ tab[t].at = "pay"
    /\ \E i \in Unlinked(tab[t].s) : row[i].chain = c
    /\ Revoked({i \in Unlinked(tab[t].s) : row[i].chain = c})
    /\ UNCHANGED <<events, session, expiring, sweep, signed, spent, sub, tab, run, orphan,
                   pulled, untidy>>

---------------------------------------------------------------------------
(* The detached run. *)

Step(w, from, to) == run[w].at = from /\ run' = [run EXCEPT ![w].at = to]

End(w, from) == run[w].at = from /\ run' = [run EXCEPT ![w] = [at |-> "ended"]]

S(w) == sweep[w].s

Load(w) ==
    /\ run[w].at = "start"
    /\ run' = [run EXCEPT ![w].at = "loaded", ![w].tier = session[S(w)].tier]
    /\ UNCHANGED <<events, session, expiring, sweep, row, signed, spent, sub, tab, orphan,
                   pulled, untidy>>

\* Variant: the trial is not asked about before the money.
NoTrials == {}

FreeFirst == Trials

\* A grant of the session whose chain holds the amount; a trial needs any, and no money.
PickGrant(w) ==
    /\ run[w].at = "loaded"
    /\ \E i \in ActiveOf(S(w)) :
          run' = [run EXCEPT ![w].ctx = row[i].ctx,
                             ![w].at = IF run[w].tier \in FreeFirst THEN "trial" ELSE "picked"]
    /\ UNCHANGED <<events, session, expiring, sweep, row, signed, spent, sub, tab, orphan,
                   pulled, untidy>>

\* findSameTierSubscription.
CheckTier(w) ==
    /\ Step(w, "picked",
            IF \E v \in Sweeps : Live(v) /\ sub[v].tier = run[w].tier THEN "refused"
                                                                      ELSE "clear")
    /\ UNCHANGED <<events, session, expiring, sweep, row, signed, spent, sub, tab, orphan,
                   pulled, untidy>>

\* revokeSessionGrants.
Refuse(w) ==
    /\ run[w].at = "refused" /\ run' = [run EXCEPT ![w] = Failing]
    /\ Revoked(Unlinked(S(w)))
    /\ UNCHANGED <<events, session, expiring, sweep, signed, spent, sub, tab, orphan, pulled,
                   untidy>>

\* The enforcer's terms.
Redeemable(w) == run[w].ctx \notin spent /\ signed[run[w].ctx] >= run[w].tier

Redeem(w) ==
    /\ run[w].at = "clear"
    /\ Redeemable(w)
    /\ spent' = spent \cup {run[w].ctx}
    /\ pulled' = [pulled EXCEPT ![w] = @ + run[w].tier]
    /\ UNCHANGED <<events, session, expiring, sweep, row, signed, sub, tab, orphan, untidy>>

Pull(w) == Redeem(w) /\ run' = [run EXCEPT ![w].at = "pulled", ![w].ctx = 0]

\* The receipt does not come in time.
PullSeenAsFailed(w) == Redeem(w) /\ run' = [run EXCEPT ![w] = Failing]

\* Stamp, burn, attestation, mint; or nothing more under direct settlement.
Settle(w) ==
    /\ Step(w, "pulled", "paid")
    /\ UNCHANGED <<events, session, expiring, sweep, row, signed, spent, sub, tab, orphan,
                   pulled, untidy>>

\* A trial's sweep is complete before the checkout is.
TrialSweep(w) ==
    /\ run[w].at = "trial" /\ run' = [run EXCEPT ![w].at = "paid", ![w].ctx = 0]
    /\ sweep' = [sweep EXCEPT ![w].status = "complete"]
    /\ UNCHANGED <<events, session, expiring, row, signed, spent, sub, tab, orphan, pulled,
                   untidy>>

\* Variant: the terms are read again when the money has arrived.
TierNow(w) == session[S(w)].tier

TierRead(w) == run[w].tier

\* completeCheckoutSession: a conflict or a duplicate that slipped past is only logged.
CreateSub(w) ==
    /\ Step(w, "paid", "created")
    /\ sub' = [sub EXCEPT ![w] = [status |-> "live", tier |-> TierRead(w)]]
    /\ UNCHANGED <<events, session, expiring, sweep, row, signed, spent, tab, orphan, pulled,
                   untidy>>

LinkGrants(w) ==
    /\ Step(w, "created", "linked")
    /\ Link(S(w), w)
    /\ UNCHANGED <<events, session, expiring, sweep, signed, spent, sub, tab, orphan, pulled,
                   untidy>>

\* Variant: only the subscriptions of this session are listed.
PriorHere(w) == {v \in Sweeps \ {w} : Live(v) /\ S(v) = S(w)}

Prior(w) == {v \in Sweeps \ {w} : Live(v)}

ListPrior(w) ==
    /\ run[w].at = "linked"
    /\ run' = [run EXCEPT ![w].at = "retire", ![w].due = Prior(w)]
    /\ UNCHANGED <<events, session, expiring, sweep, row, signed, spent, sub, tab, orphan,
                   pulled, untidy>>

\* Variant: the word for a grant, written to the subscription.
EndedAsGrant == "revoked"

Ended == "cancelled"

\* revokeSubscription, one transaction.
EndSub(v) ==
    /\ sub' = [sub EXCEPT ![v].status = Ended]
    /\ Revoked({i \in Rows : row[i].status = "active" /\ row[i].sub = v})

Retire(w, v) ==
    /\ run[w].at = "retire" /\ v \in run[w].due
    /\ EndSub(v)
    /\ run' = [run EXCEPT ![w].due = @ \ {v}]
    /\ UNCHANGED <<events, session, expiring, sweep, signed, spent, tab, orphan, pulled,
                   untidy>>

\* Each retire is isolated.
RetireFails(w, v) ==
    /\ run[w].at = "retire" /\ v \in run[w].due
    /\ run' = [run EXCEPT ![w].due = @ \ {v}]
    /\ untidy' = TRUE
    /\ UNCHANGED <<events, session, expiring, sweep, row, signed, spent, sub, tab, orphan,
                   pulled>>

CloseSession(w) ==
    /\ Step(w, "retire", "closed")
    /\ run[w].due = {}
    /\ session' = [session EXCEPT ![S(w)].status = "complete", ![S(w)].sub = w]
    /\ UNCHANGED <<events, expiring, sweep, row, signed, spent, sub, tab, orphan, pulled,
                   untidy>>

\* Variant: the sweep is flipped before the session is stamped.
CompleteFirst(w) ==
    /\ run[w].at = "linked"
    /\ sweep' = [sweep EXCEPT ![w].status = "complete"]
    /\ UNCHANGED <<events, session, expiring, row, signed, spent, sub, tab, run, orphan, pulled,
                   untidy>>

CompleteSweep(w) ==
    /\ End(w, "closed")
    /\ sweep' = [sweep EXCEPT ![w].status = "complete"]
    /\ UNCHANGED <<events, session, expiring, row, signed, spent, sub, tab, orphan, pulled,
                   untidy>>

Unretired(w) == run[w].at \in {"created", "linked", "retire"}

\* The session's read, or a tier that is archived by now: before the try, so nothing catches.
StartThrows(w) ==
    /\ run[w].at = "start" /\ run' = [run EXCEPT ![w] = Thrown]
    /\ UNCHANGED <<events, session, expiring, sweep, row, signed, spent, sub, tab, orphan,
                   pulled, untidy>>

\* No grant, no funds, a chain that refuses, a write that fails: inside the try, one catch.
RunThrows(w) ==
    /\ run[w].at \in {"loaded", "trial", "picked", "refused", "clear", "pulled", "paid",
                      "created", "linked", "retire", "closed"}
    /\ run' = [run EXCEPT ![w] = Failing]
    /\ untidy' = (untidy \/ Unretired(w))
    /\ UNCHANGED <<events, session, expiring, sweep, row, signed, spent, sub, tab, orphan,
                   pulled>>

\* Variant: the catch does not touch the sweep.
FailSilently(w) ==
    /\ End(w, "failing")
    /\ UNCHANGED <<events, session, expiring, sweep, row, signed, spent, sub, tab, orphan,
                   pulled, untidy>>

FailSweep(w) ==
    /\ End(w, "failing")
    /\ sweep' = [sweep EXCEPT ![w].status = "failed"]
    /\ UNCHANGED <<events, session, expiring, row, signed, spent, sub, tab, orphan, pulled,
                   untidy>>

\* The catch's own write throws too: the route logs it, and the sweep stays as it was.
FailSweepThrows(w) ==
    /\ run[w].at = "failing" /\ run' = [run EXCEPT ![w] = Thrown]
    /\ UNCHANGED <<events, session, expiring, sweep, row, signed, spent, sub, tab, orphan,
                   pulled, untidy>>

---------------------------------------------------------------------------
(* The orphan sweep, in the billing process. *)

Idle == [at |-> "idle", rows |-> {}]

ListOrphans ==
    /\ orphan.at = "idle"
    /\ orphan' = [at |-> "listed",
                  rows |-> {i \in Rows : row[i].status = "active" /\ row[i].sub = None}]
    /\ UNCHANGED <<events, session, expiring, sweep, row, signed, spent, sub, tab, run, pulled,
                   untidy>>

\* Variants: only the status is asked for, or nothing is.
NotOpen(s) == session[s].status # "open"
AnySession(s) == TRUE

Settled(s) == session[s].status # "open" \/ session[s].late

ReadSessions ==
    /\ orphan.at = "listed"
    /\ orphan' = [at |-> "due", rows |-> {i \in orphan.rows : Settled(row[i].s)}]
    /\ UNCHANGED <<events, session, expiring, sweep, row, signed, spent, sub, tab, run, pulled,
                   untidy>>

\* By id.
RevokeOrphans ==
    /\ orphan.at = "due"
    /\ Revoked(orphan.rows)
    /\ orphan' = Idle
    /\ UNCHANGED <<events, session, expiring, sweep, signed, spent, sub, tab, run, pulled,
                   untidy>>

OrphansThrow ==
    /\ orphan.at # "idle"
    /\ orphan' = Idle
    /\ UNCHANGED <<events, session, expiring, sweep, row, signed, spent, sub, tab, run, pulled,
                   untidy>>

---------------------------------------------------------------------------
(* The developer, the portal, the clock, and a deploy. *)

\* POST /v1/checkout/sessions/:id/expire: read, then written by id.
ReadExpire(s) ==
    /\ Event
    /\ session[s].status = "open"
    /\ expiring' = expiring \cup {s}
    /\ UNCHANGED <<session, sweep, row, signed, spent, sub, tab, run, orphan, pulled, untidy>>

WriteExpire(s) ==
    /\ s \in expiring
    /\ expiring' = expiring \ {s}
    /\ session' = [session EXCEPT ![s].status = "expired"]
    /\ UNCHANGED <<events, sweep, row, signed, spent, sub, tab, run, orphan, pulled, untidy>>

Cancel(v) ==
    /\ Event
    /\ Live(v)
    /\ EndSub(v)
    /\ UNCHANGED <<session, expiring, sweep, signed, spent, tab, run, orphan, pulled, untidy>>

GetLate(s) ==
    /\ Event
    /\ ~session[s].late
    /\ session' = [session EXCEPT ![s].late = TRUE]
    /\ UNCHANGED <<expiring, sweep, row, signed, spent, sub, tab, run, orphan, pulled,
                   untidy>>

AtServer == {"sent", "found", "enable", "ask", "create"}

RestartApi ==
    /\ Event
    /\ run' = [w \in Sweeps |-> IF run[w] \in Gone THEN run[w] ELSE [at |-> "dead"]]
    /\ untidy' = (untidy \/ \E w \in Sweeps : Unretired(w))
    /\ expiring' = {}
    /\ tab' = [t \in Tabs |-> IF tab[t].at \in AtServer THEN At(t, "pay") ELSE tab[t]]
    /\ UNCHANGED <<session, sweep, row, signed, spent, sub, orphan, pulled>>

---------------------------------------------------------------------------

Init ==
    /\ events = 0
    /\ session \in [Sessions -> [status : {"open"}, late : {FALSE}, tier : Tiers,
                                 sub : {None}]]
    /\ expiring = {}
    /\ sweep = [w \in Sweeps |-> NoSweep]
    /\ row = [i \in Rows |-> NoRow]
    /\ signed = <<>>
    /\ spent = {}
    /\ sub = [w \in Sweeps |-> NoSub]
    /\ tab \in [Tabs -> {Page(s, {}) : s \in Sessions}]
    /\ run = [w \in Sweeps |-> [at |-> "none"]]
    /\ orphan = Idle
    /\ pulled = [w \in Sweeps |-> 0]
    /\ untidy = FALSE

TabStep(t) ==
    \/ \E k \in Tiers : SelectTier(t, k)
    \/ \E c \in Chains : PickChain(t, c) \/ RevokeGrant(t, c)
    \/ Sign(t) \/ FindGrant(t) \/ SaveGrant(t) \/ Enable(t) \/ PanelPlan(t) \/ Ask(t)
    \/ \E w \in Sweeps : CreateSweep(t, w)
    \/ \E s \in Sessions : Visit(t, s)
    \/ Poll(t) \/ Back(t)

RunStep(w) ==
    \/ Load(w) \/ PickGrant(w) \/ CheckTier(w) \/ Refuse(w)
    \/ Pull(w) \/ PullSeenAsFailed(w) \/ Settle(w) \/ TrialSweep(w)
    \/ CreateSub(w) \/ LinkGrants(w) \/ ListPrior(w)
    \/ \E v \in Sweeps : Retire(w, v) \/ RetireFails(w, v)
    \/ CloseSession(w) \/ CompleteSweep(w)
    \/ StartThrows(w) \/ RunThrows(w) \/ FailSweep(w) \/ FailSweepThrows(w)

OrphanStep == ListOrphans \/ ReadSessions \/ RevokeOrphans \/ OrphansThrow

Others ==
    \/ \E s \in Sessions : ReadExpire(s) \/ WriteExpire(s) \/ GetLate(s)
    \/ \E v \in Sweeps : Cancel(v)
    \/ RestartApi

Next ==
    \/ \E t \in Tabs : TabStep(t)
    \/ \E w \in Sweeps : RunStep(w)
    \/ OrphanStep
    \/ Others

Spec == Init /\ [][Next]_vars

\* A run goes on until its process dies; the page polls; the cron fires every night, and a
\* pass does not throw every night.
FairSpec ==
    /\ Spec
    /\ \A w \in Sweeps : WF_vars(RunStep(w))
    /\ \A t \in Tabs : WF_vars(Poll(t))
    /\ WF_vars(ListOrphans) /\ SF_vars(ReadSessions) /\ SF_vars(RevokeOrphans)

---------------------------------------------------------------------------
(* Type correctness of the rows, the pages, the detached runs and the orphan sweep. *)
TypeOK ==
    /\ events \in 0..MaxEvents
    /\ session \in [Sessions -> SessionRecords]
    /\ expiring \subseteq Sessions
    /\ sweep \in [Sweeps -> SweepRecords]
    /\ row \in [Rows -> RowRecords]
    /\ signed \in Seq(Tiers) /\ Len(signed) <= MaxSign
    /\ spent \subseteq Contexts
    /\ sub \in [Sweeps -> SubRecords]
    /\ tab \in [Tabs -> TabRecords]
    /\ run \in [Sweeps -> RunRecords]
    /\ orphan \in [at : {"idle", "listed", "due"}, rows : SUBSET Rows]
    /\ pulled \in [Sweeps -> {0} \cup Tiers]
    /\ untidy \in BOOLEAN

(* A subscription is for the tier that was paid for: its price left the wallet, once, and a  *)
(* trial moved nothing, however often the payer changed the tier while the run was at work   *)
(* (cctp-activate.ts carries the terms it read at the start to complete.ts).                 *)
SubscribedAsPaid ==
    \A w \in Sweeps : sub[w] # NoSub =>
        pulled[w] = IF sub[w].tier \in Trials THEN 0 ELSE sub[w].tier

(* One live subscription per payer and plan: once no run stands between the creation of its  *)
(* subscription and the end of its retirements, and no retirement was skipped, at most one   *)
(* is live, in whatever order the runs of several checkouts created, listed and retired      *)
(* (complete.ts, revoke.ts retirePriorActiveSubscriptions).                                  *)
OneLiveWhenQuiet ==
    ~untidy /\ (\A w \in Sweeps : ~Unretired(w)) =>
        \A v, w \in Sweeps : Live(v) /\ Live(w) => v = w

(* The page shows success when the sweep is complete, and success means subscribed: the      *)
(* session of a complete sweep that took money carries a subscription (routes/gateway.ts:    *)
(* "stamps the session's subscriptionId BEFORE the sweep is flipped to complete").           *)
PaidSweepIsSubscribed ==
    \A w \in Sweeps : sweep[w].status = "complete" /\ pulled[w] > 0 =>
        session[S(w)].sub # None /\ sub[w] # NoSub

(* The orphan sweep leaves a payment in progress alone: a step that ends a pass revokes only *)
(* grants whose session was closed or past its date, however long ago the pass read it       *)
(* (orphan-grants.ts findSettledOrphanGrants).                                               *)
SweptWasSettled ==
    [][orphan.at = "due" /\ orphan'.at = "idle" =>
          \A i \in Rows : row[i] # row'[i] =>
              session[row[i].s].late \/ session[row[i].s].status # "open"]_vars

(* A grant that no checkout can complete any more does not stay active and unlinked: it is   *)
(* revoked, or was linked after all (orphan-grants.ts revokeOrphanGrantsOnce, every night).  *)
OrphansSwept ==
    \A i \in Rows, s \in Sessions :
        i \in Unlinked(s) /\ (session[s].late \/ session[s].status # "open")
            ~> i \notin Unlinked(s)

(* A page that waits for its sweep gets an answer, whichever step inside the try threw: the  *)
(* catch of executeCrossChainActivation marks the sweep failed, and GatewaySweepPanel polls. *)
(* Only a deploy that killed the run, and a throw that no catch answers (the reads before    *)
(* the try, cctp-activate.ts:99-110, and the catch's own write), leave it waiting.           *)
WaitEnds ==
    \A t \in Tabs, w \in Sweeps :
        tab[t].at = "wait" /\ tab[t].w = w
            ~> tab[t].at # "wait" \/ run[w].at \in {"dead", "thrown"}

==============================================================================
