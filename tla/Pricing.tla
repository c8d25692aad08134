-------------------------------- MODULE Pricing --------------------------------
(***************************************************************************)
(* What a subscriber pays: the terms of one plan and of its named tiers    *)
(* (routes/portal.ts), a change of a price under one of three scopes       *)
(* (lib/plan-pricing.ts), the checkout run that resolves the terms once to *)
(* pull and once to record (lib/checkout/cctp-activate.ts, complete.ts,    *)
(* tiers.ts), and the deletion of the plan (lib/plan-lifecycle.ts).        *)
(*                                                                         *)
(* A request that changes a price reads the plan and its tiers, then opens *)
(* a transaction; the transaction lists whom it will move and then writes. *)
(* Under READ COMMITTED each of its statements sees what has been          *)
(* committed by then, so the list and the write are two steps; the write   *)
(* of the subscriptions and of the listing is one.                         *)
(*                                                                         *)
(* Abstracted: name, features, badge and trial of a tier (presentation, or *)
(* fixed); the signed caps and over-cap renewals, which are Renewal's; the *)
(* mails, whose addressees are the ids a change has listed.                *)
(***************************************************************************)
EXTENDS Integers, FiniteSets

CONSTANTS
    Subs,          \* ids of Subscription rows, and of the checkout runs that create them
    Legacy,        \* the rows older than the column `amount'
    Requests,      \* requests that change a price
    Tiers,         \* ids of PlanTier rows
    Prices,
    PlanInterval,  \* the plan's own interval
    IntervalOf,    \* the interval of each tier: fixed for its life
    Default,       \* the plan's own terms, in place of a tier
    Null,
    MaxEvents      \* bound: price changes, tiers added or archived, throws and restarts

ASSUME PricesAssumption == Prices \subseteq Nat \ {0} /\ Prices # {}
ASSUME LegacyAssumption == Legacy \subseteq Subs
ASSUME TiersAssumption == Default \notin Tiers /\ Null \notin Prices \cup Tiers
ASSUME BoundAssumption == MaxEvents \in Nat

VARIABLES
    events,     \* how many of MaxEvents have happened
    plan,       \* the Plan row
    tier,       \* the PlanTier rows
    sub,        \* the Subscription rows
    change,     \* the price-change requests in the API process
    run,        \* the checkout runs in the API process
    closing,    \* the DELETE of the plan: what it has listed and not closed yet
    touched     \* history: the runs whose tier has changed under them or that were cut
                \* short, and the rows written since a request listed whom it moves

vars == <<events, plan, tier, sub, change, run, closing, touched>>

Terms     == Tiers \cup {Default}
Scopes    == {"new", "existing", "everyone"}
Intervals == {PlanInterval} \cup {IntervalOf[t] : t \in Tiers}

PlanRecords == [listed : Prices, archived : BOOLEAN]

NoTier == [status |-> "none"]
TierRecords == {NoTier} \cup [status : {"live", "archived"}, amount : Prices]

NoSub == [status |-> "none"]
SubRecords == {NoSub} \cup [status   : {"live", "cancelled"},
                           amount   : Prices \cup {Null},
                           interval : Intervals \cup {Null}]

Idle == [at |-> "idle"]
ChangeRecords == {Idle} \cup
    [at    : {"read", "listed"},
     of    : Terms, scope : Scopes, old : Prices, new : Prices,
     named : [Tiers -> Prices \cup {Null}],       \* namedTiers: the live ones' prices
     moved : SUBSET Subs]                         \* repricedIds

RunRecords == {Idle} \cup
    [at     : {"session", "loaded", "pulled", "done", "lost", "refused"},
     of     : Terms,
     listed : Prices, closed : BOOLEAN,           \* the plan, as the run loaded it
     amount : Prices \cup {Null}]                 \* what it pulls

TypeOK ==
    /\ events \in 0..MaxEvents
    /\ plan \in PlanRecords
    /\ tier \in [Tiers -> TierRecords]
    /\ sub \in [Subs -> SubRecords]
    /\ change \in [Requests -> ChangeRecords]
    /\ run \in [Subs -> RunRecords]
    /\ closing \in [at : {"none", "archived", "listed"}, subs : SUBSET Subs]
    /\ touched \in [runs : SUBSET Subs, rows : [Requests -> SUBSET Subs]]

\* The plan has been created, with the subscribers of before tiers had prices.
Init ==
    /\ events = 0
    /\ plan \in [listed : Prices, archived : {FALSE}]
    /\ tier = [t \in Tiers |-> NoTier]
    /\ sub = [s \in Subs |-> IF s \in Legacy
                             THEN [status |-> "live", amount |-> Null, interval |-> Null]
                             ELSE NoSub]
    /\ change = [h \in Requests |-> Idle]
    /\ run = [s \in Subs |-> Idle]
    /\ closing = [at |-> "none", subs |-> {}]
    /\ touched = [runs |-> {}, rows |-> [h \in Requests |-> {}]]

Event == events < MaxEvents /\ events' = events + 1

LiveTiers == {t \in Tiers : tier[t].status = "live"}
LiveSubs  == {s \in Subs : sub[s].status = "live"}

\* resolveTier: the price of terms as they are in the database.
ListedOf(t) == IF t = Default THEN plan.listed ELSE tier[t].amount
IntervalFor(t) == IF t = Default THEN PlanInterval ELSE IntervalOf[t]

\* What the renewal pass collects: sub.amount ?? sub.plan.amount.
Pays(s) == IF sub[s].amount = Null THEN plan.listed ELSE sub[s].amount

-----------------------------------------------------------------------------
(***************************************************************************)
(* Tiers.                                                                  *)
(***************************************************************************)

CreateTier(t, a) ==
    /\ Event
    /\ ~ plan.archived /\ tier[t] = NoTier
    /\ tier' = [tier EXCEPT ![t] = [status |-> "live", amount |-> a]]
    /\ UNCHANGED <<plan, sub, change, run, closing, touched>>

\* The runs that pay for these terms and may see them move.
Under(t) == {s \in Subs : run[s].at \in {"loaded", "pulled"} /\ run[s].of = t}

ArchiveTier(t) ==
    /\ Event
    /\ tier[t].status = "live"
    /\ tier' = [tier EXCEPT ![t].status = "archived"]
    /\ touched' = [touched EXCEPT !.runs = @ \cup Under(t)]
    /\ UNCHANGED <<plan, sub, change, run, closing>>

-----------------------------------------------------------------------------
(***************************************************************************)
(* A change of a price.                                                    *)
(***************************************************************************)

\* A plausible slip: only a price that changes nothing is refused.
RefuseEqual(old, new) == new = old

\* refusePriceChange: a price is positive and not the one already listed.
RefusePriceChange(old, new) == new <= 0 \/ new = old

NamedTiers == [t \in Tiers |-> IF t \in LiveTiers THEN tier[t].amount ELSE Null]

NewChange(h, t, new, scope, named) ==
    /\ Event
    /\ change[h] = Idle
    /\ ~ RefusePriceChange(ListedOf(t), new)
    /\ change' = [change EXCEPT ![h] =
         [at |-> "read", of |-> t, scope |-> scope, old |-> ListedOf(t), new |-> new,
          named |-> named, moved |-> {}]]
    /\ UNCHANGED <<plan, tier, sub, run, closing, touched>>

\* PATCH /plans/:id/tiers/:tierId, up to its transaction.
ReadTier(h, t, new, scope) ==
    /\ ~ plan.archived /\ t \in LiveTiers
    /\ NewChange(h, t, new, scope, [u \in Tiers |-> Null])

\* PATCH /plans/:id/default-tier, up to its transaction: it needs the named tiers
\* too, for the plan's own subscribers are those on none of them.
ReadDefault(h, new, scope) ==
    /\ ~ plan.archived
    /\ NewChange(h, Default, new, scope, NamedTiers)

\* amount = a AND interval = i, in SQL: an unset column makes it neither true ...
IsOn(s, a, i) == sub[s].amount = a /\ sub[s].interval = i

\* ... nor, unless the other column differs, false.
IsNotOn(s, a, i) ==
    \/ sub[s].amount \notin {a, Null}
    \/ sub[s].interval \notin {i, Null}

\* A plausible slip: the ids are asked for among rows with a price of their own.
ReachPriced(c) ==
    {s \in LiveSubs :
        /\ sub[s].amount # Null
        /\ IF c.of = Default
           THEN \A t \in Tiers : c.named[t] # Null => IsNotOn(s, c.named[t], IntervalOf[t])
           ELSE IsOn(s, c.old, IntervalOf[c.of])}

\* Whom the change is about (the `where' of applyPriceChange): for a named tier
\* those on its exact terms, for the plan's own those on no named tier's.
Reach(c) ==
    {s \in LiveSubs :
        IF c.of = Default
        THEN \A t \in Tiers : c.named[t] # Null => IsNotOn(s, c.named[t], IntervalOf[t])
        ELSE IsOn(s, c.old, IntervalOf[c.of])}

\* Subscribers with no price of their own, who follow the listing.
Inheriting == {s \in LiveSubs : sub[s].amount = Null}

Reprice(S, a) == [s \in Subs |-> IF s \in S THEN [sub[s] EXCEPT !.amount = a] ELSE sub[s]]

\* The ids are read before the write, for the mails (repricedIds).
ListMoved(h) ==
    /\ change[h].at = "read" /\ change[h].scope # "new"
    /\ change' = [change EXCEPT ![h].at = "listed", ![h].moved = Reach(change[h])]
    /\ touched' = [touched EXCEPT !.rows[h] = {}]
    /\ UNCHANGED <<events, plan, tier, sub, run, closing>>

\* A plausible slip: nobody is pinned before the listing moves.
WrittenUnpinned(c) == IF c.scope # "new" THEN Reach(c) ELSE {}

\* The rows a change writes, and their new price.
Written(c) ==
    IF c.scope # "new" THEN Reach(c)
    ELSE IF c.of = Default THEN Inheriting ELSE {}

PriceWritten(c) == IF c.scope = "new" THEN c.old ELSE c.new

\* listedChanged: "existing" leaves the shopfront alone.
RelistPlan(c) ==
    plan' = IF c.scope # "existing" /\ c.of = Default THEN [plan EXCEPT !.listed = c.new] ELSE plan

\* A tier archived in the meantime is not updated.
RelistTier(c) ==
    tier' = IF c.scope # "existing" /\ c.of \in LiveTiers
            THEN [tier EXCEPT ![c.of].amount = c.new] ELSE tier

\* History: rows that others have written or created since a list was read.
TouchRows(S) ==
    [h \in Requests |-> IF change[h].at = "listed" THEN touched.rows[h] \cup S
                                                   ELSE touched.rows[h]]

ApplyPriceChange(h) ==
    LET c == change[h]
    IN  /\ \/ c.at = "read" /\ c.scope = "new"
           \/ c.at = "listed"
        /\ sub' = Reprice(Written(c), PriceWritten(c))
        /\ RelistPlan(c) /\ RelistTier(c)
        /\ change' = [change EXCEPT ![h] = Idle]
        /\ touched' = [runs |-> touched.runs \cup
                                (IF c.scope # "existing" /\ c.of \in LiveTiers
                                 THEN Under(c.of) ELSE {}),
                       rows |-> TouchRows(Written(c))]
        /\ UNCHANGED <<events, run, closing>>

-----------------------------------------------------------------------------
(***************************************************************************)
(* A checkout.                                                             *)
(***************************************************************************)

\* POST /v1/checkout and POST /checkout/:id/tier: open plan, live tier.
OpenSession(s, t) ==
    /\ sub[s] = NoSub /\ run[s] = Idle
    /\ ~ plan.archived
    /\ t # Default => t \in LiveTiers
    /\ run' = [run EXCEPT ![s] = [at |-> "session", of |-> t, listed |-> plan.listed,
                                  closed |-> FALSE, amount |-> Null]]
    /\ UNCHANGED <<events, plan, tier, sub, change, closing, touched>>

Stop(s, at) == run' = [run EXCEPT ![s].at = at]

\* executeCrossChainActivation loads the session with its plan, and resolves the
\* chosen tier; it does not look whether the plan is archived.
LoadRun(s) ==
    /\ run[s].at = "session"
    /\ IF run[s].of \in Tiers \ LiveTiers
       THEN Stop(s, "refused")
       ELSE run' = [run EXCEPT ![s].at = "loaded", ![s].listed = plan.listed,
                               ![s].closed = plan.archived,
                               ![s].amount = ListedOf(run[s].of)]
    /\ UNCHANGED <<events, plan, tier, sub, change, closing, touched>>

\* The redeem, the burn and the mint: the payer's money is with the merchant.
Pull(s) ==
    /\ run[s].at = "loaded"
    /\ Stop(s, "pulled")
    /\ UNCHANGED <<events, plan, tier, sub, change, closing, touched>>

\* No funds, no grant, a reverted redeem: nothing is taken.
PullFails(s) ==
    /\ run[s].at = "loaded"
    /\ Stop(s, "refused")
    /\ UNCHANGED <<events, plan, tier, sub, change, closing, touched>>

\* A plausible slip: the plan is read again as well.
RecordedNow(r) == ListedOf(r.of)

\* completeCheckoutSession resolves the tier again: the plan's own terms from the
\* plan it was handed, a named tier's from the database.
Recorded(r) == IF r.of = Default THEN r.listed ELSE tier[r.of].amount

\* It asks whether the plan it was handed is archived, and throws for a tier that
\* is; the sweep is then failed, with the money at the merchant.
CompleteCheckoutSession(s) ==
    LET r == run[s]
    IN  /\ r.at = "pulled"
        /\ IF r.closed \/ r.of \in Tiers \ LiveTiers
           THEN Stop(s, "lost") /\ UNCHANGED <<sub, touched>>
           ELSE /\ Stop(s, "done")
                /\ sub' = [sub EXCEPT ![s] =
                     [status   |-> "live",
                      amount   |-> Recorded(r),
                      interval |-> IntervalFor(r.of)]]
                /\ touched' = [touched EXCEPT !.rows = TouchRows({s})]
        /\ UNCHANGED <<events, plan, tier, change, closing>>

\* Any throw between the pull and the subscription: the sweep is failed, and the
\* money stays where it is.
RunThrows(s) ==
    /\ Event
    /\ run[s].at = "pulled"
    /\ Stop(s, "lost")
    /\ touched' = [touched EXCEPT !.runs = @ \cup {s}]
    /\ UNCHANGED <<plan, tier, sub, change, closing>>

-----------------------------------------------------------------------------
(***************************************************************************)
(* A subscription's status, and the deletion of the plan.                  *)
(***************************************************************************)

Cancelled(s) ==
    /\ sub' = [sub EXCEPT ![s].status = "cancelled"]
    /\ touched' = [touched EXCEPT !.rows = TouchRows({s})]

Cancel(s) ==
    /\ s \in LiveSubs
    /\ Cancelled(s)
    /\ UNCHANGED <<events, plan, tier, change, run, closing>>

\* DELETE /plans/:id archives, then lists whom to close (findSubsToClose); a second
\* DELETE finds the plan archived and returns.
ArchivePlan ==
    /\ ~ plan.archived
    /\ plan' = [plan EXCEPT !.archived = TRUE]
    /\ closing' = [closing EXCEPT !.at = "archived"]
    /\ UNCHANGED <<events, tier, sub, change, run, touched>>

FindSubsToClose ==
    /\ closing.at = "archived"
    /\ closing' = [at |-> "listed", subs |-> LiveSubs]
    /\ UNCHANGED <<events, plan, tier, sub, change, run, touched>>

\* closePlanSubscriptions cancels by id, whatever has become of the row.
CloseOne(s) ==
    /\ s \in closing.subs
    /\ closing' = [closing EXCEPT !.subs = @ \ {s}]
    /\ Cancelled(s)
    /\ UNCHANGED <<events, plan, tier, change, run>>

\* A deploy: requests and detached runs are gone; a transaction under way is not
\* committed, and money already pulled stays where it is.
UnderWay == {s \in Subs : run[s].at \in {"loaded", "pulled"}}

Restart ==
    /\ Event
    /\ change' = [h \in Requests |-> Idle]
    /\ run' = [s \in Subs |->
                 IF s \notin UnderWay THEN run[s]
                 ELSE [run[s] EXCEPT !.at = IF @ = "pulled" THEN "lost" ELSE "refused"]]
    /\ closing' = [at |-> "none", subs |-> {}]
    /\ touched' = [touched EXCEPT !.runs = @ \cup UnderWay]
    /\ UNCHANGED <<plan, tier, sub>>

-----------------------------------------------------------------------------
Next ==
    \/ \E t \in Tiers : ArchiveTier(t) \/ \E a \in Prices : CreateTier(t, a)
    \/ \E h \in Requests :
         \/ \E a \in Prices \cup {0}, scope \in Scopes :
              ReadDefault(h, a, scope) \/ \E t \in Tiers : ReadTier(h, t, a, scope)
         \/ ListMoved(h)
         \/ ApplyPriceChange(h)
    \/ \E s \in Subs :
         \/ \E t \in Terms : OpenSession(s, t)
         \/ LoadRun(s) \/ Pull(s) \/ PullFails(s) \/ RunThrows(s)
         \/ CompleteCheckoutSession(s)
         \/ Cancel(s) \/ CloseOne(s)
    \/ ArchivePlan \/ FindSubsToClose
    \/ Restart

Spec == Init /\ [][Next]_vars

-----------------------------------------------------------------------------
(***************************************************************************)
(* Properties.                                                             *)
(***************************************************************************)

\* A change for "new" subscribers leaves what every live subscriber pays as it
\* was: whoever follows the listing is pinned before it moves.  Only when the
\* listing has moved since the request read it are they pinned to another price.
NewKeepsPrices(c) ==
    \A s \in LiveSubs :
        \/ Pays(s)' = Pays(s)
        \/ sub[s].amount = Null /\ plan.listed # c.old

\* Whom a change is for (plan-pricing.ts:90-93, 130-142, 165-166): on a named tier
\* who is on its terms, on the plan's own who is on those of no named tier.  A
\* subscriber with an unset price or interval inherits it, and is on no named tier.
TermsOf(s) == <<sub[s].amount, sub[s].interval>>
NamedTerms(c) == {<<c.named[t], IntervalOf[t]>> : t \in {u \in Tiers : c.named[u] # Null}}

Promised(c) ==
    {s \in LiveSubs : IF c.of = Default THEN TermsOf(s) \notin NamedTerms(c)
                                        ELSE TermsOf(s) = <<c.old, IntervalOf[c.of]>>}

\* The inheriting subscribers whose set column, if any, is that of a named tier:
\* plan-pricing.ts:177 promises them, and SQL does not find them.
Missed(c) ==
    {s \in Promised(c) :
        /\ c.of = Default
        /\ sub[s].amount = Null \/ sub[s].interval = Null
        /\ \E k \in NamedTerms(c) : /\ sub[s].amount \in {k[1], Null}
                                   /\ sub[s].interval \in {k[2], Null}}

\* The list is of those the change is for, but for rows written or created since.
ListsWhomItIsFor(c, since) ==
    \A s \in Subs \ since : s \in c.moved <=> s \in Promised(c) \ Missed(c)

\* "everyone" takes along who follows the listing, whether or not the list has them.
MovesWhoFollows(c) ==
    c.scope = "everyone" /\ c.of = Default =>
        \A s \in Inheriting : Pays(s)' = c.new

\* A change for "existing" subscribers or for "everyone" writes the rows it has
\* listed for the mails and no others, but for those that somebody else wrote or
\* created since.
MovesWhomItLists(c, since) ==
    /\ \A s \in c.moved \ since : sub'[s].amount = c.new
    /\ \A s \in Subs \ (c.moved \cup since) : sub'[s] = sub[s]

\* Who is reached by a change of a price is who its scope says (applyPriceChange
\* and the PATCH handlers), whatever other changes, checkouts, cancellations and
\* deletions happen between its reads and its writes: for "new" nobody who is
\* subscribed; otherwise the rows written are those listed for the mails, and those
\* are the subscribers of the plan's own terms, inheriting ones among them, or of
\* the tier's, the terms being those the request has read.
ReachesWhoItSays ==
    [][\A h \in Requests :
         LET c == change[h]
         IN  c # Idle /\ change'[h] = Idle /\ events' = events
             => IF c.scope = "new" THEN NewKeepsPrices(c)
                ELSE /\ MovesWhomItLists(c, touched.rows[h])
                     /\ ListsWhomItIsFor(c, touched.rows[h])
                     /\ MovesWhoFollows(c)]_vars

\* A payer whose first payment has been pulled gets a subscription, at the price
\* that was pulled: always on the plan's own terms, and on a named tier unless
\* the tier was repriced or archived during the run, or the run was cut short.
\* The plan must have been open when the run loaded it: if it was not, the run
\* pulls all the same and is refused only afterwards.
PaidIsRecorded ==
    [][\A s \in Subs :
         run[s].at = "pulled" /\ run'[s].at # "pulled"
         => \/ run'[s].at = "done" /\ sub'[s].status = "live" /\ sub'[s].amount = run[s].amount
            \/ run[s].closed
            \/ s \in touched'.runs]_vars
================================================================================
