-------------------------------- MODULE Mandate --------------------------------
(***************************************************************************)
(* The life of an external-rail mandate, up to the charges (module Charge):*)
(* POST and DELETE /v1/mandates (routes/mandates.ts), the hosted page the  *)
(* payer signs on (web AuthorizePage, routes/authorize.ts), the payer's    *)
(* portal (routes/customer-portal.ts), and the daily pass of the billing   *)
(* process that reconciles grants with the chains and announces deadlines  *)
(* (billing/reconcile-mandates.ts, billing/mandate-expiry.ts).             *)
(*                                                                         *)
(* All the mandates are one merchant's for one external_ref.  Every        *)
(* signature is a new context, counted by `signed'; a RenewalDelegation row*)
(* holds the last context saved into it.  A page that is closed while a    *)
(* request of it is served is a page closed after the answer.              *)
(*                                                                         *)
(* Abstracted: the payer is one person with the right code, wallet and     *)
(* token; the sum and the period of a grant; the webhooks' delivery        *)
(* (module Delivery); payout wallets.                                      *)
(***************************************************************************)
EXTENDS Integers, Sequences, FiniteSets

CONSTANTS
    Mandates,     \* mandates a developer may create for one external_ref
    Chains,       \* the chains asked for in POST /v1/mandates
    Rows,         \* ids for RenewalDelegation rows
    Pages,        \* windows the payer may have open: a frame and its popup are two
    None,         \* no row, no chain
    MaxSign,      \* bound: signatures the payer gives in all
    MaxEvents     \* bound: revokes, disablings, closed windows and restarts in all

ASSUME NoneAssumption == None \notin Rows \cup Chains \cup Mandates
ASSUME BoundsAssumption == MaxSign \in Nat /\ MaxEvents \in Nat

VARIABLES
    events,       \* how many of MaxEvents have happened
    made,         \* the mandates in the order of createdAt
    mandate,      \* the Mandate rows
    link,         \* the mandates whose link has not expired
    time,         \* where each mandate is with respect to expiresAt
    row,          \* the RenewalDelegation rows with mode external
    signed,       \* how many contexts the payer's wallet has signed
    disabled,     \* on chain: the contexts disabled in the payer's wallet
    page,         \* the windows, each with its request in the API process
    portal,       \* a grant in flight from the payer's portal
    pass,         \* in memory of the billing process: the daily pass
    told          \* history: activations, and mandate.expiring / .expired sent

vars == <<events, made, mandate, link, time, row, signed, disabled, page, portal, pass,
          told>>

Contexts == 1..MaxSign
Live     == {"pending", "active"}

MandateRecords == [status   : {"none", "checked", "pending", "active", "revoked", "expired"},
                   verified : BOOLEAN,       \* emailVerifiedAt
                   notified : BOOLEAN,       \* expiringNotifiedAt
                   ended    : BOOLEAN]       \* history: revoked by somebody's request

NoRow == [status |-> "none"]
RowRecords ==
    {NoRow} \cup [status : {"active", "revoked"}, m : Mandates, chain : Chains,
                  ctx : Contexts, hashed : BOOLEAN, held : SUBSET Contexts]

Closed == [at |-> "closed"]
PageRecords ==
    {Closed} \cup
    [at      : {"review", "signing", "sent", "found", "finishing", "completing", "done",
                "gone"},
     m       : Mandates,
     granted : SUBSET Chains,                \* signedChains
     proved  : BOOLEAN,                      \* emailToken
     todo    : SUBSET Chains,                \* what the grant loop has left
     saved   : BOOLEAN,                      \* not every chain of the loop has failed
     chain   : Chains \cup {None},           \* the grant in flight, its context,
     ctx     : 0..MaxSign,
     found   : Rows \cup {None}]             \* and the row it will replace

Event == events < MaxEvents /\ events' = events + 1

Exists(m)   == mandate[m].status \notin {"none", "checked"}
RowsOf(m)   == {i \in Rows : row[i].status = "active" /\ row[i].m = m}
RowsOn(m,c) == {i \in RowsOf(m) : row[i].chain = c}
Granted(m)  == {row[i].chain : i \in RowsOf(m)}

SetStatus(m, s) == mandate' = [mandate EXCEPT ![m].status = s]

---------------------------------------------------------------------------
(* The developer. *)

\* findFirst, newest first.
Found(k) == /\ mandate[made[k]].status \in Live
            /\ \A j \in k + 1 .. Len(made) : mandate[made[j]].status \notin Live

\* Only the one it finds can block: by being active, or pending under a living link.
MayCreate ==
    \A k \in 1..Len(made) :
        Found(k) => mandate[made[k]].status = "pending" /\ made[k] \notin link

CheckCreate(m) ==
    /\ mandate[m].status = "none"
    /\ MayCreate
    /\ SetStatus(m, "checked")
    /\ UNCHANGED <<events, made, link, time, row, signed, disabled, page, portal, pass, told>>

Create(m) ==
    /\ mandate[m].status = "checked"
    /\ SetStatus(m, "pending")
    /\ made' = Append(made, m)
    /\ UNCHANGED <<events, link, time, row, signed, disabled, page, portal, pass, told>>

\* The developer's DELETE, and the payer's revoke: both are one transaction.
Revoke(m) ==
    /\ Event
    /\ Exists(m) /\ mandate[m].status # "revoked"
    /\ mandate' = [mandate EXCEPT ![m].status = "revoked", ![m].ended = TRUE]
    /\ row' = [i \in Rows |-> IF i \in RowsOf(m) THEN [row[i] EXCEPT !.status = "revoked"]
                                                 ELSE row[i]]
    /\ UNCHANGED <<made, link, time, signed, disabled, page, portal, pass, told>>

---------------------------------------------------------------------------
(* The page. *)

\* What load() shows: an active mandate can still gain chains while its link lives.
Shown(m) ==
    CASE mandate[m].status = "active" ->
            IF Granted(m) # Chains /\ m \in link THEN "review" ELSE "done"
      [] mandate[m].status = "pending" /\ m \in link /\ time[m] # "late" -> "review"
      [] OTHER -> "gone"

Open(p, m) ==
    /\ page[p].at = "closed"
    /\ Exists(m)
    /\ page' = [page EXCEPT ![p] =
                    [at |-> Shown(m), m |-> m, granted |-> Granted(m), proved |-> FALSE,
                     todo |-> {}, saved |-> FALSE, chain |-> None, ctx |-> 0,
                     found |-> None]]
    /\ UNCHANGED <<events, made, mandate, link, time, row, signed, disabled, portal, pass,
                   told>>

Goto(p, from, to) == page[p].at = from /\ page' = [page EXCEPT ![p].at = to]

\* The payer proves the address: /otp and /otp/verify.
Prove(p) ==
    /\ page[p].at = "review" /\ ~page[p].proved
    /\ page[p].m \in link
    /\ mandate[page[p].m].status # "revoked"
    /\ mandate' = [mandate EXCEPT ![page[p].m].verified = TRUE]
    /\ page' = [page EXCEPT ![p].proved = TRUE]
    /\ UNCHANGED <<events, made, link, time, row, signed, disabled, portal, pass, told>>

\* authorize(): returns at once when nothing is left to sign.
Authorize(p) ==
    /\ page[p].at = "review" /\ page[p].proved
    /\ \E S \in SUBSET (Chains \ page[p].granted) \ {{}} :
          page' = [page EXCEPT ![p].at = "signing", ![p].todo = S, ![p].saved = FALSE]
    /\ UNCHANGED <<events, made, mandate, link, time, row, signed, disabled, portal, pass,
                   told>>

\* The checks of /grant.  Prove has been here, but perhaps for another page.
MayGrant(p) ==
    /\ page[p].m \in link
    /\ mandate[page[p].m].status # "revoked"
    /\ time[page[p].m] # "late"
    /\ mandate[page[p].m].verified

\* The wallet signs one chain of the loop and /grant lets it in.
Sign(p, c) ==
    /\ page[p].at = "signing" /\ c \in page[p].todo
    /\ signed < MaxSign
    /\ signed' = signed + 1
    /\ MayGrant(p)
    /\ page' = [page EXCEPT ![p].at = "sent", ![p].chain = c, ![p].ctx = signed',
                            ![p].todo = @ \ {c}]
    /\ UNCHANGED <<events, made, mandate, link, time, row, disabled, portal, pass, told>>

\* findFirst, after the chain has been asked for the delegation's identity.
FindGrant(p) ==
    /\ page[p].at = "sent"
    /\ LET old == RowsOn(page[p].m, page[p].chain) IN
         \E i \in IF old = {} THEN {None} ELSE old :
             page' = [page EXCEPT ![p].at = "found", ![p].found = i]
    /\ UNCHANGED <<events, made, mandate, link, time, row, signed, disabled, portal, pass,
                   told>>

\* The row of a context: the hash is null when the chain did not answer.
RowFor(m, c, x, h, past) ==
    [status |-> "active", m |-> m, chain |-> c, ctx |-> x, hashed |-> h,
     held |-> past \cup {x}]

Insert(m, c, x) ==
    \E i \in Rows, h \in BOOLEAN :
        /\ row[i] = NoRow
        /\ row' = [row EXCEPT ![i] = RowFor(m, c, x, h, {})]

\* By id, whatever has happened to the row since.
Replace(i, m, c, x) ==
    \E h \in BOOLEAN : row' = [row EXCEPT ![i] = RowFor(m, c, x, h, row[i].held)]

\* The page may miss the answer, and then counts the chain as failed.
SaveGrant(p) ==
    /\ page[p].at = "found"
    /\ IF page[p].found = None
         THEN Insert(page[p].m, page[p].chain, page[p].ctx)
         ELSE Replace(page[p].found, page[p].m, page[p].chain, page[p].ctx)
    /\ \/ page' = [page EXCEPT ![p].at = "signing", ![p].saved = TRUE,
                               ![p].granted = @ \cup {page[p].chain}]
       \/ page' = [page EXCEPT ![p].at = "signing"]
    /\ UNCHANGED <<events, made, mandate, link, time, signed, disabled, portal, pass, told>>

\* The wallet declines, /grant refuses or throws: the loop goes on.
SkipChain(p, c) ==
    /\ page[p].at = "signing" /\ c \in page[p].todo
    /\ page' = [page EXCEPT ![p].todo = @ \ {c}]
    /\ UNCHANGED <<events, made, mandate, link, time, row, signed, disabled, portal, pass,
                   told>>

GrantThrows(p) ==
    /\ page[p].at \in {"sent", "found"}
    /\ page' = [page EXCEPT ![p].at = "signing"]
    /\ UNCHANGED <<events, made, mandate, link, time, row, signed, disabled, portal, pass,
                   told>>

\* The loop throws when every chain has failed.
EndLoop(p) ==
    /\ Goto(p, "signing", IF page[p].saved THEN "finishing" ELSE "review")
    /\ page[p].todo = {}
    /\ UNCHANGED <<events, made, mandate, link, time, row, signed, disabled, portal, pass,
                   told>>

\* /complete reads the mandate and its grants; it asks for neither deadline.
ReadComplete(p) ==
    LET m == page[p].m IN
    /\ Goto(p, "finishing",
            IF mandate[m].status = "revoked" \/ RowsOf(m) = {} THEN "review"
            ELSE IF mandate[m].status = "active" THEN "done"
            ELSE "completing")
    /\ UNCHANGED <<events, made, mandate, link, time, row, signed, disabled, portal, pass,
                   told>>

\* By id.  The page then shows success whatever it reloads.
WriteComplete(p) ==
    /\ Goto(p, "completing", "done")
    /\ SetStatus(page[p].m, "active")
    /\ told' = [told EXCEPT ![page[p].m].active = @ + 1]
    /\ UNCHANGED <<events, made, link, time, row, signed, disabled, portal, pass>>

\* Variant: the page shows no card at all.
ErrorPhase == "error"

\* authorize()'s catch.
AfterThrow == "review"

CompleteThrows(p) ==
    /\ page[p].at \in {"finishing", "completing"}
    /\ page' = [page EXCEPT ![p].at = AfterThrow]
    /\ UNCHANGED <<events, made, mandate, link, time, row, signed, disabled, portal, pass,
                   told>>

\* A frame believes the popup it opened on the same mandate.
Relay(p, q) ==
    /\ page[q].at = "done" /\ page[p].at = "review" /\ page[p].m = page[q].m
    /\ Goto(p, "review", "done")
    /\ UNCHANGED <<events, made, mandate, link, time, row, signed, disabled, portal, pass,
                   told>>

\* "Add them now".
AddSkipped(p) ==
    /\ Goto(p, "done", "review")
    /\ page[p].granted # Chains
    /\ UNCHANGED <<events, made, mandate, link, time, row, signed, disabled, portal, pass,
                   told>>

Close(p) ==
    /\ Event
    /\ page[p].at \in {"review", "signing", "finishing", "done", "gone"}
    /\ page' = [page EXCEPT ![p] = Closed]
    /\ UNCHANGED <<made, mandate, link, time, row, signed, disabled, portal, pass, told>>

---------------------------------------------------------------------------
(* The payer's portal, and wallet. *)

NoAsk == [m |-> None]
Asks  == {NoAsk} \cup [m : Mandates, chain : Chains, ctx : Contexts]

\* POST mandates/:id/grant: a chain that is granted is refused, never replaced.
PortalSign(m, c) ==
    /\ portal = NoAsk
    /\ mandate[m].status = "active" /\ mandate[m].verified /\ time[m] # "late"
    /\ RowsOn(m, c) = {}
    /\ signed < MaxSign
    /\ signed' = signed + 1
    /\ portal' = [m |-> m, chain |-> c, ctx |-> signed']
    /\ UNCHANGED <<events, made, mandate, link, time, row, disabled, page, pass, told>>

PortalSave ==
    /\ portal # NoAsk
    /\ Insert(portal.m, portal.chain, portal.ctx)
    /\ portal' = NoAsk
    /\ UNCHANGED <<events, made, mandate, link, time, signed, disabled, page, pass, told>>

PortalThrows ==
    /\ portal # NoAsk
    /\ portal' = NoAsk
    /\ UNCHANGED <<events, made, mandate, link, time, row, signed, disabled, page, pass, told>>

Disable(x) ==
    /\ Event
    /\ x \in 1..signed \ disabled
    /\ disabled' = disabled \cup {x}
    /\ UNCHANGED <<made, mandate, link, time, row, signed, page, portal, pass, told>>

---------------------------------------------------------------------------
(* The daily pass.  `rows' maps the rows it has listed to the context it   *)
(* read; `gone' are those the chain has called disabled; `due' are the     *)
(* mandates a phase of runMandateExpiryOnce has listed.                    *)

Idle == [at |-> "idle", rows |-> <<>>, gone |-> {}, due |-> {}, m |-> None]

At(s) == pass.at = s

\* Variant: a grant in its last days is left to the expiry.
NotEnding == {i \in Rows : /\ row[i].status = "active" /\ row[i].hashed
                           /\ time[row[i].m] = "early"}

\* A row without a hash cannot be asked about, and a lapsed one is the expiry's.
Checkable == {i \in Rows : /\ row[i].status = "active" /\ row[i].hashed
                           /\ time[row[i].m] # "late"}

\* passRunning keeps a second pass out.
ListGrants ==
    /\ At("idle")
    /\ pass' = [Idle EXCEPT !.at = "ask", !.rows = [i \in Checkable |-> row[i].ctx]]
    /\ UNCHANGED <<events, made, mandate, link, time, row, signed, disabled, page, portal,
                   told>>

Without(i) == [j \in DOMAIN pass.rows \ {i} |-> pass.rows[j]]

\* The chain answers, about the context that was listed.
SeesDisabled(i) ==
    /\ At("ask")
    /\ i \in DOMAIN pass.rows \ pass.gone
    /\ pass.rows[i] \in disabled
    /\ pass' = [pass EXCEPT !.gone = @ \cup {i}]
    /\ UNCHANGED <<events, made, mandate, link, time, row, signed, disabled, page, portal,
                   told>>

\* Variant: a chain that does not answer is taken to have disabled the delegation.
UnreadableIsGone(i) == [pass EXCEPT !.gone = @ \cup {i}]

AfterUnread(i) == [pass EXCEPT !.rows = Without(i)]

\* Still enabled, unreadable, or on a chain whose manager cannot be trusted.
PassesOver(i) ==
    /\ At("ask")
    /\ i \in DOMAIN pass.rows \ pass.gone
    /\ pass' = AfterUnread(i)
    /\ UNCHANGED <<events, made, mandate, link, time, row, signed, disabled, page, portal,
                   told>>

\* Every row of its chain has been answered for.
Answered(i) ==
    /\ At("ask")
    /\ i \in pass.gone
    /\ \A j \in DOMAIN pass.rows \ pass.gone : row[j].chain # row[i].chain

\* By id.
RevokeRow(i) ==
    /\ Answered(i)
    /\ row' = [row EXCEPT ![i].status = "revoked"]
    /\ pass' = [pass EXCEPT !.at = "count", !.rows = Without(i), !.gone = @ \ {i},
                            !.m = row[i].m]
    /\ UNCHANGED <<events, made, mandate, link, time, signed, disabled, page, portal, told>>

CountRemaining ==
    /\ At("count")
    /\ pass' = [pass EXCEPT !.at = IF RowsOf(pass.m) = {} THEN "close" ELSE "ask"]
    /\ UNCHANGED <<events, made, mandate, link, time, row, signed, disabled, page, portal,
                   told>>

CloseMandate ==
    /\ At("close")
    /\ IF mandate[pass.m].status \in Live THEN SetStatus(pass.m, "revoked")
                                          ELSE UNCHANGED mandate
    /\ pass' = [pass EXCEPT !.at = "ask"]
    /\ UNCHANGED <<events, made, link, time, row, signed, disabled, page, portal, told>>

\* Variant: the date is the guard, not the status.
LapsedByDate == {m \in Mandates : Exists(m) /\ time[m] = "late"}

Lapsed == {m \in Mandates : mandate[m].status = "active" /\ time[m] = "late"}

\* The last row is done, or a write or a read after the answers threw: the scheduler goes on with the expiry.
ListLapsed ==
    /\ \/ At("ask") /\ DOMAIN pass.rows = {}
       \/ \E i \in Rows : Answered(i)
       \/ At("count") \/ At("close")
    /\ pass' = [Idle EXCEPT !.at = "lapse", !.due = Lapsed]
    /\ UNCHANGED <<events, made, mandate, link, time, row, signed, disabled, page, portal,
                   told>>

\* By id.
Expire(m) ==
    /\ At("lapse") /\ m \in pass.due
    /\ SetStatus(m, "expired")
    /\ pass' = [pass EXCEPT !.at = "tell-expired", !.m = m, !.due = @ \ {m}]
    /\ UNCHANGED <<events, made, link, time, row, signed, disabled, page, portal, told>>

TellExpired ==
    /\ At("tell-expired")
    /\ told' = [told EXCEPT ![pass.m].expired = @ + 1]
    /\ pass' = [pass EXCEPT !.at = "lapse"]
    /\ UNCHANGED <<events, made, mandate, link, time, row, signed, disabled, page, portal>>

\* Variant: the warning is not asked for on the row.
AllNear == {m \in Mandates : mandate[m].status = "active" /\ time[m] = "near"}

ToWarn == {m \in Mandates : /\ mandate[m].status = "active" /\ time[m] = "near"
                            /\ ~mandate[m].notified}

ListNear ==
    /\ At("lapse") /\ pass.due = {}
    /\ pass' = [pass EXCEPT !.at = "warn", !.due = ToWarn]
    /\ UNCHANGED <<events, made, mandate, link, time, row, signed, disabled, page, portal,
                   told>>

MarkWarned(m) ==
    /\ At("warn") /\ m \in pass.due
    /\ mandate' = [mandate EXCEPT ![m].notified = TRUE]
    /\ pass' = [pass EXCEPT !.at = "tell-expiring", !.m = m, !.due = @ \ {m}]
    /\ UNCHANGED <<events, made, link, time, row, signed, disabled, page, portal, told>>

TellExpiring ==
    /\ At("tell-expiring")
    /\ told' = [told EXCEPT ![pass.m].expiring = @ + 1]
    /\ pass' = [pass EXCEPT !.at = "warn"]
    /\ UNCHANGED <<events, made, mandate, link, time, row, signed, disabled, page, portal>>

EndPass ==
    /\ At("warn") /\ pass.due = {}
    /\ pass' = Idle
    /\ UNCHANGED <<events, made, mandate, link, time, row, signed, disabled, page, portal,
                   told>>

\* The process dies; the next day's pass starts over.
RestartBilling ==
    /\ Event
    /\ pass.at # "idle"
    /\ pass' = Idle
    /\ UNCHANGED <<made, mandate, link, time, row, signed, disabled, page, portal, told>>

---------------------------------------------------------------------------
(* The clock. *)

LinkExpires(m) ==
    /\ Exists(m) /\ m \in link
    /\ link' = link \ {m}
    /\ UNCHANGED <<events, made, mandate, time, row, signed, disabled, page, portal, pass,
                   told>>

TimePasses(m) ==
    /\ Exists(m) /\ time[m] # "late"
    /\ time' = [time EXCEPT ![m] = IF @ = "early" THEN "near" ELSE "late"]
    /\ UNCHANGED <<events, made, mandate, link, row, signed, disabled, page, portal, pass,
                   told>>

---------------------------------------------------------------------------

Init ==
    /\ events = 0
    /\ made = <<>>
    /\ mandate = [m \in Mandates |-> [status |-> "none", verified |-> FALSE,
                                      notified |-> FALSE, ended |-> FALSE]]
    /\ link = Mandates
    /\ time = [m \in Mandates |-> "early"]
    /\ row = [i \in Rows |-> NoRow]
    /\ signed = 0
    /\ disabled = {}
    /\ page = [p \in Pages |-> Closed]
    /\ portal = NoAsk
    /\ pass = Idle
    /\ told = [m \in Mandates |-> [active |-> 0, expiring |-> 0, expired |-> 0]]

DeveloperStep == \E m \in Mandates : CheckCreate(m) \/ Create(m) \/ Revoke(m)

PageStep(p) ==
    \/ \E m \in Mandates : Open(p, m)
    \/ Prove(p) \/ Authorize(p)
    \/ \E c \in Chains : Sign(p, c) \/ SkipChain(p, c)
    \/ FindGrant(p) \/ SaveGrant(p) \/ GrantThrows(p) \/ EndLoop(p)
    \/ ReadComplete(p) \/ WriteComplete(p) \/ CompleteThrows(p)
    \/ \E q \in Pages : Relay(p, q)
    \/ AddSkipped(p)

PayerStep ==
    \/ \E m \in Mandates, c \in Chains : PortalSign(m, c)
    \/ PortalSave \/ PortalThrows
    \/ \E x \in Contexts : Disable(x)

ReconcileStep ==
    \/ ListGrants
    \/ \E i \in Rows : SeesDisabled(i) \/ PassesOver(i) \/ RevokeRow(i)
    \/ CountRemaining \/ CloseMandate

ExpiryStep ==
    \/ ListLapsed \/ ListNear \/ EndPass
    \/ \E m \in Mandates : Expire(m) \/ MarkWarned(m)
    \/ TellExpired \/ TellExpiring

Next ==
    \/ DeveloperStep
    \/ \E p \in Pages : PageStep(p) \/ Close(p)
    \/ PayerStep
    \/ ReconcileStep \/ ExpiryStep
    \/ RestartBilling
    \/ \E m \in Mandates : LinkExpires(m) \/ TimePasses(m)

Spec == Init /\ [][Next]_vars

\* The daily job is scheduled for ever and a pass goes on; a delegation that is disabled
\* is not unreadable every day.
Fairness ==
    /\ WF_vars(ReconcileStep) /\ WF_vars(ExpiryStep)
    /\ \A i \in Rows : SF_vars(SeesDisabled(i)) /\ SF_vars(RevokeRow(i))

FairSpec == Spec /\ Fairness

---------------------------------------------------------------------------
(* Properties. *)

TypeOK ==
    /\ events \in 0..MaxEvents
    /\ made \in Seq(Mandates)
    /\ mandate \in [Mandates -> MandateRecords]
    /\ link \subseteq Mandates
    /\ time \in [Mandates -> {"early", "near", "late"}]
    /\ row \in [Rows -> RowRecords]
    /\ signed \in 0..MaxSign
    /\ disabled \subseteq Contexts
    /\ page \in [Pages -> PageRecords]
    /\ portal \in Asks
    /\ pass.at \in {"idle", "ask", "count", "close", "lapse", "tell-expired", "warn",
                    "tell-expiring"}
    /\ DOMAIN pass.rows \subseteq Rows
    /\ \A i \in DOMAIN pass.rows : pass.rows[i] \in Contexts
    /\ pass.gone \subseteq DOMAIN pass.rows
    /\ pass.due \subseteq Mandates
    /\ pass.m \in Mandates \cup {None}
    /\ told \in [Mandates -> [active : Nat, expiring : Nat, expired : Nat]]

\* No mandate is chargeable, or announced as expired, that a payer has not proved an
\* address for and signed at least one chain of, whatever pages, portals and passes race.
ActiveWasProved ==
    \A m \in Mandates :
        mandate[m].status \in {"active", "expired"} =>
            mandate[m].verified /\ \E i \in Rows : row[i] # NoRow /\ row[i].m = m

\* A grant that is revoked, and a mandate, was revoked by somebody: a request of the
\* developer or the payer, or a context of it disabled in the wallet.  A chain that does
\* not answer, or cannot be trusted, ends nothing.
RevokedForCause ==
    /\ \A i \in Rows :
          row[i].status = "revoked" =>
              mandate[row[i].m].ended \/ row[i].held \cap disabled # {}
    /\ \A m \in Mandates :
          mandate[m].status = "revoked" =>
              \/ mandate[m].ended
              \/ \E i \in Rows : row[i] # NoRow /\ row[i].m = m /\ row[i].held \cap disabled # {}

\* mandate-expiry.ts: "warn once before": one mandate.expiring per mandate at most, over
\* passes and restarts.
WarnedOnce == \A m \in Mandates : told[m].expiring <= 1

\* A deadline is announced once for each time the mandate was made active: neither a
\* restart between the write and the webhook nor a later pass repeats it.
ExpiredOncePerActivation == \A m \in Mandates : told[m].expired <= told[m].active

\* The expiry pass tells a developer of a deadline once before it and once at it.
ToldOnce == WarnedOnce /\ ExpiredOncePerActivation

\* A window says "You're set up", and its host is told so, only for a mandate that was
\* made active.
DoneIsTrue ==
    \A p \in Pages : page[p].at = "done" => told[page[p].m].active > 0

\* A delegation disabled in the wallet stops counting as a grant, unless the payer signs
\* the chain again or the deadline comes first (the pass reads unexpired rows only).
DisabledIsSeen ==
    \A i \in Rows, x \in Contexts :
        (row[i].status = "active" /\ row[i].hashed /\ row[i].ctx = x /\ x \in disabled)
        ~> (~(row[i].status = "active" /\ row[i].ctx = x) \/ time[row[i].m] = "late")
==============================================================================
