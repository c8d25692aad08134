----------------------------- MODULE MandateProofs -----------------------------
(***************************************************************************)
(* What holds of Mandate for every number of mandates, chains, rows, pages *)
(* and signatures: its types, that an active mandate was proved and signed,*)
(* that nothing is revoked without a cause, that no announcement repeats,  *)
(* and that a page does not claim a success that was not.                  *)
(***************************************************************************)
EXTENDS Mandate, TLAPS

HasRow(m) == \E i \in Rows : row[i] # NoRow /\ row[i].m = m

\* What an activation leaves behind for good.
Proved(m) == mandate[m].verified /\ HasRow(m) /\ told[m].active > 0

\* A context of the mandate was disabled in the wallet.
Cut(m) == \E i \in Rows : row[i] # NoRow /\ row[i].m = m /\ row[i].held \cap disabled # {}

\* A grant in flight has passed /grant's checks, and the row it will replace is the
\* mandate's; a completion has read a grant.
PageHolds(p) ==
    /\ page[p].at \in {"sent", "found"} =>
          /\ page[p].chain \in Chains /\ page[p].ctx \in Contexts
          /\ mandate[page[p].m].verified
    /\ page[p].at = "found" /\ page[p].found # None =>
          row[page[p].found] # NoRow /\ row[page[p].found].m = page[p].m
    /\ page[p].at = "completing" => HasRow(page[p].m)
    /\ page[p].at = "done" => told[page[p].m].active > 0

PagesHold == \A p \in Pages : PageHolds(p)

PortalHolds == portal # NoAsk => mandate[portal.m].verified

RowsHold ==
    \A i \in Rows : row[i] # NoRow => mandate[row[i].m].verified /\ row[i].ctx \in row[i].held

StatusBacked == \A m \in Mandates : mandate[m].status \in {"active", "expired"} => Proved(m)

\* What the pass has listed was there, and what it takes for gone is gone.
PassHolds ==
    /\ \A i \in DOMAIN pass.rows : row[i] # NoRow /\ pass.rows[i] \in row[i].held
    /\ \A i \in pass.gone : pass.rows[i] \in disabled
    /\ pass.at \in {"count", "close"} => pass.m \in Mandates /\ Cut(pass.m)
    /\ pass.at \in {"lapse", "tell-expired"} => \A m \in pass.due : Proved(m)
    /\ pass.at \in {"tell-expired", "tell-expiring"} => pass.m \in Mandates

\* The warning is marked on the row before it is sent.
WarningsCounted ==
    /\ \A m \in Mandates : ~mandate[m].notified => told[m].expiring = 0
    /\ pass.at \in {"warn", "tell-expiring"} => \A m \in pass.due : ~mandate[m].notified
    /\ pass.at = "tell-expiring" => mandate[pass.m].notified /\ told[pass.m].expiring = 0

\* An activation that is still to be announced as over: it stands, or the pass holds it.
Standing(m) == mandate[m].status = "active" \/ (pass.at \in {"lapse", "tell-expired"} /\ m \in pass.due)
Telling(m)  == pass.at = "tell-expired" /\ pass.m = m

ActivationsCounted ==
    \A m \in Mandates :
        /\ Standing(m) \/ Telling(m) => told[m].expired + 1 <= told[m].active
        /\ Standing(m) /\ Telling(m) => told[m].expired + 2 <= told[m].active

IInv ==
    /\ TypeOK
    /\ PagesHold /\ PortalHolds /\ RowsHold /\ StatusBacked /\ PassHolds
    /\ RevokedForCause
    /\ WarningsCounted /\ WarnedOnce
    /\ ActivationsCounted /\ ExpiredOncePerActivation

---------------------------------------------------------------------------
(* Types. *)

\* The conjuncts of TypeOK, the pass and what hardly ever changes each taken together.
PassTypes ==
    /\ pass.at \in {"idle", "ask", "count", "close", "lapse", "tell-expired", "warn", "tell-expiring"}
    /\ DOMAIN pass.rows \subseteq Rows
    /\ \A i \in DOMAIN pass.rows : pass.rows[i] \in Contexts
    /\ pass.gone \subseteq DOMAIN pass.rows
    /\ pass.due \subseteq Mandates
    /\ pass.m \in Mandates \cup {None}

MandateTypes == mandate \in [Mandates -> MandateRecords]
RowTypes     == row \in [Rows -> RowRecords]
PageTypes    == page \in [Pages -> PageRecords]
TellTypes    == told \in [Mandates -> [active : Nat, expiring : Nat, expired : Nat]]
CountTypes   == events \in 0..MaxEvents /\ signed \in 0..MaxSign
OtherTypes   == /\ made \in Seq(Mandates) /\ link \subseteq Mandates
                /\ time \in [Mandates -> {"early", "near", "late"}]
                /\ disabled \subseteq Contexts /\ portal \in Asks

Typed == PassTypes /\ MandateTypes /\ RowTypes /\ PageTypes /\ TellTypes /\ CountTypes /\ OtherTypes

LEMMA TypeParts == TypeOK <=> Typed
BY DEF TypeOK, Typed, PassTypes, MandateTypes, RowTypes, PageTypes, TellTypes, CountTypes, OtherTypes

LEMMA TypePartsNext == TypeOK' <=> Typed'
BY DEF TypeOK, Typed, PassTypes, MandateTypes, RowTypes, PageTypes, TellTypes, CountTypes, OtherTypes

\* A part whose variables stay is kept.
LEMMA PartsStay ==
  /\ PassTypes /\ pass' = pass => PassTypes'
  /\ MandateTypes /\ mandate' = mandate => MandateTypes'
  /\ RowTypes /\ row' = row => RowTypes'
  /\ PageTypes /\ page' = page => PageTypes'
  /\ TellTypes /\ told' = told => TellTypes'
  /\ CountTypes /\ events' = events /\ signed' = signed => CountTypes'
  /\ OtherTypes /\ UNCHANGED <<made, link, time, disabled, portal>> => OtherTypes'
BY DEF PassTypes, MandateTypes, RowTypes, PageTypes, TellTypes, CountTypes, OtherTypes

\* Writing a status, and a flag.
LEMMA StatusTyped ==
  ASSUME MandateTypes, NEW m \in Mandates,
         NEW s \in {"none", "checked", "pending", "active", "revoked", "expired"},
         mandate' = [mandate EXCEPT ![m].status = s]
  PROVE  MandateTypes'
BY DEF MandateTypes, MandateRecords

\* What a page holds that is not closed, and a row that is there.
LEMMA OpenPage ==
  ASSUME TypeOK, NEW p \in Pages, page[p].at # "closed"
  PROVE  /\ page[p].at \in {"review", "signing", "sent", "found", "finishing", "completing", "done", "gone"}
         /\ page[p].m \in Mandates /\ page[p].granted \subseteq Chains /\ page[p].todo \subseteq Chains
         /\ page[p].chain \in Chains \cup {None} /\ page[p].ctx \in 0..MaxSign
         /\ page[p].found \in Rows \cup {None}
         /\ page[p] \in PageRecords \ {Closed}
BY DEF TypeOK, PageRecords, Closed

LEMMA RowThere ==
  ASSUME TypeOK, NEW i \in Rows, row[i] # NoRow
  PROVE  /\ row[i].status \in {"active", "revoked"} /\ row[i].m \in Mandates /\ row[i].chain \in Chains
         /\ row[i].ctx \in Contexts /\ row[i].hashed \in BOOLEAN /\ row[i].held \subseteq Contexts
         /\ row[i] \in RowRecords \ {NoRow}
BY DEF TypeOK, RowRecords

LEMMA ActiveIsThere ==
  ASSUME NEW i \in Rows, row[i].status \in {"active", "revoked"}
  PROVE  row[i] # NoRow
BY DEF NoRow

\* The steps that write only the window they are about.
PageOnly(p) ==
    \/ \E m \in Mandates : Open(p, m)
    \/ Authorize(p) \/ FindGrant(p) \/ GrantThrows(p) \/ EndLoop(p) \/ ReadComplete(p)
    \/ CompleteThrows(p) \/ AddSkipped(p)
    \/ \E c \in Chains : SkipChain(p, c)
    \/ \E q \in Pages : Relay(p, q)

PageStays == UNCHANGED <<made, mandate, link, time, row, signed, disabled, portal, pass, told>>

LEMMA TypesPageOnly ==
  ASSUME TypeOK, NEW p \in Pages, PageOnly(p) \/ Close(p)
  PROVE  TypeOK' /\ PageStays
<1> USE DEF PageStays
<1>1. ASSUME page' \in [Pages -> PageRecords], events' \in 0..MaxEvents, PageStays
      PROVE  TypeOK'
  BY <1>1 DEF TypeOK
<1>2. page \in [Pages -> PageRecords] /\ events \in 0..MaxEvents
  BY DEF TypeOK
<1>3. ASSUME NEW m \in Mandates, Open(p, m)
      PROVE  TypeOK' /\ PageStays
  <2>1. Shown(m) \in {"review", "done", "gone"}
    BY DEF Shown
  <2>2. Granted(m) \subseteq Chains
    BY RowThere, ActiveIsThere DEF Granted, RowsOf
  <2>3. [at |-> Shown(m), m |-> m, granted |-> Granted(m), proved |-> FALSE, todo |-> {}, saved |-> FALSE,
         chain |-> None, ctx |-> 0, found |-> None] \in PageRecords
    BY <2>1, <2>2, BoundsAssumption DEF PageRecords
  <2> HIDE DEF PageStays
  <2>4. page' \in [Pages -> PageRecords]
    BY <1>2, <1>3, <2>3 DEF Open
  <2> QED BY <1>1, <1>2, <1>3, <2>4 DEF Open, PageStays
<1>4. CASE Authorize(p)
  <2>1. PICK S \in SUBSET Chains :
           page' = [page EXCEPT ![p].at = "signing", ![p].todo = S, ![p].saved = FALSE]
    BY <1>4 DEF Authorize
  <2>2. [page[p] EXCEPT !.at = "signing", !.todo = S, !.saved = FALSE] \in PageRecords
    <3>1. [page[p] EXCEPT !.todo = S] \in PageRecords \ {Closed}
      BY <1>4, OpenPage DEF Authorize, PageRecords, Closed
    <3>2. [page[p] EXCEPT !.at = "signing", !.todo = S, !.saved = FALSE]
             = [[page[p] EXCEPT !.todo = S] EXCEPT !.at = "signing", !.saved = FALSE]
      OBVIOUS
    <3> QED BY <3>1, <3>2 DEF PageRecords
  <2>3. page' \in [Pages -> PageRecords]
    BY <1>2, <2>1, <2>2
  <2> QED BY <1>1, <1>2, <1>4, <2>3 DEF Authorize
<1>5. CASE FindGrant(p)
  <2>1. PICK i \in Rows \cup {None} : page' = [page EXCEPT ![p].at = "found", ![p].found = i]
    BY <1>5 DEF FindGrant, RowsOn, RowsOf
  <2>2. page' \in [Pages -> PageRecords]
    <3>1. [page[p] EXCEPT !.found = i] \in PageRecords \ {Closed}
      <4>1. page[p] \in PageRecords \ {Closed}
        BY <1>5, OpenPage DEF FindGrant
      <4> QED BY <4>1, SMT DEF PageRecords, Closed
    <3>2. \A r \in PageRecords \ {Closed} : [r EXCEPT !.at = "found"] \in PageRecords
      BY DEF PageRecords, Closed
    <3>3. [page[p] EXCEPT !.at = "found", !.found = i]
             = [[page[p] EXCEPT !.found = i] EXCEPT !.at = "found"]
      OBVIOUS
    <3>4. [page[p] EXCEPT !.at = "found", !.found = i] \in PageRecords
      BY <3>1, <3>2, <3>3
    <3> QED BY <1>2, <2>1, <3>4
  <2> QED BY <1>1, <1>2, <1>5, <2>2 DEF FindGrant
<1>6. ASSUME page[p].at # "closed",
             NEW to \in {"review", "signing", "finishing", "completing", "done"},
             page' = [page EXCEPT ![p].at = to]
      PROVE  page' \in [Pages -> PageRecords]
  BY <1>2, <1>6 DEF PageRecords, Closed
<1>7. CASE GrantThrows(p) \/ EndLoop(p)
  BY <1>1, <1>2, <1>6, <1>7 DEF GrantThrows, EndLoop, Goto
<1>8. CASE ReadComplete(p)
  BY <1>1, <1>2, <1>6, <1>8 DEF ReadComplete, Goto
<1>9. CASE CompleteThrows(p) \/ AddSkipped(p)
  BY <1>1, <1>2, <1>6, <1>9 DEF CompleteThrows, AfterThrow, AddSkipped, Goto
<1>10. ASSUME NEW q \in Pages, Relay(p, q)
       PROVE  TypeOK' /\ PageStays
  BY <1>1, <1>2, <1>6, <1>10 DEF Relay, Goto
<1>11. ASSUME NEW c \in Chains, SkipChain(p, c)
       PROVE  TypeOK' /\ PageStays
  <2>1. page' \in [Pages -> PageRecords]
    BY <1>2, <1>11 DEF SkipChain, PageRecords, Closed
  <2> QED BY <1>1, <1>2, <1>11, <2>1 DEF SkipChain
<1>12. CASE Close(p)
  <2>1. page' \in [Pages -> PageRecords]
    BY <1>2, <1>12 DEF Close, PageRecords
  <2>2. events' \in 0..MaxEvents
    BY <1>2, <1>12, BoundsAssumption DEF Close, Event
  <2> QED BY <1>1, <1>12, <2>1, <2>2 DEF Close
<1> QED BY <1>3, <1>4, <1>5, <1>7, <1>8, <1>9, <1>10, <1>11, <1>12 DEF PageOnly

LEMMA TypesPageWrites ==
  ASSUME IInv, NEW p \in Pages,
         \/ Prove(p) \/ SaveGrant(p) \/ WriteComplete(p)
         \/ \E c \in Chains : Sign(p, c)
  PROVE  TypeOK'
<1>1. TypeOK /\ Typed
  BY TypeParts DEF IInv
<1>2. CASE Prove(p)
  <2>1. page[p].m \in Mandates /\ page[p] \in PageRecords \ {Closed}
    BY <1>1, <1>2, OpenPage DEF Prove
  <2>2. MandateTypes'
    <3>1. [mandate[page[p].m] EXCEPT !.verified = TRUE] \in MandateRecords
      BY <1>1, <2>1 DEF Typed, MandateTypes, MandateRecords
    <3>2. mandate' = [mandate EXCEPT ![page[p].m].verified = TRUE]
      BY <1>2 DEF Prove
    <3> QED BY <1>1, <2>1, <3>1, <3>2 DEF Typed, MandateTypes
  <2>3. PageTypes'
    <3>1. [page[p] EXCEPT !.proved = TRUE] \in PageRecords
      BY <2>1 DEF PageRecords, Closed
    <3>2. page' = [page EXCEPT ![p].proved = TRUE]
      BY <1>2 DEF Prove
    <3> QED BY <1>1, <3>1, <3>2 DEF Typed, PageTypes
  <2>4. UNCHANGED <<events, made, link, time, row, signed, disabled, portal, pass, told>>
    BY <1>2 DEF Prove
  <2> QED BY <1>1, <2>2, <2>3, <2>4, PartsStay, TypePartsNext DEF Typed
<1>3. ASSUME NEW c \in Chains, Sign(p, c)
      PROVE  TypeOK'
  <2>1. signed' \in 0..MaxSign
    <3>1. signed \in 0..MaxSign /\ signed < MaxSign /\ signed' = signed + 1
      BY <1>1, <1>3 DEF Sign, Typed, CountTypes
    <3> QED BY <3>1, BoundsAssumption
  <2>2. PageTypes'
    <3> DEFINE q == [page[p] EXCEPT !.chain = c, !.ctx = signed']
    <3>1. q \in PageRecords \ {Closed}
      <4>1. page[p] \in PageRecords \ {Closed} /\ c \in Chains \cup {None}
        BY <1>1, <1>3, OpenPage DEF Sign
      <4>2. [page[p] EXCEPT !.chain = c] \in PageRecords \ {Closed}
        BY <4>1 DEF PageRecords, Closed
      <4>3. \A x \in 0..MaxSign, u \in PageRecords \ {Closed} : [u EXCEPT !.ctx = x] \in PageRecords \ {Closed}
        BY DEF PageRecords, Closed
      <4>4. [[page[p] EXCEPT !.chain = c] EXCEPT !.ctx = signed'] \in PageRecords \ {Closed}
        BY <2>1, <4>2, <4>3
      <4> QED BY <4>4
    <3>2. [q EXCEPT !.at = "sent", !.todo = @ \ {c}] \in PageRecords
      BY <3>1 DEF PageRecords
    <3>3. [page[p] EXCEPT !.at = "sent", !.chain = c, !.ctx = signed', !.todo = @ \ {c}]
             = [q EXCEPT !.at = "sent", !.todo = @ \ {c}]
      OBVIOUS
    <3>4. [page[p] EXCEPT !.at = "sent", !.chain = c, !.ctx = signed', !.todo = @ \ {c}] \in PageRecords
      BY <3>2, <3>3
    <3>5. page' = [page EXCEPT ![p].at = "sent", ![p].chain = c, ![p].ctx = signed', ![p].todo = @ \ {c}]
      BY <1>3 DEF Sign
    <3> QED BY <1>1, <3>4, <3>5 DEF Typed, PageTypes
  <2>3. UNCHANGED <<events, made, mandate, link, time, row, disabled, portal, pass, told>>
    BY <1>3 DEF Sign
  <2>4. CountTypes'
    BY <1>1, <2>1, <2>3 DEF Typed, CountTypes
  <2> QED BY <1>1, <2>2, <2>3, <2>4, PartsStay, TypePartsNext DEF Typed
<1>4. CASE SaveGrant(p)
  <2>1. /\ page[p].chain \in Chains /\ page[p].ctx \in Contexts
        /\ page[p].m \in Mandates /\ page[p].found \in Rows \cup {None}
        /\ page[p].found # None => row[page[p].found] # NoRow
    BY <1>1, <1>4, OpenPage DEF SaveGrant, IInv, PagesHold, PageHolds
  <2>2. \A h \in BOOLEAN, past \in SUBSET Contexts :
           RowFor(page[p].m, page[p].chain, page[p].ctx, h, past) \in RowRecords
    BY <2>1 DEF RowFor, RowRecords
  <2>3. RowTypes'
    <3>1. CASE page[p].found = None
      BY <1>1, <1>4, <2>2, <3>1 DEF SaveGrant, Insert, Typed, RowTypes
    <3>2. CASE page[p].found # None
      <4>1. row[page[p].found].held \in SUBSET Contexts
        BY <1>1, <2>1, <3>2, RowThere
      <4> QED BY <1>1, <1>4, <2>2, <3>2, <4>1 DEF SaveGrant, Replace, Typed, RowTypes
    <3> QED BY <3>1, <3>2
  <2>4. PageTypes'
    BY <1>1, <1>4, <2>1 DEF SaveGrant, PageRecords, Closed, Typed, PageTypes
  <2>5. UNCHANGED <<events, made, mandate, link, time, signed, disabled, portal, pass, told>>
    BY <1>4 DEF SaveGrant
  <2> QED BY <1>1, <2>3, <2>4, <2>5, PartsStay, TypePartsNext DEF Typed
<1>5. CASE WriteComplete(p)
  <2>1. page[p].m \in Mandates
    BY <1>1, <1>5, OpenPage DEF WriteComplete, Goto
  <2>2. MandateTypes'
    BY <1>1, <1>5, <2>1, StatusTyped DEF WriteComplete, SetStatus, Typed
  <2>3. PageTypes'
    BY <1>1, <1>5 DEF WriteComplete, Goto, PageRecords, Closed, Typed, PageTypes
  <2>4. TellTypes'
    <3>1. told' = [told EXCEPT ![page[p].m].active = @ + 1]
      BY <1>5 DEF WriteComplete
    <3>2. [told[page[p].m] EXCEPT !.active = @ + 1] \in [active : Nat, expiring : Nat, expired : Nat]
      BY <1>1, <2>1 DEF Typed, TellTypes
    <3> QED BY <1>1, <2>1, <3>1, <3>2 DEF Typed, TellTypes
  <2>5. UNCHANGED <<events, made, link, time, row, signed, disabled, portal, pass>>
    BY <1>5 DEF WriteComplete
  <2> QED BY <1>1, <2>2, <2>3, <2>4, <2>5, PartsStay, TypePartsNext DEF Typed
<1> QED BY <1>2, <1>3, <1>4, <1>5

LEMMA TypesOthers ==
  ASSUME IInv, DeveloperStep \/ PayerStep \/ (\E m \in Mandates : LinkExpires(m) \/ TimePasses(m)) \/ UNCHANGED vars
  PROVE  TypeOK'
<1>1. TypeOK /\ Typed
  BY TypeParts DEF IInv
<1>2. ASSUME NEW m \in Mandates, CheckCreate(m)
      PROVE  TypeOK'
  <2>1. MandateTypes'
    BY <1>1, <1>2, StatusTyped DEF CheckCreate, SetStatus, Typed
  <2> QED BY <1>1, <1>2, <2>1, PartsStay, TypePartsNext DEF CheckCreate, Typed
<1>3. ASSUME NEW m \in Mandates, Create(m)
      PROVE  TypeOK'
  <2>1. MandateTypes'
    BY <1>1, <1>3, StatusTyped DEF Create, SetStatus, Typed
  <2>2. OtherTypes'
    BY <1>1, <1>3 DEF Create, Typed, OtherTypes
  <2> QED BY <1>1, <1>3, <2>1, <2>2, PartsStay, TypePartsNext DEF Create, Typed
<1>4. ASSUME NEW m \in Mandates, Revoke(m)
      PROVE  TypeOK'
  <2>1. RowTypes'
    BY <1>1, <1>4, ActiveIsThere DEF Revoke, RowsOf, RowRecords, Typed, RowTypes
  <2>2. MandateTypes'
    <3>1. mandate' = [mandate EXCEPT ![m].status = "revoked", ![m].ended = TRUE]
      BY <1>4 DEF Revoke
    <3>2. [mandate[m] EXCEPT !.status = "revoked", !.ended = TRUE] \in MandateRecords
      BY <1>1 DEF Typed, MandateTypes, MandateRecords
    <3> QED BY <1>1, <3>1, <3>2 DEF Typed, MandateTypes
  <2>3. CountTypes'
    BY <1>1, <1>4, BoundsAssumption DEF Revoke, Event, Typed, CountTypes
  <2> QED BY <1>1, <1>4, <2>1, <2>2, <2>3, PartsStay, TypePartsNext DEF Revoke, Typed
<1>5. ASSUME NEW m \in Mandates, NEW c \in Chains, PortalSign(m, c)
      PROVE  TypeOK'
  <2>1. CountTypes'
    BY <1>1, <1>5, BoundsAssumption DEF PortalSign, Typed, CountTypes
  <2>2. signed' \in Contexts
    BY <1>1, <1>5, BoundsAssumption DEF PortalSign, Typed, CountTypes, Contexts
  <2>3. portal' \in Asks
    BY <1>5, <2>2 DEF PortalSign, Asks
  <2>4. OtherTypes'
    BY <1>1, <1>5, <2>3 DEF PortalSign, Typed, OtherTypes
  <2> QED BY <1>1, <1>5, <2>1, <2>4, PartsStay, TypePartsNext DEF PortalSign, Typed
<1>6. CASE PortalSave \/ PortalThrows
  <2>1. OtherTypes'
    <3>1. portal' = NoAsk /\ UNCHANGED <<made, link, time, disabled>>
      BY <1>6 DEF PortalSave, PortalThrows
    <3>2. NoAsk \in Asks
      BY DEF Asks
    <3> QED BY <1>1, <3>1, <3>2 DEF Typed, OtherTypes
  <2>2. RowTypes'
    <3>1. CASE PortalSave
      <4>1. portal.m \in Mandates /\ portal.chain \in Chains /\ portal.ctx \in Contexts
        BY <1>1, <3>1 DEF PortalSave, Typed, OtherTypes, Asks
      <4> QED BY <1>1, <3>1, <4>1 DEF PortalSave, Insert, RowFor, RowRecords, Typed, RowTypes
    <3>2. CASE PortalThrows
      BY <1>1, <3>2, PartsStay DEF PortalThrows, Typed
    <3> QED BY <1>6, <3>1, <3>2
  <2>3. UNCHANGED <<events, mandate, signed, page, pass, told>>
    BY <1>6 DEF PortalSave, PortalThrows
  <2> QED BY <1>1, <2>1, <2>2, <2>3, PartsStay, TypePartsNext DEF Typed
<1>7. ASSUME NEW x \in Contexts, Disable(x)
      PROVE  TypeOK'
  <2>1. CountTypes'
    BY <1>1, <1>7, BoundsAssumption DEF Disable, Event, Typed, CountTypes
  <2>2. OtherTypes'
    BY <1>1, <1>7 DEF Disable, Typed, OtherTypes
  <2> QED BY <1>1, <1>7, <2>1, <2>2, PartsStay, TypePartsNext DEF Disable, Typed
<1>8. ASSUME NEW m \in Mandates, LinkExpires(m) \/ TimePasses(m)
      PROVE  TypeOK'
  <2>1. OtherTypes'
    BY <1>1, <1>8 DEF LinkExpires, TimePasses, Typed, OtherTypes
  <2>2. UNCHANGED <<events, mandate, row, signed, page, pass, told>>
    BY <1>8 DEF LinkExpires, TimePasses
  <2> QED BY <1>1, <2>1, <2>2, PartsStay, TypePartsNext DEF Typed
<1>9. CASE UNCHANGED vars
  BY <1>1, <1>9, PartsStay, TypePartsNext DEF vars, Typed
<1> QED BY <1>2, <1>3, <1>4, <1>5, <1>6, <1>7, <1>8, <1>9 DEF DeveloperStep, PayerStep

PassStep == ReconcileStep \/ ExpiryStep \/ RestartBilling

\* The pass never writes a window, nor anything of the developer's or the payer's.
PassStays == UNCHANGED <<made, link, time, signed, disabled, page, portal>>

LEMMA PassFrame ==
  ASSUME PassStep
  PROVE  PassStays
<1>1. CASE ListGrants \/ CountRemaining \/ CloseMandate \/ ListLapsed \/ ListNear \/ EndPass
  BY <1>1 DEF PassStays, ListGrants, CountRemaining, CloseMandate, ListLapsed, ListNear, EndPass
<1>2. CASE \E i \in Rows : SeesDisabled(i) \/ PassesOver(i) \/ RevokeRow(i)
  BY <1>2 DEF PassStays, SeesDisabled, PassesOver, RevokeRow
<1>3. CASE \E m \in Mandates : Expire(m) \/ MarkWarned(m)
  BY <1>3 DEF PassStays, Expire, MarkWarned
<1>4. CASE TellExpired \/ TellExpiring \/ RestartBilling
  BY <1>4 DEF PassStays, TellExpired, TellExpiring, RestartBilling
<1> QED BY <1>1, <1>2, <1>3, <1>4 DEF PassStep, ReconcileStep, ExpiryStep

LEMMA TypesPass ==
  ASSUME IInv, PassStep
  PROVE  TypeOK'
<1>1. TypeOK /\ Typed /\ PassHolds
  BY TypeParts DEF IInv
<1>2. OtherTypes' /\ PageTypes'
  BY <1>1, PassFrame, PartsStay DEF PassStays, Typed
<1>3. ASSUME PassTypes', UNCHANGED <<events, mandate, row, signed, told>>
      PROVE  TypeOK'
  BY <1>1, <1>2, <1>3, PartsStay, TypePartsNext DEF Typed
<1>4. ASSUME PassTypes', MandateTypes', UNCHANGED <<events, row, signed, told>>
      PROVE  TypeOK'
  BY <1>1, <1>2, <1>4, PartsStay, TypePartsNext DEF Typed
<1>5. CASE ListGrants
  <2>1. \A i \in Checkable : i \in Rows /\ row[i].ctx \in Contexts
    BY <1>1, RowThere, ActiveIsThere DEF Checkable
  <2>2. /\ pass'.at = "ask" /\ pass'.rows = [i \in Checkable |-> row[i].ctx]
        /\ pass'.gone = {} /\ pass'.due = {} /\ pass'.m = None
    BY <1>5 DEF ListGrants, Idle
  <2>3. PassTypes'
    BY <2>1, <2>2 DEF PassTypes
  <2> QED BY <1>3, <1>5, <2>3 DEF ListGrants
<1>6. ASSUME NEW i \in Rows, SeesDisabled(i) \/ PassesOver(i)
      PROVE  TypeOK'
  <2>1. CASE SeesDisabled(i)
    <3>1. PassTypes'
      BY <1>1, <2>1 DEF SeesDisabled, Typed, PassTypes
    <3> QED BY <1>3, <2>1, <3>1 DEF SeesDisabled
  <2>2. CASE PassesOver(i)
    <3>1. PassTypes'
      BY <1>1, <2>2 DEF PassesOver, AfterUnread, Without, Typed, PassTypes
    <3> QED BY <1>3, <2>2, <3>1 DEF PassesOver
  <2> QED BY <1>6, <2>1, <2>2
<1>7. ASSUME NEW i \in Rows, RevokeRow(i)
      PROVE  TypeOK'
  <2>1. row[i] # NoRow
    BY <1>1, <1>7 DEF RevokeRow, Answered, Typed, PassTypes, PassHolds
  <2>2. row[i] \in RowRecords \ {NoRow} /\ row[i].m \in Mandates
    BY <1>1, <2>1, RowThere
  <2>3. RowTypes'
    <3>1. [row[i] EXCEPT !.status = "revoked"] \in RowRecords
      BY <2>2 DEF RowRecords
    <3>2. row' = [row EXCEPT ![i].status = "revoked"]
      BY <1>7 DEF RevokeRow
    <3> QED BY <1>1, <3>1, <3>2 DEF Typed, RowTypes
  <2>4. PassTypes'
    BY <1>1, <1>7, <2>2 DEF RevokeRow, Without, Typed, PassTypes
  <2>5. UNCHANGED <<events, mandate, signed, told>>
    BY <1>7 DEF RevokeRow
  <2> QED BY <1>1, <1>2, <2>3, <2>4, <2>5, PartsStay, TypePartsNext DEF Typed
<1>8. CASE CountRemaining
  <2>1. PassTypes'
    BY <1>1, <1>8 DEF CountRemaining, Typed, PassTypes
  <2> QED BY <1>3, <1>8, <2>1 DEF CountRemaining
<1>9. CASE CloseMandate
  <2>1. PassTypes'
    BY <1>1, <1>9 DEF CloseMandate, Typed, PassTypes
  <2>2. MandateTypes'
    <3>1. pass.m \in Mandates
      BY <1>1, <1>9 DEF CloseMandate, At, PassHolds
    <3>2. CASE mandate[pass.m].status \in Live
      BY <1>1, <1>9, <3>1, <3>2, StatusTyped DEF CloseMandate, SetStatus, Typed
    <3>3. CASE mandate[pass.m].status \notin Live
      BY <1>1, <1>9, <3>3, PartsStay DEF CloseMandate, Typed
    <3> QED BY <3>2, <3>3
  <2> QED BY <1>4, <1>9, <2>1, <2>2 DEF CloseMandate
<1>10. CASE ListLapsed
  <2>1. pass'.at = "lapse" /\ pass'.rows = <<>> /\ pass'.gone = {} /\ pass'.due = Lapsed /\ pass'.m = None
    BY <1>10 DEF ListLapsed, Idle
  <2>2. PassTypes'
    BY <2>1 DEF Lapsed, PassTypes
  <2> QED BY <1>3, <1>10, <2>2 DEF ListLapsed
<1>11. CASE ListNear
  <2>1. PassTypes'
    BY <1>1, <1>11 DEF ListNear, ToWarn, Typed, PassTypes
  <2> QED BY <1>3, <1>11, <2>1 DEF ListNear
<1>12. CASE EndPass \/ RestartBilling
  <2>1. pass' = Idle /\ UNCHANGED <<mandate, row, signed, told>>
    BY <1>12 DEF EndPass, RestartBilling
  <2>2. PassTypes'
    BY <2>1 DEF Idle, PassTypes
  <2>3. CountTypes'
    BY <1>1, <1>12, <2>1, BoundsAssumption DEF EndPass, RestartBilling, Event, Typed, CountTypes
  <2> QED BY <1>1, <1>2, <2>1, <2>2, <2>3, PartsStay, TypePartsNext DEF Typed
<1>13. ASSUME NEW m \in Mandates, Expire(m)
       PROVE  TypeOK'
  <2>1. MandateTypes'
    BY <1>1, <1>13, StatusTyped DEF Expire, SetStatus, Typed
  <2>2. PassTypes'
    BY <1>1, <1>13 DEF Expire, Typed, PassTypes
  <2> QED BY <1>4, <1>13, <2>1, <2>2 DEF Expire
<1>14. ASSUME NEW m \in Mandates, MarkWarned(m)
       PROVE  TypeOK'
  <2>1. MandateTypes'
    <3>1. [mandate[m] EXCEPT !.notified = TRUE] \in MandateRecords
      BY <1>1 DEF Typed, MandateTypes, MandateRecords
    <3>2. mandate' = [mandate EXCEPT ![m].notified = TRUE]
      BY <1>14 DEF MarkWarned
    <3> QED BY <1>1, <3>1, <3>2 DEF Typed, MandateTypes
  <2>2. PassTypes'
    BY <1>1, <1>14 DEF MarkWarned, Typed, PassTypes
  <2> QED BY <1>4, <1>14, <2>1, <2>2 DEF MarkWarned
<1>15. CASE TellExpired \/ TellExpiring
  <2>1. pass.m \in Mandates
    BY <1>1, <1>15 DEF TellExpired, TellExpiring, At, PassHolds
  <2>2. TellTypes'
    <3>1. told' = [told EXCEPT ![pass.m].expired = @ + 1] \/ told' = [told EXCEPT ![pass.m].expiring = @ + 1]
      BY <1>15 DEF TellExpired, TellExpiring
    <3>2. /\ [told[pass.m] EXCEPT !.expired = @ + 1] \in [active : Nat, expiring : Nat, expired : Nat]
          /\ [told[pass.m] EXCEPT !.expiring = @ + 1] \in [active : Nat, expiring : Nat, expired : Nat]
      BY <1>1, <2>1 DEF Typed, TellTypes
    <3> QED BY <1>1, <2>1, <3>1, <3>2 DEF Typed, TellTypes
  <2>3. PassTypes'
    <3>1. CASE TellExpired
      BY <1>1, <3>1 DEF TellExpired, Typed, PassTypes
    <3>2. CASE TellExpiring
      BY <1>1, <3>2 DEF TellExpiring, Typed, PassTypes
    <3> QED BY <1>15, <3>1, <3>2
  <2>4. UNCHANGED <<events, mandate, row, signed>>
    BY <1>15 DEF TellExpired, TellExpiring
  <2> QED BY <1>1, <1>2, <2>2, <2>3, <2>4, PartsStay, TypePartsNext DEF Typed
<1> QED BY <1>5, <1>6, <1>7, <1>8, <1>9, <1>10, <1>11, <1>12, <1>13, <1>14, <1>15
    DEF PassStep, ReconcileStep, ExpiryStep

\* The other steps outside the windows leave the windows and the pass alone.
LEMMA OthersFrame ==
  ASSUME DeveloperStep \/ PayerStep \/ (\E m \in Mandates : LinkExpires(m) \/ TimePasses(m)) \/ UNCHANGED vars
  PROVE  page' = page /\ pass' = pass
<1>1. CASE DeveloperStep
  BY <1>1 DEF DeveloperStep, CheckCreate, Create, Revoke
<1>2. CASE PayerStep
  BY <1>2 DEF PayerStep, PortalSign, PortalSave, PortalThrows, Disable
<1>3. CASE (\E m \in Mandates : LinkExpires(m) \/ TimePasses(m)) \/ UNCHANGED vars
  BY <1>3 DEF LinkExpires, TimePasses, vars
<1> QED BY <1>1, <1>2, <1>3

---------------------------------------------------------------------------
(* What no step takes back. *)

\* The steps outside the pass that write more than a window.
PageWrites(p) ==
    \/ Prove(p) \/ SaveGrant(p) \/ WriteComplete(p)
    \/ \E c \in Chains : Sign(p, c)

LEMMA Cases ==
  ASSUME [Next]_vars
  PROVE  \/ \E p \in Pages : PageOnly(p) \/ Close(p) \/ PageWrites(p)
         \/ DeveloperStep \/ PayerStep
         \/ PassStep
         \/ (\E m \in Mandates : LinkExpires(m) \/ TimePasses(m)) \/ UNCHANGED vars
BY DEF Next, PageStep, PageOnly, PageWrites, PassStep

LEMMA TypesKept ==
  ASSUME IInv, [Next]_vars
  PROVE  TypeOK'
BY Cases, TypesPageOnly, TypesPageWrites, TypesOthers, TypesPass DEF PageWrites, IInv

MandatesKept ==
    \A m \in Mandates :
        /\ mandate[m].verified => mandate'[m].verified
        /\ mandate[m].ended => mandate'[m].ended
        /\ told[m].active <= told'[m].active

RowsKept ==
    \A i \in Rows : row[i] # NoRow =>
        row'[i] # NoRow /\ row'[i].m = row[i].m /\ row[i].held \subseteq row'[i].held

LEMMA KeepsMandates ==
  ASSUME IInv, [Next]_vars
  PROVE  MandatesKept
<1>1. /\ mandate \in [Mandates -> MandateRecords]
      /\ told \in [Mandates -> [active : Nat, expiring : Nat, expired : Nat]]
  BY DEF IInv, TypeOK
<1>2. CASE UNCHANGED <<mandate, told>>
  BY <1>1, <1>2 DEF MandatesKept
<1>3. ASSUME NEW p \in Pages, PageOnly(p) \/ Close(p) \/ PageWrites(p)
      PROVE  MandatesKept
  <2>1. CASE PageOnly(p) \/ Close(p)
    BY <1>2, <2>1, TypesPageOnly DEF PageStays, IInv
  <2>2. CASE Prove(p)
    BY <1>1, <2>2 DEF Prove, MandatesKept, MandateRecords
  <2>3. CASE WriteComplete(p)
    BY <1>1, <2>3 DEF WriteComplete, SetStatus, MandatesKept, MandateRecords
  <2>4. CASE SaveGrant(p) \/ \E c \in Chains : Sign(p, c)
    BY <1>2, <2>4 DEF SaveGrant, Sign
  <2> QED BY <1>3, <2>1, <2>2, <2>3, <2>4 DEF PageWrites
<1>4. ASSUME NEW m \in Mandates, CheckCreate(m) \/ Create(m) \/ Revoke(m)
      PROVE  MandatesKept
  <2>1. CASE CheckCreate(m) \/ Create(m)
    <3>1. told' = told /\ \E s : mandate' = [mandate EXCEPT ![m].status = s]
      BY <2>1 DEF CheckCreate, Create, SetStatus
    <3> QED BY <1>1, <3>1 DEF MandatesKept, MandateRecords
  <2>2. CASE Revoke(m)
    BY <1>1, <2>2 DEF Revoke, MandatesKept, MandateRecords
  <2> QED BY <1>4, <2>1, <2>2
<1>5. CASE PayerStep \/ (\E m \in Mandates : LinkExpires(m) \/ TimePasses(m)) \/ UNCHANGED vars
  BY <1>2, <1>5 DEF PayerStep, PortalSign, PortalSave, PortalThrows, Disable, LinkExpires, TimePasses, vars
<1>6. CASE PassStep
  <2>1. ASSUME NEW m \in Mandates, Expire(m) \/ MarkWarned(m)
        PROVE  MandatesKept
    <3>1. CASE Expire(m)
      BY <1>1, <3>1 DEF Expire, SetStatus, MandatesKept, MandateRecords
    <3>2. CASE MarkWarned(m)
      BY <1>1, <3>2 DEF MarkWarned, MandatesKept, MandateRecords
    <3> QED BY <2>1, <3>1, <3>2
  <2>2. CASE CloseMandate
    <3>1. pass.m \in Mandates
      BY <2>2 DEF CloseMandate, At, IInv, PassHolds
    <3> QED BY <1>1, <2>2, <3>1 DEF CloseMandate, SetStatus, MandatesKept, MandateRecords
  <2>3. CASE TellExpired \/ TellExpiring
    BY <1>1, <2>3 DEF TellExpired, TellExpiring, MandatesKept
  <2>4. ASSUME NEW i \in Rows, SeesDisabled(i) \/ PassesOver(i) \/ RevokeRow(i)
        PROVE  MandatesKept
    BY <1>2, <2>4 DEF SeesDisabled, PassesOver, RevokeRow
  <2>5. CASE ListGrants \/ CountRemaining \/ ListLapsed \/ ListNear \/ EndPass \/ RestartBilling
    BY <1>2, <2>5 DEF ListGrants, CountRemaining, ListLapsed, ListNear, EndPass, RestartBilling
  <2> QED BY <1>6, <2>1, <2>2, <2>3, <2>4, <2>5 DEF PassStep, ReconcileStep, ExpiryStep
<1> QED BY <1>3, <1>4, <1>5, <1>6, Cases DEF DeveloperStep

\* The four steps that write a row, and what they write.
LEMMA SavedRow ==
  ASSUME IInv, NEW p \in Pages, SaveGrant(p)
  PROVE  \E i \in Rows, h \in BOOLEAN, past \in SUBSET Contexts :
            /\ row' = [row EXCEPT ![i] = RowFor(page[p].m, page[p].chain, page[p].ctx, h, past)]
            /\ row[i] # NoRow => row[i].m = page[p].m /\ past = row[i].held
<1>1. page[p].found \in Rows \cup {None}
  BY OpenPage DEF SaveGrant, IInv
<1>2. CASE page[p].found = None
  BY <1>2 DEF SaveGrant, Insert
<1>3. CASE page[p].found # None
  <2>1. /\ page[p].found \in Rows /\ row[page[p].found] # NoRow
        /\ row[page[p].found].m = page[p].m
    BY <1>1, <1>3 DEF SaveGrant, IInv, PagesHold, PageHolds
  <2>2. row[page[p].found].held \in SUBSET Contexts
    BY <2>1, RowThere DEF IInv
  <2> QED BY <1>3, <2>1, <2>2 DEF SaveGrant, Replace
<1> QED BY <1>2, <1>3

LEMMA KeepsRows ==
  ASSUME IInv, [Next]_vars
  PROVE  RowsKept /\ disabled \subseteq disabled'
<1>1. row \in [Rows -> RowRecords] /\ TypeOK
  BY DEF IInv, TypeOK
<1>2. CASE UNCHANGED <<row, disabled>>
  BY <1>2 DEF RowsKept
<1>3. ASSUME NEW p \in Pages, PageOnly(p) \/ Close(p) \/ PageWrites(p)
      PROVE  RowsKept /\ disabled \subseteq disabled'
  <2>1. CASE PageOnly(p) \/ Close(p)
    BY <1>1, <1>2, <2>1, TypesPageOnly DEF PageStays
  <2>2. CASE SaveGrant(p)
    <3>1. PICK i \in Rows, h \in BOOLEAN, past \in SUBSET Contexts :
             /\ row' = [row EXCEPT ![i] = RowFor(page[p].m, page[p].chain, page[p].ctx, h, past)]
             /\ row[i] # NoRow => row[i].m = page[p].m /\ past = row[i].held
      BY <2>2, SavedRow
    <3>2. \A j \in Rows \ {i} : row'[j] = row[j]
      BY <1>1, <3>1
    <3>3. row'[i] = RowFor(page[p].m, page[p].chain, page[p].ctx, h, past)
      BY <1>1, <3>1
    <3>4. row'[i] # NoRow /\ row'[i].m = page[p].m /\ past \subseteq row'[i].held
      BY <3>3 DEF RowFor, NoRow
    <3>5. disabled' = disabled
      BY <2>2 DEF SaveGrant
    <3> QED BY <3>1, <3>2, <3>4, <3>5 DEF RowsKept
  <2>3. CASE Prove(p) \/ WriteComplete(p) \/ \E c \in Chains : Sign(p, c)
    BY <1>2, <2>3 DEF Prove, WriteComplete, Sign
  <2> QED BY <1>3, <2>1, <2>2, <2>3 DEF PageWrites
<1>4. ASSUME NEW m \in Mandates, CheckCreate(m) \/ Create(m) \/ Revoke(m)
      PROVE  RowsKept /\ disabled \subseteq disabled'
  <2>1. CASE CheckCreate(m) \/ Create(m)
    BY <1>2, <2>1 DEF CheckCreate, Create
  <2>2. CASE Revoke(m)
    BY <1>1, <2>2, RowThere DEF Revoke, RowsKept, RowRecords, NoRow
  <2> QED BY <1>4, <2>1, <2>2
<1>5. CASE PayerStep
  <2>1. CASE PortalSave
    BY <1>1, <2>1 DEF PortalSave, Insert, RowsKept
  <2>2. ASSUME NEW x \in Contexts, Disable(x)
        PROVE  RowsKept /\ disabled \subseteq disabled'
    BY <1>1, <2>2 DEF Disable, RowsKept
  <2>3. CASE PortalThrows \/ \E m \in Mandates, c \in Chains : PortalSign(m, c)
    BY <1>2, <2>3 DEF PortalThrows, PortalSign
  <2> QED BY <1>5, <2>1, <2>2, <2>3 DEF PayerStep
<1>6. CASE (\E m \in Mandates : LinkExpires(m) \/ TimePasses(m)) \/ UNCHANGED vars
  BY <1>2, <1>6 DEF LinkExpires, TimePasses, vars
<1>7. CASE PassStep
  <2>1. ASSUME NEW i \in Rows, RevokeRow(i)
        PROVE  RowsKept /\ disabled \subseteq disabled'
    BY <1>1, <2>1, RowThere DEF RevokeRow, RowsKept, RowRecords, NoRow
  <2>2. ASSUME NEW i \in Rows, SeesDisabled(i) \/ PassesOver(i)
        PROVE  RowsKept /\ disabled \subseteq disabled'
    BY <1>2, <2>2 DEF SeesDisabled, PassesOver
  <2>3. ASSUME NEW m \in Mandates, Expire(m) \/ MarkWarned(m)
        PROVE  RowsKept /\ disabled \subseteq disabled'
    BY <1>2, <2>3 DEF Expire, MarkWarned
  <2>4. CASE \/ ListGrants \/ CountRemaining \/ CloseMandate \/ ListLapsed \/ ListNear \/ EndPass
             \/ RestartBilling \/ TellExpired \/ TellExpiring
    BY <1>2, <2>4 DEF ListGrants, CountRemaining, CloseMandate, ListLapsed, ListNear, EndPass,
       RestartBilling, TellExpired, TellExpiring
  <2> QED BY <1>7, <2>1, <2>2, <2>3, <2>4 DEF PassStep, ReconcileStep, ExpiryStep
<1> QED BY <1>3, <1>4, <1>5, <1>6, <1>7, Cases DEF DeveloperStep

LEMMA KeepsProof ==
  ASSUME IInv, [Next]_vars, NEW m \in Mandates
  PROVE  /\ HasRow(m) => HasRow(m)'
         /\ Proved(m) => Proved(m)'
         /\ Cut(m) => Cut(m)'
<1>1. MandatesKept /\ RowsKept /\ disabled \subseteq disabled'
  BY KeepsMandates, KeepsRows
<1>2. HasRow(m) => HasRow(m)'
  BY <1>1 DEF HasRow, RowsKept
<1>3. told[m].active \in Nat /\ told'[m].active \in Nat
  BY TypesKept DEF IInv, TypeOK
<1>4. told[m].active > 0 => told'[m].active > 0
  BY <1>1, <1>3 DEF MandatesKept
<1>5. Proved(m) => Proved(m)'
  BY <1>1, <1>2, <1>4 DEF Proved, MandatesKept
<1>6. Cut(m) => Cut(m)'
  BY <1>1 DEF Cut, RowsKept
<1> QED BY <1>2, <1>5, <1>6

---------------------------------------------------------------------------
(* The windows. *)

\* A window that a step leaves alone.
LEMMA PageUntouched ==
  ASSUME IInv, [Next]_vars, NEW p \in Pages, page'[p] = page[p]
  PROVE  PageHolds(p)'
<1>1. MandatesKept /\ RowsKept
  BY KeepsMandates, KeepsRows
<1>2. PageHolds(p) /\ TypeOK /\ TypeOK'
  BY TypesKept DEF IInv, PagesHold
<1>3. CASE page[p].at = "closed"
  BY <1>3 DEF PageHolds
<1>4. CASE page[p].at # "closed"
  <2>1. page[p].m \in Mandates /\ page[p].found \in Rows \cup {None}
    BY <1>2, <1>4, OpenPage
  <2>2. page[p].at = "completing" => HasRow(page[p].m)'
    <3>1. PICK m \in Mandates : m = page[p].m
      BY <2>1
    <3>2. page[p].at = "completing" => HasRow(m)'
      BY <1>2, <3>1, KeepsProof DEF PageHolds
    <3> QED BY <3>1, <3>2
  <2>3. page[p].at = "done" => told'[page[p].m].active > 0
    <3>1. told[page[p].m].active \in Nat /\ told'[page[p].m].active \in Nat
      BY <1>2, <2>1 DEF TypeOK
    <3>2. told[page[p].m].active <= told'[page[p].m].active
      BY <1>1, <2>1 DEF MandatesKept
    <3>3. page[p].at = "done" => told[page[p].m].active > 0
      BY <1>2 DEF PageHolds
    <3> QED BY <3>1, <3>2, <3>3
  <2>4. page[p].at = "found" /\ page[p].found # None =>
           row'[page[p].found] # NoRow /\ row'[page[p].found].m = page[p].m
    BY <1>1, <1>2, <2>1 DEF PageHolds, RowsKept
  <2>5. page[p].at \in {"sent", "found"} =>
          /\ page[p].chain \in Chains /\ page[p].ctx \in Contexts
          /\ mandate'[page[p].m].verified
    BY <1>1, <1>2, <2>1 DEF PageHolds, MandatesKept
  <2> QED BY <2>2, <2>3, <2>4, <2>5 DEF PageHolds
<1> QED BY <1>3, <1>4

\* A window that a step leaves where nothing is claimed.
LEMMA PageQuiet ==
  ASSUME NEW p \in Pages, page'[p].at \in {"closed", "review", "signing", "finishing", "gone"}
  PROVE  PageHolds(p)'
BY DEF PageHolds

\* A window that a step leaves at its success.
LEMMA PageDone ==
  ASSUME NEW p \in Pages, page'[p].at = "done", told'[page'[p].m].active > 0
  PROVE  PageHolds(p)'
BY DEF PageHolds

LEMMA ActiveCounted ==
  ASSUME IInv, NEW m \in Mandates, mandate[m].status = "active"
  PROVE  told[m].active > 0
BY DEF IInv, StatusBacked, Proved

LEMMA PagesStep ==
  ASSUME IInv, [Next]_vars
  PROVE  PagesHold'
<1>1. TypeOK /\ page \in [Pages -> PageRecords] /\ \A q \in Pages : PageHolds(q)
  BY DEF IInv, TypeOK, PagesHold
<1>2. CASE page' = page
  BY <1>2, PageUntouched DEF PagesHold
<1>3. ASSUME NEW p \in Pages, \A q \in Pages \ {p} : page'[q] = page[q], PageHolds(p)'
      PROVE  PagesHold'
  BY <1>3, PageUntouched DEF PagesHold
<1>4. ASSUME NEW p \in Pages, PageOnly(p) \/ Close(p) \/ PageWrites(p)
      PROVE  PagesHold'
  <2>1. \A q \in Pages \ {p} : page'[q] = page[q]
    BY <1>1, <1>4 DEF PageOnly, PageWrites, Open, Authorize, FindGrant, GrantThrows, EndLoop, ReadComplete,
       CompleteThrows, AddSkipped, SkipChain, Relay, Close, Prove, SaveGrant, WriteComplete, Sign, Goto
  <2>2. ASSUME NEW m \in Mandates, Open(p, m)
        PROVE  PageHolds(p)'
    <3>1. page'[p].at = Shown(m) /\ page'[p].m = m /\ told' = told
      BY <1>1, <2>2 DEF Open
    <3>2. CASE mandate[m].status = "active"
      <4>1. told'[m].active > 0
        BY <3>1, <3>2, ActiveCounted
      <4>2. Shown(m) \in {"review", "done"}
        BY <3>2 DEF Shown
      <4> QED BY <3>1, <4>1, <4>2 DEF PageHolds
    <3>3. CASE mandate[m].status # "active"
      <4>1. Shown(m) \in {"review", "gone"}
        BY <3>3 DEF Shown
      <4> QED BY <3>1, <4>1, PageQuiet
    <3> QED BY <3>2, <3>3
  <2>3. ASSUME FindGrant(p)
        PROVE  PageHolds(p)'
    <3>1. page[p].at = "sent" /\ page[p].m \in Mandates
      BY <1>1, <2>3, OpenPage DEF FindGrant
    <3>2. PICK i \in Rows \cup {None} :
             /\ page' = [page EXCEPT ![p].at = "found", ![p].found = i]
             /\ i # None => i \in RowsOn(page[p].m, page[p].chain)
      BY <2>3 DEF FindGrant, RowsOn, RowsOf
    <3>3. /\ page'[p].at = "found" /\ page'[p].found = i /\ page'[p].m = page[p].m
          /\ page'[p].chain = page[p].chain /\ page'[p].ctx = page[p].ctx
      BY <1>1, <3>1, <3>2 DEF PageRecords, Closed
    <3>4. i # None => row[i] # NoRow /\ row[i].m = page[p].m
      BY <3>2, ActiveIsThere DEF RowsOn, RowsOf
    <3>5. page[p].chain \in Chains /\ page[p].ctx \in Contexts /\ mandate[page[p].m].verified
      BY <1>1, <3>1 DEF PageHolds
    <3>6. UNCHANGED <<row, mandate>>
      BY <2>3 DEF FindGrant
    <3>7. page'[p].chain \in Chains /\ page'[p].ctx \in Contexts /\ mandate'[page'[p].m].verified
      BY <3>3, <3>5, <3>6
    <3>8. page'[p].found # None => row'[page'[p].found] # NoRow /\ row'[page'[p].found].m = page'[p].m
      BY <3>3, <3>4, <3>6
    <3> QED BY <3>3, <3>7, <3>8 DEF PageHolds
  <2>4. ASSUME NEW c \in Chains, Sign(p, c)
        PROVE  PageHolds(p)'
    <3>1. page[p].at = "signing" /\ mandate[page[p].m].verified /\ mandate' = mandate
      BY <2>4 DEF Sign, MayGrant
    <3>2. signed' \in Contexts
      BY <1>1, <2>4, BoundsAssumption DEF Sign, TypeOK, Contexts
    <3>3. page'[p].at = "sent" /\ page'[p].m = page[p].m /\ page'[p].chain = c /\ page'[p].ctx = signed'
      BY <1>1, <2>4 DEF Sign, PageRecords, Closed
    <3> QED BY <3>1, <3>2, <3>3 DEF PageHolds
  <2>5. ASSUME ReadComplete(p)
        PROVE  PageHolds(p)'
    <3>1. page[p].at = "finishing" /\ page[p].m \in Mandates
      BY <1>1, <2>5, OpenPage DEF ReadComplete, Goto
    <3>2. /\ page'[p].m = page[p].m
          /\ page'[p].at = IF mandate[page[p].m].status = "revoked" \/ RowsOf(page[p].m) = {} THEN "review"
                           ELSE IF mandate[page[p].m].status = "active" THEN "done" ELSE "completing"
      BY <1>1, <2>5, <3>1 DEF ReadComplete, Goto, PageRecords, Closed
    <3>3. UNCHANGED <<row, told>>
      BY <2>5 DEF ReadComplete
    <3>4. page'[p].at = "done" => told'[page[p].m].active > 0
      BY <3>1, <3>2, <3>3, ActiveCounted
    <3>5. RowsOf(page[p].m) # {} => HasRow(page[p].m)
      BY ActiveIsThere DEF HasRow, RowsOf
    <3>6. page'[p].at = "completing" => HasRow(page[p].m)'
      BY <3>2, <3>3, <3>5 DEF HasRow
    <3>7. page'[p].at \in {"review", "done", "completing"}
      BY <3>2
    <3> QED BY <3>2, <3>4, <3>6, <3>7 DEF PageHolds
  <2>6. ASSUME WriteComplete(p)
        PROVE  PageHolds(p)'
    <3>1. page[p].at = "completing" /\ page[p].m \in Mandates
      BY <1>1, <2>6, OpenPage DEF WriteComplete, Goto
    <3>2. page'[p].at = "done" /\ page'[p].m = page[p].m
      BY <1>1, <2>6, <3>1 DEF WriteComplete, Goto, PageRecords, Closed
    <3>3. told'[page[p].m].active > 0
      <4>1. told[page[p].m].active \in Nat /\ told \in [Mandates -> [active : Nat, expiring : Nat, expired : Nat]]
        BY <1>1, <3>1 DEF TypeOK
      <4>2. told'[page[p].m].active = told[page[p].m].active + 1
        BY <2>6, <3>1, <4>1 DEF WriteComplete
      <4> QED BY <4>1, <4>2
    <3> QED BY <3>2, <3>3, PageDone
  <2>7. ASSUME NEW q \in Pages, Relay(p, q)
        PROVE  PageHolds(p)'
    <3>1. page'[p].at = "done" /\ page'[p].m = page[q].m
      BY <1>1, <2>7 DEF Relay, Goto, PageRecords, Closed
    <3>2. told'[page[q].m].active > 0
      BY <1>1, <2>7 DEF Relay, PageHolds
    <3> QED BY <3>1, <3>2 DEF PageHolds
  <2>8. ASSUME Authorize(p) \/ GrantThrows(p) \/ SaveGrant(p) \/ \E c \in Chains : SkipChain(p, c)
        PROVE  PageHolds(p)'
    <3>1. page[p].at # "closed"
      BY <2>8 DEF Authorize, GrantThrows, SaveGrant, SkipChain
    <3>2. CASE Authorize(p) \/ GrantThrows(p)
      <4>1. page[p] \in PageRecords \ {Closed}
        BY <1>1, <3>1, OpenPage
      <4>2. CASE Authorize(p)
        <5>1. page'[p].at = "signing"
          BY <1>1, <4>1, <4>2 DEF Authorize, PageRecords, Closed
        <5> QED BY <5>1 DEF PageHolds
      <4>3. CASE GrantThrows(p)
        <5>1. page'[p].at = "signing"
          BY <1>1, <4>1, <4>3 DEF GrantThrows, PageRecords, Closed
        <5> QED BY <5>1 DEF PageHolds
      <4> QED BY <3>2, <4>2, <4>3
    <3>3. CASE SaveGrant(p)
      <4>1. page'[p].at = "signing"
        BY <1>1, <3>1, <3>3, OpenPage DEF SaveGrant, PageRecords, Closed
      <4> QED BY <4>1 DEF PageHolds
    <3>4. ASSUME NEW c \in Chains, SkipChain(p, c)
          PROVE  PageHolds(p)'
      <4>1. page'[p].at = "signing"
        BY <1>1, <3>4 DEF SkipChain, PageRecords, Closed
      <4> QED BY <4>1 DEF PageHolds
    <3> QED BY <2>8, <3>2, <3>3, <3>4
  <2>9. ASSUME EndLoop(p) \/ CompleteThrows(p) \/ AddSkipped(p) \/ Close(p) \/ Prove(p)
        PROVE  PageHolds(p)'
    <3>1. CASE EndLoop(p) \/ CompleteThrows(p) \/ AddSkipped(p)
      <4>1. page'[p].at \in {"review", "finishing"}
        BY <1>1, <3>1 DEF EndLoop, CompleteThrows, AfterThrow, AddSkipped, Goto, PageRecords, Closed
      <4> QED BY <4>1 DEF PageHolds
    <3>2. CASE Close(p)
      <4>1. page'[p].at = "closed"
        BY <1>1, <3>2 DEF Close, Closed
      <4> QED BY <4>1 DEF PageHolds
    <3>3. CASE Prove(p)
      <4>1. page'[p].at = "review"
        BY <1>1, <3>3 DEF Prove, PageRecords, Closed
      <4> QED BY <4>1 DEF PageHolds
    <3> QED BY <2>9, <3>1, <3>2, <3>3
  <2> QED BY <1>3, <1>4, <2>1, <2>2, <2>3, <2>4, <2>5, <2>6, <2>7, <2>8, <2>9 DEF PageOnly, PageWrites
<1>5. CASE DeveloperStep \/ PayerStep \/ (\E m \in Mandates : LinkExpires(m) \/ TimePasses(m)) \/ UNCHANGED vars
  BY <1>2, <1>5, OthersFrame
<1>6. CASE PassStep
  BY <1>2, <1>6, PassFrame DEF PassStays
<1> QED BY <1>4, <1>5, <1>6, Cases

LEMMA PortalStep ==
  ASSUME IInv, [Next]_vars
  PROVE  PortalHolds'
<1>1. CASE portal' = portal
  <2>1. portal # NoAsk => portal.m \in Mandates
    BY TypeParts DEF IInv, Typed, OtherTypes, Asks
  <2> QED BY <1>1, <2>1, KeepsMandates DEF IInv, PortalHolds, MandatesKept
<1>2. ASSUME NEW m \in Mandates, NEW c \in Chains, PortalSign(m, c)
      PROVE  PortalHolds'
  BY <1>2 DEF PortalSign, PortalHolds
<1>3. CASE PortalSave \/ PortalThrows
  BY <1>3 DEF PortalSave, PortalThrows, PortalHolds
<1>4. ASSUME NEW p \in Pages, PageOnly(p) \/ Close(p) \/ PageWrites(p)
      PROVE  portal' = portal
  <2>1. CASE PageOnly(p) \/ Close(p)
    BY <2>1, TypesPageOnly DEF PageStays, IInv
  <2>2. CASE PageWrites(p)
    BY <2>2 DEF PageWrites, Prove, SaveGrant, WriteComplete, Sign
  <2> QED BY <1>4, <2>1, <2>2
<1>5. CASE PassStep
  BY <1>1, <1>5, PassFrame DEF PassStays
<1>6. CASE DeveloperStep \/ (\E m \in Mandates : LinkExpires(m) \/ TimePasses(m)) \/ UNCHANGED vars
  BY <1>1, <1>6 DEF DeveloperStep, CheckCreate, Create, Revoke, LinkExpires, TimePasses, vars
<1>7. CASE \E x \in Contexts : Disable(x)
  BY <1>1, <1>7 DEF Disable
<1> QED BY <1>1, <1>2, <1>3, <1>4, <1>5, <1>6, <1>7, Cases DEF PayerStep

---------------------------------------------------------------------------
(* Rows and statuses. *)

\* The steps that leave every row alone, apart from those of the windows.
LEMMA RowsUntouched ==
  ASSUME IInv, [Next]_vars
  PROVE  \/ row' = row
         \/ \E p \in Pages : SaveGrant(p)
         \/ PortalSave
         \/ \E m \in Mandates : Revoke(m)
         \/ \E i \in Rows : RevokeRow(i)
<1>1. ASSUME NEW p \in Pages, PageOnly(p) \/ Close(p) \/ PageWrites(p)
      PROVE  row' = row \/ SaveGrant(p)
  <2>1. CASE PageOnly(p) \/ Close(p)
    BY <2>1, TypesPageOnly DEF PageStays, IInv
  <2>2. CASE PageWrites(p)
    BY <2>2 DEF PageWrites, Prove, WriteComplete, Sign
  <2> QED BY <1>1, <2>1, <2>2
<1>2. CASE DeveloperStep
  BY <1>2 DEF DeveloperStep, CheckCreate, Create
<1>3. CASE PayerStep
  BY <1>3 DEF PayerStep, PortalSign, PortalThrows, Disable
<1>4. CASE (\E m \in Mandates : LinkExpires(m) \/ TimePasses(m)) \/ UNCHANGED vars
  BY <1>4 DEF LinkExpires, TimePasses, vars
<1>5. CASE PassStep
  <2>1. CASE ListGrants \/ CountRemaining \/ CloseMandate \/ ListLapsed \/ ListNear \/ EndPass
    BY <2>1 DEF ListGrants, CountRemaining, CloseMandate, ListLapsed, ListNear, EndPass
  <2>2. CASE \E i \in Rows : SeesDisabled(i) \/ PassesOver(i)
    BY <2>2 DEF SeesDisabled, PassesOver
  <2>3. CASE \E m \in Mandates : Expire(m) \/ MarkWarned(m)
    BY <2>3 DEF Expire, MarkWarned
  <2>4. CASE TellExpired \/ TellExpiring \/ RestartBilling
    BY <2>4 DEF TellExpired, TellExpiring, RestartBilling
  <2> QED BY <1>5, <2>1, <2>2, <2>3, <2>4 DEF PassStep, ReconcileStep, ExpiryStep
<1> QED BY <1>1, <1>2, <1>3, <1>4, <1>5, Cases

\* A step that revokes rows changes nothing else of them.
LEMMA RevokedRow ==
  ASSUME IInv, NEW i \in Rows, row[i] # NoRow,
         (\E m \in Mandates : Revoke(m)) \/ (\E j \in Rows : RevokeRow(j))
  PROVE  /\ row'[i].m = row[i].m /\ row'[i].ctx = row[i].ctx /\ row'[i].held = row[i].held
         /\ row'[i].status = row[i].status \/ row'[i].status = "revoked"
<1>1. row \in [Rows -> RowRecords] /\ row[i] \in RowRecords \ {NoRow}
  BY RowThere DEF IInv, TypeOK
<1>2. CASE \E m \in Mandates : Revoke(m)
  BY <1>1, <1>2 DEF Revoke, RowRecords
<1>3. CASE \E j \in Rows : RevokeRow(j)
  <2>1. PICK j \in Rows : row' = [row EXCEPT ![j].status = "revoked"]
    BY <1>3 DEF RevokeRow
  <2>2. CASE i = j
    BY <1>1, <2>1, <2>2 DEF RowRecords
  <2>3. CASE i # j
    BY <1>1, <2>1, <2>3
  <2> QED BY <2>2, <2>3
<1> QED BY <1>2, <1>3

LEMMA RowsStep ==
  ASSUME IInv, [Next]_vars
  PROVE  RowsHold'
<1>1. TypeOK /\ RowsHold /\ MandatesKept /\ row \in [Rows -> RowRecords]
  BY KeepsMandates DEF IInv, TypeOK
<1>2. \A i \in Rows : row[i] # NoRow =>
         row[i].m \in Mandates /\ mandate'[row[i].m].verified /\ row[i].ctx \in row[i].held
  BY <1>1, RowThere DEF RowsHold, MandatesKept
<1>3. CASE row' = row
  BY <1>2, <1>3 DEF RowsHold
<1>4. ASSUME NEW m \in Mandates, mandate'[m].verified, NEW i \in Rows, NEW r,
             row' = [row EXCEPT ![i] = r], r.m = m, r.ctx \in r.held
      PROVE  RowsHold'
  BY <1>1, <1>2, <1>4 DEF RowsHold
<1>5. ASSUME NEW p \in Pages, SaveGrant(p)
      PROVE  RowsHold'
  <2>1. PICK i \in Rows, h \in BOOLEAN, past \in SUBSET Contexts :
           row' = [row EXCEPT ![i] = RowFor(page[p].m, page[p].chain, page[p].ctx, h, past)]
    BY <1>5, SavedRow
  <2>2. page[p].m \in Mandates /\ mandate'[page[p].m].verified
    BY <1>1, <1>5, OpenPage DEF SaveGrant, IInv, PagesHold, PageHolds, MandatesKept
  <2> QED BY <1>4, <2>1, <2>2 DEF RowFor
<1>6. CASE PortalSave
  <2>1. portal.m \in Mandates /\ mandate'[portal.m].verified
    BY <1>1, <1>6 DEF PortalSave, TypeOK, Asks, IInv, PortalHolds, MandatesKept
  <2>2. PICK i \in Rows, h \in BOOLEAN : row' = [row EXCEPT ![i] = RowFor(portal.m, portal.chain, portal.ctx, h, {})]
    BY <1>6 DEF PortalSave, Insert
  <2> QED BY <1>4, <2>1, <2>2 DEF RowFor
<1>7. CASE (\E m \in Mandates : Revoke(m)) \/ (\E j \in Rows : RevokeRow(j))
  <2>1. \A i \in Rows : row[i] = NoRow => row'[i] = NoRow
    <3>1. CASE \E m \in Mandates : Revoke(m)
      BY <1>1, <3>1 DEF Revoke, RowsOf, NoRow
    <3>2. ASSUME NEW j \in Rows, RevokeRow(j)
          PROVE  \A i \in Rows : row[i] = NoRow => row'[i] = NoRow
      <4>1. row[j] # NoRow
        BY <3>2 DEF RevokeRow, Answered, IInv, TypeOK, PassHolds
      <4> QED BY <1>1, <3>2, <4>1 DEF RevokeRow
    <3> QED BY <1>7, <3>1, <3>2
  <2> QED BY <1>2, <1>7, <2>1, RevokedRow DEF RowsHold
<1> QED BY <1>3, <1>5, <1>6, <1>7, RowsUntouched

\* Who writes a status, and which.
LEMMA StatusWrites ==
  ASSUME IInv, [Next]_vars, NEW m \in Mandates
  PROVE  \/ mandate'[m].status = mandate[m].status
         \/ mandate'[m].status \in {"checked", "pending"}
         \/ mandate'[m].status = "revoked" /\ mandate'[m].ended
         \/ mandate'[m].status = "revoked" /\ CloseMandate /\ pass.m = m
         \/ mandate'[m].status = "active" /\ \E p \in Pages : WriteComplete(p) /\ page[p].m = m
         \/ mandate'[m].status = "expired" /\ Expire(m)
<1>1. TypeOK /\ mandate \in [Mandates -> MandateRecords]
  BY DEF IInv, TypeOK
<1>2. CASE mandate' = mandate
  BY <1>2
<1>3. ASSUME NEW p \in Pages, PageOnly(p) \/ Close(p) \/ PageWrites(p)
      PROVE  \/ mandate'[m].status = mandate[m].status
             \/ mandate'[m].status = "active" /\ WriteComplete(p) /\ page[p].m = m
  <2>1. CASE Prove(p)
    BY <1>1, <2>1 DEF Prove, MandateRecords
  <2>2. CASE WriteComplete(p)
    BY <1>1, <2>2 DEF WriteComplete, SetStatus, MandateRecords
  <2>3. CASE PageOnly(p) \/ Close(p) \/ SaveGrant(p) \/ \E c \in Chains : Sign(p, c)
    BY <1>1, <2>3, TypesPageOnly DEF PageStays, SaveGrant, Sign
  <2> QED BY <1>3, <2>1, <2>2, <2>3 DEF PageWrites
<1>4. ASSUME NEW k \in Mandates, CheckCreate(k) \/ Create(k)
      PROVE  mandate'[m].status = mandate[m].status \/ mandate'[m].status \in {"checked", "pending"}
  BY <1>1, <1>4 DEF CheckCreate, Create, SetStatus, MandateRecords
<1>5. ASSUME NEW k \in Mandates, Revoke(k)
      PROVE  \/ mandate'[m].status = mandate[m].status
             \/ mandate'[m].status = "revoked" /\ mandate'[m].ended
  BY <1>1, <1>5 DEF Revoke, MandateRecords
<1>6. CASE PayerStep \/ (\E k \in Mandates : LinkExpires(k) \/ TimePasses(k)) \/ UNCHANGED vars
  BY <1>2, <1>6 DEF PayerStep, PortalSign, PortalSave, PortalThrows, Disable, LinkExpires, TimePasses, vars
<1>7. CASE PassStep
  <2>1. ASSUME NEW k \in Mandates, Expire(k)
        PROVE  \/ mandate'[m].status = mandate[m].status
               \/ mandate'[m].status = "expired" /\ Expire(m)
    BY <1>1, <2>1 DEF Expire, SetStatus, MandateRecords
  <2>2. ASSUME NEW k \in Mandates, MarkWarned(k)
        PROVE  mandate'[m].status = mandate[m].status
    BY <1>1, <2>2 DEF MarkWarned, MandateRecords
  <2>3. CASE CloseMandate
    BY <1>1, <2>3 DEF CloseMandate, SetStatus, MandateRecords
  <2>4. ASSUME NEW i \in Rows, SeesDisabled(i) \/ PassesOver(i) \/ RevokeRow(i)
        PROVE  mandate' = mandate
    BY <2>4 DEF SeesDisabled, PassesOver, RevokeRow
  <2>5. CASE \/ ListGrants \/ CountRemaining \/ ListLapsed \/ ListNear \/ EndPass \/ RestartBilling
             \/ TellExpired \/ TellExpiring
    BY <1>2, <2>5 DEF ListGrants, CountRemaining, ListLapsed, ListNear, EndPass, RestartBilling, TellExpired,
       TellExpiring
  <2> QED BY <1>2, <1>7, <2>1, <2>2, <2>3, <2>4, <2>5 DEF PassStep, ReconcileStep, ExpiryStep
<1> QED BY <1>3, <1>4, <1>5, <1>6, <1>7, Cases DEF DeveloperStep

LEMMA StatusStep ==
  ASSUME IInv, [Next]_vars
  PROVE  StatusBacked'
<1> SUFFICES ASSUME NEW m \in Mandates, mandate'[m].status \in {"active", "expired"}
             PROVE  Proved(m)'
  BY DEF StatusBacked
<1>1. CASE mandate'[m].status = mandate[m].status
  BY <1>1, KeepsProof DEF IInv, StatusBacked
<1>2. ASSUME NEW p \in Pages, WriteComplete(p), page[p].m = m
      PROVE  Proved(m)'
  <2>1. HasRow(m) /\ page[p].at = "completing"
    BY <1>2 DEF WriteComplete, Goto, IInv, PagesHold, PageHolds
  <2>2. PICK i \in Rows : row[i] # NoRow /\ row[i].m = m
    BY <2>1 DEF HasRow
  <2>3. mandate[m].verified
    BY <2>2 DEF IInv, RowsHold
  <2>4. mandate'[m].verified
    BY <2>3, KeepsMandates DEF MandatesKept
  <2>5. HasRow(m)'
    BY <2>1, KeepsProof
  <2>6. told'[m].active > 0
    <3>1. told[m].active \in Nat /\ told \in [Mandates -> [active : Nat, expiring : Nat, expired : Nat]]
      BY DEF IInv, TypeOK
    <3>2. told'[m].active = told[m].active + 1
      BY <1>2, <3>1 DEF WriteComplete
    <3> QED BY <3>1, <3>2
  <2> QED BY <2>4, <2>5, <2>6 DEF Proved
<1>3. CASE Expire(m)
  <2>1. Proved(m)
    BY <1>3 DEF Expire, At, IInv, PassHolds
  <2> QED BY <2>1, KeepsProof
<1> QED BY <1>1, <1>2, <1>3, StatusWrites

---------------------------------------------------------------------------
(* The pass. *)

LEMMA PassUntouched ==
  ASSUME IInv, [Next]_vars, pass' = pass
  PROVE  PassHolds'
<1>1. RowsKept /\ disabled \subseteq disabled' /\ TypeOK /\ PassHolds
  BY KeepsRows DEF IInv
<1>2. \A m \in pass.due : Proved(m) => Proved(m)'
  BY <1>1, KeepsProof DEF TypeOK
<1>3. \A m \in Mandates : Cut(m) => Cut(m)'
  BY KeepsProof
<1>4. pass.at \in {"count", "close"} => pass.m \in Mandates /\ Cut(pass.m)'
  <2>1. ASSUME pass.at \in {"count", "close"}
        PROVE  pass.m \in Mandates /\ Cut(pass.m)'
    <3>1. PICK m \in Mandates : m = pass.m /\ Cut(m)
      BY <1>1, <2>1 DEF PassHolds
    <3>2. Cut(m)'
      BY <1>3, <3>1
    <3> QED BY <3>1, <3>2
  <2> QED BY <2>1
<1>5. \A i \in DOMAIN pass.rows : i \in Rows
  BY <1>1 DEF TypeOK
<1> QED BY <1>1, <1>2, <1>4, <1>5 DEF PassHolds, RowsKept

LEMMA PassHoldsStep ==
  ASSUME IInv, [Next]_vars
  PROVE  PassHolds'
<1>1. TypeOK /\ PassHolds /\ RowsHold /\ StatusBacked
  BY DEF IInv
<1>2. ASSUME NEW p \in Pages, PageOnly(p) \/ Close(p) \/ PageWrites(p)
      PROVE  pass' = pass
  BY <1>1, <1>2, TypesPageOnly DEF PageStays, PageWrites, Prove, SaveGrant, WriteComplete, Sign
<1>3. CASE DeveloperStep \/ PayerStep \/ (\E m \in Mandates : LinkExpires(m) \/ TimePasses(m)) \/ UNCHANGED vars
  BY <1>3, OthersFrame, PassUntouched
<1>4. \A i \in DOMAIN pass.rows : i \in Rows /\ row[i] # NoRow /\ pass.rows[i] \in row[i].held
  BY <1>1 DEF TypeOK, PassHolds
<1>5. \A i \in pass.gone : i \in DOMAIN pass.rows /\ pass.rows[i] \in disabled
  BY <1>1 DEF TypeOK, PassHolds
<1>6. \A m \in Mandates : (Proved(m) => Proved(m)') /\ (Cut(m) => Cut(m)')
  BY KeepsProof
<1>7. CASE PassStep
  <2>1. RowsKept /\ disabled' = disabled
    BY <1>7, KeepsRows, PassFrame DEF PassStays
  <2>2. CASE ListGrants
    <3>1. /\ pass'.at = "ask" /\ pass'.rows = [i \in Checkable |-> row[i].ctx] /\ pass'.gone = {} /\ row' = row
      BY <2>2 DEF ListGrants, Idle
    <3>2. \A i \in Checkable : row[i] # NoRow /\ row[i].ctx \in row[i].held
      BY <1>1, ActiveIsThere DEF Checkable, RowsHold
    <3> QED BY <3>1, <3>2 DEF PassHolds
  <2>3. ASSUME NEW i \in Rows, SeesDisabled(i)
        PROVE  PassHolds'
    <3>1. pass'.at = "ask" /\ pass'.rows = pass.rows /\ pass'.gone = pass.gone \cup {i} /\ row' = row
      BY <2>3 DEF SeesDisabled, At
    <3> QED BY <1>4, <1>5, <2>1, <2>3, <3>1 DEF SeesDisabled, PassHolds
  <2>4. ASSUME NEW i \in Rows, PassesOver(i)
        PROVE  PassHolds'
    <3>1. pass'.at = "ask" /\ pass'.rows = Without(i) /\ pass'.gone = pass.gone /\ row' = row /\ i \notin pass.gone
      BY <2>4 DEF PassesOver, AfterUnread, At
    <3> QED BY <1>4, <1>5, <2>1, <3>1 DEF Without, PassHolds
  <2>5. ASSUME NEW i \in Rows, RevokeRow(i)
        PROVE  PassHolds'
    <3>1. /\ pass'.at = "count" /\ pass'.rows = Without(i) /\ pass'.gone = pass.gone \ {i}
          /\ pass'.m = row[i].m /\ i \in pass.gone
      BY <2>5 DEF RevokeRow, Answered
    <3>2. row[i] # NoRow /\ row[i].held \cap disabled # {}
      BY <1>4, <1>5, <3>1
    <3>3. PICK m \in Mandates : m = row[i].m
      BY <1>1, <3>2, RowThere
    <3>4. Cut(m)'
      BY <1>6, <3>2, <3>3 DEF Cut
    <3>5. \A j \in DOMAIN pass'.rows : row'[j] # NoRow /\ pass'.rows[j] \in row'[j].held
      BY <1>4, <2>1, <3>1 DEF Without, RowsKept
    <3>6. \A j \in pass'.gone : pass'.rows[j] \in disabled'
      BY <1>5, <2>1, <3>1 DEF Without
    <3> QED BY <3>1, <3>3, <3>4, <3>5, <3>6 DEF PassHolds
  <2>6. CASE CountRemaining
    <3>1. pass.at = "count" /\ pass' = [pass EXCEPT !.at = pass'.at] /\ pass'.at \in {"close", "ask"}
      BY <2>6 DEF CountRemaining, At
    <3>2. pass'.rows = pass.rows /\ pass'.gone = pass.gone /\ pass'.m = pass.m /\ row' = row
      BY <2>6 DEF CountRemaining
    <3>3. PICK m \in Mandates : m = pass.m /\ Cut(m)
      BY <1>1, <3>1 DEF PassHolds
    <3>4. Cut(m)'
      BY <1>6, <3>3
    <3> QED BY <1>4, <1>5, <2>1, <3>1, <3>2, <3>3, <3>4 DEF PassHolds
  <2>7. CASE CloseMandate
    <3>1. pass'.at = "ask" /\ pass'.rows = pass.rows /\ pass'.gone = pass.gone /\ row' = row
      BY <2>7 DEF CloseMandate
    <3> QED BY <1>4, <1>5, <2>1, <3>1 DEF PassHolds
  <2>8. CASE ListLapsed
    <3>1. pass'.at = "lapse" /\ pass'.rows = <<>> /\ pass'.gone = {} /\ pass'.due = Lapsed
      BY <2>8 DEF ListLapsed, Idle
    <3>2. \A m \in Lapsed : m \in Mandates /\ Proved(m)
      BY <1>1 DEF Lapsed, StatusBacked
    <3> QED BY <1>6, <3>1, <3>2 DEF PassHolds
  <2>9. ASSUME NEW m \in Mandates, Expire(m)
        PROVE  PassHolds'
    <3>1. /\ pass'.at = "tell-expired" /\ pass'.rows = pass.rows /\ pass'.gone = pass.gone
          /\ pass'.m = m /\ pass'.due = pass.due \ {m} /\ row' = row
      BY <2>9 DEF Expire
    <3>2. \A k \in pass.due : k \in Mandates /\ Proved(k)
      BY <1>1, <2>9 DEF Expire, At, PassHolds, TypeOK
    <3> QED BY <1>4, <1>5, <1>6, <2>1, <3>1, <3>2 DEF PassHolds
  <2>10. CASE TellExpired
    <3>1. /\ pass'.at = "lapse" /\ pass'.rows = pass.rows /\ pass'.gone = pass.gone /\ pass'.due = pass.due
          /\ row' = row
      BY <2>10 DEF TellExpired
    <3>2. \A k \in pass.due : k \in Mandates /\ Proved(k)
      BY <1>1, <2>10 DEF TellExpired, At, PassHolds, TypeOK
    <3> QED BY <1>4, <1>5, <1>6, <2>1, <3>1, <3>2 DEF PassHolds
  <2>11. CASE ListNear \/ TellExpiring
    <3>1. pass'.at = "warn" /\ pass'.rows = pass.rows /\ pass'.gone = pass.gone /\ row' = row
      <4>1. CASE ListNear
        BY <4>1 DEF ListNear
      <4>2. CASE TellExpiring
        BY <4>2 DEF TellExpiring
      <4> QED BY <2>11, <4>1, <4>2
    <3> QED BY <1>4, <1>5, <2>1, <3>1 DEF PassHolds
  <2>12. ASSUME NEW m \in Mandates, MarkWarned(m)
         PROVE  PassHolds'
    <3>1. pass'.at = "tell-expiring" /\ pass'.rows = pass.rows /\ pass'.gone = pass.gone /\ pass'.m = m /\ row' = row
      BY <2>12 DEF MarkWarned
    <3> QED BY <1>4, <1>5, <2>1, <3>1 DEF PassHolds
  <2>13. CASE EndPass \/ RestartBilling
    <3>1. pass'.at = "idle" /\ pass'.rows = <<>> /\ pass'.gone = {}
      BY <2>13 DEF EndPass, RestartBilling, Idle
    <3> QED BY <3>1 DEF PassHolds
  <2> QED BY <1>7, <2>2, <2>3, <2>4, <2>5, <2>6, <2>7, <2>8, <2>9, <2>10, <2>11, <2>12, <2>13
      DEF PassStep, ReconcileStep, ExpiryStep
<1> QED BY <1>2, <1>3, <1>7, PassUntouched, Cases

---------------------------------------------------------------------------
(* Causes. *)

LEMMA CauseStep ==
  ASSUME IInv, [Next]_vars
  PROVE  RevokedForCause'
<1>1. /\ TypeOK /\ row \in [Rows -> RowRecords] /\ PassHolds /\ RevokedForCause
      /\ MandatesKept /\ RowsKept /\ disabled \subseteq disabled'
  BY KeepsMandates, KeepsRows DEF IInv, TypeOK
<1>2. ASSUME NEW i \in Rows, row'[i].status = "revoked"
      PROVE  mandate'[row'[i].m].ended \/ row'[i].held \cap disabled' # {}
  <2>1. ASSUME row[i].status = "revoked", row'[i].m = row[i].m
        PROVE  mandate'[row'[i].m].ended \/ row'[i].held \cap disabled' # {}
    <3>1. row[i] # NoRow /\ row[i].m \in Mandates
      BY <1>1, <2>1, ActiveIsThere, RowThere
    <3>2. mandate[row[i].m].ended \/ row[i].held \cap disabled # {}
      BY <1>1, <2>1 DEF RevokedForCause
    <3>3. CASE mandate[row[i].m].ended
      BY <1>1, <2>1, <3>1, <3>3 DEF MandatesKept
    <3>4. CASE row[i].held \cap disabled # {}
      BY <1>1, <3>1, <3>4 DEF RowsKept
    <3> QED BY <3>2, <3>3, <3>4
  <2>2. CASE row' = row
    BY <1>2, <2>1, <2>2
  <2>3. ASSUME NEW j \in Rows, NEW r, row' = [row EXCEPT ![j] = r], r.status = "active"
        PROVE  mandate'[row'[i].m].ended \/ row'[i].held \cap disabled' # {}
    BY <1>1, <1>2, <2>1, <2>3
  <2>4. CASE \E p \in Pages : SaveGrant(p)
    <3>1. PICK p \in Pages : SaveGrant(p)
      BY <2>4
    <3>2. PICK j \in Rows, h \in BOOLEAN, past \in SUBSET Contexts :
             row' = [row EXCEPT ![j] = RowFor(page[p].m, page[p].chain, page[p].ctx, h, past)]
      BY <3>1, SavedRow
    <3> QED BY <2>3, <3>2 DEF RowFor
  <2>5. CASE PortalSave
    <3>1. PICK j \in Rows, h \in BOOLEAN : row' = [row EXCEPT ![j] = RowFor(portal.m, portal.chain, portal.ctx, h, {})]
      BY <2>5 DEF PortalSave, Insert
    <3> QED BY <2>3, <3>1 DEF RowFor
  <2>6. ASSUME NEW m \in Mandates, Revoke(m)
        PROVE  mandate'[row'[i].m].ended \/ row'[i].held \cap disabled' # {}
    <3>1. CASE i \in RowsOf(m)
      <4>1. row'[i].m = m
        BY <1>1, <2>6, <3>1, ActiveIsThere DEF Revoke, RowsOf, RowRecords, NoRow
      <4>2. mandate'[m].ended
        BY <1>1, <2>6 DEF Revoke, TypeOK, MandateRecords
      <4> QED BY <4>1, <4>2
    <3>2. CASE i \notin RowsOf(m)
      BY <1>1, <1>2, <2>1, <2>6, <3>2 DEF Revoke
    <3> QED BY <3>1, <3>2
  <2>7. ASSUME NEW j \in Rows, RevokeRow(j)
        PROVE  mandate'[row'[i].m].ended \/ row'[i].held \cap disabled' # {}
    <3>1. CASE i = j
      <4>1. row[j] # NoRow /\ row[j].held \cap disabled # {}
        BY <1>1, <2>7 DEF RevokeRow, Answered, TypeOK, PassHolds
      <4> QED BY <1>1, <3>1, <4>1 DEF RowsKept
    <3>2. CASE i # j
      BY <1>1, <1>2, <2>1, <2>7, <3>2 DEF RevokeRow
    <3> QED BY <3>1, <3>2
  <2> QED BY <2>2, <2>4, <2>5, <2>6, <2>7, RowsUntouched
<1>3. ASSUME NEW m \in Mandates, mandate'[m].status = "revoked"
      PROVE  mandate'[m].ended \/ Cut(m)'
  <2>1. CASE mandate[m].status = "revoked"
    <3>1. mandate[m].ended \/ Cut(m)
      BY <1>1, <2>1 DEF RevokedForCause, Cut
    <3> QED BY <1>1, <3>1, KeepsProof DEF MandatesKept
  <2>2. CASE CloseMandate /\ pass.m = m
    <3>1. Cut(m)
      BY <1>1, <2>2 DEF CloseMandate, At, PassHolds
    <3> QED BY <3>1, KeepsProof
  <2> QED BY <1>3, <2>1, <2>2, StatusWrites
<1> QED BY <1>2, <1>3 DEF RevokedForCause, Cut

---------------------------------------------------------------------------
(* Announcements. *)

TellStep == \/ TellExpired \/ TellExpiring \/ ListLapsed \/ ListNear
            \/ \E p \in Pages : WriteComplete(p)
            \/ \E m \in Mandates : Expire(m) \/ MarkWarned(m)

\* The other steps announce nothing and mark nothing.
LEMMA SaysNothing ==
  ASSUME IInv, [Next]_vars, ~TellStep
  PROVE  /\ told' = told
         /\ \A m \in Mandates : mandate'[m].notified = mandate[m].notified
         /\ pass' = pass \/ pass'.at \in {"idle", "ask", "count", "close"}
<1>1. TypeOK /\ mandate \in [Mandates -> MandateRecords] /\ PassHolds
  BY DEF IInv, TypeOK
<1> DEFINE G == /\ told' = told
                /\ \A m \in Mandates : mandate'[m].notified = mandate[m].notified
                /\ pass' = pass \/ pass'.at \in {"idle", "ask", "count", "close"}
<1>2. ASSUME UNCHANGED <<told, mandate, pass>>  PROVE G
  BY <1>2
<1>3. ASSUME NEW p \in Pages, PageOnly(p) \/ Close(p) \/ PageWrites(p)
      PROVE  G
  <2>1. CASE Prove(p)
    BY <1>1, <2>1 DEF Prove, MandateRecords
  <2>2. CASE PageOnly(p) \/ Close(p) \/ SaveGrant(p) \/ \E c \in Chains : Sign(p, c)
    BY <1>1, <2>2, TypesPageOnly DEF PageStays, SaveGrant, Sign
  <2> QED BY <1>3, <2>1, <2>2 DEF PageWrites, TellStep
<1>4. ASSUME NEW k \in Mandates, CheckCreate(k) \/ Create(k) \/ Revoke(k)
      PROVE  G
  <2>1. told' = told /\ pass' = pass
    BY <1>4 DEF CheckCreate, Create, Revoke
  <2>2. CASE CheckCreate(k) \/ Create(k)
    BY <1>1, <2>1, <2>2 DEF CheckCreate, Create, SetStatus, MandateRecords
  <2>3. CASE Revoke(k)
    BY <1>1, <2>1, <2>3 DEF Revoke, MandateRecords
  <2> QED BY <1>4, <2>2, <2>3
<1>5. CASE PayerStep \/ (\E m \in Mandates : LinkExpires(m) \/ TimePasses(m)) \/ UNCHANGED vars
  BY <1>2, <1>5 DEF PayerStep, PortalSign, PortalSave, PortalThrows, Disable, LinkExpires, TimePasses, vars
<1>6. CASE PassStep
  <2>1. CASE ListGrants \/ EndPass \/ RestartBilling
    <3>1. pass'.at \in {"idle", "ask"} /\ UNCHANGED <<told, mandate>>
      <4>1. CASE ListGrants
        BY <4>1 DEF ListGrants, Idle
      <4>2. CASE EndPass \/ RestartBilling
        BY <4>2 DEF EndPass, RestartBilling, Idle
      <4> QED BY <2>1, <4>1, <4>2
    <3> QED BY <3>1
  <2>2. ASSUME NEW i \in Rows, SeesDisabled(i) \/ PassesOver(i)
        PROVE  G
    <3>1. pass'.at = "ask" /\ UNCHANGED <<told, mandate>>
      <4>1. CASE SeesDisabled(i)
        BY <4>1 DEF SeesDisabled, At
      <4>2. CASE PassesOver(i)
        BY <4>2 DEF PassesOver, AfterUnread, At
      <4> QED BY <2>2, <4>1, <4>2
    <3> QED BY <3>1
  <2>3. ASSUME NEW i \in Rows, RevokeRow(i)
        PROVE  G
    BY <2>3 DEF RevokeRow
  <2>4. CASE CountRemaining
    BY <2>4 DEF CountRemaining
  <2>5. CASE CloseMandate
    BY <1>1, <2>5 DEF CloseMandate, SetStatus, MandateRecords
  <2> QED BY <1>6, <2>1, <2>2, <2>3, <2>4, <2>5 DEF PassStep, ReconcileStep, ExpiryStep, TellStep
<1> QED BY <1>3, <1>4, <1>5, <1>6, Cases DEF DeveloperStep

LEMMA WarningsStep ==
  ASSUME IInv, [Next]_vars
  PROVE  WarningsCounted' /\ WarnedOnce'
<1>1. /\ TypeOK /\ mandate \in [Mandates -> MandateRecords] /\ WarningsCounted /\ WarnedOnce
      /\ told \in [Mandates -> [active : Nat, expiring : Nat, expired : Nat]] /\ PassHolds
      /\ pass.due \subseteq Mandates
  BY DEF IInv, TypeOK
<1>2. ASSUME \A m \in Mandates : /\ told'[m].expiring = told[m].expiring
                                 /\ mandate'[m].notified = mandate[m].notified,
             pass' = pass \/ pass'.at \notin {"warn", "tell-expiring"}
      PROVE  WarningsCounted' /\ WarnedOnce'
  BY <1>1, <1>2 DEF WarningsCounted, WarnedOnce, PassHolds
<1>3. CASE ~TellStep
  BY <1>2, <1>3, SaysNothing
<1>4. ASSUME NEW p \in Pages, WriteComplete(p)
      PROVE  WarningsCounted' /\ WarnedOnce'
  BY <1>1, <1>2, <1>4 DEF WriteComplete, SetStatus, MandateRecords
<1>5. CASE ListLapsed
  BY <1>2, <1>5 DEF ListLapsed, Idle
<1>6. ASSUME NEW m \in Mandates, Expire(m)
      PROVE  WarningsCounted' /\ WarnedOnce'
  BY <1>1, <1>2, <1>6 DEF Expire, SetStatus, MandateRecords
<1>7. CASE TellExpired
  BY <1>1, <1>2, <1>7 DEF TellExpired
<1>8. CASE ListNear
  <2>1. pass'.at = "warn" /\ pass'.due = ToWarn /\ UNCHANGED <<told, mandate>>
    BY <1>8 DEF ListNear
  <2> QED BY <1>1, <2>1 DEF ToWarn, WarningsCounted, WarnedOnce
<1>9. ASSUME NEW m \in Mandates, MarkWarned(m)
      PROVE  WarningsCounted' /\ WarnedOnce'
  <2>1. /\ pass'.at = "tell-expiring" /\ pass'.m = m /\ pass'.due = pass.due \ {m} /\ told' = told
        /\ pass.at = "warn" /\ m \in pass.due
    BY <1>9 DEF MarkWarned, At
  <2>2. mandate'[m].notified /\ \A k \in Mandates \ {m} : mandate'[k].notified = mandate[k].notified
    BY <1>1, <1>9 DEF MarkWarned, MandateRecords
  <2> QED BY <1>1, <2>1, <2>2 DEF WarningsCounted, WarnedOnce
<1>10. CASE TellExpiring
  <2>1. /\ pass'.at = "warn" /\ pass'.m = pass.m /\ pass'.due = pass.due /\ mandate' = mandate
        /\ pass.at = "tell-expiring" /\ pass.m \in Mandates
    BY <1>1, <1>10 DEF TellExpiring, At, PassHolds
  <2>2. /\ told'[pass.m].expiring = told[pass.m].expiring + 1
        /\ \A k \in Mandates \ {pass.m} : told'[k] = told[k]
    BY <1>1, <1>10, <2>1 DEF TellExpiring
  <2>3. mandate[pass.m].notified /\ told[pass.m].expiring = 0
    BY <1>1, <2>1 DEF WarningsCounted
  <2> QED BY <1>1, <2>1, <2>2, <2>3 DEF WarningsCounted, WarnedOnce
<1> QED BY <1>3, <1>4, <1>5, <1>6, <1>7, <1>8, <1>9, <1>10 DEF TellStep

LEMMA ActivationsStep ==
  ASSUME IInv, [Next]_vars
  PROVE  ActivationsCounted' /\ ExpiredOncePerActivation'
<1>1. /\ TypeOK /\ mandate \in [Mandates -> MandateRecords]
      /\ ActivationsCounted /\ ExpiredOncePerActivation
      /\ told \in [Mandates -> [active : Nat, expiring : Nat, expired : Nat]] /\ PassHolds
      /\ pass.due \subseteq Mandates
  BY DEF IInv, TypeOK
<1>2. \A m \in Mandates : told[m].active \in Nat /\ told[m].expired \in Nat
  BY <1>1
<1>3. ASSUME \A m \in Mandates : /\ told'[m].expired = told[m].expired /\ told'[m].active = told[m].active
                                 /\ Standing(m)' => Standing(m)
                                 /\ Telling(m)' => Telling(m)
      PROVE  ActivationsCounted' /\ ExpiredOncePerActivation'
  BY <1>1, <1>3 DEF ActivationsCounted, ExpiredOncePerActivation
<1>4. CASE ~TellStep
  <2>1. told' = told /\ (pass' = pass \/ pass'.at \in {"idle", "ask", "count", "close"})
    BY <1>4, SaysNothing
  <2>2. \A m \in Mandates : mandate'[m].status = "active" => mandate[m].status = "active"
    BY <1>4, StatusWrites DEF TellStep
  <2>3. \A m \in Mandates : (Standing(m)' => Standing(m)) /\ (Telling(m)' => Telling(m))
    BY <2>1, <2>2 DEF Standing, Telling
  <2> QED BY <1>3, <2>1, <2>3
<1>5. ASSUME NEW p \in Pages, WriteComplete(p)
      PROVE  ActivationsCounted' /\ ExpiredOncePerActivation'
  <2>1. PICK m \in Mandates : m = page[p].m
    BY <1>1, <1>5, OpenPage DEF WriteComplete, Goto
  <2>2. /\ told'[m].active = told[m].active + 1 /\ told'[m].expired = told[m].expired
        /\ \A k \in Mandates \ {m} : told'[k] = told[k] /\ mandate'[k] = mandate[k]
        /\ pass' = pass
    BY <1>1, <1>5, <2>1 DEF WriteComplete, SetStatus
  <2>3. /\ Telling(m)' => Telling(m)
        /\ \A k \in Mandates \ {m} : (Standing(k)' => Standing(k)) /\ (Telling(k)' => Telling(k))
    BY <2>2 DEF Standing, Telling
  <2>4. told[m].expired <= told[m].active /\ (Telling(m) => told[m].expired + 1 <= told[m].active)
    BY <1>1 DEF ActivationsCounted, ExpiredOncePerActivation
  <2> QED BY <1>1, <1>2, <2>2, <2>3, <2>4 DEF ActivationsCounted, ExpiredOncePerActivation
<1>6. CASE ListLapsed
  <2>1. pass'.at = "lapse" /\ pass'.due = Lapsed /\ UNCHANGED <<told, mandate>>
    BY <1>6 DEF ListLapsed, Idle
  <2> QED BY <1>3, <2>1 DEF Standing, Telling, Lapsed
<1>7. ASSUME NEW m \in Mandates, Expire(m)
      PROVE  ActivationsCounted' /\ ExpiredOncePerActivation'
  <2>1. /\ pass'.at = "tell-expired" /\ pass'.m = m /\ pass'.due = pass.due \ {m} /\ told' = told
        /\ pass.at = "lapse" /\ m \in pass.due
    BY <1>7 DEF Expire, At
  <2>2. mandate'[m].status = "expired" /\ \A k \in Mandates \ {m} : mandate'[k] = mandate[k]
    BY <1>1, <1>7 DEF Expire, SetStatus, MandateRecords
  <2>3. Standing(m) /\ ~Standing(m)'
    BY <2>1, <2>2 DEF Standing
  <2>4. \A k \in Mandates \ {m} : (Standing(k)' => Standing(k)) /\ ~Telling(k)'
    BY <2>1, <2>2 DEF Standing, Telling
  <2> QED BY <1>1, <2>1, <2>3, <2>4 DEF ActivationsCounted, ExpiredOncePerActivation
<1>8. CASE TellExpired
  <2>1. /\ pass'.at = "lapse" /\ pass'.due = pass.due /\ mandate' = mandate
        /\ pass.at = "tell-expired" /\ pass.m \in Mandates
    BY <1>1, <1>8 DEF TellExpired, At, PassHolds
  <2>2. PICK m \in Mandates : m = pass.m
    BY <2>1
  <2>3. /\ told'[m].expired = told[m].expired + 1 /\ told'[m].active = told[m].active
        /\ \A k \in Mandates \ {m} : told'[k] = told[k]
    BY <1>1, <1>8, <2>2 DEF TellExpired
  <2>4. \A k \in Mandates : (Standing(k)' => Standing(k)) /\ ~Telling(k)'
    BY <2>1 DEF Standing, Telling
  <2>5. Telling(m)
    BY <2>1, <2>2 DEF Telling
  <2>6. /\ told[m].expired + 1 <= told[m].active
        /\ Standing(m) => told[m].expired + 2 <= told[m].active
    BY <1>1, <2>5 DEF ActivationsCounted
  <2> QED BY <1>1, <1>2, <2>3, <2>4, <2>6 DEF ActivationsCounted, ExpiredOncePerActivation
<1>9. CASE ListNear \/ TellExpiring
  <2>1. CASE ListNear
    BY <1>3, <2>1 DEF ListNear, Standing, Telling
  <2>2. CASE TellExpiring
    <3>1. \A m \in Mandates : told'[m].expired = told[m].expired /\ told'[m].active = told[m].active
      BY <1>1, <2>2 DEF TellExpiring
    <3> QED BY <1>3, <2>2, <3>1 DEF TellExpiring, Standing, Telling
  <2> QED BY <1>9, <2>1, <2>2
<1>10. ASSUME NEW m \in Mandates, MarkWarned(m)
       PROVE  ActivationsCounted' /\ ExpiredOncePerActivation'
  <2>1. pass'.at = "tell-expiring" /\ told' = told
    BY <1>10 DEF MarkWarned
  <2>2. \A k \in Mandates : mandate'[k].status = mandate[k].status
    BY <1>1, <1>10 DEF MarkWarned, MandateRecords
  <2> QED BY <1>3, <2>1, <2>2 DEF Standing, Telling
<1> QED BY <1>4, <1>5, <1>6, <1>7, <1>8, <1>9, <1>10 DEF TellStep

---------------------------------------------------------------------------
\* The invariant the theorems below rest on.
THEOREM MandateInductive == Spec => []IInv
<1>1. Init => IInv
  <2> SUFFICES ASSUME Init  PROVE IInv
    OBVIOUS
  <2>1. /\ \A p \in Pages : page[p] = Closed
        /\ \A i \in Rows : row[i] = NoRow
        /\ \A m \in Mandates : mandate[m].status = "none" /\ told[m].active = 0 /\ told[m].expiring = 0
                               /\ told[m].expired = 0
        /\ portal = NoAsk
    BY DEF Init
  <2>2. pass.at = "idle" /\ DOMAIN pass.rows = {} /\ pass.gone = {} /\ pass.due = {} /\ pass.m = None
    BY DEF Init, Idle
  <2>3. TypeOK
    <3>1. Closed \in PageRecords /\ NoRow \in RowRecords /\ NoAsk \in Asks
      BY DEF PageRecords, RowRecords, Asks
    <3>2. [status |-> "none", verified |-> FALSE, notified |-> FALSE, ended |-> FALSE] \in MandateRecords
      BY DEF MandateRecords
    <3>3. <<>> \in Seq(Mandates) /\ 0 \in 0..MaxEvents /\ 0 \in 0..MaxSign
      BY BoundsAssumption
    <3>4. [active |-> 0, expiring |-> 0, expired |-> 0] \in [active : Nat, expiring : Nat, expired : Nat]
      OBVIOUS
    <3> QED BY <2>2, <3>1, <3>2, <3>3, <3>4 DEF Init, TypeOK
  <2>4. PagesHold /\ PortalHolds /\ RowsHold /\ StatusBacked /\ RevokedForCause
    BY <2>1 DEF PagesHold, PageHolds, Closed, PortalHolds, RowsHold, StatusBacked, RevokedForCause, NoRow
  <2>5. PassHolds
    BY <2>2 DEF PassHolds
  <2>6. WarningsCounted /\ WarnedOnce /\ ActivationsCounted /\ ExpiredOncePerActivation
    BY <2>1, <2>2 DEF WarningsCounted, WarnedOnce, ActivationsCounted, ExpiredOncePerActivation, Standing, Telling
  <2> QED BY <2>3, <2>4, <2>5, <2>6 DEF IInv
<1>2. IInv /\ [Next]_vars => IInv'
  BY TypesKept, PagesStep, PortalStep, RowsStep, StatusStep, PassHoldsStep, CauseStep, WarningsStep,
     ActivationsStep DEF IInv
<1> QED BY <1>1, <1>2, PTL DEF Spec

\* Types of the rows, the windows and the pass.
THEOREM MandateTypeCorrect == Spec => []TypeOK
<1>1. IInv => TypeOK
  BY DEF IInv
<1> QED BY <1>1, MandateInductive, PTL

\* A mandate that is active, or announced as expired, was proved and signed.
THEOREM MandateActiveWasProved == Spec => []ActiveWasProved
<1>1. IInv => ActiveWasProved
  BY DEF IInv, StatusBacked, Proved, HasRow, ActiveWasProved
<1> QED BY <1>1, MandateInductive, PTL

\* Nothing is revoked that nobody revoked and no wallet disabled.
THEOREM MandateRevokedForCause == Spec => []RevokedForCause
<1>1. IInv => RevokedForCause
  BY DEF IInv
<1> QED BY <1>1, MandateInductive, PTL

\* One warning before the deadline, and one announcement of it for each activation.
THEOREM MandateToldOnce == Spec => []ToldOnce
<1>1. IInv => ToldOnce
  BY DEF IInv, ToldOnce
<1> QED BY <1>1, MandateInductive, PTL

\* A window that shows success is right.
THEOREM MandateDoneIsTrue == Spec => []DoneIsTrue
<1>1. IInv => DoneIsTrue
  BY DEF IInv, PagesHold, PageHolds, DoneIsTrue
<1> QED BY <1>1, MandateInductive, PTL
==============================================================================
