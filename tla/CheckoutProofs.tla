---------------------------- MODULE CheckoutProofs ----------------------------
(***************************************************************************)
(* The hosted checkout for every number of sessions, pages, chains, grants *)
(* and runs: what was paid is what is recorded, a sweep that took money and*)
(* shows success is subscribed, the runs of a payer leave one subscription *)
(* live, and the orphan sweep keeps away from a payment in progress.       *)
(*                                                                         *)
(* A run acts on a tier it read when it began, on subscriptions it listed  *)
(* before it retires them, and writes four tables in four steps.  The      *)
(* invariant says what each of these steps may still rely on.              *)
(***************************************************************************)
EXTENDS Checkout, TLAPS

\* A run before the money, and from its subscription to its session's close.
Before == {"start", "loaded", "trial", "picked", "refused", "clear"}
After  == {"created", "linked", "retire", "closed"}
Busy   == [at   : {"start", "loaded", "trial", "picked", "refused", "clear", "pulled",
                   "paid", "created", "linked", "retire", "closed"},
           tier : Tiers, ctx : 0..MaxSign, due : SUBSET Sweeps]

\* What a tier takes at checkout.
Price(k) == IF k \in Trials THEN 0 ELSE k

\* A page that has a chain in hand.
Granting == {"signing", "sent", "found", "enable", "panel"}

\* What the wallet and POST /delegation are about to write is a whole grant.
TabsHold ==
    \A t \in Tabs :
        /\ tab[t].at \in Granting => tab[t].chain \in Chains
        /\ tab[t].at \in {"sent", "found"} => tab[t].ctx \in Contexts
        /\ tab[t].at = "found" /\ tab[t].found # None =>
               row[tab[t].found] # NoRow /\ row[tab[t].found].s = tab[t].s

\* A grant the orphan sweep has on its list is a row, and was settled when it was asked.
OrphansHold ==
    \A i \in orphan.rows :
        /\ row[i] # NoRow
        /\ orphan.at = "due" => Settled(row[i].s)

\* Where a run is says what it has pulled and written.
RunHolds(w) ==
    /\ run[w].at # "none" => sweep[w] # NoSweep
    /\ run[w].at = "none" => sub[w] = NoSub /\ pulled[w] = 0
    /\ run[w].at \in Before => sweep[w].status = "working" /\ sub[w] = NoSub /\ pulled[w] = 0
    /\ run[w].at = "trial" => run[w].tier \in Trials
    /\ run[w].at \in {"picked", "refused", "clear"} =>
           run[w].tier \notin Trials /\ run[w].ctx \in Contexts
    /\ run[w].at \in {"pulled", "paid"} => sub[w] = NoSub /\ pulled[w] = Price(run[w].tier)
    /\ run[w].at \in After => sub[w] # NoSub
    /\ run[w].at = "retire" => \A v \in run[w].due : sub[v] # NoSub
    /\ run[w].at = "closed" => session[S(w)].sub # None

RunsHold == \A w \in Sweeps : RunHolds(w)

\* x will still retire y.
Awaits(x, y) == \/ run[x].at \in {"created", "linked"}
                \/ run[x].at = "retire" /\ y \in run[x].due

\* Of two live subscriptions one run has the other still to retire: whichever was
\* created later lists after both are there.
Retiring ==
    \A v, w \in Sweeps :
        v # w /\ Live(v) /\ Live(w) => untidy \/ Awaits(v, w) \/ Awaits(w, v)

TabSide == TabsHold /\ OrphansHold
RunSide == RunsHold /\ SubscribedAsPaid /\ PaidSweepIsSubscribed /\ Retiring

IInv == TypeOK /\ TabSide /\ RunSide

-----------------------------------------------------------------------------
USE DEF Granting

(* What no step undoes. *)

RowsKept ==
    \A i \in Rows : row[i] # NoRow => row'[i] # NoRow /\ row'[i].s = row[i].s

SessionsKept ==
    \A s \in Sessions : /\ Settled(s) => Settled(s)'
                        /\ session[s].sub # None => session'[s].sub # None

LEMMA TabSideKept ==
  ASSUME TypeOK, TabSide, RowsKept, SessionsKept, UNCHANGED <<tab, orphan>>
  PROVE  TabSide'
<1>1. TabsHold'
  <2> SUFFICES ASSUME NEW t \in Tabs
               PROVE  /\ tab[t].at \in Granting => tab[t].chain \in Chains
                      /\ tab[t].at \in {"sent", "found"} => tab[t].ctx \in Contexts
                      /\ tab[t].at = "found" /\ tab[t].found # None =>
                            row'[tab[t].found] # NoRow /\ row'[tab[t].found].s = tab[t].s
    BY DEF TabsHold
  <2>1. tab[t].found \in Rows \cup {None}
    BY DEF TypeOK, TabRecords
  <2> QED BY <2>1 DEF TabSide, TabsHold, RowsKept
<1>2. OrphansHold'
  <2> SUFFICES ASSUME NEW i \in orphan.rows
               PROVE  row'[i] # NoRow /\ (orphan.at = "due" => Settled(row[i].s)')
    BY DEF OrphansHold
  <2>1. i \in Rows /\ row[i] # NoRow /\ row[i] \in RowRecords
    BY DEF TypeOK, TabSide, OrphansHold
  <2>2. row[i].s \in Sessions
    BY <2>1 DEF RowRecords
  <2>3. row'[i] # NoRow /\ row'[i].s = row[i].s
    BY <2>1 DEF RowsKept
  <2>4. orphan.at = "due" => Settled(row[i].s)
    BY DEF TabSide, OrphansHold
  <2>5. Settled(row[i].s) => Settled(row[i].s)'
    BY <2>2, <2>3 DEF SessionsKept, Settled
  <2> QED BY <2>3, <2>4, <2>5
<1> QED BY <1>1, <1>2 DEF TabSide

LEMMA RunSideKept ==
  ASSUME TypeOK, RunSide, SessionsKept, UNCHANGED <<sweep, run, sub, pulled, untidy>>
  PROVE  RunSide'
<1>1. \A w \in Sweeps : sweep[w] # NoSweep => S(w) \in Sessions
  BY DEF TypeOK, SweepRecords, S
<1>2. \A w \in Sweeps : sweep[w].status = "complete" => sweep[w] # NoSweep
  BY DEF NoSweep
<1>3. RunsHold'
  BY <1>1 DEF RunSide, RunsHold, RunHolds, SessionsKept, S
<1>4. SubscribedAsPaid'
  BY DEF RunSide, SubscribedAsPaid
<1>5. PaidSweepIsSubscribed'
  BY <1>1, <1>2 DEF RunSide, PaidSweepIsSubscribed, SessionsKept, S
<1>6. Retiring'
  BY DEF RunSide, Retiring, Live, Awaits
<1> QED BY <1>3, <1>4, <1>5, <1>6 DEF RunSide

LEMMA RowsUnchanged == ASSUME UNCHANGED row PROVE RowsKept
BY DEF RowsKept

LEMMA SessionsUnchanged == ASSUME UNCHANGED session PROVE SessionsKept
BY DEF SessionsKept, Settled

\* Linking and revoking write one column of rows that exist.
LEMMA Linked ==
  ASSUME TypeOK, NEW s \in Sessions, NEW v \in Sweeps, Link(s, v)
  PROVE  row' \in [Rows -> RowRecords] /\ RowsKept
<1>1. \A i \in Rows : row[i] \in RowRecords
  BY DEF TypeOK
<1> QED BY <1>1 DEF Link, OfSession, RowRecords, RowsKept, NoRow

LEMMA RevokedRows ==
  ASSUME TypeOK, NEW I, \A i \in I \cap Rows : row[i] # NoRow, Revoked(I)
  PROVE  row' \in [Rows -> RowRecords] /\ RowsKept
<1>1. \A i \in Rows : row[i] \in RowRecords
  BY DEF TypeOK
<1> QED BY <1>1 DEF Revoked, RowRecords, RowsKept, NoRow

LEMMA ActiveAreRows == \A s, i : i \in ActiveOf(s) => i \in Rows /\ row[i] # NoRow /\ row[i].s = s
BY DEF ActiveOf, OfSession
-----------------------------------------------------------------------------
(* The page. *)

Rest == <<events, session, expiring, sweep, row, signed, spent, sub, run, orphan, pulled, untidy>>

\* One page moved.
TabWritten(t, u) ==
    /\ u \in TabRecords
    /\ u.at \in Granting => u.chain \in Chains
    /\ u.at \in {"sent", "found"} => u.ctx \in Contexts
    /\ u.at = "found" /\ u.found # None => row[u.found] # NoRow /\ row[u.found].s = u.s
    /\ tab' = [tab EXCEPT ![t] = u]

LEMMA TabMoves ==
  ASSUME TypeOK, TabsHold, RowsKept, NEW t \in Tabs, NEW u, TabWritten(t, u)
  PROVE  tab' \in [Tabs -> TabRecords] /\ TabsHold'
<1>1. tab' \in [Tabs -> TabRecords]
  BY DEF TypeOK, TabWritten
<1>2. SUFFICES ASSUME NEW r \in Tabs
               PROVE  /\ tab'[r].at \in Granting => tab'[r].chain \in Chains
                      /\ tab'[r].at \in {"sent", "found"} => tab'[r].ctx \in Contexts
                      /\ tab'[r].at = "found" /\ tab'[r].found # None =>
                            row'[tab'[r].found] # NoRow /\ row'[tab'[r].found].s = tab'[r].s
  BY <1>1 DEF TabsHold
<1>3. tab'[r] = IF r = t THEN u ELSE tab[r]
  BY DEF TypeOK, TabWritten
<1>4. tab'[r].found \in Rows \cup {None}
  BY <1>1 DEF TabRecords
<1>5. CASE r = t
  BY <1>3, <1>4, <1>5 DEF TabWritten, RowsKept
<1>6. CASE r # t
  BY <1>3, <1>4, <1>6 DEF TabsHold, RowsKept
<1> QED BY <1>5, <1>6

LEMMA TabAlone ==
  ASSUME IInv, NEW t \in Tabs, NEW u, TabWritten(t, u), UNCHANGED Rest
  PROVE  IInv'
<1>1. RowsKept /\ SessionsKept
  BY RowsUnchanged, SessionsUnchanged DEF Rest
<1>2. tab' \in [Tabs -> TabRecords] /\ TabsHold'
  BY <1>1, TabMoves DEF IInv, TabSide
<1>3. TypeOK'
  BY <1>2 DEF IInv, TypeOK, Rest
<1>4. OrphansHold'
  BY DEF IInv, TabSide, OrphansHold, Rest, Settled
<1>5. RunSide'
  BY <1>1, RunSideKept DEF IInv, Rest
<1> QED BY <1>2, <1>3, <1>4, <1>5 DEF IInv, TabSide

LEMMA PagesAreTabs ==
  ASSUME TypeOK, NEW t \in Tabs
  PROVE  /\ tab[t] \in TabRecords
         /\ \A s \in Sessions, G \in SUBSET Chains : Page(s, G) \in TabRecords
         /\ \A place \in {"pay", "ask", "create", "wait", "success"} :
               /\ At(t, place) \in TabRecords
               /\ At(t, place).at = place
<1>1. tab[t] \in TabRecords
  BY DEF TypeOK
<1>2. 0 \in 0..MaxSign
  BY BoundsAssumption, SMT
<1>3. \A s \in Sessions, G \in SUBSET Chains : Page(s, G) \in TabRecords
  BY <1>2 DEF Page, TabRecords
<1>4. Page(tab[t].s, tab[t].granted) \in TabRecords
  BY <1>1, <1>3 DEF TabRecords
<1>5. \A place \in {"pay", "ask", "create", "wait", "success"} :
         At(t, place) \in TabRecords /\ At(t, place).at = place
  BY <1>4 DEF At, TabRecords
<1> QED BY <1>1, <1>3, <1>5

LEMMA TabsOnly ==
  ASSUME IInv, NEW t \in Tabs,
         \/ \E c \in Chains : PickChain(t, c)
         \/ FindGrant(t) \/ PanelPlan(t) \/ Ask(t) \/ Poll(t) \/ Back(t)
         \/ \E s \in Sessions : Visit(t, s)
  PROVE  IInv'
<1> USE DEF Rest
<1>0. /\ TypeOK /\ TabsHold
      /\ tab[t] \in TabRecords
  BY PagesAreTabs DEF IInv, TabSide
<1>1. ASSUME NEW c \in Chains, PickChain(t, c) PROVE IInv'
  <2> DEFINE u == [tab[t] EXCEPT !.chain = c,
                                 !.at = IF c \in tab[t].granted THEN "panel"
                                        ELSE IF Covered(tab[t].s, c) THEN "enable" ELSE "signing",
                                 !.granted = IF Covered(tab[t].s, c) THEN @ \cup {c} ELSE @]
  <2>1. TabWritten(t, u)
    BY <1>0, <1>1 DEF PickChain, TabWritten, TabRecords
  <2> QED BY <1>1, <2>1, TabAlone DEF PickChain
<1>2. CASE FindGrant(t)
  <2> DEFINE old == {i \in ActiveOf(tab[t].s) : row[i].chain = tab[t].chain}
  <2>1. PICK i \in IF old = {} THEN {None} ELSE old :
           tab' = [tab EXCEPT ![t].at = "found", ![t].found = i]
    BY <1>2 DEF FindGrant
  <2> DEFINE u == [tab[t] EXCEPT !.at = "found", !.found = i]
  <2>2. i # None => i \in Rows /\ row[i] # NoRow /\ row[i].s = tab[t].s
    BY ActiveAreRows
  <2>3. tab' = [tab EXCEPT ![t] = u]
    BY <2>1, <1>0 DEF TypeOK
  <2>4. u \in TabRecords /\ u.at = "found" /\ u.found = i /\ u.s = tab[t].s
        /\ u.chain = tab[t].chain /\ u.ctx = tab[t].ctx
    BY <1>0, <2>2 DEF TabRecords
  <2>5. tab[t].at = "sent"
    BY <1>2 DEF FindGrant
  <2>6. tab[t].chain \in Chains /\ tab[t].ctx \in Contexts
    BY <1>0, <2>5 DEF TabsHold
  <2>7. TabWritten(t, u)
    BY <2>2, <2>3, <2>4, <2>6 DEF TabWritten
  <2> QED BY <1>2, <2>7, TabAlone DEF FindGrant
<1>3. CASE PanelPlan(t)
  <2> DEFINE u == [tab[t] EXCEPT !.then = "ask",
                                 !.at = IF \E c \in Chains : Covered(tab[t].s, c)
                                        THEN "ask" ELSE "signing"]
  <2>1. tab[t].chain \in Chains
    BY <1>0, <1>3 DEF PanelPlan, TabsHold
  <2>2. TabWritten(t, u)
    BY <1>0, <1>3, <2>1 DEF PanelPlan, TabWritten, TabRecords
  <2> QED BY <1>3, <2>2, TabAlone DEF PanelPlan
<1>4. CASE Ask(t)
  <2>1. CASE Standing(tab[t].s) = {}
    <3>1. TabWritten(t, At(t, "create"))
      BY <1>0, <1>4, <2>1, PagesAreTabs DEF Ask, TabWritten
    <3> QED BY <1>4, <3>1, TabAlone DEF Ask
  <2>2. CASE Standing(tab[t].s) # {}
    <3>1. PICK w \in Standing(tab[t].s) : tab' = [tab EXCEPT ![t] = [At(t, "wait") EXCEPT !.w = w]]
      BY <1>4, <2>2 DEF Ask
    <3>2. w \in Sweeps
      BY DEF Standing
    <3>3. At(t, "wait") \in TabRecords /\ At(t, "wait").at = "wait"
      BY <1>0, PagesAreTabs
    <3>4. TabWritten(t, [At(t, "wait") EXCEPT !.w = w])
      BY <3>1, <3>2, <3>3 DEF TabWritten, TabRecords
    <3> QED BY <1>4, <3>4, TabAlone DEF Ask
  <2> QED BY <2>1, <2>2
<1>5. CASE Poll(t)
  <2> DEFINE place == IF sweep[tab[t].w].status = "complete" THEN "success" ELSE "pay"
  <2>1. At(t, place) \in TabRecords /\ At(t, place).at = place /\ place \in {"success", "pay"}
    BY <1>0, PagesAreTabs
  <2>2. TabWritten(t, At(t, place))
    BY <1>5, <2>1 DEF Poll, TabWritten
  <2> QED BY <1>5, <2>2, TabAlone DEF Poll
<1>6. CASE Back(t)
  <2>1. TabWritten(t, At(t, "pay"))
    BY <1>0, <1>6, PagesAreTabs DEF Back, TabWritten
  <2> QED BY <1>6, <2>1, TabAlone DEF Back
<1>7. ASSUME NEW s \in Sessions, Visit(t, s) PROVE IInv'
  <2>1. Page(s, {}) \in TabRecords /\ Page(s, {}).at = "pay"
    BY <1>0, PagesAreTabs DEF Page
  <2>2. TabWritten(t, Page(s, {}))
    BY <1>7, <2>1 DEF Visit, TabWritten
  <2> QED BY <1>7, <2>2, TabAlone DEF Visit
<1> QED BY <1>1, <1>2, <1>3, <1>4, <1>5, <1>6, <1>7
LEMMA TiersSelected ==
  ASSUME IInv, NEW t \in Tabs, NEW k \in Tiers, SelectTier(t, k)
  PROVE  IInv'
<1>0. TypeOK /\ tab[t].s \in Sessions
  BY DEF IInv, TypeOK, TabRecords
<1>1. session' \in [Sessions -> SessionRecords] /\ SessionsKept
  <2> DEFINE x == [session[tab[t].s] EXCEPT !.tier = k]
  <2>1. session[tab[t].s] \in SessionRecords
    BY <1>0 DEF TypeOK
  <2>2. /\ x \in SessionRecords
        /\ x.status = session[tab[t].s].status /\ x.late = session[tab[t].s].late
        /\ x.sub = session[tab[t].s].sub
    BY <2>1 DEF SessionRecords
  <2>3. session' = [session EXCEPT ![tab[t].s] = x]
    BY <1>0 DEF SelectTier, TypeOK
  <2> HIDE DEF x
  <2> QED BY <1>0, <2>2, <2>3 DEF TypeOK, SessionsKept, Settled
<1>2. TypeOK'
  BY <1>0, <1>1 DEF SelectTier, TypeOK
<1>3. TabSide'
  BY <1>0, <1>1, RowsUnchanged, TabSideKept DEF SelectTier, IInv
<1>4. RunSide'
  BY <1>0, <1>1, RunSideKept DEF SelectTier, IInv
<1> QED BY <1>2, <1>3, <1>4 DEF IInv

LEMMA ContextsSigned ==
  ASSUME IInv, NEW t \in Tabs, Sign(t)
  PROVE  IInv'
<1>0. TypeOK /\ TabsHold /\ OrphansHold /\ tab[t] \in TabRecords /\ tab[t].at = "signing"
  BY DEF IInv, TypeOK, TabSide, Sign
<1>1. session[tab[t].s].tier \in Tiers
  BY <1>0 DEF TypeOK, TabRecords, SessionRecords
<1>2. signed' \in Seq(Tiers) /\ Len(signed') = Len(signed) + 1 /\ Len(signed) \in Nat
  BY <1>0, <1>1 DEF TypeOK, Sign
<1>3. Len(signed') <= MaxSign /\ Len(signed') \in Contexts
  BY <1>2, BoundsAssumption DEF Sign, Contexts
<1>4. Len(signed') \in 0..MaxSign
  BY <1>3 DEF Contexts
<1> DEFINE u == [tab[t] EXCEPT !.at = "sent", !.ctx = Len(signed')]
<1>5. u \in TabRecords /\ u.at = "sent" /\ u.ctx = Len(signed') /\ u.chain = tab[t].chain
  BY <1>0, <1>4 DEF TabRecords
<1>6. tab[t].chain \in Chains
  BY <1>0 DEF TabsHold
<1>7. TabWritten(t, u)
  BY <1>3, <1>5, <1>6 DEF TabWritten, Sign
<1>8. RowsKept /\ SessionsKept
  BY RowsUnchanged, SessionsUnchanged DEF Sign
<1>9. tab' \in [Tabs -> TabRecords] /\ TabsHold'
  BY <1>0, <1>7, <1>8, TabMoves
<1>10. TypeOK'
  BY <1>0, <1>2, <1>3, <1>9 DEF TypeOK, Sign
<1>11. OrphansHold'
  BY <1>0 DEF OrphansHold, Sign, Settled
<1>12. RunSide'
  BY <1>0, <1>8, RunSideKept DEF IInv, Sign
<1> QED BY <1>9, <1>10, <1>11, <1>12 DEF IInv, TabSide

\* A step of a page that writes rows.
LEMMA RowsAndTab ==
  ASSUME IInv, NEW t \in Tabs, NEW u, TabWritten(t, u), row' \in [Rows -> RowRecords], RowsKept,
         UNCHANGED <<events, session, expiring, sweep, signed, spent, sub, run, orphan, pulled, untidy>>
  PROVE  IInv'
<1>0. TypeOK /\ TabsHold /\ OrphansHold
  BY DEF IInv, TabSide
<1>1. SessionsKept
  BY SessionsUnchanged
<1>2. tab' \in [Tabs -> TabRecords] /\ TabsHold'
  BY <1>0, TabMoves
<1>3. TypeOK'
  BY <1>0, <1>2 DEF TypeOK
<1>4. OrphansHold'
  <2> SUFFICES ASSUME NEW i \in orphan.rows
               PROVE  row'[i] # NoRow /\ (orphan.at = "due" => Settled(row[i].s)')
    BY DEF OrphansHold
  <2>1. i \in Rows /\ row[i] # NoRow /\ (orphan.at = "due" => Settled(row[i].s))
    BY <1>0 DEF TypeOK, OrphansHold
  <2> QED BY <2>1 DEF RowsKept, Settled
<1>5. RunSide'
  BY <1>0, <1>1, RunSideKept DEF IInv
<1> QED BY <1>2, <1>3, <1>4, <1>5 DEF IInv, TabSide

LEMMA GrantsSaved ==
  ASSUME IInv, NEW t \in Tabs, SaveGrant(t)
  PROVE  IInv'
<1> DEFINE u == tab[t]
           new == [status |-> "active", s |-> u.s, chain |-> u.chain, ctx |-> u.ctx, sub |-> None]
           v == IF u.then = "enable"
                  THEN [Page(u.s, u.granted \cup {u.chain}) EXCEPT !.at = "enable", !.chain = u.chain]
                  ELSE At(t, "ask")
<1>0. /\ TypeOK /\ TabsHold
      /\ u \in TabRecords /\ u.at = "found"
  BY PagesAreTabs DEF IInv, TabSide, SaveGrant
<1>1. u.chain \in Chains /\ u.ctx \in Contexts /\ u.s \in Sessions /\ u.found \in Rows \cup {None}
      /\ u.granted \in SUBSET Chains
  BY <1>0 DEF TabsHold, TabRecords
<1>2. new \in RowRecords /\ new # NoRow /\ new.s = u.s
  BY <1>1 DEF RowRecords, NoRow
<1>3. row' \in [Rows -> RowRecords] /\ RowsKept
  <2>1. CASE u.found = None
    <3>1. PICK i \in Rows : row[i] = NoRow /\ row' = [row EXCEPT ![i] = new]
      BY <2>1 DEF SaveGrant
    <3> QED BY <1>0, <1>2, <3>1 DEF TypeOK, RowsKept
  <2>2. CASE u.found # None
    <3>1. /\ u.found \in Rows /\ row[u.found] # NoRow /\ row[u.found].s = u.s
          /\ row[u.found] \in RowRecords
      BY <1>0, <1>1, <2>2 DEF TabsHold, TypeOK
    <3> DEFINE x == [new EXCEPT !.sub = row[u.found].sub]
    <3>2. row[u.found].sub \in Sweeps \cup {None}
      BY <3>1 DEF RowRecords
    <3>3. x \in RowRecords /\ x # NoRow /\ x.s = u.s
      BY <1>1, <3>2 DEF RowRecords, NoRow
    <3>4. row' = [row EXCEPT ![u.found] = x]
      BY <2>2 DEF SaveGrant
    <3> QED BY <1>0, <3>1, <3>3, <3>4 DEF TypeOK, RowsKept
  <2> QED BY <2>1, <2>2
<1>4. TabWritten(t, v)
  <2>1. tab' = [tab EXCEPT ![t] = v]
    BY DEF SaveGrant
  <2>2. CASE u.then = "enable"
    <3>1. Page(u.s, u.granted \cup {u.chain}) \in TabRecords
      BY <1>0, <1>1, PagesAreTabs
    <3>2. v \in TabRecords /\ v.at = "enable" /\ v.chain = u.chain
      BY <1>1, <2>2, <3>1 DEF TabRecords
    <3> QED BY <1>1, <2>1, <3>2 DEF TabWritten
  <2>3. CASE u.then # "enable"
    <3>1. v \in TabRecords /\ v.at = "ask"
      BY <1>0, <2>3, PagesAreTabs
    <3> QED BY <2>1, <3>1 DEF TabWritten
  <2> QED BY <2>2, <2>3
<1> HIDE DEF v
<1> QED BY <1>3, <1>4, RowsAndTab DEF SaveGrant

LEMMA GrantsEnabled ==
  ASSUME IInv, NEW t \in Tabs, Enable(t)
  PROVE  IInv'
<1> DEFINE v == session[tab[t].s].sub
           u == [tab[t] EXCEPT !.at = "panel"]
<1>0. TypeOK /\ TabsHold /\ tab[t] \in TabRecords /\ tab[t].at = "enable"
  BY PagesAreTabs DEF IInv, TabSide, Enable, Go
<1>1. tab[t].chain \in Chains /\ tab[t].s \in Sessions
  BY <1>0 DEF TabsHold, TabRecords
<1>2. v \in Sweeps \cup {None}
  BY <1>0, <1>1 DEF TypeOK, SessionRecords
<1>3. row' \in [Rows -> RowRecords] /\ RowsKept
  <2>1. CASE v = None
    BY <1>0, <2>1, RowsUnchanged DEF Enable, TypeOK
  <2>2. CASE v # None
    BY <1>0, <1>1, <1>2, <2>2, Linked DEF Enable
  <2> QED BY <2>1, <2>2
<1>4. TabWritten(t, u)
  BY <1>0, <1>1 DEF TabWritten, TabRecords, Enable, Go
<1> QED BY <1>3, <1>4, RowsAndTab DEF Enable

\* A step that changes rows alone, or rows and nothing the properties ask for.
LEMMA RowsAlone ==
  ASSUME IInv, row' \in [Rows -> RowRecords], RowsKept,
         UNCHANGED <<events, session, expiring, sweep, signed, spent, sub, tab, run, orphan, pulled, untidy>>
  PROVE  IInv'
<1>1. SessionsKept
  BY SessionsUnchanged
<1>2. TypeOK'
  BY DEF IInv, TypeOK
<1>3. TabSide'
  BY <1>1, TabSideKept DEF IInv
<1>4. RunSide'
  BY <1>1, RunSideKept DEF IInv
<1> QED BY <1>2, <1>3, <1>4 DEF IInv

LEMMA GrantsRevoked ==
  ASSUME IInv, NEW t \in Tabs, NEW c \in Chains, RevokeGrant(t, c)
  PROVE  IInv'
<1> DEFINE I == {i \in Unlinked(tab[t].s) : row[i].chain = c}
<1>1. \A i \in I : row[i] # NoRow
  BY ActiveAreRows DEF Unlinked
<1>2. row' \in [Rows -> RowRecords] /\ RowsKept
  BY <1>1, RevokedRows DEF IInv, RevokeGrant
<1> QED BY <1>2, RowsAlone DEF RevokeGrant
-----------------------------------------------------------------------------
(* The detached run. *)

AsPaid(w) == sub[w] # NoSub =>
                 pulled[w] = IF sub[w].tier \in Trials THEN 0 ELSE sub[w].tier

Shown(w) == sweep[w].status = "complete" /\ pulled[w] > 0 =>
                session[S(w)].sub # None /\ sub[w] # NoSub

\* A step of w's run may create w's subscription, and undoes none.
SubsKept(w) ==
    \A v \in Sweeps :
        /\ sub[v] # NoSub => sub'[v] # NoSub /\ sub'[v].tier = sub[v].tier
        /\ v # w /\ sub[v] = NoSub => sub'[v] = NoSub

LEMMA RunSideMoves ==
  ASSUME TypeOK, RunSide, SessionsKept, NEW w \in Sweeps, SubsKept(w),
         \A v \in Sweeps \ {w} :
            run'[v] = run[v] /\ sweep'[v] = sweep[v] /\ pulled'[v] = pulled[v],
         RunHolds(w)', AsPaid(w)', Shown(w)', Retiring'
  PROVE  RunSide'
<1>1. \A v \in Sweeps : sweep[v] # NoSweep => S(v) \in Sessions
  BY DEF TypeOK, SweepRecords, S
<1>2. ASSUME NEW v \in Sweeps, v # w
      PROVE  RunHolds(v)' /\ AsPaid(v)' /\ Shown(v)'
  <2>1. run'[v] = run[v] /\ sweep'[v] = sweep[v] /\ pulled'[v] = pulled[v] /\ S(v)' = S(v)
    BY <1>2 DEF S
  <2>2. RunHolds(v) /\ AsPaid(v) /\ Shown(v)
    BY DEF RunSide, RunsHold, SubscribedAsPaid, AsPaid, PaidSweepIsSubscribed, Shown
  <2>3. /\ sub[v] # NoSub => sub'[v] # NoSub /\ sub'[v].tier = sub[v].tier
        /\ sub[v] = NoSub => sub'[v] = NoSub
    BY <1>2 DEF SubsKept
  <2>4. run[v] \in RunRecords
    BY DEF TypeOK
  <2>5. run[v].at = "retire" => run[v].due \subseteq Sweeps
    BY <2>4 DEF RunRecords, Gone, Thrown, Failing
  <2>6. run[v].at = "closed" => S(v) \in Sessions
    BY <1>1, <2>2 DEF RunHolds
  <2>7. RunHolds(v)'
    BY <2>1, <2>2, <2>3, <2>5, <2>6 DEF RunHolds, SubsKept, SessionsKept
  <2>8. AsPaid(v)'
    BY <2>1, <2>2, <2>3 DEF AsPaid
  <2>9. sweep[v].status = "complete" => S(v) \in Sessions
    BY <1>1 DEF NoSweep
  <2>10. Shown(v)'
    BY <2>1, <2>2, <2>3, <2>9 DEF Shown, SessionsKept
  <2> QED BY <2>7, <2>8, <2>10
<1> QED BY <1>2 DEF RunSide, RunsHold, SubscribedAsPaid, AsPaid, PaidSweepIsSubscribed, Shown

\* While nothing becomes live, what a run no longer awaits must be gone or untidy.
LEMMA RetiringKept ==
  ASSUME Retiring, NEW w \in Sweeps,
         \A v \in Sweeps : Live(v)' => Live(v),
         untidy => untidy',
         \A v \in Sweeps \ {w} : run'[v] = run[v],
         \A y \in Sweeps : Live(y)' /\ Awaits(w, y) => untidy' \/ Awaits(w, y)'
  PROVE  Retiring'
<1> SUFFICES ASSUME NEW v \in Sweeps, NEW y \in Sweeps, v # y, Live(v)', Live(y)'
             PROVE  untidy' \/ Awaits(v, y)' \/ Awaits(y, v)'
  BY DEF Retiring
<1>1. untidy \/ Awaits(v, y) \/ Awaits(y, v)
  BY DEF Retiring
<1>2. ASSUME NEW a \in Sweeps, NEW b \in Sweeps, Live(b)', Awaits(a, b)
      PROVE  untidy' \/ Awaits(a, b)'
  BY <1>2 DEF Awaits
<1> QED BY <1>1, <1>2

LEMMA Stages ==
  ASSUME TypeOK, NEW w \in Sweeps
  PROVE  /\ run[w] \in RunRecords
         /\ run[w].at \in Before \cup {"pulled", "paid"} \cup After => run[w] \in Busy
         /\ Failing \in RunRecords /\ [at |-> "ended"] \in RunRecords
         /\ [at |-> "dead"] \in RunRecords /\ Thrown \in RunRecords
         /\ Busy \subseteq RunRecords
         /\ sweep[w] # NoSweep => sweep[w] \in SweepRecords /\ S(w) \in Sessions
<1>1. run[w] \in RunRecords
  BY DEF TypeOK
<1>2. run[w].at \in Before \cup {"pulled", "paid"} \cup After => run[w] \in Busy
  BY <1>1 DEF RunRecords, Gone, Thrown, Failing, Busy, Before, After
<1>3. /\ Failing \in RunRecords /\ [at |-> "ended"] \in RunRecords
      /\ [at |-> "dead"] \in RunRecords /\ Thrown \in RunRecords
  BY DEF RunRecords, Gone
<1>4. Busy \subseteq RunRecords
  BY DEF RunRecords, Busy
<1>5. sweep[w] # NoSweep => sweep[w] \in SweepRecords /\ S(w) \in Sessions
  BY DEF TypeOK, SweepRecords, S
<1> QED BY <1>1, <1>2, <1>3, <1>4, <1>5

\* A step that moves one run, and perhaps writes rows.
LEMMA RunAlone ==
  ASSUME IInv, NEW w \in Sweeps, NEW x \in RunRecords, run' = [run EXCEPT ![w] = x],
         row' \in [Rows -> RowRecords], RowsKept, untidy' \in BOOLEAN, untidy => untidy',
         RunHolds(w)',
         \A y \in Sweeps : Awaits(w, y) => untidy' \/ Awaits(w, y)',
         UNCHANGED <<events, session, expiring, sweep, signed, spent, sub, tab, orphan, pulled>>
  PROVE  IInv'
<1>0. TypeOK /\ TabSide /\ RunSide
  BY DEF IInv
<1>1. SessionsKept
  BY SessionsUnchanged
<1>2. TypeOK'
  BY <1>0 DEF TypeOK
<1>3. TabSide'
  BY <1>0, <1>1, TabSideKept
<1>4. \A v \in Sweeps \ {w} : run'[v] = run[v]
  BY <1>0 DEF TypeOK
<1>5. Retiring'
  BY <1>0, <1>4, RetiringKept DEF RunSide, Live
<1>6. AsPaid(w)' /\ Shown(w)'
  BY <1>0 DEF RunSide, SubscribedAsPaid, AsPaid, PaidSweepIsSubscribed, Shown, S
<1>7. SubsKept(w)
  BY DEF SubsKept
<1>8. RunSide'
  BY <1>0, <1>1, <1>4, <1>5, <1>6, <1>7, RunSideMoves
<1> QED BY <1>2, <1>3, <1>8 DEF IInv
\* The stage of a run, and what is known of it there.
LEMMA AtStage ==
  ASSUME IInv, NEW w \in Sweeps
  PROVE  /\ TypeOK /\ RunHolds(w)
         /\ run[w].at \in Before \cup {"pulled", "paid"} \cup After =>
               run[w] \in Busy /\ run[w].tier \in Tiers /\ sweep[w] # NoSweep /\ S(w) \in Sessions
<1>1. TypeOK /\ RunHolds(w)
  BY DEF IInv, RunSide, RunsHold
<1>2. run[w].at \in Before \cup {"pulled", "paid"} \cup After => run[w] \in Busy
  BY <1>1, Stages
<1>3. run[w].at \in Before \cup {"pulled", "paid"} \cup After => run[w].at # "none"
  BY DEF Before, After
<1>4. run[w].at \in Before \cup {"pulled", "paid"} \cup After => sweep[w] # NoSweep /\ S(w) \in Sessions
  BY <1>1, <1>3, Stages DEF RunHolds
<1> QED BY <1>1, <1>2, <1>4 DEF Busy

LEMMA RunReads ==
  ASSUME IInv, NEW w \in Sweeps,
         Load(w) \/ PickGrant(w) \/ CheckTier(w) \/ Settle(w)
  PROVE  IInv'
<1>0. TypeOK /\ RunHolds(w)
  BY AtStage
<1>s. Busy \subseteq RunRecords
  BY <1>0, Stages
<1>r. /\ RowsKept /\ row' \in [Rows -> RowRecords]
      /\ untidy' \in BOOLEAN /\ (untidy => untidy')
      /\ UNCHANGED <<events, session, expiring, sweep, signed, spent, sub, tab, orphan, pulled>>
  BY <1>0, RowsUnchanged DEF TypeOK, Load, PickGrant, CheckTier, Settle
<1>1. CASE Load(w)
  <2> DEFINE x == [run[w] EXCEPT !.at = "loaded", !.tier = session[S(w)].tier]
  <2>1. run[w] \in Busy /\ S(w) \in Sessions /\ run[w].at = "start"
    BY <1>1, AtStage DEF Load, Before
  <2>2. session[S(w)].tier \in Tiers
    BY <1>0, <2>1 DEF TypeOK, SessionRecords
  <2>3. x \in Busy /\ x.at = "loaded"
    BY <2>1, <2>2 DEF Busy
  <2>4. run' = [run EXCEPT ![w] = x]
    BY <1>0, <1>1 DEF Load, TypeOK
  <2>5. run'[w] = x
    BY <1>0, <2>4 DEF TypeOK
  <2> HIDE DEF x
  <2>6. RunHolds(w)'
    BY <1>0, <1>1, <2>1, <2>3, <2>5 DEF RunHolds, Load, Before, After
  <2>7. \A y \in Sweeps : ~Awaits(w, y)
    BY <2>1 DEF Awaits
  <2> QED BY <1>s, <1>r, <2>3, <2>4, <2>6, <2>7, RunAlone
<1>2. CASE PickGrant(w)
  <2>1. run[w] \in Busy /\ run[w].at = "loaded"
    BY <1>2, AtStage DEF PickGrant, Before
  <2>2. PICK i \in ActiveOf(S(w)) :
           run' = [run EXCEPT ![w].ctx = row[i].ctx,
                              ![w].at = IF run[w].tier \in FreeFirst THEN "trial" ELSE "picked"]
    BY <1>2 DEF PickGrant
  <2> DEFINE x == [run[w] EXCEPT !.ctx = row[i].ctx,
                                 !.at = IF run[w].tier \in FreeFirst THEN "trial" ELSE "picked"]
  <2>3. row[i].ctx \in Contexts /\ row[i].ctx \in 0..MaxSign
    <3>1. i \in Rows /\ row[i] # NoRow
      BY ActiveAreRows
    <3>2. row[i].ctx \in Contexts
      BY <1>0, <3>1 DEF TypeOK, RowRecords
    <3> QED BY <3>2, BoundsAssumption, SMT DEF Contexts
  <2>4. /\ x \in Busy /\ x.tier = run[w].tier /\ x.ctx \in Contexts
        /\ x.at = IF run[w].tier \in Trials THEN "trial" ELSE "picked"
    BY <2>1, <2>3 DEF Busy, FreeFirst
  <2>5. run' = [run EXCEPT ![w] = x] /\ run'[w] = x
    BY <1>0, <2>2 DEF TypeOK
  <2> HIDE DEF x
  <2>6. RunHolds(w)'
    BY <1>0, <1>2, <2>1, <2>4, <2>5 DEF RunHolds, PickGrant, Before, After
  <2>7. \A y \in Sweeps : ~Awaits(w, y)
    BY <2>1 DEF Awaits
  <2> QED BY <1>s, <1>r, <2>4, <2>5, <2>6, <2>7, RunAlone
<1>3. CASE CheckTier(w)
  <2> DEFINE to == IF \E v \in Sweeps : Live(v) /\ sub[v].tier = run[w].tier
                   THEN "refused" ELSE "clear"
             x == [run[w] EXCEPT !.at = to]
  <2>1. run[w] \in Busy /\ run[w].at = "picked"
    BY <1>3, AtStage DEF CheckTier, Step, Before
  <2>2. to \in {"refused", "clear"}
    OBVIOUS
  <2>3. x \in Busy /\ x.tier = run[w].tier /\ x.ctx = run[w].ctx /\ x.at = to
    BY <2>1, <2>2 DEF Busy
  <2>4. run' = [run EXCEPT ![w] = x] /\ run'[w] = x
    BY <1>0, <1>3 DEF TypeOK, CheckTier, Step
  <2> HIDE DEF to, x
  <2>5. RunHolds(w)'
    BY <1>0, <1>3, <2>1, <2>2, <2>3, <2>4 DEF RunHolds, CheckTier, Before, After
  <2>6. \A y \in Sweeps : ~Awaits(w, y)
    BY <2>1 DEF Awaits
  <2> QED BY <1>s, <1>r, <2>3, <2>4, <2>5, <2>6, RunAlone
<1>4. CASE Settle(w)
  <2> DEFINE x == [run[w] EXCEPT !.at = "paid"]
  <2>1. run[w] \in Busy /\ run[w].at = "pulled"
    BY <1>4, AtStage DEF Settle, Step
  <2>2. x \in Busy /\ x.tier = run[w].tier /\ x.at = "paid"
    BY <2>1 DEF Busy
  <2>3. run' = [run EXCEPT ![w] = x] /\ run'[w] = x
    BY <1>0, <1>4 DEF TypeOK, Settle, Step
  <2> HIDE DEF x
  <2>4. RunHolds(w)'
    BY <1>0, <1>4, <2>1, <2>2, <2>3 DEF RunHolds, Settle, Before, After
  <2>5. \A y \in Sweeps : ~Awaits(w, y)
    BY <2>1 DEF Awaits
  <2> QED BY <1>s, <1>r, <2>2, <2>3, <2>4, <2>5, RunAlone
<1> QED BY <1>1, <1>2, <1>3, <1>4
LEMMA RunFails ==
  ASSUME IInv, NEW w \in Sweeps, Refuse(w) \/ RunThrows(w)
  PROVE  IInv'
<1>0. TypeOK /\ RunHolds(w) /\ sweep[w] # NoSweep /\ S(w) \in Sessions /\ Failing \in RunRecords
  BY AtStage, Stages DEF Refuse, RunThrows, Before, After
<1>1. run' = [run EXCEPT ![w] = Failing] /\ run'[w] = Failing /\ sweep' = sweep
  BY <1>0 DEF Refuse, RunThrows, TypeOK
<1>2. RunHolds(w)'
  BY <1>0, <1>1 DEF RunHolds, Failing, Before, After
<1>3. CASE Refuse(w)
  <2>1. row' \in [Rows -> RowRecords] /\ RowsKept
    BY <1>0, <1>3, ActiveAreRows, RevokedRows DEF Refuse, Unlinked
  <2>2. \A y \in Sweeps : ~Awaits(w, y)
    BY <1>3 DEF Refuse, Awaits
  <2>3. /\ untidy' \in BOOLEAN /\ (untidy => untidy')
        /\ UNCHANGED <<events, session, expiring, sweep, signed, spent, sub, tab, orphan, pulled>>
    BY <1>0, <1>3 DEF Refuse, TypeOK
  <2> QED BY <1>0, <1>1, <1>2, <2>1, <2>2, <2>3, RunAlone
<1>4. CASE RunThrows(w)
  <2>1. row' \in [Rows -> RowRecords] /\ RowsKept
    BY <1>0, <1>4, RowsUnchanged DEF RunThrows, TypeOK
  <2>2. \A y \in Sweeps : Awaits(w, y) => untidy'
    BY <1>4 DEF RunThrows, Awaits, Unretired
  <2>3. /\ untidy' \in BOOLEAN /\ (untidy => untidy')
        /\ UNCHANGED <<events, session, expiring, sweep, signed, spent, sub, tab, orphan, pulled>>
    BY <1>0, <1>4 DEF RunThrows, TypeOK, Unretired
  <2> QED BY <1>0, <1>1, <1>2, <2>1, <2>2, <2>3, RunAlone
<1> QED BY <1>3, <1>4

\* A run that throws where nothing catches ends, and leaves every row as it is.
LEMMA RunThrown ==
  ASSUME IInv, NEW w \in Sweeps, StartThrows(w) \/ FailSweepThrows(w)
  PROVE  IInv'
<1>0. TypeOK /\ RunHolds(w) /\ Thrown \in RunRecords /\ run[w].at \in {"start", "failing"}
  BY AtStage, Stages DEF StartThrows, FailSweepThrows
<1>1. /\ run' = [run EXCEPT ![w] = Thrown] /\ run'[w] = Thrown
      /\ UNCHANGED <<events, session, expiring, sweep, row, signed, spent, sub, tab, orphan,
                     pulled, untidy>>
  BY <1>0 DEF StartThrows, FailSweepThrows, TypeOK
<1>2. row' \in [Rows -> RowRecords] /\ RowsKept /\ untidy' \in BOOLEAN
  BY <1>0, <1>1, RowsUnchanged DEF TypeOK
<1>3. RunHolds(w)'
  BY <1>0, <1>1 DEF RunHolds, Thrown, Before, After
<1>4. \A y \in Sweeps : ~Awaits(w, y)
  BY <1>0 DEF Awaits
<1> QED BY <1>0, <1>1, <1>2, <1>3, <1>4, RunAlone

\* The grants are linked, and the prior subscriptions listed.
LEMMA RunLists ==
  ASSUME IInv, NEW w \in Sweeps, LinkGrants(w) \/ ListPrior(w)
  PROVE  IInv'
<1>0. TypeOK /\ RunHolds(w) /\ run[w] \in Busy /\ sweep[w] # NoSweep /\ S(w) \in Sessions
  BY AtStage DEF LinkGrants, ListPrior, Step, After
<1>s. Busy \subseteq RunRecords
  BY <1>0, Stages
<1>f. /\ untidy' \in BOOLEAN /\ (untidy => untidy')
      /\ UNCHANGED <<events, session, expiring, sweep, signed, spent, sub, tab, orphan, pulled>>
  BY <1>0 DEF LinkGrants, ListPrior, TypeOK
<1>1. CASE LinkGrants(w)
  <2> DEFINE x == [run[w] EXCEPT !.at = "linked"]
  <2>1. row' \in [Rows -> RowRecords] /\ RowsKept
    BY <1>0, <1>1, Linked DEF LinkGrants
  <2>2. x \in Busy /\ x.at = "linked" /\ run[w].at = "created"
    BY <1>0, <1>1 DEF Busy, LinkGrants, Step
  <2>3. run' = [run EXCEPT ![w] = x] /\ run'[w] = x
    BY <1>0, <1>1 DEF LinkGrants, Step, TypeOK
  <2> HIDE DEF x
  <2>4. RunHolds(w)'
    BY <1>0, <1>f, <2>2, <2>3 DEF RunHolds, Before, After
  <2>5. \A y \in Sweeps : Awaits(w, y)'
    BY <2>2, <2>3 DEF Awaits
  <2> QED BY <1>s, <1>f, <2>1, <2>2, <2>3, <2>4, <2>5, RunAlone
<1>2. CASE ListPrior(w)
  <2> DEFINE x == [run[w] EXCEPT !.at = "retire", !.due = Prior(w)]
  <2>1. row' \in [Rows -> RowRecords] /\ RowsKept
    BY <1>0, <1>2, RowsUnchanged DEF ListPrior, TypeOK
  <2>2. x \in Busy /\ x.at = "retire" /\ x.due = Prior(w) /\ run[w].at = "linked"
    BY <1>0, <1>2 DEF Busy, ListPrior, Prior
  <2>3. run' = [run EXCEPT ![w] = x] /\ run'[w] = x
    BY <1>0, <1>2 DEF ListPrior, TypeOK
  <2>4. \A v \in Prior(w) : sub[v] # NoSub
    BY DEF Prior, Live, NoSub
  <2> HIDE DEF x
  <2>5. RunHolds(w)'
    BY <1>0, <1>f, <2>2, <2>3, <2>4 DEF RunHolds, Before, After
  <2>6. TypeOK' /\ TabSide'
    <3>1. TypeOK'
      BY <1>0, <1>s, <1>f, <2>1, <2>2, <2>3 DEF TypeOK
    <3>2. TabSide'
      BY <1>0, <1>f, <2>1, TabSideKept, SessionsUnchanged DEF IInv
    <3> QED BY <3>1, <3>2
  <2>7. \A v \in Sweeps \ {w} : run'[v] = run[v]
    BY <1>0, <2>3 DEF TypeOK
  <2>8. Retiring'
    <3> SUFFICES ASSUME NEW v \in Sweeps, NEW y \in Sweeps, v # y, Live(v)', Live(y)'
                 PROVE  untidy' \/ Awaits(v, y)' \/ Awaits(y, v)'
      BY DEF Retiring
    <3>1. Live(v) /\ Live(y)
      BY <1>f DEF Live
    <3>2. untidy \/ Awaits(v, y) \/ Awaits(y, v)
      BY <3>1 DEF Retiring, IInv, RunSide
    <3>3. ASSUME NEW a \in Sweeps, NEW b \in Sweeps, a # b, Live(b), Awaits(a, b)
          PROVE  Awaits(a, b)'
      <4>1. CASE a = w
        BY <2>2, <2>3, <3>3, <4>1 DEF Awaits, Prior
      <4>2. CASE a # w
        BY <2>7, <3>3, <4>2 DEF Awaits
      <4> QED BY <4>1, <4>2
    <3> QED BY <1>f, <3>1, <3>2, <3>3
  <2>9. AsPaid(w)' /\ Shown(w)'
    BY <1>f DEF IInv, RunSide, SubscribedAsPaid, AsPaid, PaidSweepIsSubscribed, Shown, S
  <2>10. SubsKept(w)
    BY <1>f DEF SubsKept
  <2>11. RunSide'
    BY <1>0, <1>f, <2>5, <2>7, <2>8, <2>9, <2>10, RunSideMoves, SessionsUnchanged DEF IInv
  <2> QED BY <2>6, <2>11 DEF IInv
<1> QED BY <1>1, <1>2

LEMMA MoneyPulled ==
  ASSUME IInv, NEW w \in Sweeps, Pull(w) \/ PullSeenAsFailed(w)
  PROVE  IInv'
<1>0. /\ TypeOK /\ RunHolds(w) /\ run[w] \in Busy /\ sweep[w] # NoSweep /\ S(w) \in Sessions
      /\ run[w].at = "clear" /\ run[w].tier \in Tiers
  BY AtStage DEF Pull, PullSeenAsFailed, Redeem, Before
<1>1. /\ sweep[w].status = "working" /\ sub[w] = NoSub /\ run[w].tier \notin Trials
      /\ pulled[w] + run[w].tier = run[w].tier
  <2>1. pulled[w] = 0 /\ run[w].tier \in Nat
    BY <1>0, TiersAssumption DEF RunHolds, Before
  <2> QED BY <1>0, <2>1 DEF RunHolds, Before
<1>2. /\ pulled' = [pulled EXCEPT ![w] = run[w].tier] /\ pulled'[w] = run[w].tier
      /\ UNCHANGED <<events, session, expiring, sweep, row, signed, sub, tab, orphan, untidy>>
  BY <1>0, <1>1 DEF Pull, PullSeenAsFailed, Redeem, TypeOK
<1>3. PICK x \in RunRecords :
         /\ run' = [run EXCEPT ![w] = x]
         /\ x.at = "failing" \/ (x.at = "pulled" /\ x.tier = run[w].tier)
  <2>1. CASE Pull(w)
    <3> DEFINE x == [run[w] EXCEPT !.at = "pulled", !.ctx = 0]
    <3>1. 0 \in 0..MaxSign
      BY BoundsAssumption, SMT
    <3>2. x \in Busy /\ x.at = "pulled" /\ x.tier = run[w].tier
      BY <1>0, <3>1 DEF Busy
    <3>3. run' = [run EXCEPT ![w] = x]
      BY <1>0, <2>1 DEF Pull, TypeOK
    <3> QED BY <1>0, <3>2, <3>3, Stages
  <2>2. CASE PullSeenAsFailed(w)
    BY <1>0, <2>2, Stages DEF PullSeenAsFailed, Failing
  <2> QED BY <2>1, <2>2
<1>4. run'[w] = x /\ \A v \in Sweeps \ {w} : run'[v] = run[v] /\ pulled'[v] = pulled[v]
  BY <1>0, <1>2, <1>3 DEF TypeOK
<1>5. RunHolds(w)'
  BY <1>0, <1>1, <1>2, <1>3, <1>4 DEF RunHolds, Before, After, Price
<1>6. AsPaid(w)' /\ Shown(w)'
  BY <1>1, <1>2 DEF AsPaid, Shown
<1>7. Retiring'
  <2>1. \A y \in Sweeps : ~Awaits(w, y)
    BY <1>0 DEF Awaits
  <2> QED BY <1>2, <1>4, <2>1, RetiringKept DEF Live, IInv, RunSide
<1>8. RowsKept /\ SessionsKept /\ SubsKept(w)
  BY <1>2, RowsUnchanged, SessionsUnchanged DEF SubsKept
<1>9. RunSide'
  BY <1>0, <1>2, <1>4, <1>5, <1>6, <1>7, <1>8, RunSideMoves DEF IInv
<1>10. TabSide'
  BY <1>0, <1>2, <1>8, TabSideKept DEF IInv
<1>11. TypeOK'
  <2>1. spent' \subseteq Contexts
    <3>1. spent' = spent \cup {run[w].ctx}
      BY DEF Pull, PullSeenAsFailed, Redeem
    <3>2. run[w].ctx \in Contexts
      BY <1>0 DEF RunHolds
    <3> QED BY <1>0, <3>1, <3>2 DEF TypeOK
  <2> QED BY <1>0, <1>2, <1>3, <2>1 DEF TypeOK
<1> QED BY <1>9, <1>10, <1>11 DEF IInv
LEMMA TrialsCompleted ==
  ASSUME IInv, NEW w \in Sweeps, TrialSweep(w)
  PROVE  IInv'
<1> DEFINE x == [run[w] EXCEPT !.at = "paid", !.ctx = 0]
           z == [sweep[w] EXCEPT !.status = "complete"]
<1>0. /\ TypeOK /\ RunHolds(w) /\ run[w] \in Busy /\ sweep[w] # NoSweep /\ S(w) \in Sessions
      /\ run[w].at = "trial" /\ sweep[w] \in SweepRecords
  BY AtStage, Stages DEF TrialSweep, Before
<1>1. sub[w] = NoSub /\ pulled[w] = 0 /\ run[w].tier \in Trials
  BY <1>0 DEF RunHolds, Before
<1>2. x \in Busy /\ x.at = "paid" /\ x.tier = run[w].tier
  <2>1. 0 \in 0..MaxSign
    BY BoundsAssumption, SMT
  <2> QED BY <1>0, <2>1 DEF Busy
<1>3. z \in SweepRecords /\ z # NoSweep /\ z.status = "complete" /\ z.s = sweep[w].s
  BY <1>0 DEF SweepRecords, NoSweep
<1>4. /\ run' = [run EXCEPT ![w] = x] /\ run'[w] = x
      /\ sweep' = [sweep EXCEPT ![w] = z] /\ sweep'[w] = z
      /\ \A v \in Sweeps \ {w} : run'[v] = run[v] /\ sweep'[v] = sweep[v]
      /\ UNCHANGED <<events, session, expiring, row, signed, spent, sub, tab, orphan, pulled, untidy>>
  BY <1>0 DEF TrialSweep, TypeOK
<1> HIDE DEF x, z
<1>5. RunHolds(w)' /\ AsPaid(w)' /\ Shown(w)'
  BY <1>1, <1>2, <1>3, <1>4 DEF RunHolds, Before, After, Price, AsPaid, Shown
<1>6. Retiring'
  <2>1. \A y \in Sweeps : ~Awaits(w, y)
    BY <1>0 DEF Awaits
  <2> QED BY <1>4, <2>1, RetiringKept DEF Live, IInv, RunSide
<1>7. RowsKept /\ SessionsKept /\ SubsKept(w)
  BY <1>4, RowsUnchanged, SessionsUnchanged DEF SubsKept
<1>8. RunSide'
  BY <1>0, <1>4, <1>5, <1>6, <1>7, RunSideMoves DEF IInv
<1>9. TabSide'
  BY <1>0, <1>4, <1>7, TabSideKept DEF IInv
<1>10. TypeOK'
  <2>1. x \in RunRecords
    BY <1>0, <1>2, Stages
  <2> QED BY <1>0, <1>3, <1>4, <2>1 DEF TypeOK
<1> QED BY <1>8, <1>9, <1>10 DEF IInv

LEMMA SubsCreated ==
  ASSUME IInv, NEW w \in Sweeps, CreateSub(w)
  PROVE  IInv'
<1> DEFINE x == [run[w] EXCEPT !.at = "created"]
           z == [status |-> "live", tier |-> run[w].tier]
<1>0. /\ TypeOK /\ RunHolds(w) /\ run[w] \in Busy /\ sweep[w] # NoSweep /\ S(w) \in Sessions
      /\ run[w].at = "paid" /\ run[w].tier \in Tiers
  BY AtStage DEF CreateSub, Step
<1>1. sub[w] = NoSub /\ pulled[w] = Price(run[w].tier)
  BY <1>0 DEF RunHolds
<1>2. x \in Busy /\ x.at = "created"
  BY <1>0 DEF Busy
<1>3. z \in SubRecords /\ z # NoSub /\ z.tier = run[w].tier
  BY <1>0 DEF SubRecords, NoSub
<1>4. /\ run' = [run EXCEPT ![w] = x] /\ run'[w] = x
      /\ sub' = [sub EXCEPT ![w] = z] /\ sub'[w] = z
      /\ \A v \in Sweeps \ {w} : run'[v] = run[v] /\ sub'[v] = sub[v]
      /\ UNCHANGED <<events, session, expiring, sweep, row, signed, spent, tab, orphan, pulled, untidy>>
  BY <1>0 DEF CreateSub, Step, TypeOK, TierRead
<1> HIDE DEF x, z
<1>5. RunHolds(w)' /\ AsPaid(w)' /\ Shown(w)'
  <2>1. RunHolds(w)'
    BY <1>0, <1>2, <1>3, <1>4 DEF RunHolds, Before, After
  <2>2. AsPaid(w)'
    BY <1>1, <1>3, <1>4 DEF AsPaid, Price
  <2>3. Shown(w)
    BY DEF IInv, RunSide, PaidSweepIsSubscribed, Shown
  <2>4. Shown(w)'
    BY <1>1, <1>4, <2>3 DEF Shown, S
  <2> QED BY <2>1, <2>2, <2>4
<1>6. Retiring'
  <2> SUFFICES ASSUME NEW v \in Sweeps, NEW y \in Sweeps, v # y, Live(v)', Live(y)'
               PROVE  untidy' \/ Awaits(v, y)' \/ Awaits(y, v)'
    BY DEF Retiring
  <2>1. \A u \in Sweeps : Awaits(w, u)'
    BY <1>2, <1>4 DEF Awaits
  <2>2. CASE v # w /\ y # w
    <3>1. Live(v) /\ Live(y)
      BY <1>4, <2>2 DEF Live
    <3>2. untidy \/ Awaits(v, y) \/ Awaits(y, v)
      BY <3>1 DEF IInv, RunSide, Retiring
    <3> QED BY <1>4, <2>2, <3>2 DEF Awaits
  <2> QED BY <2>1, <2>2
<1>7. RowsKept /\ SessionsKept /\ SubsKept(w)
  BY <1>1, <1>4, RowsUnchanged, SessionsUnchanged DEF SubsKept
<1>8. RunSide'
  BY <1>0, <1>4, <1>5, <1>6, <1>7, RunSideMoves DEF IInv
<1>9. TabSide'
  BY <1>0, <1>4, <1>7, TabSideKept DEF IInv
<1>10. TypeOK'
  <2>1. x \in RunRecords
    BY <1>0, <1>2, Stages
  <2> QED BY <1>0, <1>3, <1>4, <2>1 DEF TypeOK
<1> QED BY <1>8, <1>9, <1>10 DEF IInv

\* v is a row still, and no longer live.
SubGone(v) ==
    \A u \in Sweeps :
        /\ (sub[u] # NoSub) => (sub'[u] # NoSub)
        /\ (sub[u] = NoSub) => (sub'[u] = NoSub)
        /\ (sub[u] # NoSub) => (sub'[u].tier = sub[u].tier)
        /\ Live(u)' => Live(u) /\ u # v

\* revokeSubscription.
LEMMA SubEnded ==
  ASSUME TypeOK, NEW v \in Sweeps, sub[v] # NoSub, EndSub(v)
  PROVE  /\ sub' \in [Sweeps -> SubRecords]
         /\ SubGone(v)
         /\ row' \in [Rows -> RowRecords] /\ RowsKept
<1> DEFINE z == [sub[v] EXCEPT !.status = "cancelled"]
<1>1. sub[v] \in SubRecords
  BY DEF TypeOK
<1>2. z \in SubRecords /\ z # NoSub /\ z.tier = sub[v].tier /\ z.status = "cancelled"
  BY <1>1 DEF SubRecords, NoSub
<1>3. sub' = [sub EXCEPT ![v] = z]
  BY DEF EndSub, Ended, TypeOK
<1> HIDE DEF z
<1>4. sub' \in [Sweeps -> SubRecords]
  BY <1>2, <1>3 DEF TypeOK
<1>5. SubGone(v)
  BY <1>2, <1>3 DEF TypeOK, Live, SubGone
<1>6. row' \in [Rows -> RowRecords] /\ RowsKept
  <2> DEFINE I == {i \in Rows : row[i].status = "active" /\ row[i].sub = v}
  <2>1. \A i \in I \cap Rows : row[i] # NoRow
    BY DEF NoRow
  <2>2. Revoked(I)
    BY DEF EndSub
  <2> QED BY <2>1, <2>2, RevokedRows
<1> QED BY <1>4, <1>5, <1>6

LEMMA PriorRetired ==
  ASSUME IInv, NEW w \in Sweeps, NEW v \in Sweeps, Retire(w, v) \/ RetireFails(w, v)
  PROVE  IInv'
<1> DEFINE x == [run[w] EXCEPT !.due = @ \ {v}]
<1>0. /\ TypeOK /\ RunHolds(w) /\ run[w] \in Busy /\ sweep[w] # NoSweep /\ S(w) \in Sessions
      /\ run[w].at = "retire" /\ v \in run[w].due
  BY AtStage DEF Retire, RetireFails, After
<1>1. sub[v] # NoSub
  BY <1>0 DEF RunHolds
<1>2. x \in Busy /\ x.at = "retire" /\ x.due = run[w].due \ {v}
  BY <1>0 DEF Busy
<1>3. x \in RunRecords
  BY <1>0, <1>2, Stages
<1>4. /\ run' = [run EXCEPT ![w] = x] /\ run'[w] = x
      /\ \A u \in Sweeps \ {w} : run'[u] = run[u]
      /\ UNCHANGED <<events, session, expiring, sweep, signed, spent, tab, orphan, pulled>>
  BY <1>0 DEF Retire, RetireFails, TypeOK
<1> HIDE DEF x
<1>5. \A u \in Sweeps : u \in run[w].due => sub[u] # NoSub
  BY <1>0 DEF RunHolds
<1>6. CASE Retire(w, v)
  <2>1. /\ sub' \in [Sweeps -> SubRecords]
        /\ SubGone(v)
        /\ row' \in [Rows -> RowRecords] /\ RowsKept
    BY <1>0, <1>1, <1>6, SubEnded DEF Retire
  <2>2. untidy' = untidy
    BY <1>6 DEF Retire
  <2>3. run[w].due \subseteq Sweeps
    BY <1>0 DEF Busy
  <2>4. RunHolds(w)'
    BY <1>0, <1>2, <1>4, <1>5, <2>1, <2>3 DEF SubGone, RunHolds, Before, After
  <2>5. AsPaid(w) /\ Shown(w)
    BY DEF IInv, RunSide, SubscribedAsPaid, AsPaid, PaidSweepIsSubscribed, Shown
  <2>6. AsPaid(w)' /\ Shown(w)'
    BY <1>4, <2>1, <2>5 DEF SubGone, AsPaid, Shown, S
  <2>7. Retiring'
    <3>1. \A y \in Sweeps : Live(y)' /\ Awaits(w, y) => Awaits(w, y)'
      BY <1>0, <1>2, <1>4, <2>1 DEF SubGone, Awaits
    <3> QED BY <1>4, <2>1, <2>2, <3>1, RetiringKept DEF SubGone, IInv, RunSide
  <2>8. SessionsKept /\ SubsKept(w)
    BY <1>4, <2>1, SessionsUnchanged DEF SubGone, SubsKept
  <2>9. RunSide'
    BY <1>0, <1>4, <2>4, <2>6, <2>7, <2>8, RunSideMoves DEF IInv
  <2>10. TabSide'
    BY <1>0, <1>4, <2>1, <2>8, TabSideKept DEF IInv
  <2>11. TypeOK'
    BY <1>0, <1>3, <1>4, <2>1, <2>2 DEF TypeOK
  <2> QED BY <2>9, <2>10, <2>11 DEF IInv
<1>7. CASE RetireFails(w, v)
  <2>1. untidy' = TRUE /\ UNCHANGED <<row, sub>>
    BY <1>7 DEF RetireFails
  <2>2. RunHolds(w)'
    BY <1>0, <1>2, <1>4, <1>5, <2>1 DEF RunHolds, Before, After, Busy
  <2>3. row' \in [Rows -> RowRecords] /\ RowsKept
    BY <1>0, <2>1, RowsUnchanged DEF TypeOK
  <2> QED BY <1>3, <1>4, <2>1, <2>2, <2>3, RunAlone
<1> QED BY <1>6, <1>7

\* A run that awaits nothing moves, and its sweep with it.
LEMMA RunAndSweep ==
  ASSUME IInv, NEW w \in Sweeps, NEW x \in RunRecords, NEW z \in SweepRecords,
         run' = [run EXCEPT ![w] = x], sweep' = [sweep EXCEPT ![w] = z],
         \A y \in Sweeps : ~Awaits(w, y),
         RunHolds(w)', Shown(w)',
         UNCHANGED <<events, session, expiring, row, signed, spent, sub, tab, orphan, pulled, untidy>>
  PROVE  IInv'
<1>0. TypeOK /\ TabSide /\ RunSide
  BY DEF IInv
<1>1. RowsKept /\ SessionsKept /\ SubsKept(w)
  BY RowsUnchanged, SessionsUnchanged DEF SubsKept
<1>2. \A v \in Sweeps \ {w} : run'[v] = run[v] /\ sweep'[v] = sweep[v]
  BY <1>0 DEF TypeOK
<1>3. AsPaid(w)'
  BY <1>0 DEF RunSide, SubscribedAsPaid, AsPaid
<1>4. Retiring'
  BY <1>0, <1>2, RetiringKept DEF RunSide, Live
<1>5. RunSide'
  BY <1>0, <1>1, <1>2, <1>3, <1>4, RunSideMoves
<1>6. TabSide'
  BY <1>0, <1>1, TabSideKept
<1>7. TypeOK'
  BY <1>0 DEF TypeOK
<1> QED BY <1>5, <1>6, <1>7 DEF IInv

LEMMA SweepsEnded ==
  ASSUME IInv, NEW w \in Sweeps, CompleteSweep(w) \/ FailSweep(w)
  PROVE  IInv'
<1> DEFINE x == [at |-> "ended"]
<1>0. /\ TypeOK /\ RunHolds(w) /\ run[w].at \in {"closed", "failing"}
      /\ x \in RunRecords
  BY AtStage, Stages DEF CompleteSweep, FailSweep, End
<1>1. sweep[w] # NoSweep /\ sweep[w] \in SweepRecords
  BY <1>0, Stages DEF RunHolds
<1>2. PICK z \in SweepRecords :
         /\ sweep' = [sweep EXCEPT ![w] = z] /\ z # NoSweep /\ z.s = sweep[w].s
         /\ z.status = "complete" => CompleteSweep(w)
  <2>1. CASE CompleteSweep(w)
    <3> DEFINE z == [sweep[w] EXCEPT !.status = "complete"]
    <3>1. z \in SweepRecords /\ z # NoSweep /\ z.s = sweep[w].s
      BY <1>1 DEF SweepRecords, NoSweep
    <3>2. sweep' = [sweep EXCEPT ![w] = z]
      BY <1>0, <2>1 DEF CompleteSweep, TypeOK
    <3> HIDE DEF z
    <3> QED BY <2>1, <3>1, <3>2
  <2>2. CASE FailSweep(w)
    <3> DEFINE z == [sweep[w] EXCEPT !.status = "failed"]
    <3>1. z \in SweepRecords /\ z # NoSweep /\ z.s = sweep[w].s /\ z.status = "failed"
      BY <1>1 DEF SweepRecords, NoSweep
    <3>2. sweep' = [sweep EXCEPT ![w] = z]
      BY <1>0, <2>2 DEF FailSweep, TypeOK
    <3> HIDE DEF z
    <3> QED BY <3>1, <3>2
  <2> QED BY <2>1, <2>2
<1>3. /\ run' = [run EXCEPT ![w] = x] /\ run'[w] = x /\ sweep'[w] = z
      /\ UNCHANGED <<events, session, expiring, row, signed, spent, sub, tab, orphan, pulled, untidy>>
  BY <1>0, <1>2 DEF CompleteSweep, FailSweep, End, TypeOK
<1>4. RunHolds(w)'
  BY <1>2, <1>3 DEF RunHolds, Before, After
<1>5. Shown(w)'
  <2>1. CompleteSweep(w) => session[S(w)].sub # None /\ sub[w] # NoSub
    BY <1>0 DEF CompleteSweep, End, RunHolds, After
  <2> QED BY <1>2, <1>3, <2>1 DEF Shown, S
<1>6. \A y \in Sweeps : ~Awaits(w, y)
  BY <1>0 DEF Awaits
<1> HIDE DEF x
<1> QED BY <1>0, <1>2, <1>3, <1>4, <1>5, <1>6, RunAndSweep

LEMMA SessionsClosed ==
  ASSUME IInv, NEW w \in Sweeps, CloseSession(w)
  PROVE  IInv'
<1> DEFINE x == [run[w] EXCEPT !.at = "closed"]
           c == [session[S(w)] EXCEPT !.status = "complete", !.sub = w]
<1>0. /\ TypeOK /\ RunHolds(w) /\ run[w] \in Busy /\ sweep[w] # NoSweep /\ S(w) \in Sessions
      /\ run[w].at = "retire" /\ run[w].due = {}
  BY AtStage DEF CloseSession, Step, After
<1>1. x \in Busy /\ x.at = "closed"
  BY <1>0 DEF Busy
<1>2. w # None /\ session[S(w)] \in SessionRecords
  BY <1>0, NoneAssumption DEF TypeOK
<1>3. c \in SessionRecords /\ c.status = "complete" /\ c.sub = w /\ c.late = session[S(w)].late
  BY <1>2 DEF SessionRecords
<1>4. /\ run' = [run EXCEPT ![w] = x] /\ run'[w] = x
      /\ \A v \in Sweeps \ {w} : run'[v] = run[v]
      /\ session' = [session EXCEPT ![S(w)] = c]
      /\ UNCHANGED <<events, expiring, sweep, row, signed, spent, sub, tab, orphan, pulled, untidy>>
  BY <1>0 DEF CloseSession, Step, TypeOK
<1> HIDE DEF x, c
<1>5. session' \in [Sessions -> SessionRecords] /\ SessionsKept
  BY <1>0, <1>2, <1>3, <1>4 DEF TypeOK, SessionsKept, Settled
<1>6. session'[S(w)] = c
  BY <1>0, <1>4 DEF TypeOK
<1>7. RunHolds(w)'
  BY <1>0, <1>1, <1>2, <1>3, <1>4, <1>6 DEF RunHolds, Before, After, S
<1>8. AsPaid(w)' /\ Shown(w)'
  <2>1. AsPaid(w) /\ Shown(w)
    BY DEF IInv, RunSide, SubscribedAsPaid, AsPaid, PaidSweepIsSubscribed, Shown
  <2> QED BY <1>0, <1>4, <1>5, <2>1 DEF AsPaid, Shown, SessionsKept, S
<1>9. Retiring'
  <2>1. \A y \in Sweeps : ~Awaits(w, y)
    BY <1>0 DEF Awaits
  <2> QED BY <1>4, <2>1, RetiringKept DEF Live, IInv, RunSide
<1>10. RowsKept /\ SubsKept(w)
  BY <1>4, RowsUnchanged DEF SubsKept
<1>11. RunSide'
  BY <1>0, <1>4, <1>5, <1>7, <1>8, <1>9, <1>10, RunSideMoves DEF IInv
<1>12. TabSide'
  BY <1>0, <1>4, <1>5, <1>10, TabSideKept DEF IInv
<1>13. TypeOK'
  <2>1. x \in RunRecords
    BY <1>0, <1>1, Stages
  <2> QED BY <1>0, <1>4, <1>5, <2>1 DEF TypeOK
<1> QED BY <1>11, <1>12, <1>13 DEF IInv

LEMMA SubsCancelled ==
  ASSUME IInv, NEW v \in Sweeps, Cancel(v)
  PROVE  IInv'
<1>0. TypeOK /\ RunSide /\ TabSide /\ sub[v] # NoSub /\ EndSub(v)
  BY DEF IInv, Cancel, Live, NoSub
<1>1. /\ sub' \in [Sweeps -> SubRecords]
      /\ SubGone(v)
      /\ row' \in [Rows -> RowRecords] /\ RowsKept
  BY <1>0, SubEnded
<1>2. UNCHANGED <<session, expiring, sweep, signed, spent, tab, run, orphan, pulled, untidy>>
  BY DEF Cancel
<1>3. run[v].at = "retire" => run[v].due \subseteq Sweeps
  BY <1>0, Stages DEF Busy, After
<1>4. RunHolds(v)' /\ AsPaid(v)' /\ Shown(v)'
  <2>1. RunHolds(v) /\ AsPaid(v) /\ Shown(v)
    BY <1>0 DEF RunSide, RunsHold, SubscribedAsPaid, AsPaid, PaidSweepIsSubscribed, Shown
  <2>2. RunHolds(v)'
    BY <1>1, <1>2, <1>3, <2>1 DEF RunHolds, SubGone, S, Before, After
  <2>3. AsPaid(v)' /\ Shown(v)'
    BY <1>1, <1>2, <2>1 DEF AsPaid, Shown, SubGone, S
  <2> QED BY <2>2, <2>3
<1>5. Retiring'
  BY <1>0, <1>1, <1>2, RetiringKept DEF RunSide, SubGone, Awaits
<1>6. SubsKept(v) /\ SessionsKept
  BY <1>1, <1>2, SessionsUnchanged DEF SubsKept, SubGone
<1>7. RunSide'
  BY <1>0, <1>2, <1>4, <1>5, <1>6, RunSideMoves
<1>8. TabSide'
  BY <1>0, <1>1, <1>2, <1>6, TabSideKept
<1>9. events' \in 0..MaxEvents
  BY <1>0, BoundsAssumption DEF TypeOK, Cancel, Event
<1>10. TypeOK'
  BY <1>0, <1>1, <1>2, <1>9 DEF TypeOK
<1> QED BY <1>7, <1>8, <1>10 DEF IInv

LEMMA SweepsCreated ==
  ASSUME IInv, NEW t \in Tabs, NEW w \in Sweeps, CreateSweep(t, w)
  PROVE  IInv'
<1> DEFINE u == [tab[t] EXCEPT !.at = "wait", !.w = w]
           x == [at |-> "start", tier |-> session[tab[t].s].tier, ctx |-> 0, due |-> {}]
           z == [status |-> "working", s |-> tab[t].s]
<1>0. TypeOK /\ RunSide /\ TabSide /\ tab[t] \in TabRecords /\ tab[t].s \in Sessions
  BY PagesAreTabs DEF IInv, TabRecords
<1>1. sub[w] = NoSub /\ pulled[w] = 0
  BY DEF CreateSweep, Fresh
<1>2. u \in TabRecords /\ u.at = "wait"
  BY <1>0 DEF TabRecords
<1>3. x \in Busy /\ x.at = "start"
  <2>1. 0 \in 0..MaxSign
    BY BoundsAssumption, SMT
  <2>2. session[tab[t].s].tier \in Tiers
    BY <1>0 DEF TypeOK, SessionRecords
  <2> QED BY <2>1, <2>2 DEF Busy
<1>4. z \in SweepRecords /\ z # NoSweep /\ z.status = "working"
  BY <1>0 DEF SweepRecords, NoSweep
<1>5. tab' = [tab EXCEPT ![t] = u]
  BY <1>0 DEF CreateSweep, TypeOK
<1>6. /\ run' = [run EXCEPT ![w] = x] /\ run'[w] = x
      /\ sweep' = [sweep EXCEPT ![w] = z] /\ sweep'[w] = z
      /\ \A v \in Sweeps \ {w} : run'[v] = run[v] /\ sweep'[v] = sweep[v]
      /\ UNCHANGED <<events, session, expiring, row, signed, spent, sub, orphan, pulled, untidy>>
  BY <1>0 DEF CreateSweep, TypeOK
<1>7. \A y \in Sweeps : ~Awaits(w, y)
  <2>1. sweep[w] = NoSweep \/ run[w].at = "ended"
    BY DEF CreateSweep, Fresh
  <2>2. run[w].at # "none" => sweep[w] # NoSweep
    BY <1>0 DEF RunSide, RunsHold, RunHolds
  <2> QED BY <2>1, <2>2 DEF Awaits
<1> HIDE DEF u, x, z
<1>8. RowsKept /\ SessionsKept /\ SubsKept(w)
  BY <1>6, RowsUnchanged, SessionsUnchanged DEF SubsKept
<1>9. RunHolds(w)' /\ AsPaid(w)' /\ Shown(w)'
  BY <1>1, <1>3, <1>4, <1>6 DEF RunHolds, Before, After, AsPaid, Shown
<1>10. Retiring'
  BY <1>0, <1>6, <1>7, RetiringKept DEF Live, RunSide
<1>11. RunSide'
  BY <1>0, <1>6, <1>8, <1>9, <1>10, RunSideMoves
<1>12. tab' \in [Tabs -> TabRecords] /\ TabsHold'
  <2>1. TabWritten(t, u)
    BY <1>2, <1>5 DEF TabWritten
  <2> QED BY <1>0, <1>8, <2>1, TabMoves DEF TabSide
<1>13. OrphansHold'
  BY <1>0, <1>6 DEF TabSide, OrphansHold, Settled
<1>14. TypeOK'
  <2>1. x \in RunRecords
    BY <1>0, <1>3, Stages
  <2> QED BY <1>0, <1>4, <1>6, <1>12, <2>1 DEF TypeOK
<1> QED BY <1>11, <1>12, <1>13, <1>14 DEF IInv, TabSide
-----------------------------------------------------------------------------
(* The orphan sweep. *)

LEMMA OrphansMove ==
  ASSUME IInv, OrphanStep
  PROVE  IInv'
<1>0. TypeOK /\ TabSide /\ RunSide
  BY DEF IInv
<1>1. UNCHANGED <<events, session, expiring, sweep, signed, spent, sub, tab, run, pulled, untidy>>
  BY DEF OrphanStep, ListOrphans, ReadSessions, RevokeOrphans, OrphansThrow
<1>2. row' \in [Rows -> RowRecords] /\ RowsKept
  <2>1. CASE RevokeOrphans
    <3>1. \A i \in orphan.rows \cap Rows : row[i] # NoRow
      BY <1>0 DEF TabSide, OrphansHold
    <3> QED BY <1>0, <2>1, <3>1, RevokedRows DEF RevokeOrphans
  <2>2. CASE ListOrphans \/ ReadSessions \/ OrphansThrow
    BY <1>0, <2>2, RowsUnchanged DEF ListOrphans, ReadSessions, OrphansThrow, TypeOK
  <2> QED BY <2>1, <2>2 DEF OrphanStep
<1>3. orphan' \in [at : {"idle", "listed", "due"}, rows : SUBSET Rows] /\ OrphansHold'
  <2>1. CASE ListOrphans
    <3>1. \A i \in Rows : row[i].status = "active" => row[i] # NoRow
      BY DEF NoRow
    <3> QED BY <2>1, <3>1 DEF ListOrphans, OrphansHold
  <2>2. CASE ReadSessions
    <3>1. orphan.rows \subseteq Rows /\ \A i \in orphan.rows : row[i] # NoRow
      BY <1>0 DEF TypeOK, TabSide, OrphansHold
    <3>2. orphan' = [at |-> "due", rows |-> {i \in orphan.rows : Settled(row[i].s)}] /\ row' = row
      BY <2>2 DEF ReadSessions
    <3> QED BY <1>1, <3>1, <3>2 DEF OrphansHold, Settled
  <2>3. CASE RevokeOrphans \/ OrphansThrow
    BY <2>3 DEF RevokeOrphans, OrphansThrow, Idle, OrphansHold
  <2> QED BY <2>1, <2>2, <2>3 DEF OrphanStep
<1>4. TabsHold'
  <2> SUFFICES ASSUME NEW t \in Tabs
               PROVE  /\ tab[t].at \in Granting => tab[t].chain \in Chains
                      /\ tab[t].at \in {"sent", "found"} => tab[t].ctx \in Contexts
                      /\ tab[t].at = "found" /\ tab[t].found # None =>
                            row'[tab[t].found] # NoRow /\ row'[tab[t].found].s = tab[t].s
    BY <1>1 DEF TabsHold
  <2>1. tab[t].found \in Rows \cup {None}
    BY <1>0 DEF TypeOK, TabRecords
  <2> QED BY <1>0, <1>2, <2>1 DEF TabSide, TabsHold, RowsKept
<1>5. RunSide'
  BY <1>0, <1>1, RunSideKept, SessionsUnchanged
<1>6. TypeOK'
  BY <1>0, <1>1, <1>2, <1>3 DEF TypeOK
<1> QED BY <1>3, <1>4, <1>5, <1>6 DEF IInv, TabSide
-----------------------------------------------------------------------------
(* The developer, the portal, the clock, and a deploy. *)

LEMMA SessionsPass ==
  ASSUME IInv, NEW s \in Sessions, ReadExpire(s) \/ WriteExpire(s) \/ GetLate(s)
  PROVE  IInv'
<1>0. TypeOK /\ TabSide /\ RunSide /\ session[s] \in SessionRecords
  BY DEF IInv, TypeOK
<1>1. UNCHANGED <<sweep, row, signed, spent, sub, tab, run, orphan, pulled, untidy>>
  BY DEF ReadExpire, WriteExpire, GetLate
<1>2. events' \in 0..MaxEvents /\ expiring' \subseteq Sessions
  BY <1>0, BoundsAssumption DEF TypeOK, ReadExpire, WriteExpire, GetLate, Event
<1>3. session' \in [Sessions -> SessionRecords] /\ SessionsKept
  <2>1. CASE ReadExpire(s)
    BY <1>0, <2>1, SessionsUnchanged DEF ReadExpire, TypeOK
  <2>2. CASE WriteExpire(s)
    <3> DEFINE c == [session[s] EXCEPT !.status = "expired"]
    <3>1. c \in SessionRecords /\ c.status = "expired" /\ c.sub = session[s].sub
      BY <1>0 DEF SessionRecords
    <3>2. session' = [session EXCEPT ![s] = c]
      BY <1>0, <2>2 DEF WriteExpire, TypeOK
    <3> HIDE DEF c
    <3> QED BY <1>0, <3>1, <3>2 DEF TypeOK, SessionsKept, Settled
  <2>3. CASE GetLate(s)
    <3> DEFINE c == [session[s] EXCEPT !.late = TRUE]
    <3>1. c \in SessionRecords /\ c.late = TRUE /\ c.status = session[s].status /\ c.sub = session[s].sub
      BY <1>0 DEF SessionRecords
    <3>2. session' = [session EXCEPT ![s] = c]
      BY <1>0, <2>3 DEF GetLate, TypeOK
    <3> HIDE DEF c
    <3> QED BY <1>0, <3>1, <3>2 DEF TypeOK, SessionsKept, Settled
  <2> QED BY <2>1, <2>2, <2>3
<1>4. TypeOK'
  BY <1>0, <1>1, <1>2, <1>3 DEF TypeOK
<1>5. TabSide'
  BY <1>0, <1>1, <1>3, RowsUnchanged, TabSideKept
<1>6. RunSide'
  BY <1>0, <1>1, <1>3, RunSideKept
<1> QED BY <1>4, <1>5, <1>6 DEF IInv

\* A deploy ends the requests and the runs; what stands unretired is accounted for.
LEMMA ApiRestarted ==
  ASSUME IInv, RestartApi
  PROVE  IInv'
<1>0. TypeOK /\ TabSide /\ RunSide
  BY DEF IInv
<1>1. UNCHANGED <<session, sweep, row, signed, spent, sub, orphan, pulled>>
  BY DEF RestartApi
<1>2. \A w \in Sweeps : run'[w] = IF run[w] \in Gone THEN run[w] ELSE [at |-> "dead"]
  BY DEF RestartApi
<1>3. run' \in [Sweeps -> RunRecords]
  <2>1. \A w \in Sweeps : (IF run[w] \in Gone THEN run[w] ELSE [at |-> "dead"]) \in RunRecords
    BY DEF RunRecords, Gone
  <2> QED BY <2>1 DEF RestartApi
<1>4. \A t \in Tabs : tab'[t] = IF tab[t].at \in AtServer THEN At(t, "pay") ELSE tab[t]
  BY DEF RestartApi
<1>5. tab' \in [Tabs -> TabRecords]
  <2>1. \A t \in Tabs : (IF tab[t].at \in AtServer THEN At(t, "pay") ELSE tab[t]) \in TabRecords
    BY <1>0, PagesAreTabs
  <2> QED BY <2>1 DEF RestartApi
<1>6. TabsHold'
  <2> SUFFICES ASSUME NEW t \in Tabs
               PROVE  /\ tab'[t].at \in Granting => tab'[t].chain \in Chains
                      /\ tab'[t].at \in {"sent", "found"} => tab'[t].ctx \in Contexts
                      /\ tab'[t].at = "found" /\ tab'[t].found # None =>
                            row'[tab'[t].found] # NoRow /\ row'[tab'[t].found].s = tab'[t].s
    BY DEF TabsHold
  <2>1. CASE tab[t].at \in AtServer
    <3>1. tab'[t].at = "pay"
      BY <1>0, <1>4, <2>1, PagesAreTabs
    <3> QED BY <3>1
  <2>2. CASE tab[t].at \notin AtServer
    BY <1>0, <1>1, <1>4, <2>2 DEF TabSide, TabsHold
  <2> QED BY <2>1, <2>2
<1>7. OrphansHold'
  BY <1>0, <1>1 DEF TabSide, OrphansHold, Settled
<1>8. RunsHold'
  <2> SUFFICES ASSUME NEW w \in Sweeps PROVE RunHolds(w)'
    BY DEF RunsHold
  <2>1. RunHolds(w)
    BY <1>0 DEF RunSide, RunsHold
  <2>2. CASE run[w] \in Gone
    BY <1>1, <1>2, <2>1, <2>2 DEF Gone, Thrown, RunHolds, Before, After
  <2>3. CASE run[w] \notin Gone
    <3>1. run[w].at # "none"
      BY <1>0, <2>3, Stages DEF RunRecords, Gone, Failing
    <3> QED BY <1>1, <1>2, <2>1, <2>3, <3>1 DEF RunHolds, Before, After
  <2> QED BY <2>2, <2>3
<1>9. SubscribedAsPaid' /\ PaidSweepIsSubscribed'
  BY <1>0, <1>1 DEF RunSide, SubscribedAsPaid, PaidSweepIsSubscribed, S
<1>10. Retiring'
  <2> SUFFICES ASSUME NEW v \in Sweeps, NEW y \in Sweeps, v # y, Live(v)', Live(y)'
               PROVE  untidy'
    BY DEF Retiring
  <2>1. untidy \/ Awaits(v, y) \/ Awaits(y, v)
    BY <1>0, <1>1 DEF RunSide, Retiring, Live
  <2>2. Awaits(v, y) \/ Awaits(y, v) => \E w \in Sweeps : Unretired(w)
    BY DEF Awaits, Unretired
  <2> QED BY <2>1, <2>2 DEF RestartApi
<1>11. TypeOK'
  <2>1. events' \in 0..MaxEvents
    BY <1>0, BoundsAssumption DEF TypeOK, RestartApi, Event
  <2>2. untidy' \in BOOLEAN /\ expiring' = {}
    BY <1>0 DEF TypeOK, RestartApi, Unretired
  <2> QED BY <1>0, <1>1, <1>3, <1>5, <2>1, <2>2 DEF TypeOK
<1> QED BY <1>6, <1>7, <1>8, <1>9, <1>10, <1>11 DEF IInv, TabSide, RunSide
-----------------------------------------------------------------------------
(* The invariant and what it says. *)

LEMMA Starts == Init => IInv
<1> SUFFICES ASSUME Init PROVE IInv
  OBVIOUS
<1>1. /\ events = 0 /\ expiring = {} /\ signed = <<>> /\ spent = {} /\ orphan = Idle /\ untidy = FALSE
      /\ session \in [Sessions -> [status : {"open"}, late : {FALSE}, tier : Tiers, sub : {None}]]
      /\ tab \in [Tabs -> {Page(s, {}) : s \in Sessions}]
      /\ \A w \in Sweeps : /\ sweep[w] = NoSweep /\ sub[w] = NoSub
                           /\ run[w] = [at |-> "none"] /\ pulled[w] = 0
      /\ \A i \in Rows : row[i] = NoRow
  BY DEF Init
<1>2. \A t \in Tabs : tab[t] \in TabRecords /\ tab[t].at = "pay"
  <2>1. 0 \in 0..MaxSign
    BY BoundsAssumption, SMT
  <2>2. \A s \in Sessions : Page(s, {}) \in TabRecords /\ Page(s, {}).at = "pay"
    BY <2>1 DEF Page, TabRecords
  <2> QED BY <1>1, <2>2
<1>3. TypeOK
  <2>1. session \in [Sessions -> SessionRecords]
    BY <1>1 DEF SessionRecords
  <2>2. sweep \in [Sweeps -> SweepRecords] /\ row \in [Rows -> RowRecords] /\ sub \in [Sweeps -> SubRecords]
    BY DEF Init, SweepRecords, RowRecords, SubRecords
  <2>3. run \in [Sweeps -> RunRecords] /\ pulled \in [Sweeps -> {0} \cup Tiers]
    BY DEF Init, RunRecords, Gone
  <2>4. tab \in [Tabs -> TabRecords]
    BY <1>1, <1>2
  <2>5. signed \in Seq(Tiers) /\ Len(signed) <= MaxSign /\ events \in 0..MaxEvents
    BY <1>1, BoundsAssumption
  <2>6. orphan \in [at : {"idle", "listed", "due"}, rows : SUBSET Rows]
    BY <1>1 DEF Idle
  <2> QED BY <1>1, <2>1, <2>2, <2>3, <2>4, <2>5, <2>6 DEF TypeOK
<1>4. TabSide
  BY <1>1, <1>2 DEF TabSide, TabsHold, OrphansHold, Idle
<1>5. RunSide
  BY <1>1 DEF RunSide, RunsHold, RunHolds, Before, After, SubscribedAsPaid, PaidSweepIsSubscribed,
              Retiring, Live, NoSub, NoSweep
<1> QED BY <1>3, <1>4, <1>5 DEF IInv

LEMMA Stutters == IInv /\ UNCHANGED vars => IInv'
<1> SUFFICES ASSUME IInv, UNCHANGED vars PROVE IInv'
  OBVIOUS
<1>1. row' \in [Rows -> RowRecords] /\ RowsKept
  BY RowsUnchanged DEF IInv, TypeOK, vars
<1> QED BY <1>1, RowsAlone DEF vars

LEMMA Steps == IInv /\ Next => IInv'
<1> SUFFICES ASSUME IInv, Next PROVE IInv'
  OBVIOUS
<1>1. ASSUME NEW t \in Tabs, TabStep(t) PROVE IInv'
  BY <1>1, TiersSelected, TabsOnly, GrantsRevoked, ContextsSigned, GrantsSaved, GrantsEnabled,
     SweepsCreated DEF TabStep
<1>2. ASSUME NEW w \in Sweeps, RunStep(w) PROVE IInv'
  BY <1>2, RunReads, RunFails, MoneyPulled, TrialsCompleted, SubsCreated, RunLists, PriorRetired,
     SessionsClosed, SweepsEnded, RunThrown DEF RunStep
<1>3. CASE OrphanStep
  BY <1>3, OrphansMove
<1>4. CASE Others
  BY <1>4, SessionsPass, SubsCancelled, ApiRestarted DEF Others
<1> QED BY <1>1, <1>2, <1>3, <1>4 DEF Next

(* The invariant holds of every checkout, for any number of sessions, pages, chains, grants, *)
(* and runs: each row, page, run and pass of the orphan sweep is where its history says.     *)
THEOREM CheckoutInductive == Spec => []IInv
<1>1. IInv /\ [Next]_vars => IInv'
  BY Steps, Stutters
<1> QED BY <1>1, Starts, PTL DEF Spec

(* Every table, page and run of the hosted checkout keeps its type (routes/delegation.ts,    *)
(* routes/gateway.ts, cctp-activate.ts, complete.ts, orphan-grants.ts).                      *)
THEOREM CheckoutTypeCorrect == Spec => []TypeOK
<1>1. IInv => TypeOK
  BY DEF IInv
<1> QED BY <1>1, CheckoutInductive, PTL

(* What a subscription is for is what was pulled for it, once, and nothing for a trial,      *)
(* whatever the payer selects while the run works and whichever step of it throws            *)
(* (cctp-activate.ts hands complete.ts the tier it read at the start).                       *)
THEOREM CheckoutSubscribedAsPaid == Spec => []SubscribedAsPaid
<1>1. IInv => SubscribedAsPaid
  BY DEF IInv, RunSide
<1> QED BY <1>1, CheckoutInductive, PTL

(* A sweep that took money and shows success has its subscription, on its session too, in    *)
(* whatever order deploys and other runs fall between the four writes (cctp-activate.ts).    *)
THEOREM CheckoutPaidIsSubscribed == Spec => []PaidSweepIsSubscribed
<1>1. IInv => PaidSweepIsSubscribed
  BY DEF IInv, RunSide
<1> QED BY <1>1, CheckoutInductive, PTL

(* However many runs of one payer create, list and retire at once, when they are done and    *)
(* none was cut short at most one subscription is live (revoke.ts                            *)
(* retirePriorActiveSubscriptions): of two live ones, one run still has the other to retire. *)
THEOREM CheckoutOneLive == Spec => []OneLiveWhenQuiet
<1>1. IInv => OneLiveWhenQuiet
  <2>1. \A v, w \in Sweeps : Awaits(v, w) => Unretired(v)
    BY DEF Awaits, Unretired
  <2> QED BY <2>1 DEF IInv, RunSide, Retiring, OneLiveWhenQuiet
<1> QED BY <1>1, CheckoutInductive, PTL

(* A pass of the orphan sweep revokes only grants of sessions that were over when it does,   *)
(* though it asked before: no session that is over opens again (orphan-grants.ts).           *)
THEOREM CheckoutSweptWasSettled == Spec => SweptWasSettled
<1>1. ASSUME IInv, [Next]_vars
      PROVE  [orphan.at = "due" /\ orphan'.at = "idle" =>
                 \A i \in Rows : row[i] # row'[i] =>
                     session[row[i].s].late \/ session[row[i].s].status # "open"]_vars
  <2> SUFFICES ASSUME Next, orphan.at = "due", orphan'.at = "idle",
                      NEW i \in Rows, row[i] # row'[i]
               PROVE  session[row[i].s].late \/ session[row[i].s].status # "open"
    BY <1>1 DEF vars
  <2>1. \A t \in Tabs : TabStep(t) => orphan' = orphan
    BY DEF TabStep, SelectTier, PickChain, RevokeGrant, Sign, FindGrant, SaveGrant, Enable, PanelPlan,
           Ask, CreateSweep, Visit, Poll, Back
  <2>2. \A w \in Sweeps : RunStep(w) => orphan' = orphan
    BY DEF RunStep, Load, PickGrant, CheckTier, Refuse, Pull, PullSeenAsFailed, Redeem, Settle, TrialSweep,
           CreateSub, LinkGrants, ListPrior, Retire, RetireFails, CloseSession, CompleteSweep, RunThrows,
           FailSweep, StartThrows, FailSweepThrows
  <2>3. Others => orphan' = orphan
    BY DEF Others, ReadExpire, WriteExpire, GetLate, Cancel, RestartApi
  <2>4. OrphanStep
    BY <2>1, <2>2, <2>3 DEF Next
  <2>5. RevokeOrphans
    BY <2>4 DEF OrphanStep, ListOrphans, ReadSessions, OrphansThrow
  <2>6. i \in orphan.rows
    BY <2>5 DEF RevokeOrphans, Revoked
  <2> QED BY <1>1, <2>6 DEF IInv, TabSide, OrphansHold, Settled
<1>2. IInv /\ [Next]_vars =>
        [orphan.at = "due" /\ orphan'.at = "idle" =>
            \A i \in Rows : row[i] # row'[i] =>
                session[row[i].s].late \/ session[row[i].s].status # "open"]_vars
  BY <1>1
<1> QED BY <1>2, CheckoutInductive, PTL DEF Spec, SweptWasSettled
=============================================================================
