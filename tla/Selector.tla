------------------------------ MODULE Selector ------------------------------
(***************************************************************************)
(* Which chain pays a charge: selectPaymentChain                           *)
(* (apps/api/src/lib/gateway/selector.ts), and the choice of the grants it *)
(* is asked about by planCharge (billing/direct-charge.ts).  A wallet is   *)
(* its balance on Arc and a sequence of source chains in the order of the  *)
(* scan, each with its key, its balance and whether the payer's account    *)
(* has code there (an unreadable chain has none).                          *)
(***************************************************************************)
EXTENDS Sequences, Periods

Arc == "arc"

IsWallet(w) ==
    /\ w.arc \in Nat
    /\ w.chains \in Seq([key : STRING \ {Arc}, balance : Nat, deployed : BOOLEAN])

\* The source chains the caller allows, and can redeem on.
Candidates(w, allowed, needsCode) ==
    {i \in 1..Len(w.chains) : /\ w.chains[i].key \in allowed
                              /\ needsCode => w.chains[i].deployed}

ArcCovers(w, allowed, amount) == Arc \in allowed /\ w.arc >= amount

CoveringOf(w, cands, amount) == {i \in cands : w.chains[i].balance >= amount}

First(S) == CHOOSE i \in S : \A j \in S : i <= j

\* reduce keeps the earlier of two equal balances.
Deeper(w, i, j) ==
    \/ w.chains[i].balance > w.chains[j].balance
    \/ w.chains[i].balance = w.chains[j].balance /\ i < j

Deepest(w, S) == CHOOSE i \in S : \A j \in S : ~ Deeper(w, j, i)

OnSource(w, i, sufficient) ==
    [chain |-> w.chains[i].key, available |-> w.chains[i].balance, sufficient |-> sufficient]

OnArc(w, sufficient) == [chain |-> Arc, available |-> w.arc, sufficient |-> sufficient]

SelectPaymentChain(w, allowed, needsCode, amount) ==
    LET cands == Candidates(w, allowed, needsCode)
        covering == CoveringOf(w, cands, amount)
    IN  IF ArcCovers(w, allowed, amount) THEN OnArc(w, TRUE)
        ELSE IF covering # {} THEN OnSource(w, First(covering), TRUE)
        ELSE IF cands # {} THEN OnSource(w, Deepest(w, cands), FALSE)
        ELSE OnArc(w, FALSE)

(***************************************************************************)
(* planCharge keeps the grants whose signed cap covers the amount, drops   *)
(* those whose current period is spent and those disabled on chain, asks   *)
(* for a chain among the rest, and takes a grant of that chain.  A grant   *)
(* whose context carries no readable terms passes both tests: the redeem   *)
(* itself decides.                                                         *)
(***************************************************************************)
NoTerms == "null"

Affordable(grants, amount) == {g \in grants : g.terms = NoTerms \/ g.terms.periodAmount >= amount}

Spent(g, now) ==
    /\ g.terms # NoTerms
    /\ PeriodConsumed(g.last, g.terms.startDate, g.terms.periodDuration, now)

Usable(grants, amount, now) == {g \in Affordable(grants, amount) : ~ Spent(g, now)}

Live(grants, amount, now) == {g \in Usable(grants, amount, now) : ~ g.disabled}

AllowedKeys(grants) == {g.chain : g \in grants} \ {Arc}

ChargeSelection(w, grants, amount, now) ==
    SelectPaymentChain(w, AllowedKeys(Live(grants, amount, now)), TRUE, amount)

\* The grants planCharge may return: none when it throws.
Planned(w, grants, amount, now) ==
    LET selection == ChargeSelection(w, grants, amount, now)
    IN  {g \in Live(grants, amount, now) : selection.sufficient /\ g.chain = selection.chain}
=============================================================================
