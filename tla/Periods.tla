------------------------------- MODULE Periods -------------------------------
(***************************************************************************)
(* The two clocks of a recurring payment (apps/api/src/lib/rail.ts): the   *)
(* enforcer's, which allows one redeem in each fixed window counted from   *)
(* the grant's startDate, and the mandate's, which sums the charges of the *)
(* window counted from authorizedAt.  A Date is a number of milliseconds,  *)
(* a startDate and a duration are numbers of seconds, as in the code.      *)
(* Math.floor of a quotient is \div, which rounds down for either sign     *)
(* when the divisor is positive.                                           *)
(***************************************************************************)
EXTENDS Integers

Never == "never"        \* lastRedeemedAt of a grant not redeemed yet

Sec(t) == t \div 1000

\* The number of the window that holds the second s.
PeriodOf(s, start, d) == (s - start) \div d

\* The same windows, said without a division: the reference definition.
Window(start, d, k) == {s \in Int : start + k * d <= s /\ s < start + (k + 1) * d}

SameWindow(s1, s2, start, d) ==
    \E k \in Nat : s1 \in Window(start, d, k) /\ s2 \in Window(start, d, k)

\* Has the enforcer's current period been redeemed already?
PeriodConsumed(last, start, d, now) ==
    /\ last # Never
    /\ d > 0
    /\ Sec(last) >= start
    /\ PeriodOf(Sec(last), start, d) = PeriodOf(Sec(now), start, d)

\* The start of a mandate's current period.
MandatePeriodStart(anchor, d, now) ==
    IF d <= 0 \/ Sec(now) <= Sec(anchor)
    THEN anchor
    ELSE (Sec(anchor) + PeriodOf(Sec(now), Sec(anchor), d) * d) * 1000

\* periodCommitted counts a charge created at c since the period's start.
CountedSince(c, since) == c >= since

\* Can a grant carry a charge, or must the subscriber sign again?
MandateCovers(grant, amount, d) ==
    /\ grant.periodAmount >= amount
    /\ grant.periodDuration = d

\* recordRenewalSettled moves the end of the billing period by one duration.
NewPeriodEnd(end, d) == end + d * 1000
=============================================================================
