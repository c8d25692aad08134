----------------------------- MODULE PaymentProofs -----------------------------
(***************************************************************************)
(* What is proved about what a payer pays: the prices of a plan and whom a *)
(* change of one reaches (Pricing), and the pure arithmetic of the payment *)
(* path for every amount, rate, instant and wallet (Periods, Amounts and   *)
(* Selector).                                                              *)
(***************************************************************************)
EXTENDS Pricing, Sequences, Periods, Amounts, FiniteSetTheorems, WellFoundedInduction, TLAPS

Chain == INSTANCE Selector


-----------------------------------------------------------------------------
(***************************************************************************)
(* Division.                                                               *)
(***************************************************************************)

\* The quotient, and the number it leaves.
LEMMA DivBounds ==
    ASSUME NEW a \in Int, NEW d \in Nat \ {0}
    PROVE  /\ a \div d \in Int
           /\ d * (a \div d) <= a
           /\ a < d * (a \div d) + d
BY SMT

\* The quotient is the only such number.
LEMMA DivIsUnique ==
    ASSUME NEW a \in Int, NEW d \in Nat \ {0}, NEW k \in Int,
           d * k <= a, a < d * k + d
    PROVE  a \div d = k
BY DivBounds, SMT

\* One more divisor is one more in the quotient.
LEMMA DivOneMore ==
    ASSUME NEW a \in Int, NEW d \in Nat \ {0}
    PROVE  (a + d) \div d = (a \div d) + 1
BY SMT

\* A time in milliseconds and its whole seconds.
LEMMA Seconds ==
    ASSUME NEW t \in Int
    PROVE  /\ Sec(t) \in Int
           /\ 1000 * Sec(t) <= t
           /\ t < 1000 * Sec(t) + 1000
BY SMT DEF Sec

\* Whole seconds keep the order of the times, and whole seconds are themselves.
LEMMA SecondsInOrder ==
    ASSUME NEW t \in Int, NEW u \in Int
    PROVE  /\ t <= u => Sec(t) <= Sec(u)
           /\ \A s \in Int : Sec(s * 1000) = s
           /\ \A s \in Int : t >= s * 1000 <=> Sec(t) >= s
BY SMT DEF Sec

\* A later instant is not in an earlier second.
LEMMA LaterSecond ==
    ASSUME NEW t \in Int, NEW u \in Int, t <= u
    PROVE  /\ Sec(t) \in Int
           /\ Sec(u) \in Int
           /\ Sec(u) >= Sec(t)
BY SMT DEF Sec

-----------------------------------------------------------------------------
(***************************************************************************)
(* The windows of a schedule.                                              *)
(***************************************************************************)

\* A second from the start on lies in the window its quotient numbers.
LEMMA InItsWindow ==
    ASSUME NEW s \in Int, NEW start \in Int, NEW d \in Nat \ {0}, s >= start
    PROVE  /\ PeriodOf(s, start, d) \in Nat
           /\ s \in Window(start, d, PeriodOf(s, start, d))
<1> DEFINE k == PeriodOf(s, start, d)
<1>1. k \in Int /\ d * k <= s - start /\ s - start < d * k + d
  BY DivBounds DEF PeriodOf
<1>2. k >= 0
  BY <1>1, SMT
<1>3. start + k * d <= s /\ s < start + (k + 1) * d
  BY <1>1, SMT
<1> QED BY <1>1, <1>2, <1>3 DEF Window

\* A second lies in no other window.
LEMMA OneWindow ==
    ASSUME NEW s \in Int, NEW start \in Int, NEW d \in Nat \ {0}, NEW k \in Nat,
           s \in Window(start, d, k)
    PROVE  PeriodOf(s, start, d) = k
<1>1. start + k * d <= s /\ s < start + (k + 1) * d
  BY DEF Window
<1>2. d * k <= s - start /\ s - start < d * k + d
  BY <1>1, SMT
<1> QED BY <1>2, DivIsUnique DEF PeriodOf

\* A redeem blocks the grant exactly as long as the clock is in the window
\* it was made in (periodConsumed): never for a full duration after it, as
\* the sliding window the code's comment warns about would.
THEOREM ConsumedIsSameWindow ==
    ASSUME NEW last \in Int, NEW now \in Int, NEW start \in Int, NEW d \in Nat \ {0},
           Sec(last) >= start, Sec(now) >= start, last # Never
    PROVE  PeriodConsumed(last, start, d, now) <=> SameWindow(Sec(last), Sec(now), start, d)
<1> DEFINE kl == PeriodOf(Sec(last), start, d)
           kn == PeriodOf(Sec(now), start, d)
<1>0. Sec(last) \in Int /\ Sec(now) \in Int
  BY Seconds
<1>1. /\ kl \in Nat /\ Sec(last) \in Window(start, d, kl)
      /\ kn \in Nat /\ Sec(now) \in Window(start, d, kn)
  BY <1>0, InItsWindow
<1>2. ASSUME kl = kn PROVE SameWindow(Sec(last), Sec(now), start, d)
  BY <1>1, <1>2 DEF SameWindow
<1>3. ASSUME SameWindow(Sec(last), Sec(now), start, d) PROVE kl = kn
  <2>1. PICK k \in Nat : Sec(last) \in Window(start, d, k) /\ Sec(now) \in Window(start, d, k)
    BY <1>3 DEF SameWindow
  <2> QED BY <1>0, <2>1, OneWindow
<1>4. PeriodConsumed(last, start, d, now) <=> kl = kn
  BY SMT DEF PeriodConsumed
<1> QED BY <1>2, <1>3, <1>4
-----------------------------------------------------------------------------
(***************************************************************************)
(* The mandate's period.                                                   *)
(***************************************************************************)

\* The period the ceiling is counted in has begun and has not ended: its
\* start is at most now, and now is less than a duration after it
\* (mandatePeriodStart), so no charge is counted in two periods and no
\* instant after the authorization is in none.
THEOREM PeriodHoldsNow ==
    ASSUME NEW anchor \in Int, NEW now \in Int, NEW d \in Nat \ {0}, anchor <= now
    PROVE  /\ MandatePeriodStart(anchor, d, now) <= now
           /\ now < MandatePeriodStart(anchor, d, now) + d * 1000
<1> DEFINE a == Sec(anchor)
           n == Sec(now)
           k == PeriodOf(n, a, d)
<1>0. a \in Int /\ n \in Int /\ n >= a
  BY LaterSecond
<1>1. /\ a \in Int /\ 1000 * a <= anchor /\ anchor < 1000 * a + 1000
      /\ n \in Int /\ 1000 * n <= now /\ now < 1000 * n + 1000
  BY Seconds
<1>2. CASE n <= a
  <2>1. MandatePeriodStart(anchor, d, now) = anchor
    BY <1>2 DEF MandatePeriodStart
  <2>2. now < anchor + 1000
    BY <1>0, <1>1, <1>2
  <2> QED BY <2>1, <2>2
<1>3. CASE ~ (n <= a)
  <2>1. MandatePeriodStart(anchor, d, now) = (a + k * d) * 1000
    BY <1>3 DEF MandatePeriodStart
  <2>2. k \in Nat /\ n \in Window(a, d, k)
    BY <1>0, InItsWindow
  <2>3. a + k * d <= n /\ n < (a + k * d) + d
    BY <1>1, <2>2, SMT DEF Window
  <2> DEFINE p == a + k * d
  <2>4. p \in Int /\ p <= n /\ n < p + d
    BY <1>1, <2>2, <2>3
  <2> HIDE DEF p, k, n, a
  <2>5. p * 1000 <= now /\ now < p * 1000 + d * 1000
    BY <1>1, <2>4
  <2>6. MandatePeriodStart(anchor, d, now) = p * 1000
    BY <2>1 DEF p
  <2> QED BY <2>5, <2>6
<1> QED BY <1>2, <1>3

\* A charge created at c since the authorization counts against the ceiling
\* at now exactly when both instants lie in one window of the mandate's
\* schedule (periodCommitted over mandatePeriodStart): the ceiling refills at
\* the window's boundary, neither earlier nor later.
THEOREM CountedIsSameWindow ==
    ASSUME NEW anchor \in Int, NEW now \in Int, NEW c \in Int, NEW d \in Nat \ {0},
           anchor <= c, c <= now
    PROVE  CountedSince(c, MandatePeriodStart(anchor, d, now))
             <=> SameWindow(Sec(c), Sec(now), Sec(anchor), d)
<1> DEFINE a == Sec(anchor)
           n == Sec(now)
           m == Sec(c)
           kn == PeriodOf(n, a, d)
           kc == PeriodOf(m, a, d)
<1>1. a \in Int /\ n \in Int /\ m \in Int /\ m >= a /\ n >= m /\ n >= a
  <2>1. anchor <= now
    OBVIOUS
  <2> QED BY <2>1, LaterSecond
<1>2. kn \in Nat /\ n \in Window(a, d, kn) /\ kc \in Nat /\ m \in Window(a, d, kc)
  BY <1>1, InItsWindow
<1>3. SameWindow(m, n, a, d) <=> kc = kn
  BY <1>1, <1>2, OneWindow DEF SameWindow
<1>4. m >= a + kn * d <=> kc = kn
  <2>1. ASSUME kc = kn PROVE m >= a + kn * d
    BY <1>2, <2>1 DEF Window
  <2>2. ASSUME m >= a + kn * d PROVE kc = kn
    <3>1. m \in Window(a, d, kn)
      BY <1>1, <1>2, <2>2, SMT DEF Window
    <3> QED BY <1>1, <1>2, <3>1, OneWindow
  <2> QED BY <2>1, <2>2
<1>5. CASE n <= a
  <2>1. MandatePeriodStart(anchor, d, now) = anchor
    BY <1>5 DEF MandatePeriodStart
  <2>2. m = n
    BY <1>1, <1>5
  <2> QED BY <1>3, <2>1, <2>2 DEF CountedSince
<1>6. CASE ~ (n <= a)
  <2>1. MandatePeriodStart(anchor, d, now) = (a + kn * d) * 1000
    BY <1>6 DEF MandatePeriodStart
  <2>2. a + kn * d \in Int
    BY <1>1, <1>2
  <2>3. c >= (a + kn * d) * 1000 <=> m >= a + kn * d
    BY <2>2, SecondsInOrder
  <2> QED BY <1>3, <1>4, <2>1, <2>3 DEF CountedSince
<1> QED BY <1>5, <1>6

\* rail.ts promises that "this period" means one thing across the rail: when
\* the grant's schedule starts in the second of the authorization and has the
\* mandate's duration, a charge that redeemed the grant at t is in the
\* ceiling's sum exactly as long as the grant is spent.
THEOREM OnePeriodAcrossTheRail ==
    ASSUME NEW anchor \in Int, NEW now \in Int, NEW t \in Int, NEW d \in Nat \ {0},
           anchor <= t, t <= now, t # Never
    PROVE  CountedSince(t, MandatePeriodStart(anchor, d, now))
             <=> PeriodConsumed(t, Sec(anchor), d, now)
<1>1. anchor <= now
  OBVIOUS
<1>2. Sec(anchor) \in Int /\ Sec(t) >= Sec(anchor) /\ Sec(now) >= Sec(anchor)
  BY <1>1, LaterSecond
<1> QED BY <1>2, CountedIsSameWindow, ConsumedIsSameWindow

\* A grant of the plan's own duration redeemed at any instant is free again
\* one billing period later (recordRenewalSettled's next due date): the
\* renewal clock and the enforcer's never drift apart.
THEOREM FreeWhenNextDue ==
    ASSUME NEW end \in Int, NEW start \in Int, NEW d \in Nat \ {0}
    PROVE  ~ PeriodConsumed(end, start, d, NewPeriodEnd(end, d))
<1> DEFINE s == Sec(end)
<1>1. s \in Int /\ Sec(NewPeriodEnd(end, d)) = s + d
  BY SMT DEF Sec, NewPeriodEnd
<1>2. PeriodOf(s + d, start, d) = PeriodOf(s, start, d) + 1
  <2>1. (s + d) - start = (s - start) + d /\ s - start \in Int
    BY <1>1
  <2> QED BY <2>1, DivOneMore DEF PeriodOf
<1>3. PeriodOf(s, start, d) \in Int
  BY <1>1, DivBounds DEF PeriodOf
<1> QED BY <1>1, <1>2, <1>3 DEF PeriodConsumed

\* The stamp is the settlement's time, not the pull's (delegated-renewal.ts
\* stamps lastRedeemedAt once the mint is done).  A renewal settled in the
\* window after the one it was pulled in therefore reports that window spent
\* while the enforcer has it free, until the window ends.
THEOREM LateStampSpendsNext ==
    ASSUME NEW pulled \in Int, NEW settled \in Int, NEW now \in Int,
           NEW start \in Int, NEW d \in Nat \ {0}, NEW k \in Nat,
           settled # Never, pulled # Never,
           Sec(pulled) \in Window(start, d, k),
           Sec(settled) \in Window(start, d, k + 1),
           Sec(now) \in Window(start, d, k + 1)
    PROVE  /\ PeriodConsumed(settled, start, d, now)
           /\ ~ PeriodConsumed(pulled, start, d, now)
<1>1. Sec(pulled) \in Int /\ Sec(settled) \in Int /\ Sec(now) \in Int
  BY Seconds
<1>2. /\ PeriodOf(Sec(pulled), start, d) = k
      /\ PeriodOf(Sec(settled), start, d) = k + 1
      /\ PeriodOf(Sec(now), start, d) = k + 1
  BY <1>1, OneWindow
<1>3. Sec(settled) >= start
  <2>1. Sec(settled) >= start + (k + 1) * d
    BY DEF Window
  <2> QED BY <1>1, <2>1, SMT
<1> QED BY <1>2, <1>3 DEF PeriodConsumed
-----------------------------------------------------------------------------
(***************************************************************************)
(* Fees.                                                                   *)
(***************************************************************************)

\* A product under a rate of at most the whole is at most the amount.
LEMMA PartOf ==
    ASSUME NEW a \in Nat, NEW b \in Nat, NEW n \in Nat, b <= n
    PROVE  /\ a * b \in Nat
           /\ a * b <= a * n
<1>1. a * b \in Nat /\ a * n = a * b + a * (n - b)
  BY SMT
<1>2. a * (n - b) >= 0
  BY SMT
<1> QED BY <1>1, <1>2, SMT

\* At any rate up to the whole the platform takes no more than the payment and
\* the merchant's share is never negative (platformFeeOf and its callers).
THEOREM FeeIsAShare ==
    ASSUME NEW amount \in Nat, NEW bps \in Nat, bps <= 10000
    PROVE  /\ PlatformFeeOf(amount, bps) \in 0..amount
           /\ MerchantShare(amount, bps) \in 0..amount
           /\ PlatformFeeOf(amount, bps) + MerchantShare(amount, bps) = amount
<1> DEFINE p == amount * bps
<1>1. p \in Nat /\ p <= amount * 10000
  BY PartOf
<1>2. p \div 10000 \in 0..amount
  <2> HIDE DEF p
  <2> QED BY <1>1, SMT
<1>3. PlatformFeeOf(amount, bps) = p \div 10000
  BY DEF PlatformFeeOf
<1> HIDE DEF p
<1> QED BY <1>2, <1>3 DEF MerchantShare

\* Collecting a sum in two payments never takes a larger fee than collecting
\* it in one: rounding is always in the merchant's favour.
THEOREM SplittingNeverCostsMore ==
    ASSUME NEW a \in Nat, NEW b \in Nat, NEW bps \in Nat
    PROVE  PlatformFeeOf(a, bps) + PlatformFeeOf(b, bps) <= PlatformFeeOf(a + b, bps)
<1> DEFINE p == a * bps
           q == b * bps
<1>1. p \in Nat /\ q \in Nat /\ (a + b) * bps = p + q
  BY SMT
<1>2. p \div 10000 + q \div 10000 <= (p + q) \div 10000
  <2> HIDE DEF p, q
  <2> QED BY <1>1, SMT
<1> QED BY <1>1, <1>2 DEF PlatformFeeOf

\* The ceiling on the bridge's fee is below the amount burned for, as CCTP
\* requires, whatever the quote was; on a fast burn of more than one unit it
\* is never 0 (burnParams).
THEOREM MaxFeeBelowAmount ==
    ASSUME NEW amount \in Nat \ {0}, NEW rate \in Nat, NEW speed
    PROVE  /\ MaxFee(speed, amount, rate) \in 0..(amount - 1)
           /\ speed = "fast" /\ amount > 1 => MaxFee(speed, amount, rate) >= 1
<1> DEFINE p == amount * rate
           q == p \div 10000000000
<1>1. p \in Nat
  BY SMT
<1>2. q \in Nat
  <2> HIDE DEF p
  <2> QED BY <1>1, SMT
<1>3. FastMaxFee(amount, rate) = IF MaxOf(q, 1) < amount THEN MaxOf(q, 1)
                                 ELSE IF amount > 1 THEN amount - 1 ELSE 0
  BY DEF FastMaxFee
<1> HIDE DEF p, q
<1>4. MaxOf(q, 1) \in Nat /\ MaxOf(q, 1) >= 1
  BY <1>2 DEF MaxOf
<1>5. /\ FastMaxFee(amount, rate) \in 0..(amount - 1)
      /\ amount > 1 => FastMaxFee(amount, rate) >= 1
  BY <1>3, <1>4
<1> QED BY <1>5 DEF MaxFee

\* A quote moves the rate under the configured ceiling and never over it: an
\* outage of the quote costs margin, not correctness (burnParams).
THEOREM RateUnderCeiling ==
    ASSUME NEW quoted, quoted = NoQuote \/ quoted \in Nat,
           NEW margin \in Nat, NEW ceiling \in Nat
    PROVE  /\ FastRate(quoted, margin, ceiling) \in 0..ceiling
           /\ FastRate(NoQuote, margin, ceiling) = ceiling
<1>1. FastRate(NoQuote, margin, ceiling) = ceiling
  BY DEF FastRate
<1>2. CASE quoted = NoQuote
  BY <1>1, <1>2
<1>3. CASE quoted # NoQuote
  <2> DEFINE x == quoted * margin
  <2>1. x \in Nat
    BY <1>3, SMT
  <2>2. FastRate(quoted, margin, ceiling) = MinOf(x, ceiling)
    BY <1>3 DEF FastRate
  <2> HIDE DEF x
  <2>3. MinOf(x, ceiling) \in 0..ceiling
    BY <2>1 DEF MinOf
  <2> QED BY <1>1, <2>2, <2>3
<1> QED BY <1>2, <1>3

-----------------------------------------------------------------------------
(***************************************************************************)
(* The settlement account (settleUserOp).                                  *)
(***************************************************************************)

\* What the account held before the payment, and what it lacks of its floor.
LEMMA TopUp ==
    ASSUME NEW gross \in Nat, NEW balance \in Nat, balance >= gross, NEW floor \in Nat
    PROVE  /\ Preexisting(balance, gross) = balance - gross
           /\ ToppedUp(balance, gross, floor) \in Nat
           /\ Preexisting(balance, gross) + ToppedUp(balance, gross, floor)
                = MaxOf(Preexisting(balance, gross), floor)
<1>1. Preexisting(balance, gross) = balance - gross
  BY DEF Preexisting
<1> QED BY <1>1 DEF ToppedUp, MaxOf

\* A settlement that remits something leaves the account exactly what it held
\* before, or its gas floor where it held less: no other payer's money goes
\* to the treasury, and none of this payer's stays behind.
THEOREM RemittingRestoresFloor ==
    ASSUME NEW gross \in Nat, NEW balance \in Nat, balance >= gross,
           NEW share \in 0..gross, NEW maxFee \in Nat, NEW floor \in Nat,
           Remitted(balance, gross, share, maxFee, floor) > 0
    PROVE  LeftInAccount(balance, gross, share, maxFee, floor) = MaxOf(balance - gross, floor)
<1> DEFINE top == ToppedUp(balance, gross, floor)
<1>1. top \in Nat /\ (balance - gross) + top = MaxOf(balance - gross, floor)
  BY TopUp
<1>2. Remitted(balance, gross, share, maxFee, floor) = MaxOf(gross - share - maxFee - top, 0)
  BY DEF Remitted, FeeToTreasury
<1> HIDE DEF top
<1>3. Remitted(balance, gross, share, maxFee, floor) = gross - share - maxFee - top
  BY <1>1, <1>2 DEF MaxOf
<1> QED BY <1>1, <1>3 DEF LeftInAccount, BurnAmount

\* The burn never fails for want of money while the platform's fee covers the
\* bridge's ceiling: what is left is at least what the account held before.
\* Where it does not, the difference is taken out of what was there.
THEOREM BurnIsCovered ==
    ASSUME NEW gross \in Nat, NEW balance \in Nat, balance >= gross,
           NEW share \in 0..gross, NEW maxFee \in Nat, NEW floor \in Nat
    PROVE  /\ maxFee <= gross - share
                => LeftInAccount(balance, gross, share, maxFee, floor) >= balance - gross
           /\ maxFee > gross - share
                => LeftInAccount(balance, gross, share, maxFee, floor)
                     = (balance - gross) - (maxFee - (gross - share))
<1> DEFINE top == ToppedUp(balance, gross, floor)
<1>1. top \in Nat /\ (balance - gross) + top = MaxOf(balance - gross, floor)
  BY TopUp
<1>2. LeftInAccount(balance, gross, share, maxFee, floor)
        = balance - (share + maxFee) - MaxOf(gross - share - maxFee - top, 0)
  BY DEF LeftInAccount, BurnAmount, Remitted, FeeToTreasury
<1> HIDE DEF top
<1>3. ASSUME maxFee <= gross - share
      PROVE  LeftInAccount(balance, gross, share, maxFee, floor) >= balance - gross
  BY <1>1, <1>2, <1>3 DEF MaxOf
<1>4. ASSUME maxFee > gross - share
      PROVE  LeftInAccount(balance, gross, share, maxFee, floor)
               = (balance - gross) - (maxFee - (gross - share))
  BY <1>1, <1>2, <1>4 DEF MaxOf
<1> QED BY <1>3, <1>4
-----------------------------------------------------------------------------
(***************************************************************************)
(* The chain that pays (selectPaymentChain).                               *)
(***************************************************************************)

\* Every strict order on a finite set that is not empty has a first element:
\* the elements before it would form ever smaller sets.
LEMMA FiniteOrderHasFirst ==
    ASSUME NEW T, IsFiniteSet(T), T # {}, NEW R,
           \A x \in T : <<x, x>> \notin R,
           \A x, y, z \in T : <<x, y>> \in R /\ <<y, z>> \in R => <<x, z>> \in R
    PROVE  \E x \in T : \A y \in T : <<y, x>> \notin R
<1> DEFINE Before(x) == {y \in T : <<y, x>> \in R}
           All == {Before(x) : x \in T}
<1>1. IsWellFoundedOn(StrictSubsetOrdering(T), SUBSET T)
  BY FS_StrictSubsetOrderingWellFounded, FS_FiniteSubsetsOfFinite
<1>2. All \subseteq SUBSET T /\ All # {}
  <2>1. \A x \in T : Before(x) \subseteq T
    OBVIOUS
  <2>2. PICK x \in T : TRUE
    OBVIOUS
  <2>3. Before(x) \in All
    OBVIOUS
  <2> HIDE DEF Before
  <2> QED BY <2>1, <2>3
<1>3. PICK X \in All : \A Y \in All : ~ (<<Y, X>> \in StrictSubsetOrdering(T))
  <2> HIDE DEF All
  <2> QED BY <1>1, <1>2, WFMin
<1>4. PICK x \in T : X = Before(x)
  BY <1>3
<1>5. ASSUME NEW y \in T, <<y, x>> \in R PROVE FALSE
  <2>1. Before(y) \subseteq Before(x)
    BY <1>5
  <2>2. y \in Before(x) /\ y \notin Before(y)
    BY <1>5
  <2>3. <<Before(y), Before(x)>> \in StrictSubsetOrdering(T)
    <3>1. Before(y) \in SUBSET T /\ Before(x) \in SUBSET T /\ Before(y) # Before(x)
      BY <2>2
    <3> HIDE DEF Before
    <3> QED BY <2>1, <3>1 DEF StrictSubsetOrdering
  <2>4. Before(y) \in All
    OBVIOUS
  <2> QED BY <1>3, <1>4, <2>3, <2>4
<1> QED BY <1>5

\* A set of places of a finite list is finite.
LEMMA FiniteIndexes ==
    ASSUME NEW n \in Nat, NEW T \in SUBSET (1..n)
    PROVE  IsFiniteSet(T)
<1>1. 1 \in Int /\ n \in Int
  OBVIOUS
<1>2. IsFiniteSet(1..n)
  BY <1>1, FS_Interval
<1> QED BY <1>2, FS_Subset

\* find returns an index of the list, and one with none before it.
LEMMA FirstIsFirst ==
    ASSUME NEW n \in Nat, NEW T \in SUBSET (1..n), T # {}
    PROVE  Chain!First(T) \in T /\ \A j \in T : Chain!First(T) <= j
<1> DEFINE R == {xy \in T \X T : xy[1] < xy[2]}
<1>1. IsFiniteSet(T)
  BY FiniteIndexes
<1>2. \A i, j \in T : <<i, j>> \in R <=> i < j
  OBVIOUS
<1>3. \A i \in T : i \in Int
  OBVIOUS
<1>4. \E i \in T : \A j \in T : <<j, i>> \notin R
  <2>1. /\ \A x \in T : <<x, x>> \notin R
        /\ \A x, y, z \in T : <<x, y>> \in R /\ <<y, z>> \in R => <<x, z>> \in R
    BY <1>2, <1>3
  <2> HIDE DEF R
  <2> QED BY <1>1, <2>1, FiniteOrderHasFirst
<1>5. \E i \in T : \A j \in T : i <= j
  <2>1. PICK i \in T : \A j \in T : <<j, i>> \notin R
    BY <1>4
  <2>2. \A j \in T : ~ (j < i)
    BY <1>2, <2>1
  <2> HIDE DEF R
  <2>3. \A j \in T : i <= j
    BY <1>3, <2>2
  <2> QED BY <2>3
<1> QED BY <1>5 DEF Chain!First

\* The places of a wallet's chains and what they hold.
LEMMA WalletShape ==
    ASSUME NEW w, Chain!IsWallet(w)
    PROVE  /\ w.arc \in Nat
           /\ Len(w.chains) \in Nat
           /\ \A i \in 1..Len(w.chains) :
                /\ i \in Int
                /\ w.chains[i].balance \in Nat
                /\ w.chains[i].key \in STRING
                /\ w.chains[i].key # Chain!Arc
<1> DEFINE C == [key : STRING \ {Chain!Arc}, balance : Nat, deployed : BOOLEAN]
<1>1. w.arc \in Nat /\ w.chains \in Seq(C)
  BY DEF Chain!IsWallet
<1>2. Len(w.chains) \in Nat /\ \A i \in 1..Len(w.chains) : w.chains[i] \in C
  <2> HIDE DEF C
  <2> QED BY <1>1
<1>3. \A c \in C : c.balance \in Nat /\ c.key \in STRING /\ c.key # Chain!Arc
  OBVIOUS
<1> HIDE DEF C
<1> QED BY <1>1, <1>2, <1>3

\* reduce returns a chain of the list, and none of the list is deeper.
LEMMA DeepestIsDeepest ==
    ASSUME NEW w, Chain!IsWallet(w), NEW T \in SUBSET (1..Len(w.chains)), T # {}
    PROVE  /\ Chain!Deepest(w, T) \in T
           /\ \A j \in T : w.chains[j].balance <= w.chains[Chain!Deepest(w, T)].balance
<1> DEFINE R == {xy \in T \X T : Chain!Deeper(w, xy[1], xy[2])}
           held(i) == w.chains[i].balance
<1>1. Len(w.chains) \in Nat /\ \A i \in T : i \in Int /\ w.chains[i].balance \in Nat
  BY WalletShape
<1>2. IsFiniteSet(T)
  BY <1>1, FiniteIndexes
<1>0. \A i \in T : i \in Int /\ held(i) \in Nat
  BY <1>1
<1>7. \A i, j \in T : Chain!Deeper(w, i, j) <=> held(i) > held(j) \/ (held(i) = held(j) /\ i < j)
  BY DEF Chain!Deeper
<1> HIDE DEF held
<1>3. \A i, j \in T : <<i, j>> \in R <=> Chain!Deeper(w, i, j)
  OBVIOUS
<1>4. \E i \in T : \A j \in T : <<j, i>> \notin R
  <2>1. /\ \A x \in T : <<x, x>> \notin R
        /\ \A x, y, z \in T : <<x, y>> \in R /\ <<y, z>> \in R => <<x, z>> \in R
    <3>1. \A x \in T : ~ Chain!Deeper(w, x, x)
      BY <1>0, <1>7
    <3>2. ASSUME NEW x \in T, NEW y \in T, NEW z \in T,
                 Chain!Deeper(w, x, y), Chain!Deeper(w, y, z)
          PROVE  Chain!Deeper(w, x, z)
      BY <1>0, <1>7, <3>2
    <3> HIDE DEF R
    <3> QED BY <1>3, <3>1, <3>2
  <2> HIDE DEF R
  <2> QED BY <1>2, <2>1, FiniteOrderHasFirst
<1>5. \E i \in T : \A j \in T : ~ Chain!Deeper(w, j, i)
  BY <1>3, <1>4
<1>6. Chain!Deepest(w, T) \in T /\ \A j \in T : ~ Chain!Deeper(w, j, Chain!Deepest(w, T))
  BY <1>5 DEF Chain!Deepest
<1>8. \A j \in T : held(j) <= held(Chain!Deepest(w, T))
  <2> SUFFICES ASSUME NEW j \in T PROVE held(j) <= held(Chain!Deepest(w, T))
    OBVIOUS
  <2>1. ~ (held(j) > held(Chain!Deepest(w, T)))
    BY <1>6, <1>7
  <2> DEFINE a == held(j)
             b == held(Chain!Deepest(w, T))
  <2>2. a \in Nat /\ b \in Nat /\ ~ (a > b)
    BY <1>0, <1>6, <2>1
  <2> HIDE DEF a, b
  <2>3. a <= b
    BY <2>2
  <2> QED BY <2>3 DEF a, b
<1> QED BY <1>6, <1>8 DEF held
\* What the answers are made of.
Answers(r, w, arcCovers, cands, covering) ==
    \/ arcCovers /\ r = Chain!OnArc(w, TRUE)
    \/ ~ arcCovers /\ covering # {} /\ r = Chain!OnSource(w, Chain!First(covering), TRUE)
    \/ /\ ~ arcCovers /\ covering = {}
       /\ r = Chain!OnSource(w, Chain!Deepest(w, cands), FALSE) \/ r = Chain!OnArc(w, FALSE)

LEMMA SelectionCases ==
    ASSUME NEW w, NEW allowed, NEW needsCode, NEW amount,
           NEW r, r = Chain!SelectPaymentChain(w, allowed, needsCode, amount)
    PROVE  Answers(r, w, Chain!ArcCovers(w, allowed, amount),
                   Chain!Candidates(w, allowed, needsCode),
                   Chain!CoveringOf(w, Chain!Candidates(w, allowed, needsCode), amount))
BY DEF Chain!SelectPaymentChain, Answers

\* A selection is sufficient exactly when one chain the caller allowed (and
\* can redeem on) covers the whole amount by itself; the chain it names is
\* then allowed and its own balance is the one reported and covers.  No two
\* chains are ever added up.
THEOREM SufficientMeansCovered ==
    ASSUME NEW w, Chain!IsWallet(w), NEW allowed, NEW needsCode \in BOOLEAN, NEW amount \in Nat,
           NEW r, r = Chain!SelectPaymentChain(w, allowed, needsCode, amount)
    PROVE  /\ r.sufficient
                <=> \/ Chain!ArcCovers(w, allowed, amount)
                    \/ \E i \in Chain!Candidates(w, allowed, needsCode) :
                           w.chains[i].balance >= amount
           /\ r.sufficient
                => /\ r.chain \in allowed
                   /\ r.available >= amount
                   /\ \/ r.chain = Chain!Arc /\ r.available = w.arc
                      \/ \E i \in Chain!Candidates(w, allowed, needsCode) :
                             r.chain = w.chains[i].key /\ r.available = w.chains[i].balance
<1> DEFINE cands == Chain!Candidates(w, allowed, needsCode)
           covering == Chain!CoveringOf(w, cands, amount)
<1>1. covering \subseteq cands /\ cands \subseteq 1..Len(w.chains) /\ Len(w.chains) \in Nat
  BY WalletShape DEF Chain!CoveringOf, Chain!Candidates
<1>2. covering # {} <=> \E i \in cands : w.chains[i].balance >= amount
  BY DEF Chain!CoveringOf
<1>3. covering # {} => Chain!First(covering) \in covering
  <2> HIDE DEF cands, covering
  <2> QED BY <1>1, FirstIsFirst
<1>4. \A i \in cands : w.chains[i].key \in allowed
  BY DEF Chain!Candidates
<1>5. \A i \in covering : i \in cands /\ w.chains[i].balance >= amount
  BY DEF Chain!CoveringOf
<1>6. CASE Chain!ArcCovers(w, allowed, amount) /\ r = Chain!OnArc(w, TRUE)
  BY <1>6 DEF Chain!ArcCovers, Chain!OnArc
<1>7. CASE /\ ~ Chain!ArcCovers(w, allowed, amount) /\ covering # {}
           /\ r = Chain!OnSource(w, Chain!First(covering), TRUE)
  <2> HIDE DEF cands, covering
  <2>1. r.sufficient /\ r.chain = w.chains[Chain!First(covering)].key
        /\ r.available = w.chains[Chain!First(covering)].balance
    BY <1>7 DEF Chain!OnSource
  <2>2. Chain!First(covering) \in cands /\ w.chains[Chain!First(covering)].balance >= amount
    BY <1>3, <1>5, <1>7
  <2> QED BY <1>4, <2>1, <2>2 DEF cands
<1>8. CASE /\ ~ Chain!ArcCovers(w, allowed, amount) /\ covering = {}
           /\ \/ r = Chain!OnSource(w, Chain!Deepest(w, cands), FALSE)
              \/ r = Chain!OnArc(w, FALSE)
  <2>1. ~ r.sufficient
    BY <1>8 DEF Chain!OnSource, Chain!OnArc
  <2> QED BY <1>2, <1>8, <2>1
<1>9. Answers(r, w, Chain!ArcCovers(w, allowed, amount), cands, covering)
  BY SelectionCases
<1> HIDE DEF cands, covering
<1> QED BY <1>6, <1>7, <1>8, <1>9 DEF Answers, cands

\* Arc goes first, and among the source chains that cover the amount the one
\* that comes first in the scan: of two covering chains the choice never
\* depends on which is deeper.
THEOREM ArcThenFirst ==
    ASSUME NEW w, Chain!IsWallet(w), NEW allowed, NEW needsCode \in BOOLEAN, NEW amount \in Nat,
           NEW r, r = Chain!SelectPaymentChain(w, allowed, needsCode, amount),
           NEW i \in Chain!Candidates(w, allowed, needsCode), w.chains[i].balance >= amount
    PROVE  IF Chain!ArcCovers(w, allowed, amount)
           THEN r.chain = Chain!Arc
           ELSE \E j \in Chain!Candidates(w, allowed, needsCode) :
                  /\ j <= i
                  /\ r.chain = w.chains[j].key
<1> DEFINE cands == Chain!Candidates(w, allowed, needsCode)
           covering == Chain!CoveringOf(w, cands, amount)
<1>1. covering \subseteq cands /\ cands \subseteq 1..Len(w.chains) /\ Len(w.chains) \in Nat
  BY WalletShape DEF Chain!CoveringOf, Chain!Candidates
<1>2. i \in covering
  BY DEF Chain!CoveringOf
<1>3. CASE Chain!ArcCovers(w, allowed, amount) /\ r = Chain!OnArc(w, TRUE)
  BY <1>3 DEF Chain!OnArc
<1>4. CASE /\ ~ Chain!ArcCovers(w, allowed, amount) /\ covering # {}
           /\ r = Chain!OnSource(w, Chain!First(covering), TRUE)
  <2> HIDE DEF cands, covering
  <2>1. Chain!First(covering) \in covering /\ Chain!First(covering) <= i
    BY <1>1, <1>2, FirstIsFirst
  <2>2. r.chain = w.chains[Chain!First(covering)].key
    BY <1>4 DEF Chain!OnSource
  <2> QED BY <1>1, <1>4, <2>1, <2>2 DEF cands
<1>5. Answers(r, w, Chain!ArcCovers(w, allowed, amount), cands, covering)
  BY SelectionCases
<1> HIDE DEF cands, covering
<1> QED BY <1>2, <1>3, <1>4, <1>5 DEF Answers, cands

\* The grant planCharge returns can carry the charge: it is one of the
\* mandate's, enabled, its signed cap covers the amount, its period is free,
\* and the payer holds the amount on its chain.
THEOREM PlannedCanPay ==
    ASSUME NEW w, Chain!IsWallet(w), NEW grants, NEW amount \in Nat, NEW now \in Int,
           NEW g \in Chain!Planned(w, grants, amount, now)
    PROVE  /\ g \in grants
           /\ ~ g.disabled
           /\ g.terms # Chain!NoTerms
                => /\ g.terms.periodAmount >= amount
                   /\ ~ PeriodConsumed(g.last, g.terms.startDate, g.terms.periodDuration, now)
           /\ \E i \in 1..Len(w.chains) :
                /\ w.chains[i].key = g.chain
                /\ w.chains[i].deployed
                /\ w.chains[i].balance >= amount
<1> DEFINE r == Chain!ChargeSelection(w, grants, amount, now)
           allowed == Chain!AllowedKeys(Chain!Live(grants, amount, now))
<1>1. g \in Chain!Live(grants, amount, now) /\ r.sufficient /\ g.chain = r.chain
  BY DEF Chain!Planned
<1>2. g \in Chain!Usable(grants, amount, now) /\ ~ g.disabled
  BY <1>1 DEF Chain!Live
<1>3. /\ g \in grants
      /\ g.terms = Chain!NoTerms \/ g.terms.periodAmount >= amount
      /\ ~ Chain!Spent(g, now)
  BY <1>2 DEF Chain!Usable, Chain!Affordable
<1>4. g.terms # Chain!NoTerms
        => ~ PeriodConsumed(g.last, g.terms.startDate, g.terms.periodDuration, now)
  BY <1>3 DEF Chain!Spent, Chain!PeriodConsumed, PeriodConsumed, Chain!Never, Never, Chain!Sec, Sec,
     Chain!PeriodOf, PeriodOf
<1>5. r = Chain!SelectPaymentChain(w, allowed, TRUE, amount)
  BY DEF Chain!ChargeSelection
<1>6. r.chain # Chain!Arc
  <2>1. Chain!Arc \notin allowed
    BY DEF Chain!AllowedKeys
  <2>2. r.chain \in allowed
    <3> HIDE DEF r, allowed
    <3> QED BY <1>1, <1>5, SufficientMeansCovered
  <2> QED BY <2>1, <2>2
<1>7. PICK i \in Chain!Candidates(w, allowed, TRUE) :
        r.chain = w.chains[i].key /\ r.available = w.chains[i].balance
  <2> HIDE DEF r, allowed
  <2>1. ASSUME NEW needsCode \in BOOLEAN, needsCode = TRUE
        PROVE  \E i \in Chain!Candidates(w, allowed, needsCode) :
                  r.chain = w.chains[i].key /\ r.available = w.chains[i].balance
    <3>1. r = Chain!SelectPaymentChain(w, allowed, needsCode, amount)
      BY <1>5, <2>1
    <3> QED BY <1>1, <1>6, <3>1, SufficientMeansCovered
  <2> QED BY <2>1
<1>8. r.available >= amount
  <2> HIDE DEF r, allowed
  <2> QED BY <1>1, <1>5, SufficientMeansCovered
<1>9. i \in 1..Len(w.chains) /\ w.chains[i].deployed
  BY <1>7 DEF Chain!Candidates
<1> HIDE DEF r
<1> QED BY <1>1, <1>2, <1>3, <1>4, <1>7, <1>8, <1>9

-----------------------------------------------------------------------------
(***************************************************************************)
(* Pricing: the inductive invariant.                                       *)
(***************************************************************************)

\* The deletion of the plan closes subscriptions that exist.
KnownToClose == \A s \in closing.subs : sub[s] # NoSub

\* The list a change has read still says whom it reaches, but for the rows written
\* since.
ListStands ==
    \A h \in Requests : change[h].at = "listed" =>
        \A s \in Subs \ touched.rows[h] : s \in change[h].moved <=> s \in Reach(change[h])

\* A run that is under way pays what will be recorded: the plan's terms as it loaded
\* them, a tier's as they are, unless they moved under it.
RunAtItsTerms ==
    \A s \in Subs : run[s].at \in {"loaded", "pulled"} =>
        IF run[s].of = Default THEN run[s].amount = run[s].listed
        ELSE s \in touched.runs \/ (/\ run[s].of \in LiveTiers
                                    /\ run[s].amount = tier[run[s].of].amount)

IInv == TypeOK /\ KnownToClose /\ ListStands /\ RunAtItsTerms

-----------------------------------------------------------------------------
(***************************************************************************)
(* Pricing: the fields of the rows and of what a process holds.            *)
(***************************************************************************)

LEMMA SubFields ==
    ASSUME TypeOK, NEW s \in Subs
    PROVE  /\ sub[s] \in SubRecords
           /\ sub[s] = NoSub => s \notin LiveSubs
           /\ sub[s] # NoSub => sub[s] \in [status   : {"live", "cancelled"},
                                            amount   : Prices \cup {Null},
                                            interval : Intervals \cup {Null}]
<1>1. sub[s] \in SubRecords
    BY DEF TypeOK
<1>2. NoSub.status = "none"
    BY DEF NoSub
<1> QED BY <1>1, <1>2 DEF SubRecords, LiveSubs

LEMMA ChangeFields ==
    ASSUME TypeOK, NEW h \in Requests
    PROVE  /\ change[h] \in ChangeRecords
           /\ change[h].at # "idle" <=> change[h] # Idle
           /\ change[h] # Idle =>
                /\ change[h].at \in {"read", "listed"} /\ change[h].of \in Terms
                /\ change[h].scope \in Scopes
                /\ change[h].old \in Prices /\ change[h].new \in Prices
                /\ change[h].named \in [Tiers -> Prices \cup {Null}]
                /\ change[h].moved \subseteq Subs
<1>1. change[h] \in ChangeRecords
    BY DEF TypeOK
<1>2. Idle.at = "idle"
    BY DEF Idle
<1> QED BY <1>1, <1>2 DEF ChangeRecords

LEMMA RunFields ==
    ASSUME TypeOK, NEW s \in Subs
    PROVE  /\ run[s] \in RunRecords
           /\ run[s].at # "idle" <=> run[s] # Idle
           /\ run[s] # Idle =>
                run[s] \in [at : {"session", "loaded", "pulled", "done", "lost", "refused"},
                            of : Terms, listed : Prices, closed : BOOLEAN,
                            amount : Prices \cup {Null}]
<1>1. run[s] \in RunRecords
    BY DEF TypeOK
<1>2. Idle.at = "idle"
    BY DEF Idle
<1> QED BY <1>1, <1>2 DEF RunRecords

\* The rows of a tier that is live have a price.
LEMMA ListedIsPrice ==
    ASSUME TypeOK, NEW t \in LiveTiers \cup {Default}
    PROVE  ListedOf(t) \in Prices
<1>1. CASE t = Default
    BY <1>1 DEF ListedOf, TypeOK, PlanRecords
<1>2. CASE t # Default
    <2>1. t \in Tiers /\ tier[t].status = "live" /\ tier[t] \in TierRecords
        BY <1>2 DEF LiveTiers, TypeOK
    <2>2. NoTier.status = "none"
        BY DEF NoTier
    <2>3. tier[t].amount \in Prices
        BY <2>1, <2>2 DEF TierRecords
    <2> QED BY <1>2, <2>3 DEF ListedOf
<1> QED BY <1>1, <1>2

\* Whether a change reaches a row depends on that row alone.
LEMMA ReachIsLocal ==
    ASSUME NEW c, NEW s \in Subs, sub'[s] = sub[s]
    PROVE  s \in Reach(c)' <=> s \in Reach(c)
BY DEF Reach, LiveSubs, IsOn, IsNotOn

\* Another of the bounded events.
LEMMA NextEvent ==
    ASSUME TypeOK, Event
    PROVE  events' \in 0..MaxEvents /\ events' # events
BY BoundAssumption DEF TypeOK, Event

-----------------------------------------------------------------------------
(***************************************************************************)
(* Pricing: what a step must do to keep the invariant.                     *)
(***************************************************************************)

\* Rows that are written are marked for the requests that have listed.
LEMMA ListKept ==
    ASSUME TypeOK, ListStands,
           \A h \in Requests : change'[h].at = "listed" =>
              /\ change'[h] = change[h]
              /\ touched.rows[h] \subseteq touched'.rows[h]
              /\ \A s \in Subs : sub'[s] # sub[s] => s \in touched'.rows[h]
    PROVE  ListStands'
<1> SUFFICES ASSUME NEW h \in Requests, change'[h].at = "listed",
                    NEW s \in Subs \ touched'.rows[h]
             PROVE  s \in change'[h].moved <=> s \in Reach(change[h])'
    BY DEF ListStands
<1>1. change'[h] = change[h] /\ s \in Subs \ touched.rows[h] /\ sub'[s] = sub[s]
    OBVIOUS
<1>2. s \in change[h].moved <=> s \in Reach(change[h])
    BY <1>1 DEF ListStands
<1>3. \A c : s \in Reach(c)' <=> s \in Reach(c)
    BY <1>1, ReachIsLocal
<1> QED BY <1>1, <1>2, <1>3

\* A tier that is repriced or archived marks the runs that pay for it.
LEMMA TermsKept ==
    ASSUME TypeOK, RunAtItsTerms, UNCHANGED run,
           touched.runs \subseteq touched'.runs,
           \A t \in Tiers :
              t \in LiveTiers /\ tier'[t] # tier[t] => Under(t) \subseteq touched'.runs
    PROVE  RunAtItsTerms'
<1> SUFFICES ASSUME NEW s \in Subs, run[s].at \in {"loaded", "pulled"},
                    run[s].of # Default, s \notin touched'.runs
             PROVE  run[s].of \in LiveTiers' /\ run[s].amount = tier'[run[s].of].amount
    BY DEF RunAtItsTerms
<1>1. run[s].of \in LiveTiers /\ run[s].amount = tier[run[s].of].amount
    BY DEF RunAtItsTerms
<1>2. s \in Under(run[s].of)
    BY DEF Under
<1>3. run[s].of \in Tiers /\ tier'[run[s].of] = tier[run[s].of]
    BY <1>1, <1>2 DEF LiveTiers
<1> QED BY <1>1, <1>3 DEF LiveTiers

\* A run that moves on, without loading its terms again.
LEMMA RunsKept ==
    ASSUME TypeOK, RunAtItsTerms, UNCHANGED tier,
           touched.runs \subseteq touched'.runs,
           \A s \in Subs : run'[s].at \in {"loaded", "pulled"} =>
              /\ run[s].at \in {"loaded", "pulled"} /\ run'[s].of = run[s].of
              /\ run'[s].amount = run[s].amount /\ run'[s].listed = run[s].listed
    PROVE  RunAtItsTerms'
BY DEF RunAtItsTerms, LiveTiers

\* History is marked with what exists.
LEMMA TouchedTypes ==
    ASSUME TypeOK, NEW S \in SUBSET Subs
    PROVE  /\ [touched EXCEPT !.rows = TouchRows(S)] \in
                 [runs : SUBSET Subs, rows : [Requests -> SUBSET Subs]]
           /\ [touched EXCEPT !.rows = TouchRows(S)].runs = touched.runs
           /\ [touched EXCEPT !.rows = TouchRows(S)].rows = TouchRows(S)
           /\ TouchRows(S) \in [Requests -> SUBSET Subs]
           /\ \A h \in Requests : /\ touched.rows[h] \subseteq TouchRows(S)[h]
                                  /\ change[h].at = "listed" => S \subseteq TouchRows(S)[h]
           /\ [touched EXCEPT !.runs = @ \cup S] \in
                 [runs : SUBSET Subs, rows : [Requests -> SUBSET Subs]]
           /\ [touched EXCEPT !.runs = @ \cup S].rows = touched.rows
           /\ [touched EXCEPT !.runs = @ \cup S].runs = touched.runs \cup S
<1>1. touched \in [runs : SUBSET Subs, rows : [Requests -> SUBSET Subs]]
    BY DEF TypeOK
<1>2. /\ TouchRows(S) \in [Requests -> SUBSET Subs]
      /\ \A h \in Requests : /\ touched.rows[h] \subseteq TouchRows(S)[h]
                             /\ change[h].at = "listed" => S \subseteq TouchRows(S)[h]
    BY <1>1 DEF TouchRows
<1> HIDE DEF TouchRows
<1> QED BY <1>1, <1>2

-----------------------------------------------------------------------------
(***************************************************************************)
(* Pricing: every step keeps the invariant.                                *)
(***************************************************************************)

LEMMA InitIInv == Init => IInv
<1> SUFFICES ASSUME Init PROVE IInv
    OBVIOUS
<1>1. /\ events \in 0..MaxEvents /\ plan \in PlanRecords
      /\ tier \in [Tiers -> TierRecords]
      /\ change \in [Requests -> ChangeRecords] /\ run \in [Subs -> RunRecords]
    <2>1. events \in 0..MaxEvents
        BY BoundAssumption DEF Init
    <2>2. plan \in PlanRecords
        <3>1. plan \in [listed : Prices, archived : {FALSE}]
            BY DEF Init
        <3>2. plan.listed \in Prices /\ plan.archived = FALSE
              /\ plan = [listed |-> plan.listed, archived |-> plan.archived]
            BY <3>1
        <3> QED BY <3>2 DEF PlanRecords
    <2>3. tier \in [Tiers -> TierRecords]
        BY DEF Init, TierRecords
    <2>4. change \in [Requests -> ChangeRecords]
        BY DEF Init, ChangeRecords
    <2>5. run \in [Subs -> RunRecords]
        BY DEF Init, RunRecords
    <2> QED BY <2>1, <2>2, <2>3, <2>4, <2>5
<1>2. sub \in [Subs -> SubRecords]
    BY DEF Init, SubRecords
<1>3. /\ closing \in [at : {"none", "archived", "listed"}, subs : SUBSET Subs]
      /\ touched \in [runs : SUBSET Subs, rows : [Requests -> SUBSET Subs]]
    BY DEF Init
<1>4. TypeOK
    BY <1>1, <1>2, <1>3 DEF TypeOK
<1>5. KnownToClose
    BY DEF Init, KnownToClose
<1>6. \A h \in Requests : change[h] = Idle
    BY DEF Init
<1>7. \A s \in Subs : run[s] = Idle
    BY DEF Init
<1>8. ListStands /\ RunAtItsTerms
    BY <1>6, <1>7 DEF ListStands, RunAtItsTerms, Idle
<1> QED BY <1>4, <1>5, <1>8 DEF IInv

LEMMA StepTiers ==
    ASSUME IInv, NEW t \in Tiers, ArchiveTier(t) \/ \E a \in Prices : CreateTier(t, a)
    PROVE  IInv'
<1>0. /\ TypeOK /\ UNCHANGED <<plan, sub, change, run, closing>> /\ events' \in 0..MaxEvents
    BY NextEvent DEF IInv, ArchiveTier, CreateTier
<1>1. Under(t) \subseteq Subs
    BY DEF Under
<1>2. /\ touched' \in [runs : SUBSET Subs, rows : [Requests -> SUBSET Subs]]
      /\ touched'.rows = touched.rows /\ touched.runs \subseteq touched'.runs
    <2>1. CASE ArchiveTier(t)
        <3>1. touched' = [touched EXCEPT !.runs = @ \cup Under(t)]
            BY <2>1 DEF ArchiveTier
        <3> QED BY <1>0, <1>1, <3>1, TouchedTypes
    <2>2. CASE \E a \in Prices : CreateTier(t, a)
        BY <1>0, <2>2 DEF CreateTier, TypeOK
    <2> QED BY <2>1, <2>2
<1>3. /\ tier' \in [Tiers -> TierRecords]
      /\ \A u \in Tiers : u \in LiveTiers /\ tier'[u] # tier[u] => Under(u) \subseteq touched'.runs
    <2>1. CASE ArchiveTier(t)
        <3> DEFINE x == [tier[t] EXCEPT !.status = "archived"]
        <3>1. tier[t].status = "live" /\ tier[t] \in TierRecords /\ NoTier.status = "none"
            BY <1>0, <2>1 DEF ArchiveTier, TypeOK, NoTier
        <3>2. x \in TierRecords
            BY <3>1 DEF TierRecords
        <3>3. tier' = [tier EXCEPT ![t] = x]
            BY <2>1 DEF ArchiveTier
        <3> HIDE DEF x
        <3>4. touched' = [touched EXCEPT !.runs = @ \cup Under(t)]
            BY <2>1 DEF ArchiveTier
        <3>5. Under(t) \subseteq touched'.runs
            BY <1>0, <1>1, <3>4, TouchedTypes
        <3> QED BY <1>0, <3>2, <3>3, <3>5 DEF TypeOK
    <2>2. ASSUME NEW a \in Prices, CreateTier(t, a)
          PROVE  /\ tier' \in [Tiers -> TierRecords]
                 /\ \A u \in Tiers : u \in LiveTiers => tier'[u] = tier[u]
        <3> DEFINE x == [status |-> "live", amount |-> a]
        <3>1. x \in TierRecords /\ t \notin LiveTiers
            BY <2>2 DEF TierRecords, CreateTier, LiveTiers, NoTier
        <3>2. tier' = [tier EXCEPT ![t] = x]
            BY <2>2 DEF CreateTier
        <3> HIDE DEF x
        <3> QED BY <1>0, <3>1, <3>2 DEF TypeOK
    <2> QED BY <2>1, <2>2
<1>4. TypeOK'
    BY <1>0, <1>2, <1>3 DEF TypeOK
<1>5. KnownToClose'
    BY <1>0 DEF IInv, KnownToClose
<1>6. ListStands'
    BY <1>0, <1>2, ListKept DEF IInv
<1>7. RunAtItsTerms'
    BY <1>0, <1>2, <1>3, TermsKept DEF IInv
<1> QED BY <1>4, <1>5, <1>6, <1>7 DEF IInv

\* Requests that read, and nothing that writes.
LEMMA StepRead ==
    ASSUME IInv, NEW h \in Requests, NEW a \in Prices \cup {0}, NEW scope \in Scopes,
           ReadDefault(h, a, scope) \/ \E t \in Tiers : ReadTier(h, t, a, scope)
    PROVE  IInv'
<1>1. PICK t \in LiveTiers \cup {Default}, named \in [Tiers -> Prices \cup {Null}] :
         NewChange(h, t, a, scope, named)
    <2>1. NamedTiers \in [Tiers -> Prices \cup {Null}]
        <3>1. ASSUME NEW t \in LiveTiers PROVE tier[t].amount \in Prices
            <4>1. t # Default
                BY TiersAssumption DEF LiveTiers
            <4> QED BY <4>1, ListedIsPrice DEF IInv, ListedOf
        <3> QED BY <3>1 DEF NamedTiers
    <2>2. [u \in Tiers |-> Null] \in [Tiers -> Prices \cup {Null}]
        OBVIOUS
    <2> QED BY <2>1, <2>2 DEF ReadDefault, ReadTier
<1> DEFINE c == [at |-> "read", of |-> t, scope |-> scope, old |-> ListedOf(t), new |-> a,
                 named |-> named, moved |-> {}]
<1>2. /\ TypeOK /\ UNCHANGED <<plan, tier, sub, run, closing, touched>>
      /\ change' = [change EXCEPT ![h] = c] /\ events' \in 0..MaxEvents
    BY <1>1, NextEvent DEF IInv, NewChange
<1>3. c \in ChangeRecords /\ c.at = "read"
    <2>1. ListedOf(t) \in Prices
        BY <1>1, <1>2, ListedIsPrice
    <2>2. a \in Prices
        BY <1>1 DEF NewChange, RefusePriceChange
    <2>3. t \in Terms
        BY <1>1 DEF LiveTiers, Terms
    <2> QED BY <2>1, <2>2, <2>3 DEF ChangeRecords
<1> HIDE DEF c
<1>4. TypeOK'
    BY <1>2, <1>3 DEF TypeOK
<1>5. ListStands'
    <2>1. \A k \in Requests : change'[k].at = "listed" => change'[k] = change[k]
        BY <1>2, <1>3 DEF TypeOK
    <2> QED BY <1>2, <2>1, ListKept DEF IInv
<1>6. KnownToClose' /\ RunAtItsTerms'
    BY <1>2 DEF IInv, KnownToClose, RunAtItsTerms, LiveTiers
<1> QED BY <1>4, <1>5, <1>6 DEF IInv

\* The list is what the change reaches when it is read.
LEMMA StepListMoved ==
    ASSUME IInv, NEW h \in Requests, ListMoved(h)
    PROVE  IInv'
<1> DEFINE c == [change[h] EXCEPT !.at = "listed", !.moved = Reach(change[h])]
<1>0. /\ TypeOK /\ UNCHANGED <<events, plan, tier, sub, run, closing>>
      /\ change[h].at = "read"
    BY DEF IInv, ListMoved
<1>1. change[h] # Idle /\ change[h] \in ChangeRecords
    BY <1>0, ChangeFields DEF Idle
<1>2. Reach(change[h]) \subseteq Subs
    BY DEF Reach, LiveSubs
<1>3. /\ c \in ChangeRecords /\ c.moved = Reach(change[h])
      /\ c.of = change[h].of /\ c.old = change[h].old /\ c.named = change[h].named
    BY <1>1, <1>2 DEF ChangeRecords
<1>4. change' = [change EXCEPT ![h] = c]
    BY <1>0 DEF ListMoved, TypeOK
<1>5. /\ touched' \in [runs : SUBSET Subs, rows : [Requests -> SUBSET Subs]]
      /\ touched'.runs = touched.runs /\ touched'.rows[h] = {}
      /\ \A k \in Requests : k # h => touched'.rows[k] = touched.rows[k]
    BY <1>0 DEF ListMoved, TypeOK
<1> HIDE DEF c
<1>6. TypeOK'
    BY <1>0, <1>3, <1>4, <1>5 DEF TypeOK
<1>7. ASSUME NEW k \in Requests, change'[k].at = "listed", NEW s \in Subs \ touched'.rows[k]
      PROVE  s \in change'[k].moved <=> s \in Reach(change[k])'
    <2>1. CASE k = h
        <3>1. change'[k] = c
            BY <1>0, <1>4, <2>1 DEF TypeOK
        <3>2. \A d : d.of = change[h].of /\ d.old = change[h].old /\ d.named = change[h].named
                     => (s \in Reach(d)' <=> s \in Reach(change[h]))
            BY <1>0 DEF Reach, LiveSubs, IsOn, IsNotOn
        <3>3. s \in Reach(change[k])' <=> s \in Reach(change[h])
            BY <1>3, <3>1, <3>2
        <3> QED BY <1>3, <3>1, <3>3
    <2>2. CASE k # h
        <3>1. change'[k] = change[k] /\ sub'[s] = sub[s] /\ s \in Subs \ touched.rows[k]
            BY <1>0, <1>4, <1>5, <1>7, <2>2 DEF TypeOK
        <3>2. s \in change[k].moved <=> s \in Reach(change[k])
            BY <1>7, <3>1 DEF IInv, ListStands
        <3>3. \A d : s \in Reach(d)' <=> s \in Reach(d)
            BY <3>1, ReachIsLocal
        <3> QED BY <3>1, <3>2, <3>3
    <2> QED BY <2>1, <2>2
<1>8. KnownToClose' /\ RunAtItsTerms'
    BY <1>0, <1>5 DEF IInv, KnownToClose, RunAtItsTerms, LiveTiers
<1>9. ListStands'
    BY <1>7 DEF ListStands
<1> QED BY <1>6, <1>8, <1>9 DEF IInv

\* A row keeps its status and its interval when its amount is written.
LEMMA RepricedRow ==
    ASSUME TypeOK, NEW S \in SUBSET LiveSubs, NEW a \in Prices, NEW s \in Subs,
           sub' = Reprice(S, a)
    PROVE  /\ sub'[s] \in SubRecords
           /\ s \notin S => sub'[s] = sub[s]
           /\ s \in S => sub'[s].amount = a
           /\ sub[s] # NoSub => sub'[s] # NoSub
<1>1. sub'[s] = IF s \in S THEN [sub[s] EXCEPT !.amount = a] ELSE sub[s]
    BY DEF Reprice
<1>2. sub[s] \in SubRecords /\ (s \in S => sub[s] # NoSub)
    BY SubFields
<1>3. CASE s \in S
    <2> DEFINE w == [sub[s] EXCEPT !.amount = a]
    <2>1. sub[s] \in [status : {"live", "cancelled"}, amount : Prices \cup {Null},
                      interval : Intervals \cup {Null}]
        BY <1>2, <1>3, SubFields
    <2>2. w \in [status : {"live", "cancelled"}, amount : Prices \cup {Null},
                 interval : Intervals \cup {Null}] /\ w.amount = a
        BY <2>1
    <2>3. w.status # "none" /\ NoSub.status = "none"
        BY <2>2 DEF NoSub
    <2>4. sub'[s] = w
        BY <1>1, <1>3
    <2> HIDE DEF w
    <2> QED BY <1>3, <2>2, <2>3, <2>4 DEF SubRecords
<1>4. CASE s \notin S
    BY <1>1, <1>2, <1>4
<1> QED BY <1>3, <1>4

\* Whom a change writes, and what: subscribers who are live, a price.
LEMMA ChangeWrites ==
    ASSUME TypeOK, NEW h \in Requests, ApplyPriceChange(h)
    PROVE  /\ change[h] # Idle
           /\ Written(change[h]) \in SUBSET LiveSubs
           /\ PriceWritten(change[h]) \in Prices
           /\ sub' = Reprice(Written(change[h]), PriceWritten(change[h]))
<1>1. change[h].at \in {"read", "listed"}
    BY DEF ApplyPriceChange
<1>2. change[h] # Idle
    BY <1>1 DEF Idle
<1>3. change[h].old \in Prices /\ change[h].new \in Prices
    BY <1>2, ChangeFields
<1>4. Written(change[h]) \subseteq LiveSubs
    BY DEF Written, Reach, Inheriting
<1> QED BY <1>2, <1>3, <1>4 DEF PriceWritten, ApplyPriceChange

LEMMA StepApply ==
    ASSUME IInv, NEW h \in Requests, ApplyPriceChange(h)
    PROVE  IInv'
<1> DEFINE c == change[h]
           S == Written(c)
           U == IF c.scope # "existing" /\ c.of \in LiveTiers THEN Under(c.of) ELSE {}
<1>0. /\ TypeOK /\ UNCHANGED <<events, run, closing>>
      /\ change' = [change EXCEPT ![h] = Idle]
      /\ RelistPlan(c) /\ RelistTier(c)
      /\ touched' = [runs |-> touched.runs \cup U, rows |-> TouchRows(S)]
    BY DEF IInv, ApplyPriceChange
<1>1. c # Idle /\ S \in SUBSET LiveSubs /\ PriceWritten(c) \in Prices
      /\ sub' = Reprice(S, PriceWritten(c)) /\ S \in SUBSET Subs /\ c.new \in Prices
    BY <1>0, ChangeWrites, ChangeFields DEF LiveSubs
<1>2. /\ touched' \in [runs : SUBSET Subs, rows : [Requests -> SUBSET Subs]]
      /\ touched'.runs = touched.runs \cup U /\ touched'.rows = TouchRows(S)
    <2>1. U \subseteq Subs /\ touched.runs \subseteq Subs
        BY <1>0 DEF Under, TypeOK
    <2>2. TouchRows(S) \in [Requests -> SUBSET Subs]
        BY <1>0, <1>1, TouchedTypes
    <2> HIDE DEF U, S
    <2> QED BY <1>0, <2>1, <2>2
<1>3. \A s \in Subs : /\ sub'[s] \in SubRecords
                      /\ s \notin S => sub'[s] = sub[s]
                      /\ sub[s] # NoSub => sub'[s] # NoSub
    BY <1>0, <1>1, RepricedRow
<1>4. sub' \in [Subs -> SubRecords]
    <2>1. sub' = [s \in Subs |-> sub'[s]]
        BY <1>1 DEF Reprice
    <2> QED BY <1>3, <2>1
<1>5. plan' \in PlanRecords
    BY <1>0, <1>1 DEF RelistPlan, TypeOK, PlanRecords
<1>6. /\ tier' \in [Tiers -> TierRecords]
      /\ \A t \in Tiers : t \in LiveTiers /\ tier'[t] # tier[t] => Under(t) \subseteq U
    <2>1. CASE c.scope # "existing" /\ c.of \in LiveTiers
        <3> DEFINE x == [tier[c.of] EXCEPT !.amount = c.new]
        <3>1. tier[c.of].status = "live" /\ tier[c.of] \in TierRecords /\ NoTier.status = "none"
            BY <1>0, <2>1 DEF TypeOK, NoTier, LiveTiers
        <3>2. x \in TierRecords
            BY <1>1, <3>1 DEF TierRecords
        <3>3. tier' = [tier EXCEPT ![c.of] = x]
            BY <1>0, <2>1 DEF RelistTier
        <3> HIDE DEF x
        <3> QED BY <1>0, <2>1, <3>2, <3>3 DEF TypeOK
    <2>2. CASE ~(c.scope # "existing" /\ c.of \in LiveTiers)
        BY <1>0, <2>2 DEF RelistTier, TypeOK
    <2> QED BY <2>1, <2>2
<1>7. /\ change' \in [Requests -> ChangeRecords]
      /\ \A k \in Requests : change'[k].at = "listed" => k # h /\ change'[k] = change[k]
    <2>1. Idle \in ChangeRecords /\ Idle.at = "idle"
        BY DEF ChangeRecords, Idle
    <2> QED BY <1>0, <2>1 DEF TypeOK
<1>8. TypeOK'
    BY <1>0, <1>2, <1>4, <1>5, <1>6, <1>7 DEF TypeOK
<1>9. KnownToClose'
    BY <1>0, <1>3 DEF IInv, KnownToClose, TypeOK
<1>10. ListStands'
    <2>1. \A k \in Requests : touched.rows[k] \subseteq touched'.rows[k]
        BY <1>0, <1>1, <1>2, TouchedTypes
    <2>2. \A k \in Requests : change[k].at = "listed" => S \subseteq touched'.rows[k]
        BY <1>0, <1>1, <1>2, TouchedTypes
    <2> HIDE DEF S
    <2> QED BY <1>0, <1>3, <1>7, <2>1, <2>2, ListKept DEF IInv
<1>11. RunAtItsTerms'
    <2>1. touched.runs \subseteq touched'.runs /\ U \subseteq touched'.runs
        BY <1>2
    <2> HIDE DEF U
    <2> QED BY <1>0, <1>6, <2>1, TermsKept DEF IInv
<1> QED BY <1>8, <1>9, <1>10, <1>11 DEF IInv

\* A record of a run whose stage alone changes.
LEMMA StopRun ==
    ASSUME TypeOK, NEW s \in Subs, run[s] # Idle,
           NEW at \in {"session", "loaded", "pulled", "done", "lost", "refused"}, Stop(s, at)
    PROVE  /\ run' \in [Subs -> RunRecords]
           /\ \A u \in Subs : u # s => run'[u] = run[u]
           /\ run'[s].at = at /\ run'[s].of = run[s].of
           /\ run'[s].amount = run[s].amount /\ run'[s].listed = run[s].listed
<1> DEFINE r == [run[s] EXCEPT !.at = at]
<1>1. run[s] \in [at : {"session", "loaded", "pulled", "done", "lost", "refused"},
                  of : Terms, listed : Prices, closed : BOOLEAN,
                  amount : Prices \cup {Null}]
    BY RunFields
<1>2. /\ r \in RunRecords /\ r.at = at /\ r.of = run[s].of
      /\ r.amount = run[s].amount /\ r.listed = run[s].listed
    BY <1>1 DEF RunRecords
<1>3. run' = [run EXCEPT ![s] = r]
    BY DEF Stop
<1> HIDE DEF r
<1> QED BY <1>2, <1>3 DEF TypeOK

\* A checkout begins.
LEMMA StepOpenSession ==
    ASSUME IInv, NEW s \in Subs, NEW t \in Terms, OpenSession(s, t)
    PROVE  IInv'
<1> DEFINE r == [at |-> "session", of |-> t, listed |-> plan.listed,
                 closed |-> FALSE, amount |-> Null]
<1>1. /\ TypeOK /\ UNCHANGED <<events, plan, tier, sub, change, closing, touched>>
      /\ run' = [run EXCEPT ![s] = r]
    BY DEF IInv, OpenSession
<1>2. r \in RunRecords /\ r.at = "session"
    BY <1>1 DEF TypeOK, PlanRecords, RunRecords
<1> HIDE DEF r
<1>3. TypeOK'
    BY <1>1, <1>2 DEF TypeOK
<1>4. KnownToClose' /\ ListStands'
    BY <1>1 DEF IInv, KnownToClose, ListStands, Reach, LiveSubs, IsOn, IsNotOn
<1>5. RunAtItsTerms'
    <2>1. \A u \in Subs : run'[u].at \in {"loaded", "pulled"} => run'[u] = run[u]
        BY <1>1, <1>2 DEF TypeOK
    <2> QED BY <1>1, <2>1, RunsKept DEF IInv
<1> QED BY <1>3, <1>4, <1>5 DEF IInv

\* The run loads its terms as they are.
LEMMA StepLoadRun ==
    ASSUME IInv, NEW s \in Subs, LoadRun(s)
    PROVE  IInv'
<1>1. /\ TypeOK /\ UNCHANGED <<events, plan, tier, sub, change, closing, touched>>
      /\ run[s].at = "session" /\ run[s] # Idle
    BY DEF IInv, LoadRun, Idle
<1>2. KnownToClose' /\ ListStands'
    BY <1>1 DEF IInv, KnownToClose, ListStands, Reach, LiveSubs, IsOn, IsNotOn
<1>3. CASE run[s].of \in Tiers \ LiveTiers
    <2>1. Stop(s, "refused")
        BY <1>3 DEF LoadRun
    <2>2. /\ run' \in [Subs -> RunRecords] /\ run'[s].at = "refused"
          /\ \A u \in Subs : u # s => run'[u] = run[u]
        BY <1>1, <2>1, StopRun
    <2>3. TypeOK'
        BY <1>1, <2>2 DEF TypeOK
    <2>4. RunAtItsTerms'
        BY <1>1, <2>2, RunsKept DEF IInv
    <2> QED BY <1>2, <2>3, <2>4 DEF IInv
<1>4. CASE run[s].of \notin Tiers \ LiveTiers
    <2> DEFINE r == [run[s] EXCEPT !.at = "loaded", !.listed = plan.listed,
                                   !.closed = plan.archived, !.amount = ListedOf(run[s].of)]
    <2>1. run[s] \in [at : {"session", "loaded", "pulled", "done", "lost", "refused"},
                      of : Terms, listed : Prices, closed : BOOLEAN,
                      amount : Prices \cup {Null}]
        BY <1>1, RunFields
    <2>2. run[s].of \in LiveTiers \cup {Default}
        BY <1>4, <2>1 DEF Terms
    <2>3. ListedOf(run[s].of) \in Prices /\ plan.listed \in Prices /\ plan.archived \in BOOLEAN
        BY <1>1, <2>2, ListedIsPrice DEF TypeOK, PlanRecords
    <2>4. /\ r \in RunRecords /\ r.of = run[s].of /\ r.listed = plan.listed
          /\ r.amount = ListedOf(run[s].of)
        BY <2>1, <2>3 DEF RunRecords
    <2>5. run' = [run EXCEPT ![s] = r]
        BY <1>4 DEF LoadRun
    <2> HIDE DEF r
    <2>6. TypeOK'
        BY <1>1, <2>4, <2>5 DEF TypeOK
    <2>7. ASSUME NEW u \in Subs, run'[u].at \in {"loaded", "pulled"}
          PROVE  IF run'[u].of = Default THEN run'[u].amount = run'[u].listed
                 ELSE u \in touched'.runs \/ (/\ run'[u].of \in LiveTiers'
                                              /\ run'[u].amount = tier'[run'[u].of].amount)
        <3>1. LiveTiers' = LiveTiers
            BY <1>1 DEF LiveTiers
        <3>2. CASE u = s
            <4>1. run'[u] = r
                BY <1>1, <2>5, <3>2 DEF TypeOK
            <4> QED BY <1>1, <2>2, <2>4, <3>1, <4>1 DEF ListedOf
        <3>3. CASE u # s
            <4>1. run'[u] = run[u]
                BY <1>1, <2>5, <3>3 DEF TypeOK
            <4> QED BY <1>1, <2>7, <3>1, <4>1 DEF IInv, RunAtItsTerms
        <3> QED BY <3>2, <3>3
    <2>8. RunAtItsTerms'
        BY <2>7 DEF RunAtItsTerms
    <2> QED BY <1>2, <2>6, <2>8 DEF IInv
<1> QED BY <1>3, <1>4

\* The pull, its failure and a throw move the run on and write no row.
LEMMA StepPull ==
    ASSUME IInv, NEW s \in Subs, Pull(s) \/ PullFails(s) \/ RunThrows(s)
    PROVE  IInv'
<1>1. /\ TypeOK /\ UNCHANGED <<plan, tier, sub, change, closing>> /\ events' \in 0..MaxEvents
      /\ run[s].at \in {"loaded", "pulled"} /\ run[s] # Idle
    BY NextEvent DEF IInv, Pull, PullFails, RunThrows, TypeOK, Idle
<1>2. PICK at \in {"pulled", "refused", "lost"} : Stop(s, at)
    BY DEF Pull, PullFails, RunThrows
<1>3. /\ run' \in [Subs -> RunRecords]
      /\ \A u \in Subs : u # s => run'[u] = run[u]
      /\ run'[s].of = run[s].of
      /\ run'[s].amount = run[s].amount /\ run'[s].listed = run[s].listed
    BY <1>1, <1>2, StopRun
<1>4. /\ touched' \in [runs : SUBSET Subs, rows : [Requests -> SUBSET Subs]]
      /\ touched'.rows = touched.rows /\ touched.runs \subseteq touched'.runs
    <2>1. CASE UNCHANGED touched
        BY <1>1, <2>1 DEF TypeOK
    <2>2. CASE touched' = [touched EXCEPT !.runs = @ \cup {s}]
        BY <1>1, <2>2, TouchedTypes
    <2> QED BY <2>1, <2>2 DEF Pull, PullFails, RunThrows
<1>5. TypeOK'
    BY <1>1, <1>3, <1>4 DEF TypeOK
<1>6. KnownToClose'
    BY <1>1 DEF IInv, KnownToClose
<1>7. ListStands'
    BY <1>1, <1>4, ListKept DEF IInv
<1>8. RunAtItsTerms'
    <2>1. \A u \in Subs : run'[u].at \in {"loaded", "pulled"} =>
              /\ run[u].at \in {"loaded", "pulled"} /\ run'[u].of = run[u].of
              /\ run'[u].amount = run[u].amount /\ run'[u].listed = run[u].listed
        BY <1>1, <1>3
    <2> QED BY <1>1, <1>4, <2>1, RunsKept DEF IInv
<1> QED BY <1>5, <1>6, <1>7, <1>8 DEF IInv

\* One row is written, and marked for the requests that have listed.
LEMMA RowWritten ==
    ASSUME IInv, NEW s \in Subs, NEW w \in SubRecords, w # NoSub,
           sub' = [sub EXCEPT ![s] = w],
           touched' = [touched EXCEPT !.rows = TouchRows({s})],
           UNCHANGED <<events, plan, tier, change>>,
           run' \in [Subs -> RunRecords],
           \A u \in Subs : run'[u].at \in {"loaded", "pulled"} => run'[u] = run[u],
           closing' \in [at : {"none", "archived", "listed"}, subs : SUBSET Subs],
           closing'.subs \subseteq closing.subs
    PROVE  IInv'
<1>1. TypeOK
    BY DEF IInv
<1>2. /\ touched' \in [runs : SUBSET Subs, rows : [Requests -> SUBSET Subs]]
      /\ touched'.runs = touched.runs
      /\ \A h \in Requests : /\ touched.rows[h] \subseteq touched'.rows[h]
                             /\ change[h].at = "listed" => s \in touched'.rows[h]
    BY <1>1, TouchedTypes
<1>3. \A u \in Subs : u # s => sub'[u] = sub[u]
    BY <1>1 DEF TypeOK
<1>4. sub' \in [Subs -> SubRecords] /\ sub'[s] = w
    BY <1>1 DEF TypeOK
<1>5. TypeOK'
    BY <1>1, <1>2, <1>4 DEF TypeOK
<1>6. KnownToClose'
    <2>1. ASSUME NEW u \in closing'.subs PROVE sub'[u] # NoSub
        <3>1. u \in Subs /\ sub[u] # NoSub
            BY DEF IInv, KnownToClose
        <3> QED BY <1>3, <1>4, <3>1
    <2> QED BY <2>1 DEF KnownToClose
<1>7. ListStands'
    BY <1>1, <1>2, <1>3, ListKept DEF IInv
<1>8. RunAtItsTerms'
    BY <1>1, <1>2, RunsKept DEF IInv
<1> QED BY <1>5, <1>6, <1>7, <1>8 DEF IInv

\* The subscription of a paid checkout, or none.
LEMMA StepComplete ==
    ASSUME IInv, NEW s \in Subs, CompleteCheckoutSession(s)
    PROVE  IInv'
<1>1. /\ TypeOK /\ UNCHANGED <<events, plan, tier, change, closing>>
      /\ run[s].at = "pulled" /\ run[s] # Idle
    BY DEF IInv, CompleteCheckoutSession, Idle
<1>2. run[s] \in [at : {"session", "loaded", "pulled", "done", "lost", "refused"},
                  of : Terms, listed : Prices, closed : BOOLEAN,
                  amount : Prices \cup {Null}]
    BY <1>1, RunFields
<1>3. CASE run[s].closed \/ run[s].of \in Tiers \ LiveTiers
    <2>1. Stop(s, "lost") /\ UNCHANGED <<sub, touched>>
        BY <1>3 DEF CompleteCheckoutSession
    <2>2. /\ run' \in [Subs -> RunRecords] /\ run'[s].at = "lost"
          /\ \A u \in Subs : u # s => run'[u] = run[u]
        BY <1>1, <2>1, StopRun
    <2>3. TypeOK'
        BY <1>1, <2>1, <2>2 DEF TypeOK
    <2>4. KnownToClose' /\ ListStands'
        BY <1>1, <2>1 DEF IInv, KnownToClose, ListStands, Reach, LiveSubs, IsOn, IsNotOn
    <2>5. RunAtItsTerms'
        BY <1>1, <2>1, <2>2, RunsKept DEF IInv
    <2> QED BY <2>3, <2>4, <2>5 DEF IInv
<1>4. CASE ~ run[s].closed /\ run[s].of \notin Tiers \ LiveTiers
    <2> DEFINE w == [status |-> "live", amount |-> Recorded(run[s]),
                     interval |-> IntervalFor(run[s].of)]
    <2>1. /\ Stop(s, "done") /\ sub' = [sub EXCEPT ![s] = w]
          /\ touched' = [touched EXCEPT !.rows = TouchRows({s})]
        BY <1>4 DEF CompleteCheckoutSession
    <2>2. run[s].of \in LiveTiers \cup {Default}
        BY <1>2, <1>4 DEF Terms
    <2>3. Recorded(run[s]) \in Prices
        <3>1. ListedOf(run[s].of) \in Prices
            BY <1>1, <2>2, ListedIsPrice
        <3> QED BY <1>2, <3>1 DEF Recorded, ListedOf
    <2>4. IntervalFor(run[s].of) \in Intervals
        BY <2>2 DEF IntervalFor, Intervals, LiveTiers
    <2>5. w \in SubRecords /\ w # NoSub
        <3>1. w.status = "live" /\ NoSub.status = "none"
            BY DEF NoSub
        <3>2. w \in SubRecords
            BY <2>3, <2>4 DEF SubRecords
        <3> QED BY <3>1, <3>2
    <2>6. /\ run' \in [Subs -> RunRecords] /\ run'[s].at = "done"
          /\ \A u \in Subs : u # s => run'[u] = run[u]
        BY <1>1, <2>1, StopRun
    <2>7. /\ \A u \in Subs : run'[u].at \in {"loaded", "pulled"} => run'[u] = run[u]
          /\ closing' \in [at : {"none", "archived", "listed"}, subs : SUBSET Subs]
          /\ closing'.subs \subseteq closing.subs
        BY <1>1, <2>6 DEF TypeOK
    <2> HIDE DEF w
    <2> QED BY <1>1, <2>1, <2>5, <2>6, <2>7, RowWritten
<1> QED BY <1>3, <1>4

\* A subscription is cancelled, by its holder or with the plan.
LEMMA StepCancel ==
    ASSUME IInv, NEW s \in Subs, Cancel(s) \/ CloseOne(s)
    PROVE  IInv'
<1>1. TypeOK /\ UNCHANGED <<events, plan, tier, change, run>> /\ Cancelled(s)
    BY DEF IInv, Cancel, CloseOne
<1>2. sub[s] # NoSub
    BY <1>1, SubFields DEF IInv, Cancel, CloseOne, KnownToClose
<1> DEFINE w == [sub[s] EXCEPT !.status = "cancelled"]
<1>3. w \in SubRecords /\ w # NoSub
    <2>1. sub[s] \in [status : {"live", "cancelled"}, amount : Prices \cup {Null},
                      interval : Intervals \cup {Null}]
        BY <1>1, <1>2, SubFields
    <2>2. w \in [status : {"live", "cancelled"}, amount : Prices \cup {Null},
                 interval : Intervals \cup {Null}] /\ w.status = "cancelled"
        BY <2>1
    <2>3. NoSub.status = "none"
        BY DEF NoSub
    <2> HIDE DEF w
    <2> QED BY <2>2, <2>3 DEF SubRecords
<1>4. sub' = [sub EXCEPT ![s] = w] /\ touched' = [touched EXCEPT !.rows = TouchRows({s})]
    BY <1>1 DEF Cancelled
<1>5. /\ closing' \in [at : {"none", "archived", "listed"}, subs : SUBSET Subs]
      /\ closing'.subs \subseteq closing.subs
    BY <1>1 DEF Cancel, CloseOne, TypeOK
<1>6. run' \in [Subs -> RunRecords]
    BY <1>1 DEF TypeOK
<1> HIDE DEF w
<1> QED BY <1>1, <1>3, <1>4, <1>5, <1>6, RowWritten

\* The deletion of the plan, up to the list of whom to close.
LEMMA StepDelete ==
    ASSUME IInv, ArchivePlan \/ FindSubsToClose
    PROVE  IInv'
<1>1. TypeOK /\ UNCHANGED <<events, tier, sub, change, run, touched>>
    BY DEF IInv, ArchivePlan, FindSubsToClose
<1>2. plan' \in PlanRecords
    BY <1>1 DEF ArchivePlan, FindSubsToClose, TypeOK, PlanRecords
<1>3. /\ closing' \in [at : {"none", "archived", "listed"}, subs : SUBSET Subs]
      /\ closing'.subs \subseteq closing.subs \cup LiveSubs
    BY <1>1 DEF ArchivePlan, FindSubsToClose, TypeOK, LiveSubs
<1>4. TypeOK'
    BY <1>1, <1>2, <1>3 DEF TypeOK
<1>5. KnownToClose'
    <2>1. \A s \in LiveSubs : sub[s] # NoSub
        BY <1>1, SubFields DEF LiveSubs
    <2> QED BY <1>1, <1>3, <2>1 DEF IInv, KnownToClose
<1>6. ListStands'
    BY <1>1 DEF IInv, ListStands, Reach, LiveSubs, IsOn, IsNotOn
<1>7. RunAtItsTerms'
    BY <1>1 DEF IInv, RunAtItsTerms, LiveTiers
<1> QED BY <1>4, <1>5, <1>6, <1>7 DEF IInv

\* A deploy ends what the process was about.
LEMMA StepRestart ==
    ASSUME IInv, Restart
    PROVE  IInv'
<1>1. /\ TypeOK /\ UNCHANGED <<plan, tier, sub>> /\ events' \in 0..MaxEvents
      /\ closing' = [at |-> "none", subs |-> {}]
      /\ change' = [h \in Requests |-> Idle]
      /\ touched' = [touched EXCEPT !.runs = @ \cup UnderWay]
    BY NextEvent DEF IInv, Restart
<1>2. /\ touched' \in [runs : SUBSET Subs, rows : [Requests -> SUBSET Subs]]
    BY <1>1, TouchedTypes DEF UnderWay
<1>3. \A h \in Requests : change'[h] \in ChangeRecords /\ change'[h].at # "listed"
    BY <1>1 DEF ChangeRecords, Idle
<1>4. ASSUME NEW s \in Subs
      PROVE  run'[s] \in RunRecords /\ run'[s].at \notin {"loaded", "pulled"}
    <2>1. run'[s] = IF s \notin UnderWay THEN run[s]
                    ELSE [run[s] EXCEPT !.at = IF @ = "pulled" THEN "lost" ELSE "refused"]
        BY DEF Restart
    <2>2. CASE s \notin UnderWay
        BY <1>1, <2>1, <2>2 DEF UnderWay, TypeOK
    <2>3. CASE s \in UnderWay
        <3> DEFINE r == [run[s] EXCEPT !.at = IF @ = "pulled" THEN "lost" ELSE "refused"]
        <3>1. run[s] # Idle
            BY <2>3 DEF UnderWay, Idle
        <3>2. run[s] \in [at : {"session", "loaded", "pulled", "done", "lost", "refused"},
                          of : Terms, listed : Prices, closed : BOOLEAN,
                          amount : Prices \cup {Null}]
            BY <1>1, <3>1, RunFields
        <3>3. r \in RunRecords /\ r.at \in {"lost", "refused"}
            BY <3>2 DEF RunRecords
        <3>4. run'[s] = r
            BY <2>1, <2>3
        <3> HIDE DEF r
        <3> QED BY <3>3, <3>4
    <2> QED BY <2>2, <2>3
<1>5. TypeOK'
    <2>1. run' \in [Subs -> RunRecords]
        <3>1. run' = [s \in Subs |-> run'[s]]
            BY DEF Restart
        <3> QED BY <1>4, <3>1
    <2>2. change' \in [Requests -> ChangeRecords]
        BY <1>1, <1>3
    <2> QED BY <1>1, <1>2, <2>1, <2>2 DEF TypeOK
<1>6. KnownToClose'
    BY <1>1 DEF KnownToClose
<1>7. ListStands'
    BY <1>3 DEF ListStands
<1>8. RunAtItsTerms'
    BY <1>4 DEF RunAtItsTerms
<1> QED BY <1>5, <1>6, <1>7, <1>8 DEF IInv

LEMMA StepIInv == IInv /\ [Next]_vars => IInv'
<1> SUFFICES ASSUME IInv, [Next]_vars PROVE IInv'
    OBVIOUS
<1>1. CASE UNCHANGED vars
    BY <1>1 DEF IInv, TypeOK, KnownToClose, ListStands, RunAtItsTerms, Reach, LiveSubs,
                LiveTiers, IsOn, IsNotOn, vars
<1>2. CASE \E t \in Tiers : ArchiveTier(t) \/ \E a \in Prices : CreateTier(t, a)
    BY <1>2, StepTiers
<1>3. CASE \E h \in Requests : \E a \in Prices \cup {0}, scope \in Scopes :
             ReadDefault(h, a, scope) \/ \E t \in Tiers : ReadTier(h, t, a, scope)
    BY <1>3, StepRead
<1>4. CASE \E h \in Requests : ListMoved(h)
    BY <1>4, StepListMoved
<1>5. CASE \E h \in Requests : ApplyPriceChange(h)
    BY <1>5, StepApply
<1>6. CASE \E s \in Subs, t \in Terms : OpenSession(s, t)
    BY <1>6, StepOpenSession
<1>7. CASE \E s \in Subs : LoadRun(s)
    BY <1>7, StepLoadRun
<1>8. CASE \E s \in Subs : Pull(s) \/ PullFails(s) \/ RunThrows(s)
    BY <1>8, StepPull
<1>9. CASE \E s \in Subs : CompleteCheckoutSession(s)
    BY <1>9, StepComplete
<1>10. CASE \E s \in Subs : Cancel(s) \/ CloseOne(s)
    BY <1>10, StepCancel
<1>11. CASE ArchivePlan \/ FindSubsToClose
    BY <1>11, StepDelete
<1>12. CASE Restart
    BY <1>12, StepRestart
<1> QED BY <1>1, <1>2, <1>3, <1>4, <1>5, <1>6, <1>7, <1>8, <1>9, <1>10, <1>11, <1>12
        DEF Next

-----------------------------------------------------------------------------
(***************************************************************************)
(* Pricing: what follows.                                                  *)
(***************************************************************************)

\* The inductive invariant of prices: a list of whom to move differs from whom the write
\* will reach only in the rows written since, and a run that pays holds the terms it will
\* record, unless they moved under it.
THEOREM PricingInductive == Spec => []IInv
<1> QED BY InitIInv, StepIInv, PTL DEF Spec

\* Every variable keeps to its type, whatever requests, checkouts and deploys do.
THEOREM PricingTypeCorrect == Spec => []TypeOK
<1>1. IInv => TypeOK
    BY DEF IInv
<1> QED BY <1>1, PricingInductive, PTL

-----------------------------------------------------------------------------
(***************************************************************************)
(* Pricing: whom a change of a price reaches.                              *)
(***************************************************************************)

\* A request is done with its change, but for a restart, when it has applied it.
LEMMA DoneWhenApplied ==
    ASSUME TypeOK, [Next]_vars, NEW h \in Requests,
           change[h] # Idle, change'[h] = Idle, events' = events
    PROVE  ApplyPriceChange(h)
<1>1. change'[h] # change[h]
    OBVIOUS
<1>2. ~ UNCHANGED change
    BY <1>1
<1>3. ~ Event
    BY NextEvent
<1>4. ASSUME NEW k \in Requests, ListMoved(k) PROVE FALSE
    <2>1. change' = [change EXCEPT ![k].at = "listed", ![k].moved = Reach(change[k])]
        BY <1>4 DEF ListMoved
    <2>2. CASE k # h
        BY <1>1, <2>1, <2>2 DEF TypeOK
    <2>3. CASE k = h
        <3> DEFINE c == [change[h] EXCEPT !.at = "listed", !.moved = Reach(change[h])]
        <3>1. change[h] \in ChangeRecords
            BY DEF TypeOK
        <3>2. c.at = "listed" /\ Idle.at = "idle"
            BY <3>1 DEF ChangeRecords, Idle
        <3>3. change'[h] = c
            BY <2>1, <2>3 DEF TypeOK
        <3> HIDE DEF c
        <3> QED BY <3>2, <3>3
    <2> QED BY <2>2, <2>3
<1>5. ASSUME NEW k \in Requests, ApplyPriceChange(k) PROVE k = h
    <2>1. change' = [change EXCEPT ![k] = Idle]
        BY <1>5 DEF ApplyPriceChange
    <2> QED BY <1>1, <2>1 DEF TypeOK
<1>6. ASSUME NEW t \in Tiers, ArchiveTier(t) \/ \E a \in Prices : CreateTier(t, a) PROVE FALSE
    BY <1>3, <1>6 DEF ArchiveTier, CreateTier
<1>7. ASSUME NEW k \in Requests, NEW a, NEW scope,
             ReadDefault(k, a, scope) \/ \E t \in Tiers : ReadTier(k, t, a, scope)
      PROVE  FALSE
    BY <1>3, <1>7 DEF ReadDefault, ReadTier, NewChange
<1>8. ASSUME NEW s \in Subs,
             \/ \E t \in Terms : OpenSession(s, t)
             \/ LoadRun(s) \/ Pull(s) \/ PullFails(s) \/ RunThrows(s)
             \/ CompleteCheckoutSession(s)
             \/ Cancel(s) \/ CloseOne(s)
      PROVE  UNCHANGED change
    BY <1>8 DEF OpenSession, LoadRun, Pull, PullFails, RunThrows, CompleteCheckoutSession,
                Cancel, CloseOne
<1>9. ~ ArchivePlan /\ ~ FindSubsToClose /\ ~ Restart
    BY <1>2, <1>3 DEF ArchivePlan, FindSubsToClose, Restart
<1>10. Next
    BY <1>2 DEF vars
<1> QED BY <1>2, <1>4, <1>5, <1>6, <1>7, <1>8, <1>9, <1>10 DEF Next

\* A change for "new" pins who follows the listing to the price it had.
LEMMA NewPins ==
    ASSUME TypeOK, NEW h \in Requests, ApplyPriceChange(h), change[h].scope = "new"
    PROVE  NewKeepsPrices(change[h])
<1> DEFINE c == change[h]
<1>1. /\ c.old \in Prices /\ PriceWritten(c) = c.old
      /\ Written(c) = IF c.of = Default THEN Inheriting ELSE {}
      /\ sub' = Reprice(Written(c), c.old)
      /\ Written(c) \in SUBSET LiveSubs
      /\ RelistPlan(c)
    BY ChangeWrites, ChangeFields DEF PriceWritten, Written, ApplyPriceChange
<1>2. c.old # Null
    BY <1>1, TiersAssumption
<1> SUFFICES ASSUME NEW s \in LiveSubs, ~ (sub[s].amount = Null /\ plan.listed # c.old)
             PROVE  Pays(s)' = Pays(s)
    BY DEF NewKeepsPrices
<1>3. /\ s \in Subs /\ (s \notin Written(c) => sub'[s] = sub[s])
      /\ s \in Written(c) => sub'[s].amount = c.old
    BY <1>1, RepricedRow DEF LiveSubs
<1>4. CASE s \in Written(c)
    <2>1. sub[s].amount = Null /\ plan.listed = c.old
        BY <1>1, <1>4 DEF Inheriting
    <2> QED BY <1>2, <1>3, <1>4, <2>1 DEF Pays
<1>5. CASE s \notin Written(c)
    <2>1. sub[s].amount = Null => c.of # Default
        BY <1>1, <1>5 DEF Inheriting
    <2>2. sub[s].amount = Null => plan' = plan
        BY <1>1, <2>1 DEF RelistPlan
    <2> QED BY <1>3, <1>5, <2>2 DEF Pays
<1> QED BY <1>4, <1>5

\* A change for the others writes the rows it has listed.
LEMMA ListedAreMoved ==
    ASSUME IInv, NEW h \in Requests, ApplyPriceChange(h), change[h].scope # "new"
    PROVE  MovesWhomItLists(change[h], touched.rows[h])
<1> DEFINE c == change[h]
<1>1. /\ c.at = "listed" /\ c.moved \subseteq Subs /\ c.new \in Prices
      /\ Written(c) = Reach(c) /\ Written(c) \in SUBSET LiveSubs
      /\ sub' = Reprice(Written(c), c.new)
    BY ChangeWrites, ChangeFields DEF IInv, ApplyPriceChange, Written, PriceWritten
<1>2. \A s \in Subs : /\ s \notin Written(c) => sub'[s] = sub[s]
                      /\ s \in Written(c) => sub'[s].amount = c.new
    BY <1>1, RepricedRow DEF IInv
<1>3. \A s \in Subs \ touched.rows[h] : s \in c.moved <=> s \in Written(c)
    BY <1>1 DEF IInv, ListStands
<1> QED BY <1>1, <1>2, <1>3 DEF MovesWhomItLists

\* The condition in SQL finds whom the change is for, but for those it is unset for.
LEMMA ReachIsPromised ==
    ASSUME NEW c
    PROVE  Reach(c) = Promised(c) \ Missed(c)
<1> SUFFICES ASSUME NEW s \in LiveSubs
             PROVE  s \in Reach(c) <=> s \in Promised(c) \ Missed(c)
    BY DEF Reach, Promised, Missed
<1>1. CASE c.of # Default
    <2>1. s \in Reach(c) <=> sub[s].amount = c.old /\ sub[s].interval = IntervalOf[c.of]
        BY <1>1 DEF Reach, IsOn
    <2>2. s \in Promised(c) <=> TermsOf(s) = <<c.old, IntervalOf[c.of]>>
        BY <1>1 DEF Promised
    <2>3. s \notin Missed(c)
        BY <1>1 DEF Missed
    <2> QED BY <2>1, <2>2, <2>3 DEF TermsOf
<1>2. CASE c.of = Default
    <2> DEFINE On(t) == sub[s].amount = c.named[t] /\ sub[s].interval = IntervalOf[t]
               May(t) == /\ sub[s].amount \in {c.named[t], Null}
                         /\ sub[s].interval \in {IntervalOf[t], Null}
               U == {t \in Tiers : c.named[t] # Null}
               Inherits == sub[s].amount = Null \/ sub[s].interval = Null
    <2>1. s \in Reach(c) <=> \A t \in U : ~ May(t)
        BY <1>2 DEF Reach, IsNotOn
    <2>2. s \in Promised(c) <=> \A t \in U : ~ On(t)
        <3>1. s \in Promised(c) <=> TermsOf(s) \notin NamedTerms(c)
            BY <1>2 DEF Promised
        <3>2. TermsOf(s) \in NamedTerms(c) <=> \E t \in U : TermsOf(s) = <<c.named[t], IntervalOf[t]>>
            BY DEF NamedTerms
        <3>3. \A t : TermsOf(s) = <<c.named[t], IntervalOf[t]>> <=> On(t)
            BY DEF TermsOf
        <3> QED BY <3>1, <3>2, <3>3
    <2>3. s \in Missed(c) <=> s \in Promised(c) /\ Inherits /\ \E t \in U : May(t)
        <3>1. (\E k \in NamedTerms(c) : /\ sub[s].amount \in {k[1], Null}
                                        /\ sub[s].interval \in {k[2], Null})
              <=> \E t \in U : May(t)
            <4> DEFINE K(t) == <<c.named[t], IntervalOf[t]>>
                       Q(k) == sub[s].amount \in {k[1], Null} /\ sub[s].interval \in {k[2], Null}
            <4>1. \A t : Q(K(t)) <=> May(t)
                OBVIOUS
            <4>2. NamedTerms(c) = {K(t) : t \in U}
                BY DEF NamedTerms
            <4>3. (\E k \in {K(t) : t \in U} : Q(k)) <=> \E t \in U : Q(K(t))
                <5> HIDE DEF K, Q, U
                <5> QED OBVIOUS
            <4>4. (\E k \in NamedTerms(c) : Q(k)) <=> \E t \in U : May(t)
                <5> HIDE DEF K, Q, U, May
                <5> QED BY <4>1, <4>2, <4>3
            <4> QED BY <4>4
        <3> QED BY <1>2, <3>1 DEF Missed
    <2>4. \A t \in U : On(t) => May(t)
        OBVIOUS
    <2>5. \A t \in U : May(t) /\ ~ Inherits => On(t)
        OBVIOUS
    <2> HIDE DEF On, May, U, Inherits
    <2> QED BY <2>1, <2>2, <2>3, <2>4, <2>5
<1> QED BY <1>1, <1>2

\* Its list is of those it is for, but for rows that somebody wrote since.
LEMMA ListedAreThose ==
    ASSUME IInv, NEW h \in Requests, ApplyPriceChange(h), change[h].scope # "new"
    PROVE  ListsWhomItIsFor(change[h], touched.rows[h])
<1>1. change[h].at = "listed"
    BY DEF ApplyPriceChange
<1>2. \A s \in Subs \ touched.rows[h] : s \in change[h].moved <=> s \in Reach(change[h])
    BY <1>1 DEF IInv, ListStands
<1> QED BY <1>2, ReachIsPromised DEF ListsWhomItIsFor

\* Whoever follows the listing is written, or follows it to the new price.
LEMMA FollowersAreMoved ==
    ASSUME IInv, NEW h \in Requests, ApplyPriceChange(h), change[h].scope # "new"
    PROVE  MovesWhoFollows(change[h])
<1> DEFINE c == change[h]
<1> SUFFICES ASSUME c.scope = "everyone", c.of = Default, NEW s \in Inheriting
             PROVE  Pays(s)' = c.new
    BY DEF MovesWhoFollows
<1>1. /\ c.new \in Prices /\ s \in Subs /\ sub[s].amount = Null
      /\ Written(c) \in SUBSET LiveSubs /\ sub' = Reprice(Written(c), c.new)
    BY ChangeWrites, ChangeFields DEF IInv, ApplyPriceChange, Written, PriceWritten, Inheriting,
                                      LiveSubs
<1>2. /\ s \notin Written(c) => sub'[s] = sub[s]
      /\ s \in Written(c) => sub'[s].amount = c.new
    BY <1>1, RepricedRow DEF IInv
<1>3. plan'.listed = c.new
    BY DEF ApplyPriceChange, RelistPlan, IInv, TypeOK, PlanRecords
<1>4. c.new # Null
    BY <1>1, TiersAssumption
<1> QED BY <1>1, <1>2, <1>3, <1>4 DEF Pays

\* Whom a change of a price reaches is whom its scope says.  For "new" no live subscriber
\* pays another price than before, unless the listing he follows has moved since the
\* request read it.  For the others, and but for rows that somebody wrote between the two,
\* the rows written are the rows listed for the mails, and they are the subscribers of the
\* plan's own terms, who inherit it or are on no named tier's, or of the named tier's;
\* what is left out is the inheriting subscriber whose set column is a named tier's, and
\* "everyone" moves him too, by the listing.
THEOREM ScopeReaches == Spec => ReachesWhoItSays
<1> DEFINE Reaches == \A h \in Requests :
         LET c == change[h]
         IN  c # Idle /\ change'[h] = Idle /\ events' = events
             => IF c.scope = "new" THEN NewKeepsPrices(c)
             ELSE /\ MovesWhomItLists(c, touched.rows[h])
                  /\ ListsWhomItIsFor(c, touched.rows[h])
                  /\ MovesWhoFollows(c)
<1>1. IInv /\ [Next]_vars => Reaches
    <2> SUFFICES ASSUME IInv, [Next]_vars, NEW h \in Requests,
                        change[h] # Idle, change'[h] = Idle, events' = events
                 PROVE  IF change[h].scope = "new"
                        THEN NewKeepsPrices(change[h])
                        ELSE /\ MovesWhomItLists(change[h], touched.rows[h])
                             /\ ListsWhomItIsFor(change[h], touched.rows[h])
                             /\ MovesWhoFollows(change[h])
        OBVIOUS
    <2>1. ApplyPriceChange(h)
        BY DoneWhenApplied DEF IInv
    <2>2. CASE change[h].scope = "new"
        BY <2>1, <2>2, NewPins DEF IInv
    <2>3. CASE change[h].scope # "new"
        BY <2>1, <2>3, ListedAreMoved, ListedAreThose, FollowersAreMoved
    <2> QED BY <2>2, <2>3
<1>2. IInv /\ [Next]_vars => [Reaches]_vars
    BY <1>1
<1> HIDE DEF Reaches
<1>3. Spec => [][Reaches]_vars
    BY <1>2, PricingInductive, PTL DEF Spec
<1> QED BY <1>3 DEF ReachesWhoItSays, Reaches

-----------------------------------------------------------------------------
(***************************************************************************)
(* Pricing: what has been paid is recorded.                                *)
(***************************************************************************)

\* A run whose payment is through is ended by its completion, or cut short.
LEMMA PaidEnds ==
    ASSUME TypeOK, [Next]_vars, NEW s \in Subs, run[s].at = "pulled", run'[s].at # "pulled"
    PROVE  CompleteCheckoutSession(s) \/ s \in touched'.runs
<1>1. run'[s] # run[s]
    OBVIOUS
<1>2. ~ UNCHANGED run /\ run[s] # Idle
    BY <1>1 DEF Idle
<1>3. \A u \in Subs : \A at : Stop(u, at) => u = s
    BY <1>1 DEF Stop, TypeOK
<1>4. ASSUME NEW u \in Subs, NEW t, OpenSession(u, t) PROVE FALSE
    BY <1>1, <1>2, <1>4 DEF OpenSession, TypeOK
<1>5. ASSUME NEW u \in Subs, LoadRun(u) PROVE FALSE
    <2>1. u # s
        BY <1>5 DEF LoadRun
    <2> QED BY <1>1, <1>5, <2>1 DEF LoadRun, Stop, TypeOK
<1>6. ASSUME NEW u \in Subs, Pull(u) \/ PullFails(u) PROVE FALSE
    BY <1>3, <1>6 DEF Pull, PullFails
<1>7. ASSUME NEW u \in Subs, RunThrows(u) PROVE s \in touched'.runs
    <2>1. u = s /\ touched' = [touched EXCEPT !.runs = @ \cup {s}]
        BY <1>3, <1>7 DEF RunThrows
    <2> QED BY <2>1, TouchedTypes
<1>8. ASSUME NEW u \in Subs, CompleteCheckoutSession(u) PROVE u = s
    BY <1>3, <1>8 DEF CompleteCheckoutSession
<1>9. ASSUME Restart PROVE s \in touched'.runs
    <2>1. touched' = [touched EXCEPT !.runs = @ \cup UnderWay] /\ s \in UnderWay
          /\ UnderWay \in SUBSET Subs
        BY <1>9 DEF Restart, UnderWay
    <2> QED BY <2>1, TouchedTypes
<1>10. ASSUME NEW u \in Subs, Cancel(u) \/ CloseOne(u) PROVE UNCHANGED run
    BY <1>10 DEF Cancel, CloseOne
<1>11. ASSUME NEW h \in Requests,
              \/ \E a \in Prices \cup {0}, scope \in Scopes :
                   ReadDefault(h, a, scope) \/ \E t \in Tiers : ReadTier(h, t, a, scope)
              \/ ListMoved(h) \/ ApplyPriceChange(h)
       PROVE  UNCHANGED run
    BY <1>11 DEF ReadDefault, ReadTier, NewChange, ListMoved, ApplyPriceChange
<1>12. ASSUME NEW t \in Tiers, ArchiveTier(t) \/ \E a \in Prices : CreateTier(t, a)
       PROVE  UNCHANGED run
    BY <1>12 DEF ArchiveTier, CreateTier
<1>13. ~ ArchivePlan /\ ~ FindSubsToClose
    BY <1>2 DEF ArchivePlan, FindSubsToClose
<1>14. Next
    BY <1>2 DEF vars
<1> QED BY <1>2, <1>4, <1>5, <1>6, <1>7, <1>8, <1>9, <1>10, <1>11, <1>12, <1>13, <1>14
        DEF Next

\* The completion records the price that was pulled.
LEMMA RecordsWhatWasPaid ==
    ASSUME IInv, NEW s \in Subs, CompleteCheckoutSession(s)
    PROVE  \/ run'[s].at = "done" /\ sub'[s].status = "live" /\ sub'[s].amount = run[s].amount
           \/ run[s].closed
           \/ s \in touched'.runs
<1>1. TypeOK /\ run[s].at = "pulled" /\ run[s] # Idle
    BY DEF IInv, CompleteCheckoutSession, Idle
<1>2. IF run[s].of = Default THEN run[s].amount = run[s].listed
      ELSE s \in touched.runs \/ (/\ run[s].of \in LiveTiers
                                  /\ run[s].amount = tier[run[s].of].amount)
    BY <1>1 DEF IInv, RunAtItsTerms
<1>3. Default \notin Tiers
    BY TiersAssumption
<1>4. CASE run[s].closed
    BY <1>4
<1>5. CASE run[s].of \in Tiers \ LiveTiers
    <2>1. s \in touched.runs
        BY <1>2, <1>3, <1>5
    <2>2. UNCHANGED touched
        BY <1>5 DEF CompleteCheckoutSession
    <2> QED BY <2>1, <2>2
<1>6. CASE ~ run[s].closed /\ run[s].of \notin Tiers \ LiveTiers
    <2> DEFINE w == [status |-> "live", amount |-> Recorded(run[s]),
                     interval |-> IntervalFor(run[s].of)]
    <2>1. /\ Stop(s, "done") /\ sub' = [sub EXCEPT ![s] = w]
          /\ touched' = [touched EXCEPT !.rows = TouchRows({s})]
        BY <1>6 DEF CompleteCheckoutSession
    <2>2. w.status = "live" /\ w.amount = Recorded(run[s])
        OBVIOUS
    <2> HIDE DEF w
    <2>3. sub'[s] = w
        BY <1>1, <2>1 DEF TypeOK
    <2>4. run'[s].at = "done"
        BY <1>1, <2>1, StopRun
    <2>5. touched'.runs = touched.runs
        BY <1>1, <2>1, TouchedTypes
    <2>6. s \in touched.runs \/ Recorded(run[s]) = run[s].amount
        BY <1>2 DEF Recorded
    <2> QED BY <2>2, <2>3, <2>4, <2>5, <2>6
<1> QED BY <1>4, <1>5, <1>6

\* A payer whose first payment went through has a subscription at the price that was
\* pulled, unless the tier moved under the run, the run was cut short or the plan was
\* already archived when the run loaded it.
THEOREM PaidRecorded == Spec => PaidIsRecorded
<1> DEFINE Records == \A s \in Subs :
         run[s].at = "pulled" /\ run'[s].at # "pulled"
         => \/ run'[s].at = "done" /\ sub'[s].status = "live" /\ sub'[s].amount = run[s].amount
            \/ run[s].closed
            \/ s \in touched'.runs
<1>1. IInv /\ [Next]_vars => Records
    <2> SUFFICES ASSUME IInv, [Next]_vars, NEW s \in Subs,
                        run[s].at = "pulled", run'[s].at # "pulled"
                 PROVE  \/ /\ run'[s].at = "done" /\ sub'[s].status = "live"
                           /\ sub'[s].amount = run[s].amount
                        \/ run[s].closed
                        \/ s \in touched'.runs
        OBVIOUS
    <2>1. CompleteCheckoutSession(s) \/ s \in touched'.runs
        BY PaidEnds DEF IInv
    <2> QED BY <2>1, RecordsWhatWasPaid
<1>2. IInv /\ [Next]_vars => [Records]_vars
    BY <1>1
<1> HIDE DEF Records
<1>3. Spec => [][Records]_vars
    BY <1>2, PricingInductive, PTL DEF Spec
<1> QED BY <1>3 DEF PaidIsRecorded, Records
================================================================================
