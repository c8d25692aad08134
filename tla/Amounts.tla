------------------------------- MODULE Amounts -------------------------------
(***************************************************************************)
(* What becomes of a payment, in micro-USDC: the platform's fee, the       *)
(* ceiling on the bridge's fee that the burn carries on top of the         *)
(* merchant's share, and what the settlement account keeps and remits when *)
(* it pays for the bridge out of that fee.  The rates are basis points;    *)
(* the bridge's are scaled by 10^6 because its quotes are fractions.       *)
(***************************************************************************)
EXTENDS Integers

MinOf(a, b) == IF a <= b THEN a ELSE b
MaxOf(a, b) == IF a <= b THEN b ELSE a

\* platformFeeOf, and the merchant's share of a payment.
PlatformFeeOf(amount, bps) == (amount * bps) \div 10000
MerchantShare(amount, bps) == amount - PlatformFeeOf(amount, bps)

NoQuote == "null"       \* quoteFastFeeBps could not read the route's fee

\* The rate of burnParams: the quote with its margin, under the ceiling.
FastRate(quoted, margin, ceiling) ==
    IF quoted = NoQuote THEN ceiling ELSE MinOf(quoted * margin, ceiling)

\* The maxFee of burnParams: never 0 on a fast burn, and below the amount.
FastMaxFee(amount, rate) ==
    LET floored == MaxOf((amount * rate) \div 10000000000, 1)
    IN  IF floored < amount THEN floored
        ELSE IF amount > 1 THEN amount - 1 ELSE 0

MaxFee(speed, amount, rate) == IF speed = "fast" THEN FastMaxFee(amount, rate) ELSE 0

\* burnCalls burns the amount to mint plus the bridge's fee.
BurnAmount(amount, maxFee) == amount + maxFee

(***************************************************************************)
(* settleUserOp.  balance is what the account holds once the payer's gross *)
(* amount is in; floor is the gas reserve it keeps on a chain where gas is *)
(* taken from its USDC, 0 where it is not.                                 *)
(***************************************************************************)
Preexisting(balance, gross) == IF balance > gross THEN balance - gross ELSE 0

ToppedUp(balance, gross, floor) ==
    IF Preexisting(balance, gross) >= floor THEN 0 ELSE floor - Preexisting(balance, gross)

FeeToTreasury(balance, gross, share, maxFee, floor) ==
    gross - share - maxFee - ToppedUp(balance, gross, floor)

\* The transfer is in the batch only when it is positive.
Remitted(balance, gross, share, maxFee, floor) ==
    MaxOf(FeeToTreasury(balance, gross, share, maxFee, floor), 0)

\* What the account holds after the burn and the transfer.
LeftInAccount(balance, gross, share, maxFee, floor) ==
    balance - BurnAmount(share, maxFee) - Remitted(balance, gross, share, maxFee, floor)
=============================================================================
