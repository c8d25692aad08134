------------------------------ MODULE Deposits ------------------------------
(***************************************************************************)
(* The deposit an account keeps at the EntryPoint (delegate-msca.ts): what *)
(* the gas payer may spend on it, and what topUpAmount does spend.         *)
(***************************************************************************)
EXTENDS Integers

Lesser(a, b) == IF a <= b THEN a ELSE b

\* reserve pays for the deposit's own gas.
Affordable(balance, reserve) == IF balance > reserve THEN balance - reserve ELSE 0

\* As it was: the floor is deposited, whatever the payer holds.
FloorWhatever(affordable, floor) == floor

\* The floor is aimed at, and what is there settled for.
TopUpAmount(affordable, floor) == Lesser(affordable, floor)
=============================================================================
