----------------------------- MODULE CreditBook -----------------------------
(***************************************************************************)
(* What CreditManager promises for one account of one universe: its books  *)
(* start empty, a grant books the whole amount, a deduction as well, if    *)
(* the balance covers it, and nothing else is ever booked.                 *)
(***************************************************************************)
EXTENDS Integers

CONSTANT Amounts   \* what grant and deduct may be called with

VARIABLE balance

Granted(amount) == balance' = balance + amount

Deducted(amount) ==
    /\ amount <= balance
    /\ balance' = balance - amount

Booked == \E amount \in Amounts : Granted(amount) \/ Deducted(amount)

Opened == balance = 0

Spec == Opened /\ [][Booked]_balance
=============================================================================
