------------------------------- MODULE MCLedger -------------------------------
(***************************************************************************)
(* An instance of Ledger for TLC.                                          *)
(***************************************************************************)
EXTENDS Ledger

\* Nothing, which is also what a new page has in _amount, and a repayment: the
\* validator refuses neither.
MCAmounts == {0, -2}
=============================================================================
