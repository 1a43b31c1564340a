------------------------------- MODULE MCQrJoin -------------------------------
(***************************************************************************)
(* An instance of QrJoin for TLC.                                          *)
(***************************************************************************)
EXTENDS QrJoin

\* Clocks 200 ms behind and 200 ms ahead.
MCSkews == {-200, 200}
=============================================================================
