--------------------------- MODULE MCDrawCountdown ---------------------------
(***************************************************************************)
(* Instances of DrawCountdown for TLC.                                     *)
(***************************************************************************)
EXTENDS DrawCountdown

\* Clocks two seconds behind, right, and two and a half ahead.
MCSkews == {-2000, 0, 2500}
=============================================================================
