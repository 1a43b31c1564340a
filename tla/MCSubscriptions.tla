--------------------------- MODULE MCSubscriptions ---------------------------
(***************************************************************************)
(* An instance of Subscriptions for TLC: the cfg gives the constants.      *)
(***************************************************************************)
EXTENDS Subscriptions
=============================================================================
