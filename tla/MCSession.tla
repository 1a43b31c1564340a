------------------------------ MODULE MCSession ------------------------------
(***************************************************************************)
(* Instances of Session for TLC: the cfg files give the constants values.  *)
(***************************************************************************)
EXTENDS Session
=============================================================================
