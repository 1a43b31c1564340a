---------------------------- MODULE MCClubCreation ----------------------------
(***************************************************************************)
(* Instances of ClubCreation for TLC: the cfg files give the constants     *)
(* values.                                                                 *)
(***************************************************************************)
EXTENDS ClubCreation
=============================================================================
