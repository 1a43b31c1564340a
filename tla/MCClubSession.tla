---------------------------- MODULE MCClubSession ----------------------------
(***************************************************************************)
(* Instances of ClubSession for TLC: the cfg files give the constants      *)
(* values.                                                                 *)
(***************************************************************************)
EXTENDS ClubSession
=============================================================================
