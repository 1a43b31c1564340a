---------------------------- MODULE MCInvitations ----------------------------
(***************************************************************************)
(* Instances of Invitations for TLC.                                       *)
(***************************************************************************)
EXTENDS Invitations, TLC

\* Pages, codes, attempts, phones and clubs are interchangeable; the safety
\* run uses this.
Symmetry ==
    Permutations(Pages) \cup Permutations(Codes) \cup Permutations(Attempts)
    \cup Permutations(Phones) \cup Permutations(Clubs)
=============================================================================
