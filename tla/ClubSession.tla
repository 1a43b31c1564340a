----------------------------- MODULE ClubSession -----------------------------
(***************************************************************************)
(* Session and ClubCreation put together.                                  *)
(*                                                                         *)
(* A CreateClub page is the route at its place on the stack, and its share *)
(* picker is the route above it.  The two modules share the user; a step   *)
(* that both describe is taken by both.  Sign-ups that are answered late,  *)
(* logouts and restarts reach the pages and the creations under way just   *)
(* as the stack of Session lets them.  The club page of ClubCreation       *)
(* changes nothing of either; here view stays Null.                        *)
(***************************************************************************)
EXTENDS Session

CONSTANTS
    Clubs,      \* as in ClubCreation
    Items

VARIABLES page, creation, pc, writes, clubs, post, payment, view, away,
          interrupted

CC == INSTANCE ClubCreation WITH Pages <- 1..MaxDepth

clubVars == <<page, creation, pc, writes, clubs, post, payment, view, away,
              interrupted>>
allVars == <<vars, clubVars>>

InitAll == Init /\ CC!Init

\* The pages that a stack holds: those whose route is on it, with the picker
\* open if its route is.
pagesOn(s) ==
    [i \in 1..MaxDepth |->
        IF page[i] = Null \/ i > Len(s) \/ s[i].page # "create" THEN Null
        ELSE [page[i] EXCEPT !.sheet = @ /\ i < Len(s)
                                         /\ s[i + 1].page = "sheet"]]

-----------------------------------------------------------------------------
(***************************************************************************)
(* Steps of both                                                           *)
(***************************************************************************)

\* A page that is built without a user fails and can do nothing.
OpenCreateClubPage ==
    /\ OpenCreateClub
    /\ IF user = Null THEN UNCHANGED clubVars
                      ELSE CC!OpenCreateClub(Len(stack) + 1)

CreatePressed ==
    /\ SelectShares
    /\ CC!Create(Len(stack))

ContinuePressed(c) ==
    /\ Continue
    /\ \E i \in 1..MaxDepth : i + 1 = Len(stack) /\ CC!Continue(i, c)

RestartApp == Restart /\ CC!Restart

-----------------------------------------------------------------------------
(***************************************************************************)
(* Steps of one                                                            *)
(***************************************************************************)

\* The form of the page on the screen, and its picker.
Edit ==
    /\ \E i \in 1..MaxDepth :
         \/ i = Len(stack) /\ CC!onConfirm(i)
         \/ /\ i + 1 = Len(stack) /\ Top = "sheet"
            /\ \E v \in 0..(Items - 1) : CC!onSelectedItemChange(i, v)
    /\ UNCHANGED vars

Server == CC!Server /\ UNCHANGED vars

\* What else Session does: the pages follow the stack, and whoever changes
\* the user leaves the creations that wait for the server behind.
SessionStep ==
    /\ \/ PermissionAnswered
       \/ _checkLoggedIn
       \/ Login
       \/ LeaveSession
       \/ OpenSettings
       \/ OpenClubDetails
       \/ JoinUsingScanner
       \/ JoinUsingCode
       \/ JoinedClub
       \/ \E e, about \in Emails, added \in BOOLEAN :
            TapNotification(e, about, added)
       \/ Back
       \/ onTap
    /\ page' = pagesOn(stack')
    /\ away' = IF user' = user THEN away
               ELSE away \cup {c \in Clubs : pc[c] = "setting"}
    /\ UNCHANGED <<creation, pc, writes, clubs, post, payment, view,
                   interrupted>>

-----------------------------------------------------------------------------
NextAll ==
    \/ OpenCreateClubPage
    \/ CreatePressed
    \/ \E c \in Clubs : ContinuePressed(c)
    \/ RestartApp
    \/ Edit
    \/ Server
    \/ SessionStep

SpecAll == InitAll /\ [][NextAll]_allVars
-----------------------------------------------------------------------------
(***************************************************************************)
(* Properties                                                              *)
(***************************************************************************)

\* What the sheet says, "Select your shares": the shares that were picked are
\* those of the club's creator, when whoever pressed "Continue" is also the
\* user addMember finds.
SharesAreCreators ==
    \A c \in Clubs :
        payment[c] # Null /\ payment[c].email = creation[c].by =>
            payment[c].email = creation[c].createdBy

\* One address at most has been posted, or is signed in, since the stack was
\* last cleared.  Where that is so, SharesAreCreators holds.
OneAddress == \A e, f \in requested : e = f

\* How far a creation can go astray: the creator a new club names and the user
\* who pressed "Continue" are of the present session, never of one that was
\* left, though the page with the creator's email may be older than the user.
ClubsOfThisSession ==
    [][\A c \in Clubs :
         creation'[c] # creation[c] =>
             /\ creation'[c].createdBy \in requested
             /\ creation'[c].by \in requested \cup {Null}]_allVars

\* What both rest on: a CreateClub page is a route of the stack, with the email
\* that route captured.
PageRoutes ==
    /\ page \in [1..MaxDepth ->
                   [admin: Emails, dated: BOOLEAN, sheet: BOOLEAN,
                    selected: {0} \cup 0..(Items - 1)] \cup {Null}]
    /\ \A i \in 1..MaxDepth :
         page[i] # Null => /\ i <= Len(stack) /\ stack[i].page = "create"
                           /\ stack[i].admin = page[i].admin

\* The composition implements both of its parts: what is proved of Session
\* and of ClubCreation, where users change and pages are left at any time,
\* holds of the two together.
ImplementsSession == Spec
ImplementsClubCreation == CC!Spec
=============================================================================
