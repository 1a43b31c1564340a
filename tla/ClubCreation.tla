----------------------------- MODULE ClubCreation -----------------------------
(***************************************************************************)
(* Creating a club, and the club page that reads what was created.         *)
(*                                                                         *)
(* "Continue" starts createClub and does not wait for it: Firestore queues *)
(* the club document, and once the server has it addMember posts the       *)
(* creator's shares, which make the club's payment document.  In between   *)
(* the app shows the club, the user may change, the app may be killed.     *)
(* ClubDetails listens to both documents and fails to build what reads a   *)
(* document that is not there.                                             *)
(*                                                                         *)
(* A document set by this app is determined by its creation.  Names,       *)
(* amounts and dates that pass the validators are not told apart.  Members *)
(* who join with a code are the subject of Invitations, sign-ups, logouts  *)
(* and the stack of pages of Session: here users change and pages are left *)
(* at any time.  ClubSession puts the two together.                        *)
(***************************************************************************)
EXTENDS Naturals

CONSTANTS
    Emails,     \* addresses of users
    Clubs,      \* ids: the UUIDs Continue draws
    Pages,      \* CreateClub pages that may be on the stack
    Items,      \* entries of the share picker, 10 in the code
    Null        \* no user, no page, no request, no document

ASSUME ItemsAssumption == Items \in Nat \ {0}
ASSUME NullAssumption ==
    /\ Null \notin Emails
    /\ Null \notin [email: Emails, shares: Nat]
    /\ Null \notin [admin: Emails, dated: BOOLEAN, selected: Nat,
                    sheet: BOOLEAN]
    /\ Null \notin [createdBy: Emails, by: Emails \cup {Null}, shares: Nat,
                    picked: Nat]

VARIABLES
    user,           \* FirebaseAuth.instance.currentUser
    page,           \* page[p]: the state of a CreateClub page
    creation,       \* creation[c]: who made it, whose queue holds the set,
                    \* the shares passed on, and (history) the number picked
    pc,             \* pc[c]: the await createClub stands at
    writes,         \* clubs whose set is queued on the phone
    clubs,          \* clubs the server has a document of
    post,           \* post[c]: the request of addMember, while it travels
    payment,        \* payment[c]: the entry of the payment document
    view,           \* the ClubDetails page on the screen
    away,           \* history: clubs whose creator was not the user, or not
                    \* all the time, while createClub awaited the set
    interrupted     \* history: clubs whose creation was cut short

vars == <<user, page, creation, pc, writes, clubs, post, payment, view, away,
          interrupted>>

creationVars == <<creation, pc, writes, clubs, post, payment, away,
                  interrupted>>

Page == [admin: Emails, dated: BOOLEAN, selected: 0..(Items - 1),
         sheet: BOOLEAN]
Entry == [email: Emails, shares: 1..Items]
Creation == [createdBy: Emails, by: Emails \cup {Null}, shares: 1..Items,
             picked: 1..Items]
Snapshot == {"none", "absent", "there"}
View == [club: Clubs, doc: Snapshot, pay: Snapshot]

TypeOK ==
    /\ user \in Emails \cup {Null}
    /\ page \in [Pages -> Page \cup {Null}]
    /\ creation \in [Clubs -> Creation \cup {Null}]
    /\ pc \in [Clubs -> {"none", "setting", "adding", "done"}]
    /\ writes \subseteq Clubs
    /\ clubs \subseteq Clubs
    /\ post \in [Clubs -> Entry \cup {Null}]
    /\ payment \in [Clubs -> Entry \cup {Null}]
    /\ view \in View \cup {Null}
    /\ away \subseteq Clubs
    /\ interrupted \subseteq Clubs

Init ==
    /\ user \in Emails \cup {Null}
    /\ page = [p \in Pages |-> Null]
    /\ creation = [c \in Clubs |-> Null]
    /\ pc = [c \in Clubs |-> "none"]
    /\ writes = {} /\ clubs = {}
    /\ post = [c \in Clubs |-> Null]
    /\ payment = [c \in Clubs |-> Null]
    /\ view = Null
    /\ away = {} /\ interrupted = {}

-----------------------------------------------------------------------------
(***************************************************************************)
(* The CreateClub page                                                     *)
(***************************************************************************)

OpenCreateClub(p) ==
    /\ page[p] = Null /\ user # Null
    /\ page' = [page EXCEPT ![p] = [admin |-> user, dated |-> FALSE,
                                    selected |-> 0, sheet |-> FALSE]]
    /\ UNCHANGED <<user, view, creationVars>>

\* The date picker sets _drawDate.
onConfirm(p) ==
    /\ page[p] # Null /\ ~page[p].sheet
    /\ page' = [page EXCEPT ![p].dated = TRUE]
    /\ UNCHANGED <<user, view, creationVars>>

\* "Create" with fields that pass their validators; without a date it only
\* shows a snack bar.
Create(p) ==
    /\ page[p] # Null /\ ~page[p].sheet
    /\ page[p].dated
    /\ page' = [page EXCEPT ![p].sheet = TRUE]
    /\ UNCHANGED <<user, view, creationVars>>

\* The picker stops at entry v, which is labelled Label(v).
Label(v) == v + 1

onSelectedItemChange(p, v) ==
    /\ page[p] # Null /\ page[p].sheet
    /\ page' = [page EXCEPT ![p].selected = v]
    /\ UNCHANGED <<user, view, creationVars>>

\* Slip: the index is passed on instead of the number.
shares_Index(v) == v

shares(v) == v + 1

\* Slip: the set is not awaited before addMember is called.
createClub_NotAwaited(c) ==
    /\ user # Null
    /\ writes' = writes \cup {c}
    /\ pc' = [pc EXCEPT ![c] = "adding"]
    /\ post' = [post EXCEPT ![c] = [email |-> user,
                                    shares |-> creation'[c].shares]]

\* createClub up to its first await: the set is queued.
createClub(c) ==
    /\ writes' = writes \cup {c}
    /\ pc' = [pc EXCEPT ![c] = "setting"]
    /\ UNCHANGED post

\* "Continue": the club has a new id, the page's admin as creator and only
\* member; the sheet is replaced by Dashboard, the page stays below it.
Continue(p, c) ==
    /\ page[p] # Null /\ page[p].sheet
    /\ creation[c] = Null
    /\ page' = [page EXCEPT ![p].sheet = FALSE]
    /\ creation' = [creation EXCEPT ![c] =
                      [createdBy |-> page[p].admin, by |-> user,
                       shares |-> shares(page[p].selected),
                       picked |-> Label(page[p].selected)]]
    /\ createClub(c)
    /\ away' = IF user = page[p].admin THEN away ELSE away \cup {c}
    /\ UNCHANGED <<user, clubs, payment, view, interrupted>>

-----------------------------------------------------------------------------
(***************************************************************************)
(* createClub and the server                                               *)
(***************************************************************************)

\* The server stores the club.  Firestore keeps a queue for each user and
\* sends only that of the current one.
SetApplied(c) ==
    /\ c \in writes /\ user = creation[c].by
    /\ writes' = writes \ {c}
    /\ clubs' = clubs \cup {c}
    /\ UNCHANGED <<user, page, creation, pc, post, payment, view, away,
                   interrupted>>

\* The server refuses it: the future fails, and createClub with it.
SetRefused(c) ==
    /\ c \in writes /\ user = creation[c].by
    /\ writes' = writes \ {c}
    /\ pc' = [pc EXCEPT ![c] = "done"]
    /\ UNCHANGED <<user, page, creation, clubs, post, payment, view, away,
                   interrupted>>

\* Slip: addMember waits until somebody is signed in.
addMember_WaitsForUser(c) ==
    /\ pc[c] = "setting" /\ c \in clubs
    /\ user # Null
    /\ pc' = [pc EXCEPT ![c] = "adding"]
    /\ post' = [post EXCEPT ![c] = [email |-> user,
                                    shares |-> creation[c].shares]]
    /\ UNCHANGED <<user, page, creation, writes, clubs, payment, view, away,
                   interrupted>>

\* Slip: one share is posted, whatever was picked.
addMember_OneShare(c) ==
    /\ pc[c] = "setting" /\ c \in clubs
    /\ user # Null
    /\ pc' = [pc EXCEPT ![c] = "adding"]
    /\ post' = [post EXCEPT ![c] = [email |-> user, shares |-> 1]]
    /\ UNCHANGED <<user, page, creation, writes, clubs, payment, view, away,
                   interrupted>>

\* The set returns, and addMember posts the email of whoever is signed in by
\* then; for nobody `currentUser!` throws, before the try.
addMember(c) ==
    /\ pc[c] = "setting" /\ c \in clubs
    /\ \/ /\ user = Null
          /\ pc' = [pc EXCEPT ![c] = "done"]
          /\ interrupted' = interrupted \cup {c}
          /\ UNCHANGED post
       \/ /\ user # Null
          /\ pc' = [pc EXCEPT ![c] = "adding"]
          /\ post' = [post EXCEPT ![c] = [email |-> user,
                                          shares |-> creation[c].shares]]
          /\ UNCHANGED interrupted
    /\ UNCHANGED <<user, page, creation, writes, clubs, payment, view, away>>

\* The cloud function makes the payment document of a club it knows.
AddMemberHandled(c) ==
    /\ post[c] # Null
    /\ post' = [post EXCEPT ![c] = Null]
    /\ payment' = IF c \in clubs THEN [payment EXCEPT ![c] = post[c]]
                                 ELSE payment
    /\ UNCHANGED <<user, page, creation, pc, writes, clubs, view, away,
                   interrupted>>

AddMemberLost(c) ==
    /\ post[c] # Null
    /\ post' = [post EXCEPT ![c] = Null]
    /\ interrupted' = interrupted \cup {c}
    /\ UNCHANGED <<user, page, creation, pc, writes, clubs, payment, view,
                   away>>

\* Dio returns or throws, which addMember catches; nobody waits for either.
AddMemberEnds(c) ==
    /\ pc[c] = "adding"
    /\ pc' = [pc EXCEPT ![c] = "done"]
    /\ UNCHANGED <<user, page, creation, writes, clubs, post, payment, view,
                   away, interrupted>>

-----------------------------------------------------------------------------
(***************************************************************************)
(* The ClubDetails page                                                    *)
(***************************************************************************)
pageUnchanged == UNCHANGED <<user, page, creationVars>>

\* What the page shows of the club.  Of an empty map getId is null, which is
\* no String: nothing of the body is built.
Body ==
    CASE view.doc = "none" -> "No clubs found"
      [] view.doc = "absent" -> "error"
      [] view.doc = "there" -> "club"

\* What it shows of the payments.  Of an empty map getPayments throws.
Payments ==
    CASE Body # "club" \/ view.pay = "none" -> "nothing"
      [] Body = "club" /\ view.pay = "absent" -> "error"
      [] Body = "club" /\ view.pay = "there" -> "members"

\* From the list of clubs, which shows queued clubs too, or from a message.
OpenClubDetails(c) ==
    /\ view = Null
    /\ c \in writes \cup clubs
    /\ view' = [club |-> c, doc |-> "none", pay |-> "none"]
    /\ pageUnchanged

Back ==
    /\ view # Null
    /\ view' = Null
    /\ pageUnchanged

\* getAClub's stream finds the document, on the phone or the server.
ClubArrives ==
    /\ view # Null /\ view.doc # "there"
    /\ view.club \in writes \cup clubs
    /\ view' = [view EXCEPT !.doc = "there"]
    /\ pageUnchanged

\* It finds none: there is no copy on the phone, and no network; or the set
\* was refused.  The inner stream ends with the body.
ClubMissing ==
    /\ view # Null /\ view.club \notin writes
    /\ \/ view.doc = "none"
       \/ view.doc = "there" /\ view.club \notin clubs
    /\ view' = [view EXCEPT !.doc = "absent", !.pay = "none"]
    /\ pageUnchanged

\* Slip: the payments are read once, not listened to.
PaymentsArrive_ReadOnce ==
    /\ view # Null /\ view.doc = "there" /\ view.pay = "none"
    /\ payment[view.club] # Null
    /\ view' = [view EXCEPT !.pay = "there"]
    /\ pageUnchanged

\* getPayments' stream finds the document: the members are listed.
PaymentsArrive ==
    /\ view # Null /\ view.doc = "there" /\ view.pay # "there"
    /\ payment[view.club] # Null
    /\ view' = [view EXCEPT !.pay = "there"]
    /\ pageUnchanged

\* It finds none, on a phone without a copy or on the server.
PaymentsMissing ==
    /\ view # Null /\ view.doc = "there" /\ view.pay = "none"
    /\ view' = [view EXCEPT !.pay = "absent"]
    /\ pageUnchanged

-----------------------------------------------------------------------------
(***************************************************************************)
(* Users and restarts                                                      *)
(***************************************************************************)

\* Pages are left and sheets closed by going back, by a sign-up whose Dashboard
\* replaces the top route, and by a logout that removes all routes; a sign-up
\* and a logout change the user.
StackChanges(u, left, closed) ==
    /\ user' = u
    /\ page' = [p \in Pages |->
                  IF p \in left \/ page[p] = Null THEN Null
                  ELSE [page[p] EXCEPT !.sheet = @ /\ p \notin closed]]
    /\ away' = IF u = user THEN away
               ELSE away \cup {c \in Clubs : pc[c] = "setting"}
    /\ UNCHANGED <<creation, pc, writes, clubs, post, payment, view,
                   interrupted>>

\* The process is killed and started again.  The queue of sets and requests
\* on their way survive; what createClub would have done next does not.
Restart ==
    /\ page' = [p \in Pages |-> Null]
    /\ view' = Null
    /\ pc' = [c \in Clubs |-> IF pc[c] = "none" THEN "none" ELSE "done"]
    /\ interrupted' = interrupted \cup {c \in Clubs : pc[c] = "setting"}
    /\ UNCHANGED <<user, creation, writes, clubs, post, payment, away>>

-----------------------------------------------------------------------------
Form ==
    \E p \in Pages :
        \/ OpenCreateClub(p)
        \/ onConfirm(p)
        \/ Create(p)
        \/ \E v \in 0..(Items - 1) : onSelectedItemChange(p, v)
        \/ \E c \in Clubs : Continue(p, c)

Server ==
    \E c \in Clubs :
        \/ SetApplied(c)
        \/ SetRefused(c)
        \/ addMember(c)
        \/ AddMemberHandled(c)
        \/ AddMemberLost(c)
        \/ AddMemberEnds(c)

Details ==
    \/ \E c \in Clubs : OpenClubDetails(c)
    \/ Back
    \/ ClubArrives
    \/ ClubMissing
    \/ PaymentsArrive
    \/ PaymentsMissing

Next ==
    \/ Form
    \/ Server
    \/ Details
    \/ \E u \in Emails \cup {Null}, left, closed \in SUBSET Pages :
         StackChanges(u, left, closed)
    \/ Restart

Spec == Init /\ [][Next]_vars

\* The phone is online in the end: queued sets are answered while their user
\* is signed in, calls return or throw, requests are handled or lost, and
\* listeners hear of what the server has.
Fairness ==
    /\ \A c \in Clubs :
         /\ WF_vars(SetApplied(c) \/ SetRefused(c))
         /\ WF_vars(addMember(c))
         /\ WF_vars(AddMemberHandled(c) \/ AddMemberLost(c))
    /\ WF_vars(ClubArrives)
    /\ WF_vars(PaymentsArrive)

FairSpec == Spec /\ Fairness
-----------------------------------------------------------------------------
(***************************************************************************)
(* Properties                                                              *)
(***************************************************************************)

\* The entry createClub makes is the creator's and counts the shares that the
\* picker showed, unless the user changed before addMember read the email,
\* whatever else overlaps: other creations, restarts, a page used twice.
EntryIsCreators ==
    \A c \in Clubs :
        payment[c] # Null /\ c \notin away =>
            payment[c] = [email |-> creation[c].createdBy,
                          shares |-> creation[c].picked]

\* A club the server has but whose payment document is missing, so that its
\* page fails, is still being created, or its creation was cut short: by a
\* restart, by a lost request, or by a logout.
MissingEntryExplained ==
    \A c \in clubs :
        payment[c] = Null =>
            \/ pc[c] = "setting"
            \/ post[c] # Null
            \/ c \in interrupted

\* A creation leads to the creator's entry, while its user stays signed in,
\* unless it is cut short or the server refuses the club.
CreationPays ==
    \A c \in Clubs :
        pc[c] = "setting" ~>
            \/ payment[c] # Null
            \/ c \in interrupted
            \/ c \notin writes \cup clubs
            \/ user # creation[c].by

\* A page left open shows the payments in the end once they exist, also after
\* it has failed to build for want of either document.
PageRecovers ==
    \A c \in Clubs :
        (view # Null /\ view.club = c /\ payment[c] # Null) ~>
            (view = Null \/ view.club # c \/ Payments = "members")

-----------------------------------------------------------------------------
\* The strengthening that makes the two invariants inductive, for one club.
InvOf(c) ==
    /\ creation[c] = Null =>
         /\ pc[c] = "none" /\ c \notin writes \cup clubs
         /\ post[c] = Null /\ payment[c] = Null /\ c \notin away
    /\ creation[c] # Null =>
         /\ pc[c] # "none"
         /\ creation[c].shares = creation[c].picked
    /\ pc[c] = "setting" => post[c] = Null /\ payment[c] = Null
    /\ pc[c] = "setting" /\ c \notin away => user = creation[c].createdBy
    /\ post[c] # Null => c \in clubs /\ pc[c] # "setting"
    /\ c \in writes =>
         c \notin clubs /\ (pc[c] = "setting" \/ c \in interrupted)
    /\ post[c] # Null /\ c \notin away =>
         post[c] = [email |-> creation[c].createdBy,
                    shares |-> creation[c].picked]

CreationInv ==
    /\ TypeOK
    /\ \A c \in Clubs : InvOf(c)
    /\ EntryIsCreators
    /\ MissingEntryExplained
=============================================================================
