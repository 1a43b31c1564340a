----------------------------- MODULE Invitations -----------------------------
(***************************************************************************)
(* Joining a club with an invitation code.                                 *)
(*                                                                         *)
(* An invitation page (CreateInvitationPage) posts a fresh code to the     *)
(* server each time it is built, shows the code once the post is answered, *)
(* counts down, and offers Reload, which builds it again.  The server      *)
(* keeps one document per club in the collection invitationRoom: the page  *)
(* posts the club's id as the document's id, and the join handler deletes  *)
(* the document under the id it reads back.                                *)
(*                                                                         *)
(* A join attempt (one run of Pinput's onCompleted) queries the code, then *)
(* posts addMember, whose failure is printed and swallowed, then deletes   *)
(* the document, then opens the dashboard.  Attempts run concurrently, on  *)
(* several phones or twice on one; requests may be lost, answers may be    *)
(* lost after the server acted, and an app may be killed between awaits.   *)
(*                                                                         *)
(* The query is a get() with the default source: it is answered by the     *)
(* server or, when that cannot be reached, from the copies the phone kept  *)
(* of documents it was sent earlier.  A delete that waits on a phone hides *)
(* the document from the queries of that phone.                            *)
(*                                                                         *)
(* Codes are 8 hexadecimal digits of a random UUID: the model takes a code *)
(* nobody has drawn yet.  A code therefore also names the post that        *)
(* carries it.                                                             *)
(***************************************************************************)
EXTENDS Naturals

CONSTANTS
    Clubs,      \* club ids
    Shares,     \* share counts the picker offers
    Pages,      \* invitation pages (one per phone showing one)
    Codes,      \* codes that can be drawn
    Attempts,   \* runs of the join handler
    Phones,     \* the phones they run on
    CountFrom,  \* first number of the countdown (30 in the code)
    Null,       \* Dart's null: no data, no document
    Blank       \* the empty string

ASSUME CountAssumption == CountFrom \in Nat \ {0}

VARIABLES
    page,            \* page[p]: the page on the screen, or Null
    post,            \* post[c]: the post carrying c, as the network has it
    waiting,         \* waiting[c]: the future of that post is not completed
    body,            \* body[c]: page, club and shares of that post
    invitationRoom,  \* invitationRoom[k]: code in the document with id k
    phone,           \* phone[a]: the phone attempt a runs on
    copy,            \* copy[h][k]: the code in phone h's copy of document k
    pc,              \* pc[a]: the await attempt a stands at
    entry,           \* entry[a]: the code typed, or Null
    ticket,          \* ticket[a]: the document the query returned, or Null
    add,             \* add[a]: the addMember post, as the network has it
    reply,           \* reply[a]: what that post told the app
    del              \* del[a]: the delete, as Firestore has it

pageVars == <<page, post, waiting, body>>
phoneVars == <<phone, copy>>
joinVars == <<phone, copy, pc, entry, ticket, add, reply, del>>
vars == <<page, post, waiting, body, invitationRoom, phone, copy, pc, entry,
          ticket, add, reply, del>>

PageState == [club: Clubs, shares: Shares,
              pending: Codes \cup {Null},         \* the future being built on
              shown: Codes \cup {Null, Blank},    \* snapshot.data
              count: 0..CountFrom]                \* timerSnapshot.data
Body == [page: Pages, club: Clubs, shares: Shares]
\* data['id'], data['clubId'] and data['shares'] of the document found.
Ticket == [id: Clubs, club: Clubs, shares: Shares]

\* Dart's null is none of the values it stands in for, nor is "" a code.
ASSUME NullAssumption ==
    /\ Null \notin Codes /\ Blank \notin Codes /\ Blank # Null
    /\ Null \notin Body /\ Null \notin Ticket /\ Null \notin PageState

TypeOK ==
    /\ page \in [Pages -> PageState \cup {Null}]
    /\ post \in [Codes -> {"unused", "sent", "stored", "lost"}]
    /\ waiting \in [Codes -> BOOLEAN]
    /\ body \in [Codes -> Body \cup {Null}]
    /\ invitationRoom \in [Clubs -> Codes \cup {Null}]
    /\ phone \in [Attempts -> Phones]
    /\ copy \in [Phones -> [Clubs -> Codes \cup {Null}]]
    /\ pc \in [Attempts -> {"idle", "checking", "adding", "deleting",
                            "joined", "refused", "failed", "quit"}]
    /\ entry \in [Attempts -> Codes \cup {Null}]
    /\ ticket \in [Attempts -> Ticket \cup {Null}]
    /\ add \in [Attempts -> {"none", "sent", "done", "lost"}]
    /\ reply \in [Attempts -> {"none", "ok", "error"}]
    /\ del \in [Attempts -> {"none", "sent", "done", "denied"}]

Init ==
    /\ page = [p \in Pages |-> Null]
    /\ post = [c \in Codes |-> "unused"]
    /\ waiting = [c \in Codes |-> FALSE]
    /\ body = [c \in Codes |-> Null]
    /\ invitationRoom = [k \in Clubs |-> Null]
    /\ phone \in [Attempts -> Phones]
    /\ copy = [h \in Phones |-> [k \in Clubs |-> Null]]
    /\ pc = [a \in Attempts |-> "idle"]
    /\ entry = [a \in Attempts |-> Null]
    /\ ticket = [a \in Attempts |-> Null]
    /\ add = [a \in Attempts |-> "none"]
    /\ reply = [a \in Attempts |-> "none"]
    /\ del = [a \in Attempts |-> "none"]

-----------------------------------------------------------------------------
(***************************************************************************)
(* The invitation page                                                     *)
(***************************************************************************)

\* build() starts the future: a fresh code is drawn and posted.
createInvitationCode(c, p, k, s) ==
    /\ post[c] = "unused"
    /\ post' = [post EXCEPT ![c] = "sent"]
    /\ waiting' = [waiting EXCEPT ![c] = TRUE]
    /\ body' = [body EXCEPT ![c] = [page |-> p, club |-> k, shares |-> s]]

\* The button "Create invitation code" pushes the page for a club and shares.
OpenPage(p, k, s) ==
    /\ page[p] = Null
    /\ \E c \in Codes :
        /\ createInvitationCode(c, p, k, s)
        /\ page' = [page EXCEPT ![p] =
                      [club |-> k, shares |-> s, pending |-> c,
                       shown |-> Null, count |-> CountFrom]]
    /\ UNCHANGED <<invitationRoom, joinVars>>

\* Slips of the countdown loop: no lower bound, and `i > 0` for `i >= 0`.
countStream_Unbounded(p) ==
    /\ page[p] # Null
    /\ page' = [page EXCEPT ![p].count = @ - 1]
    /\ UNCHANGED <<post, waiting, body, invitationRoom, joinVars>>

countStream_StopsAtOne(p) ==
    /\ page[p] # Null
    /\ page[p].count > 1
    /\ page' = [page EXCEPT ![p].count = @ - 1]
    /\ UNCHANGED <<post, waiting, body, invitationRoom, joinVars>>

\* countStream yields CountFrom, CountFrom - 1, ..., 0, one a second.
countStream(p) ==
    /\ page[p] # Null
    /\ page[p].count > 0
    /\ page' = [page EXCEPT ![p].count = @ - 1]
    /\ UNCHANGED <<post, waiting, body, invitationRoom, joinVars>>

\* Reload is offered at 0: setState builds the page again.  The snapshot
\* keeps the old code until the new future completes; the countdown restarts.
Reload(p) ==
    /\ page[p] # Null
    /\ page[p].count = 0
    /\ \E c \in Codes :
        /\ createInvitationCode(c, p, page[p].club, page[p].shares)
        /\ page' = [page EXCEPT ![p].pending = c, ![p].count = CountFrom]
    /\ UNCHANGED <<invitationRoom, joinVars>>

ClosePage(p) ==
    /\ page[p] # Null
    /\ page' = [page EXCEPT ![p] = Null]
    /\ UNCHANGED <<post, waiting, body, invitationRoom, joinVars>>

-----------------------------------------------------------------------------
(***************************************************************************)
(* The server's side of the post, and its answer                           *)
(***************************************************************************)

\* The function sendInvitationCode writes the club's document.
sendInvitationCode(c) ==
    /\ post[c] = "sent"
    /\ post' = [post EXCEPT ![c] = "stored"]
    /\ invitationRoom' = [invitationRoom EXCEPT ![body[c].club] = c]
    /\ UNCHANGED <<page, waiting, body, joinVars>>

LosePost(c) ==
    /\ post[c] = "sent"
    /\ post' = [post EXCEPT ![c] = "lost"]
    /\ UNCHANGED <<page, waiting, body, invitationRoom, joinVars>>

\* A completed future reaches the screen only if the page still builds on it;
\* the builder then runs again, which restarts the countdown.
Show(c, text) ==
    LET p == body[c].page
    IN  IF page[p] # Null /\ page[p].pending = c
        THEN [page EXCEPT ![p].pending = Null, ![p].shown = text,
                          ![p].count = CountFrom]
        ELSE page

CodeReturned(c) ==
    /\ waiting[c]
    /\ post[c] = "stored"
    /\ waiting' = [waiting EXCEPT ![c] = FALSE]
    /\ page' = Show(c, c)
    /\ UNCHANGED <<post, body, invitationRoom, joinVars>>

\* Slip: the catch clause returns the code it failed to post.
CodeFailed_ReturnsCode(c) ==
    /\ waiting[c]
    /\ waiting' = [waiting EXCEPT ![c] = FALSE]
    /\ page' = Show(c, c)
    /\ UNCHANGED <<post, body, invitationRoom, joinVars>>

\* Any error is caught and becomes the empty string; the request may still
\* be under way, or already stored.
CodeFailed(c) ==
    /\ waiting[c]
    /\ waiting' = [waiting EXCEPT ![c] = FALSE]
    /\ page' = Show(c, Blank)
    /\ UNCHANGED <<post, body, invitationRoom, joinVars>>

-----------------------------------------------------------------------------
(***************************************************************************)
(* A join attempt                                                          *)
(***************************************************************************)

onCompleted(a, c) ==
    /\ pc[a] = "idle"
    /\ pc' = [pc EXCEPT ![a] = "checking"]
    /\ entry' = [entry EXCEPT ![a] = c]
    /\ UNCHANGED <<pageVars, invitationRoom, phoneVars, ticket, add, reply,
                   del>>

\* A delete that waits on phone h hides its document there.
Hidden(h, k) ==
    \E a \in Attempts :
        phone[a] = h /\ del[a] = "sent" /\ ticket[a].id = k

\* The documents a query for attempt a's code finds among docs.
Matches(a, docs) ==
    {k \in Clubs : docs[k] = entry[a] /\ ~Hidden(phone[a], k)}

\* The answer of the server brings the phone's copies of the documents that
\* match, there or in its copies, up to date.
Refreshed(h, c) ==
    [k \in Clubs |-> IF c \in {invitationRoom[k], copy[h][k]}
                     THEN invitationRoom[k] ELSE copy[h][k]]

\* get() is answered with docs: by the server, or from the phone's copies.
get(a, docs) ==
    \/ /\ docs = invitationRoom
       /\ copy' = [copy EXCEPT ![phone[a]] = Refreshed(phone[a], entry[a])]
    \/ /\ docs = copy[phone[a]]
       /\ UNCHANGED copy

Answers(a) == {invitationRoom, copy[phone[a]]}

\* Slip: the query has no filter on the code.
checkInvitationCode_AnyDocument(a) ==
    /\ pc[a] = "checking"
    /\ \E docs \in Answers(a) :
        /\ get(a, docs)
        /\ \E k \in Clubs :
            /\ docs[k] # Null
            /\ ticket' = [ticket EXCEPT ![a] =
                            [id |-> k, club |-> body[docs[k]].club,
                             shares |-> body[docs[k]].shares]]
    /\ pc' = [pc EXCEPT ![a] = "adding"]
    /\ add' = [add EXCEPT ![a] = "sent"]
    /\ UNCHANGED <<pageVars, invitationRoom, phone, entry, reply, del>>

\* The query finds a document with the code: addMember is posted with the
\* club and the shares of the document.
checkInvitationCode(a) ==
    /\ pc[a] = "checking"
    /\ \E docs \in Answers(a) :
        /\ get(a, docs)
        /\ \E k \in Matches(a, docs) :
            ticket' = [ticket EXCEPT ![a] =
                         [id |-> k, club |-> body[entry[a]].club,
                          shares |-> body[entry[a]].shares]]
    /\ pc' = [pc EXCEPT ![a] = "adding"]
    /\ add' = [add EXCEPT ![a] = "sent"]
    /\ UNCHANGED <<pageVars, invitationRoom, phone, entry, reply, del>>

\* No document: 'not Correct', also for a good code when the server cannot be
\* reached.
NotCorrect(a) ==
    /\ pc[a] = "checking"
    /\ \E docs \in Answers(a) :
        /\ get(a, docs)
        /\ Matches(a, docs) = {}
    /\ pc' = [pc EXCEPT ![a] = "refused"]
    /\ UNCHANGED <<pageVars, invitationRoom, phone, entry, ticket, add, reply,
                   del>>

\* The query throws, or there is no user to add, or the document's shares are
\* the text that was posted and not a number: nothing catches it, and the
\* handler ends.
CheckFailed(a) ==
    /\ pc[a] = "checking"
    /\ pc' = [pc EXCEPT ![a] = "failed"]
    /\ UNCHANGED <<pageVars, invitationRoom, phoneVars, entry, ticket, add,
                   reply, del>>

\* The server's function addMember records the member.
ServerAddMember(a) ==
    /\ add[a] = "sent"
    /\ add' = [add EXCEPT ![a] = "done"]
    /\ UNCHANGED <<pageVars, invitationRoom, phoneVars, pc, entry, ticket,
                   reply, del>>

LoseAdd(a) ==
    /\ add[a] = "sent"
    /\ add' = [add EXCEPT ![a] = "lost"]
    /\ UNCHANGED <<pageVars, invitationRoom, phoneVars, pc, entry, ticket,
                   reply, del>>

\* Slip: the post is not awaited.
addMember_NotAwaited(a) ==
    /\ pc[a] = "adding"
    /\ pc' = [pc EXCEPT ![a] = "deleting"]
    /\ reply' = [reply EXCEPT ![a] = "ok"]
    /\ del' = [del EXCEPT ![a] = "sent"]
    /\ UNCHANGED <<pageVars, invitationRoom, phoneVars, entry, ticket, add>>

\* The answer arrives, and the document is deleted.
addMember(a) ==
    /\ pc[a] = "adding"
    /\ add[a] = "done"
    /\ pc' = [pc EXCEPT ![a] = "deleting"]
    /\ reply' = [reply EXCEPT ![a] = "ok"]
    /\ del' = [del EXCEPT ![a] = "sent"]
    /\ UNCHANGED <<pageVars, invitationRoom, phoneVars, entry, ticket, add>>

\* The catch clause prints the error, and the document is deleted all the same.
AddMemberCaught(a) ==
    /\ pc[a] = "adding"
    /\ pc' = [pc EXCEPT ![a] = "deleting"]
    /\ reply' = [reply EXCEPT ![a] = "error"]
    /\ del' = [del EXCEPT ![a] = "sent"]
    /\ UNCHANGED <<pageVars, invitationRoom, phoneVars, entry, ticket, add>>

\* Slips of the delete: an id no document has, the whole collection, and a
\* cloud function that leaves the phone's copy alone.
DeleteDocument_WrongId(a) ==
    /\ del[a] = "sent"
    /\ del' = [del EXCEPT ![a] = "done"]
    /\ UNCHANGED <<pageVars, invitationRoom, phoneVars, pc, entry, ticket, add,
                   reply>>

DeleteDocument_Collection(a) ==
    /\ del[a] = "sent"
    /\ del' = [del EXCEPT ![a] = "done"]
    /\ invitationRoom' = [k \in Clubs |-> Null]
    /\ copy' = [copy EXCEPT ![phone[a]] = [k \in Clubs |-> Null]]
    /\ UNCHANGED <<pageVars, phone, pc, entry, ticket, add, reply>>

DeleteDocument_OnServer(a) ==
    /\ del[a] = "sent"
    /\ del' = [del EXCEPT ![a] = "done"]
    /\ invitationRoom' = [invitationRoom EXCEPT ![ticket[a].id] = Null]
    /\ UNCHANGED <<pageVars, phoneVars, pc, entry, ticket, add, reply>>

\* Firestore applies the delete to the document under data['id'], whichever
\* code it holds by then, and to the phone's copy.  The write outlives the app
\* that issued it.
DeleteDocument(a) ==
    /\ del[a] = "sent"
    /\ del' = [del EXCEPT ![a] = "done"]
    /\ invitationRoom' = [invitationRoom EXCEPT ![ticket[a].id] = Null]
    /\ copy' = [copy EXCEPT ![phone[a]][ticket[a].id] = Null]
    /\ UNCHANGED <<pageVars, phone, pc, entry, ticket, add, reply>>

\* Firestore refuses the delete, which throws; nothing catches it.
DeleteDenied(a) ==
    /\ del[a] = "sent"
    /\ del' = [del EXCEPT ![a] = "denied"]
    /\ pc' = [pc EXCEPT ![a] = IF @ = "deleting" THEN "failed" ELSE @]
    /\ UNCHANGED <<pageVars, invitationRoom, phoneVars, entry, ticket, add,
                   reply>>

\* Slip: the dashboard is pushed only when the member was added.
PushDashboard_OnSuccess(a) ==
    /\ pc[a] = "deleting"
    /\ del[a] = "done"
    /\ reply[a] = "ok"
    /\ \E end \in {"joined", "failed"} : pc' = [pc EXCEPT ![a] = end]
    /\ UNCHANGED <<pageVars, invitationRoom, phoneVars, entry, ticket, add,
                   reply, del>>

\* The delete is acknowledged, and the dashboard is pushed.  If the user has
\* left the page by then, its context has no navigator and the push throws.
PushDashboard(a) ==
    /\ pc[a] = "deleting"
    /\ del[a] = "done"
    /\ \E end \in {"joined", "failed"} : pc' = [pc EXCEPT ![a] = end]
    /\ UNCHANGED <<pageVars, invitationRoom, phoneVars, entry, ticket, add,
                   reply, del>>

\* The app is killed between two awaits.
QuitApp(a) ==
    /\ pc[a] \in {"checking", "adding", "deleting"}
    /\ pc' = [pc EXCEPT ![a] = "quit"]
    /\ UNCHANGED <<pageVars, invitationRoom, phoneVars, entry, ticket, add,
                   reply, del>>

-----------------------------------------------------------------------------
PageNext(p) ==
    \/ \E k \in Clubs, s \in Shares : OpenPage(p, k, s)
    \/ countStream(p)
    \/ Reload(p)
    \/ ClosePage(p)

PostNext(c) ==
    \/ sendInvitationCode(c)
    \/ LosePost(c)
    \/ CodeReturned(c)
    \/ CodeFailed(c)

JoinNext(a) ==
    \/ \E c \in Codes : onCompleted(a, c)
    \/ checkInvitationCode(a)
    \/ NotCorrect(a)
    \/ CheckFailed(a)
    \/ ServerAddMember(a)
    \/ LoseAdd(a)
    \/ addMember(a)
    \/ AddMemberCaught(a)
    \/ DeleteDocument(a)
    \/ DeleteDenied(a)
    \/ PushDashboard(a)
    \/ QuitApp(a)

Next ==
    \/ \E p \in Pages : PageNext(p)
    \/ \E c \in Codes : PostNext(c)
    \/ \E a \in Attempts : JoinNext(a)

Spec == Init /\ [][Next]_vars

\* The timer ticks while the page is on the screen, every call returns or
\* throws in the end, and Firestore applies or refuses a queued delete.
Fairness ==
    /\ \A p \in Pages : WF_vars(countStream(p))
    /\ \A a \in Attempts :
        /\ WF_vars(checkInvitationCode(a) \/ NotCorrect(a) \/ CheckFailed(a))
        /\ WF_vars(addMember(a) \/ AddMemberCaught(a))
        /\ WF_vars(DeleteDocument(a) \/ DeleteDenied(a))
        /\ WF_vars(PushDashboard(a))

FairSpec == Spec /\ Fairness
-----------------------------------------------------------------------------
(***************************************************************************)
(* Properties                                                              *)
(***************************************************************************)

\* A code shown on a page is one the server has stored, for that page's club
\* and shares: neither the answer of an earlier build nor that of an earlier
\* page on another club reaches the screen, and a failed post shows no code.
ShownCodeIsStored ==
    \A p \in Pages : page[p] # Null /\ page[p].shown \in Codes =>
        /\ post[page[p].shown] = "stored"
        /\ body[page[p].shown] = [page |-> p, club |-> page[p].club,
                                  shares |-> page[p].shares]

\* The club and the shares an attempt posts to addMember, and the document it
\* deletes, are those of the invitation whose code the user typed, however
\* many codes of however many clubs were stored, replaced or deleted since.
GrantMatchesInvitation ==
    \A a \in Attempts : ticket[a] # Null =>
        LET c == entry[a]
        IN  /\ post[c] = "stored"
            /\ ticket[a].id = body[c].club
            /\ ticket[a].club = body[c].club
            /\ ticket[a].shares = body[c].shares

\* The invitation is deleted only after addMember was answered or had thrown:
\* a slow server never costs the joiner the code.
ConsumedAfterAnswered ==
    \A a \in Attempts :
        del[a] # "none" => add[a] = "done" \/ reply[a] = "error"

\* Once the delete of an attempt is applied, the code that attempt used is in
\* no document, and no post still under way brings it back.
ConsumedCodeStaysConsumed ==
    \A a \in Attempts : del[a] = "done" =>
        \A k \in Clubs : invitationRoom[k] # entry[a]

\* Some document on the server holds the code.
Live(c) == \E k \in Clubs : invitationRoom[k] = c

\* An invitation leaves the collection in one of two ways only: by a step that
\* stores a code of its club which was not stored before, hence a newer one, or
\* by one that applies the delete of an attempt that found a code of its club.
NoUnexplainedLoss ==
    [][\A c \in Codes :
         Live(c) /\ ~Live(c)' =>
             \/ \E d \in Codes :
                  /\ post[d] # "stored" /\ Live(d)'
                  /\ body[d].club = body[c].club
             \/ \E a \in Attempts :
                  /\ del[a] = "sent" /\ del'[a] = "done"
                  /\ body[entry[a]].club = body[c].club]_vars

\* What the page claims of its code, "One time invitation code": no two
\* attempts are granted a membership with the same code.
OneTimeCode ==
    \A a, b \in Attempts :
        add[a] = "done" /\ add[b] = "done" /\ entry[a] = entry[b]
            => a = b

\* How far the code falls short of that: once the delete of an attempt that
\* used a code was applied, the code is found only in the copy that another
\* phone kept, and never again on the phone that deleted it.
NoAdmissionAfterDelete ==
    [][\A a, b \in Attempts :
         ticket'[a] # ticket[a] /\ entry[a] = entry[b] /\ del[b] = "done" =>
             /\ phone[a] # phone[b]
             /\ \E k \in Clubs : copy[phone[a]][k] = entry[a]]_vars

\* A step that does not let an attempt find a code which another one has found
\* and not deleted.
OneAtATime ==
    \A a, b \in Attempts :
        a # b /\ ticket'[a] # ticket[a] /\ entry[a] = entry[b] =>
            ticket[b] = Null \/ del[b] = "done"

\* A step that lets an attempt find only what the server still has.  The code
\* sees to neither; where both happen to be so, OneTimeCode holds.
CurrentAnswers ==
    \A a \in Attempts : ticket'[a] # ticket[a] => Live(entry[a])

\* The Reload button of a page on the screen comes up in the end, however the
\* answers of its posts restart the countdown.
ReloadIsOffered ==
    \A p \in Pages : page[p] # Null ~> (page[p] = Null \/ page[p].count = 0)

\* Every attempt ends: refused, failed, killed, or with the dashboard open,
\* also when addMember throws and its error is swallowed.
EveryJoinEnds ==
    \A a \in Attempts :
        pc[a] = "checking" ~> pc[a] \in {"refused", "failed", "quit", "joined"}

\* The abstract life of a code, and the claim that the program implements it:
\* a post makes the code live, storing over it or deleting it retires it for
\* good, and members are added only with a code that was live when queried, or
\* of which the phone kept a copy that it was sent while the code was live.
Lifecycle == INSTANCE CodeLifecycle WITH
    status <- [c \in Codes |->
                 IF post[c] # "stored" THEN "unused"
                 ELSE IF \E k \in Clubs : invitationRoom[k] = c
                      THEN "live" ELSE "gone"],
    known <- [h \in Phones |->
                {c \in Codes : \E k \in Clubs : copy[h][k] = c}],
    holds <- [a \in Attempts |->
                IF ticket[a] = Null THEN Null ELSE entry[a]],
    granted <- {a \in Attempts : add[a] = "done"}

ImplementsLifecycle == Lifecycle!Spec
-----------------------------------------------------------------------------
(***************************************************************************)
(* The bookkeeping the properties above rest on: the strengthening that    *)
(* makes them inductive.                                                   *)
(***************************************************************************)

\* A post that was sent has a body, and only such a post is waited for.
PostsHaveBodies ==
    \A c \in Codes : (post[c] # "unused" => body[c] # Null)
                     /\ (waiting[c] => post[c] # "unused")

\* A document holds a stored code of its own club, so a code is in one
\* document at most.
RoomHoldsStoredCodes ==
    \A k \in Clubs : invitationRoom[k] # Null =>
        /\ post[invitationRoom[k]] = "stored"
        /\ body[invitationRoom[k]].club = k

\* So does a phone's copy of a document, though the code may be gone.
CopiesHoldStoredCodes ==
    \A h \in Phones, k \in Clubs : copy[h][k] # Null =>
        /\ post[copy[h][k]] = "stored"
        /\ body[copy[h][k]].club = k

\* A page builds on a post of its own, with its own club and shares.
PagesBuildOnTheirPosts ==
    \A p \in Pages : page[p] # Null /\ page[p].pending # Null =>
        /\ post[page[p].pending] # "unused"
        /\ body[page[p].pending] = [page |-> p, club |-> page[p].club,
                                    shares |-> page[p].shares]

\* An attempt runs its steps in order: a code before a query, a ticket from
\* the query, a post with the ticket, a delete with the ticket.
AttemptsAreOrdered ==
    \A a \in Attempts :
        /\ pc[a] # "idle" => entry[a] # Null
        /\ pc[a] \in {"idle", "checking"} => ticket[a] = Null
        /\ pc[a] = "adding" => ticket[a] # Null /\ del[a] = "none"
        /\ ticket[a] # Null => pc[a] # "idle"
        /\ ticket[a] = Null <=> add[a] = "none"
        /\ del[a] # "none" => ticket[a] # Null

Bookkeeping ==
    /\ TypeOK
    /\ PostsHaveBodies
    /\ RoomHoldsStoredCodes
    /\ CopiesHoldStoredCodes
    /\ PagesBuildOnTheirPosts
    /\ AttemptsAreOrdered

\* A phone on which the delete of a code was applied keeps no copy of it.
DeletedIsForgotten ==
    \A a \in Attempts : del[a] = "done" =>
        \A k \in Clubs : copy[phone[a]][k] # entry[a]
=============================================================================
