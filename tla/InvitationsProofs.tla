-------------------------- MODULE InvitationsProofs --------------------------
(***************************************************************************)
(* Proofs about Invitations, for any number of clubs, pages, codes, phones *)
(* and concurrent attempts.                                                *)
(***************************************************************************)
EXTENDS Invitations, TLAPS

\* The bookkeeping holds initially.
LEMMA BookkeepingInit == Init => Bookkeeping
BY CountAssumption, NullAssumption
   DEF Init, Bookkeeping, TypeOK, PostsHaveBodies, RoomHoldsStoredCodes,
       CopiesHoldStoredCodes, PagesBuildOnTheirPosts, AttemptsAreOrdered

\* Every step on an invitation page keeps the bookkeeping.
LEMMA BookkeepingPage ==
  ASSUME NEW p \in Pages, Bookkeeping, PageNext(p)
  PROVE  Bookkeeping'
<1> USE CountAssumption, NullAssumption
    DEF Bookkeeping, TypeOK, PageState, Body, joinVars
<1>1. ASSUME NEW k \in Clubs, NEW s \in Shares, NEW c \in Codes,
             page[p] = Null,
             createInvitationCode(c, p, k, s),
             page' = [page EXCEPT ![p] =
                        [club |-> k, shares |-> s, pending |-> c,
                         shown |-> Null, count |-> CountFrom]],
             UNCHANGED <<invitationRoom, joinVars>>
      PROVE  Bookkeeping'
  <2>0. page'[p] \in PageState
    BY <1>1
  <2>1. TypeOK'
    BY <1>1, <2>0 DEF createInvitationCode
  <2>2. PostsHaveBodies' /\ AttemptsAreOrdered'
    BY <1>1 DEF createInvitationCode, PostsHaveBodies, AttemptsAreOrdered
  <2>3. RoomHoldsStoredCodes' /\ CopiesHoldStoredCodes'
    BY <1>1 DEF createInvitationCode, RoomHoldsStoredCodes,
       CopiesHoldStoredCodes
  <2>4. PagesBuildOnTheirPosts'
    BY <1>1 DEF createInvitationCode, PagesBuildOnTheirPosts
  <2> QED
    BY <2>1, <2>2, <2>3, <2>4
<1>2. CASE countStream(p)
  <2>0. page' \in [Pages -> PageState \cup {Null}]
    <3>1. page[p] \in PageState /\ page[p].count > 0
      BY <1>2 DEF countStream
    <3> HIDE DEF Bookkeeping, TypeOK
    <3>2. [page[p] EXCEPT !.count = @ - 1] \in PageState
      BY <3>1
    <3> HIDE DEF PageState
    <3> QED
      BY <1>2, <3>2 DEF countStream, Bookkeeping, TypeOK
  <2>1. TypeOK'
    BY <1>2, <2>0 DEF countStream
  <2> QED
    BY <1>2, <2>1 DEF countStream, PostsHaveBodies, RoomHoldsStoredCodes,
       CopiesHoldStoredCodes, PagesBuildOnTheirPosts, AttemptsAreOrdered
<1>3. ASSUME NEW c \in Codes, page[p] # Null,
             createInvitationCode(c, p, page[p].club, page[p].shares),
             page' = [page EXCEPT ![p].pending = c, ![p].count = CountFrom],
             UNCHANGED <<invitationRoom, joinVars>>
      PROVE  Bookkeeping'
  <2>0. page[p] \in PageState
    BY <1>3
  <2> DEFINE built == [page[p] EXCEPT !.pending = c]
  <2>a. built \in PageState
    BY <2>0
  <2>b. page' \in [Pages -> PageState \cup {Null}]
    <3>1. [built EXCEPT !.count = CountFrom] \in PageState
      <4> HIDE DEF built, Bookkeeping, TypeOK
      <4> QED
        BY <2>a
    <3> QED
      BY <1>3, <3>1
  <2>c. [page |-> p, club |-> page[p].club, shares |-> page[p].shares] \in Body
    BY <2>0
  <2>d. body' \in [Codes -> Body \cup {Null}]
    BY <1>3, <2>c DEF createInvitationCode
  <2>1. TypeOK'
    BY <1>3, <2>b, <2>d DEF createInvitationCode
  <2>2. PostsHaveBodies' /\ AttemptsAreOrdered'
    BY <1>3, <2>0 DEF createInvitationCode, PostsHaveBodies, AttemptsAreOrdered
  <2>3. RoomHoldsStoredCodes' /\ CopiesHoldStoredCodes'
    BY <1>3 DEF createInvitationCode, RoomHoldsStoredCodes,
       CopiesHoldStoredCodes
  <2>4. PagesBuildOnTheirPosts'
    BY <1>3, <2>0 DEF createInvitationCode, PagesBuildOnTheirPosts
  <2> QED
    BY <2>1, <2>2, <2>3, <2>4
<1>4. CASE ClosePage(p)
  BY <1>4 DEF ClosePage, PostsHaveBodies, RoomHoldsStoredCodes,
     CopiesHoldStoredCodes, PagesBuildOnTheirPosts, AttemptsAreOrdered
<1> QED
  BY <1>1, <1>2, <1>3, <1>4, PageNext(p) DEF PageNext, OpenPage, Reload

\* Every step of a post, on the server or back on the page, keeps it.
LEMMA BookkeepingPost ==
  ASSUME NEW c \in Codes, Bookkeeping, PostNext(c)
  PROVE  Bookkeeping'
<1> USE CountAssumption, NullAssumption
    DEF Bookkeeping, TypeOK, PageState, Body, joinVars
<1>1. CASE sendInvitationCode(c)
  <2>1. body[c] \in Body
    BY <1>1 DEF sendInvitationCode, PostsHaveBodies
  <2>2. TypeOK'
    BY <1>1, <2>1 DEF sendInvitationCode
  <2>3. RoomHoldsStoredCodes'
    BY <1>1, <2>1 DEF sendInvitationCode, RoomHoldsStoredCodes
  <2>4. CopiesHoldStoredCodes'
    BY <1>1 DEF sendInvitationCode, CopiesHoldStoredCodes
  <2> QED
    BY <1>1, <2>2, <2>3, <2>4 DEF sendInvitationCode, PostsHaveBodies,
       PagesBuildOnTheirPosts, AttemptsAreOrdered
<1>2. CASE LosePost(c)
  BY <1>2 DEF LosePost, PostsHaveBodies, RoomHoldsStoredCodes,
     CopiesHoldStoredCodes, PagesBuildOnTheirPosts, AttemptsAreOrdered
<1>3. ASSUME NEW text \in Codes \cup {Blank}, waiting[c],
             waiting' = [waiting EXCEPT ![c] = FALSE],
             page' = Show(c, text),
             UNCHANGED <<post, body, invitationRoom, joinVars>>
      PROVE  Bookkeeping'
  <2>1. body[c] \in Body
    BY <1>3 DEF PostsHaveBodies
  <2>a. page' \in [Pages -> PageState \cup {Null}]
    <3> DEFINE p == body[c].page
               idle == [page[p] EXCEPT !.pending = Null]
               told == [idle EXCEPT !.shown = text]
               r == [told EXCEPT !.count = CountFrom]
    <3>1. CASE page[p] # Null
      <4>1. page[p] \in PageState /\ p \in Pages
        BY <2>1, <3>1
      <4> HIDE DEF Bookkeeping, TypeOK
      <4>2. idle \in PageState
        BY <4>1
      <4> HIDE DEF idle
      <4>3. told \in PageState
        BY <1>3, <4>2
      <4> HIDE DEF told
      <4>4. r \in PageState
        BY <4>3
      <4>5. page' \in {page, [page EXCEPT ![p] = r]}
        BY <1>3 DEF Show, told, idle
      <4> HIDE DEF r, p, PageState
      <4> QED
        BY <4>1, <4>4, <4>5 DEF Bookkeeping, TypeOK
    <3>2. CASE page[p] = Null
      BY <1>3, <3>2 DEF Show
    <3> QED
      BY <3>1, <3>2
  <2>2. TypeOK'
    BY <1>3, <2>1, <2>a
  <2>3. PagesBuildOnTheirPosts'
    BY <1>3, <2>1 DEF Show, PagesBuildOnTheirPosts
  <2> QED
    BY <1>3, <2>2, <2>3 DEF PostsHaveBodies, RoomHoldsStoredCodes,
       CopiesHoldStoredCodes, AttemptsAreOrdered
<1> QED
  BY <1>1, <1>2, <1>3, PostNext(c) DEF PostNext, CodeReturned, CodeFailed

\* What a query that finds the code does: the document is one of the server's
\* or of the phone's copies, and the copies stay or are brought up to date.
LEMMA QueryFinds ==
  ASSUME NEW a \in Attempts, Bookkeeping, checkInvitationCode(a)
  PROVE  /\ entry[a] \in Codes
         /\ post[entry[a]] = "stored"
         /\ body[entry[a]] \in Body
         /\ \/ invitationRoom[body[entry[a]].club] = entry[a]
            \/ copy[phone[a]][body[entry[a]].club] = entry[a]
         /\ ticket' = [ticket EXCEPT ![a] = [id |-> body[entry[a]].club,
                                             club |-> body[entry[a]].club,
                                             shares |-> body[entry[a]].shares]]
<1> USE NullAssumption DEF Bookkeeping
<1>1. PICK docs \in Answers(a), k \in Clubs :
        /\ docs[k] = entry[a]
        /\ ticket' = [ticket EXCEPT ![a] =
                        [id |-> k, club |-> body[entry[a]].club,
                         shares |-> body[entry[a]].shares]]
  BY checkInvitationCode(a) DEF checkInvitationCode, Matches
<1>2. invitationRoom[k] = entry[a] \/ copy[phone[a]][k] = entry[a]
  BY <1>1 DEF Answers
<1>3. entry[a] \in Codes /\ phone[a] \in Phones
  BY checkInvitationCode(a) DEF checkInvitationCode, TypeOK, AttemptsAreOrdered
<1>4. post[entry[a]] = "stored" /\ body[entry[a]].club = k
  BY <1>2, <1>3 DEF RoomHoldsStoredCodes, CopiesHoldStoredCodes
<1>5. body[entry[a]] \in Body
  BY <1>3, <1>4 DEF TypeOK, PostsHaveBodies
<1> QED
  BY <1>1, <1>2, <1>3, <1>4, <1>5

\* The answer of the server leaves the copies well-formed.
LEMMA RefreshedCopies ==
  ASSUME NEW h \in Phones, NEW c \in Codes, Bookkeeping,
         copy' = [copy EXCEPT ![h] = Refreshed(h, c)],
         UNCHANGED <<post, body>>
  PROVE  /\ copy' \in [Phones -> [Clubs -> Codes \cup {Null}]]
         /\ CopiesHoldStoredCodes'
<1> USE DEF Bookkeeping, TypeOK
<1>1. \A k \in Clubs : Refreshed(h, c)[k] \in {invitationRoom[k], copy[h][k]}
  BY DEF Refreshed
<1>2. Refreshed(h, c) \in [Clubs -> Codes \cup {Null}]
  BY <1>1 DEF Refreshed
<1>3. copy' \in [Phones -> [Clubs -> Codes \cup {Null}]]
  BY <1>2
<1>4. ASSUME NEW g \in Phones, NEW k \in Clubs, copy'[g][k] # Null
      PROVE  post[copy'[g][k]] = "stored" /\ body[copy'[g][k]].club = k
  <2>1. copy'[g][k] \in {invitationRoom[k], copy[g][k]}
    BY <1>1
  <2> QED
    BY <1>4, <2>1 DEF RoomHoldsStoredCodes, CopiesHoldStoredCodes
<1> QED
  BY <1>3, <1>4 DEF CopiesHoldStoredCodes

\* What every step of an attempt does to the copies and to the collection.
LEMMA CopySteps ==
  ASSUME NEW a \in Attempts, Bookkeeping, JoinNext(a)
  PROVE  /\ UNCHANGED <<phone, post, body>>
         /\ \/ UNCHANGED <<copy, invitationRoom>>
            \/ /\ UNCHANGED <<invitationRoom, del>>
               /\ phone[a] \in Phones /\ entry[a] \in Codes
               /\ copy' = [copy EXCEPT ![phone[a]] =
                             Refreshed(phone[a], entry[a])]
            \/ DeleteDocument(a)
<1>1. ASSUME checkInvitationCode(a) \/ NotCorrect(a)
      PROVE  /\ UNCHANGED <<phone, post, body, invitationRoom, del>>
             /\ \/ UNCHANGED copy
                \/ copy' = [copy EXCEPT ![phone[a]] =
                              Refreshed(phone[a], entry[a])]
             /\ phone[a] \in Phones /\ entry[a] \in Codes
  BY <1>1 DEF checkInvitationCode, NotCorrect, get, pageVars, Bookkeeping,
     TypeOK, AttemptsAreOrdered
<1>2. ASSUME ~checkInvitationCode(a), ~NotCorrect(a), ~DeleteDocument(a)
      PROVE  UNCHANGED <<phone, copy, post, body, invitationRoom>>
  BY <1>2, JoinNext(a) DEF JoinNext, onCompleted, CheckFailed,
     ServerAddMember, LoseAdd, addMember, AddMemberCaught, DeleteDenied,
     PushDashboard, QuitApp, pageVars, phoneVars
<1>3. ASSUME DeleteDocument(a)
      PROVE  UNCHANGED <<phone, post, body>>
  BY <1>3 DEF DeleteDocument, pageVars
<1> QED
  BY <1>1, <1>2, <1>3

\* Every step of a join attempt keeps it.
LEMMA BookkeepingJoin ==
  ASSUME NEW a \in Attempts, Bookkeeping, JoinNext(a)
  PROVE  Bookkeeping'
<1> USE NullAssumption DEF Bookkeeping, pageVars
<1>1. (PostsHaveBodies /\ PagesBuildOnTheirPosts)'
  <2>1. UNCHANGED pageVars
    BY JoinNext(a) DEF JoinNext, onCompleted, checkInvitationCode, NotCorrect,
       CheckFailed, ServerAddMember, LoseAdd, addMember, AddMemberCaught,
       DeleteDocument, DeleteDenied, PushDashboard, QuitApp
  <2> QED
    BY <2>1 DEF PostsHaveBodies, PagesBuildOnTheirPosts
<1>a. ticket[a] # Null => ticket[a].id \in Clubs
  BY DEF TypeOK, Ticket
<1>b. DeleteDocument(a) => ticket[a].id \in Clubs /\ phone[a] \in Phones
  BY <1>a DEF DeleteDocument, AttemptsAreOrdered, TypeOK
<1>c. /\ invitationRoom' \in [Clubs -> Codes \cup {Null}]
      /\ phone' \in [Attempts -> Phones]
      /\ copy' \in [Phones -> [Clubs -> Codes \cup {Null}]]
      /\ RoomHoldsStoredCodes' /\ CopiesHoldStoredCodes'
  <2>0. UNCHANGED <<phone, post, body>>
    BY CopySteps
  <2>1. CASE UNCHANGED <<copy, invitationRoom>>
    BY <2>0, <2>1 DEF TypeOK, RoomHoldsStoredCodes, CopiesHoldStoredCodes
  <2>2. CASE /\ UNCHANGED invitationRoom
             /\ phone[a] \in Phones /\ entry[a] \in Codes
             /\ copy' = [copy EXCEPT ![phone[a]] =
                           Refreshed(phone[a], entry[a])]
    <3>1. /\ copy' \in [Phones -> [Clubs -> Codes \cup {Null}]]
          /\ CopiesHoldStoredCodes'
      BY <2>0, <2>2, RefreshedCopies
    <3> QED
      BY <2>0, <2>2, <3>1 DEF TypeOK, RoomHoldsStoredCodes
  <2>3. CASE DeleteDocument(a)
    BY <1>b, <2>3 DEF DeleteDocument, TypeOK, RoomHoldsStoredCodes,
       CopiesHoldStoredCodes
  <2> QED
    BY <2>1, <2>2, <2>3, CopySteps
<1> DEFINE Steps == /\ pc' \in [Attempts -> {"idle", "checking", "adding",
                                 "deleting", "joined", "refused", "failed",
                                 "quit"}]
                    /\ entry' \in [Attempts -> Codes \cup {Null}]
                    /\ ticket' \in [Attempts -> Ticket \cup {Null}]
                    /\ add' \in [Attempts -> {"none", "sent", "done", "lost"}]
                    /\ reply' \in [Attempts -> {"none", "ok", "error"}]
                    /\ del' \in [Attempts ->
                                   {"none", "sent", "done", "denied"}]
                    /\ AttemptsAreOrdered'
<1>2. ASSUME NEW c \in Codes, onCompleted(a, c)
      PROVE  Steps
  BY <1>2 DEF onCompleted, TypeOK, AttemptsAreOrdered
<1>3. ASSUME checkInvitationCode(a)
      PROVE  Steps
  <2>1. /\ entry[a] \in Codes /\ body[entry[a]] \in Body
        /\ ticket' = [ticket EXCEPT ![a] =
                        [id |-> body[entry[a]].club,
                         club |-> body[entry[a]].club,
                         shares |-> body[entry[a]].shares]]
    BY <1>3, QueryFinds
  <2>2. ticket' \in [Attempts -> Ticket \cup {Null}] /\ ticket'[a] # Null
    BY <2>1 DEF TypeOK, Ticket, Body
  <2> QED
    BY <1>3, <2>1, <2>2 DEF checkInvitationCode, TypeOK, AttemptsAreOrdered
<1>4. ASSUME \/ NotCorrect(a) \/ CheckFailed(a) \/ PushDashboard(a)
             \/ QuitApp(a)
      PROVE  Steps
  <2>1. PICK w \in {"joined", "refused", "failed", "quit"} :
          pc' = [pc EXCEPT ![a] = w]
    BY <1>4 DEF NotCorrect, CheckFailed, PushDashboard, QuitApp
  <2>2. pc[a] # "idle" /\ UNCHANGED <<entry, ticket, add, reply, del>>
    BY <1>4 DEF NotCorrect, CheckFailed, PushDashboard, QuitApp
  <2> QED
    BY <2>1, <2>2 DEF TypeOK, AttemptsAreOrdered
<1>5. ASSUME ServerAddMember(a) \/ LoseAdd(a)
      PROVE  Steps
  <2>1. PICK w \in {"done", "lost"} : /\ add[a] = "sent"
                                      /\ add' = [add EXCEPT ![a] = w]
    BY <1>5 DEF ServerAddMember, LoseAdd
  <2>2. UNCHANGED <<pc, entry, ticket, reply, del>>
    BY <1>5 DEF ServerAddMember, LoseAdd
  <2> QED
    BY <2>1, <2>2 DEF TypeOK, AttemptsAreOrdered
<1>6. ASSUME addMember(a) \/ AddMemberCaught(a)
      PROVE  Steps
  <2>1. PICK w \in {"ok", "error"} : reply' = [reply EXCEPT ![a] = w]
    BY <1>6 DEF addMember, AddMemberCaught
  <2>2. /\ pc[a] = "adding" /\ pc' = [pc EXCEPT ![a] = "deleting"]
        /\ del' = [del EXCEPT ![a] = "sent"]
        /\ UNCHANGED <<entry, ticket, add>>
    BY <1>6 DEF addMember, AddMemberCaught
  <2> QED
    BY <2>1, <2>2 DEF TypeOK, AttemptsAreOrdered
<1>7. ASSUME DeleteDocument(a)
      PROVE  Steps
  BY <1>7 DEF DeleteDocument, TypeOK, AttemptsAreOrdered
<1>8. ASSUME DeleteDenied(a)
      PROVE  Steps
  BY <1>8 DEF DeleteDenied, TypeOK, AttemptsAreOrdered
<1>9. Steps
  <2> HIDE DEF Steps
  <2> QED
    BY <1>2, <1>3, <1>4, <1>5, <1>6, <1>7, <1>8, JoinNext(a) DEF JoinNext
<1>10. UNCHANGED pageVars
  BY JoinNext(a) DEF JoinNext, onCompleted, checkInvitationCode, NotCorrect,
     CheckFailed, ServerAddMember, LoseAdd, addMember, AddMemberCaught,
     DeleteDocument, DeleteDenied, PushDashboard, QuitApp
<1>11. TypeOK'
  BY <1>c, <1>9, <1>10 DEF TypeOK
<1> QED
  BY <1>1, <1>c, <1>9, <1>11

\* The state has its type and the bookkeeping is right: every document holds a
\* stored code of its club, every page builds on its own post, and attempts run
\* their steps in order.
THEOREM BookkeepingHolds == Spec => []Bookkeeping
<1>1. Bookkeeping /\ [Next]_vars => Bookkeeping'
  <2>1. Bookkeeping /\ UNCHANGED vars => Bookkeeping'
    BY DEF Bookkeeping, TypeOK, PostsHaveBodies, RoomHoldsStoredCodes,
       CopiesHoldStoredCodes, PagesBuildOnTheirPosts, AttemptsAreOrdered, vars
  <2> QED
    BY <2>1, BookkeepingPage, BookkeepingPost, BookkeepingJoin DEF Next
<1> QED
  BY <1>1, BookkeepingInit, PTL DEF Spec

\* The state has its type, after any number of posts, answers and attempts.
THEOREM TypeCorrect == Spec => []TypeOK
BY BookkeepingHolds, PTL DEF Bookkeeping

-----------------------------------------------------------------------------
\* What is stored stays stored, with its page, club and shares.
LEMMA StoredStays ==
  ASSUME Bookkeeping, [Next]_vars, NEW c \in Codes, post[c] = "stored"
  PROVE  post'[c] = "stored" /\ body'[c] = body[c]
<1> USE DEF Bookkeeping, TypeOK
<1>1. ASSUME NEW p \in Pages, PageNext(p)
      PROVE  post'[c] = "stored" /\ body'[c] = body[c]
  BY <1>1 DEF PageNext, OpenPage, createInvitationCode, countStream, Reload,
     ClosePage
<1>2. ASSUME NEW d \in Codes, PostNext(d)
      PROVE  post'[c] = "stored" /\ body'[c] = body[c]
  BY <1>2 DEF PostNext, sendInvitationCode, LosePost, CodeReturned, CodeFailed
<1>3. ASSUME NEW a \in Attempts, JoinNext(a)
      PROVE  post'[c] = "stored" /\ body'[c] = body[c]
  BY <1>3 DEF JoinNext, onCompleted, checkInvitationCode, NotCorrect,
     CheckFailed, ServerAddMember, LoseAdd, addMember, AddMemberCaught,
     DeleteDocument, DeleteDenied, PushDashboard, QuitApp, pageVars
<1> QED
  BY <1>1, <1>2, <1>3 DEF Next, vars

\* An attempt keeps its ticket and the code it came with.
LEMMA TicketStays ==
  ASSUME Bookkeeping, [Next]_vars, NEW a \in Attempts, ticket[a] # Null
  PROVE  ticket'[a] = ticket[a] /\ entry'[a] = entry[a]
<1> USE DEF Bookkeeping, TypeOK
<1>1. ASSUME NEW p \in Pages, PageNext(p)
      PROVE  UNCHANGED <<ticket, entry>>
  BY <1>1 DEF PageNext, OpenPage, countStream, Reload, ClosePage,
     joinVars
<1>2. ASSUME NEW d \in Codes, PostNext(d)
      PROVE  UNCHANGED <<ticket, entry>>
  BY <1>2 DEF PostNext, sendInvitationCode, LosePost, CodeReturned, CodeFailed,
     joinVars
<1>3. ASSUME NEW b \in Attempts, JoinNext(b)
      PROVE  ticket'[a] = ticket[a] /\ entry'[a] = entry[a]
  BY <1>3 DEF JoinNext, onCompleted, checkInvitationCode, NotCorrect,
     CheckFailed, ServerAddMember, LoseAdd, addMember, AddMemberCaught,
     DeleteDocument, DeleteDenied, PushDashboard, QuitApp, AttemptsAreOrdered
<1> QED
  BY <1>1, <1>2, <1>3 DEF Next, vars

\* A ticket is made by the query alone, from the document with the code typed,
\* as the server or the attempt's phone has it.
LEMMA TicketFromQuery ==
  ASSUME Bookkeeping, [Next]_vars, NEW a \in Attempts,
         ticket[a] = Null, ticket'[a] # Null
  PROVE  /\ checkInvitationCode(a)
         /\ entry[a] \in Codes
         /\ post[entry[a]] = "stored"
         /\ body[entry[a]].club \in Clubs
         /\ \/ invitationRoom[body[entry[a]].club] = entry[a]
            \/ copy[phone[a]][body[entry[a]].club] = entry[a]
         /\ ticket'[a] = [id |-> body[entry[a]].club,
                          club |-> body[entry[a]].club,
                          shares |-> body[entry[a]].shares]
         /\ post' = post /\ body' = body /\ entry' = entry
         /\ invitationRoom' = invitationRoom
<1> USE DEF Bookkeeping, TypeOK
<1>1. ASSUME NEW p \in Pages, PageNext(p)
      PROVE  UNCHANGED ticket
  BY <1>1 DEF PageNext, OpenPage, countStream, Reload, ClosePage,
     joinVars
<1>2. ASSUME NEW d \in Codes, PostNext(d)
      PROVE  UNCHANGED ticket
  BY <1>2 DEF PostNext, sendInvitationCode, LosePost, CodeReturned, CodeFailed,
     joinVars
<1>3. PICK b \in Attempts : JoinNext(b)
  BY <1>1, <1>2 DEF Next, vars
<1>4. checkInvitationCode(a)
  BY <1>3 DEF JoinNext, onCompleted, checkInvitationCode, NotCorrect,
     CheckFailed, ServerAddMember, LoseAdd, addMember, AddMemberCaught,
     DeleteDocument, DeleteDenied, PushDashboard, QuitApp
<1>5. /\ entry[a] \in Codes /\ post[entry[a]] = "stored"
      /\ body[entry[a]] \in Body
      /\ \/ invitationRoom[body[entry[a]].club] = entry[a]
         \/ copy[phone[a]][body[entry[a]].club] = entry[a]
      /\ ticket' = [ticket EXCEPT ![a] = [id |-> body[entry[a]].club,
                                          club |-> body[entry[a]].club,
                                          shares |-> body[entry[a]].shares]]
  BY <1>4, QueryFinds
<1>6. body[entry[a]].club \in Clubs
  BY <1>5 DEF Body
<1>7. UNCHANGED <<post, body, entry, invitationRoom>>
  BY <1>4 DEF checkInvitationCode, pageVars
<1> QED
  BY <1>4, <1>5, <1>6, <1>7

-----------------------------------------------------------------------------
\* For any number of codes and concurrent attempts, the membership posted and
\* the document deleted are those of the invitation whose code was typed.
THEOREM GrantMatches == Spec => []GrantMatchesInvitation
<1>1. Init => GrantMatchesInvitation
  BY DEF Init, GrantMatchesInvitation
<1>2. Bookkeeping /\ GrantMatchesInvitation /\ Bookkeeping' /\ [Next]_vars
        => GrantMatchesInvitation'
  <2> SUFFICES ASSUME Bookkeeping, GrantMatchesInvitation, [Next]_vars,
                      NEW a \in Attempts, ticket'[a] # Null
               PROVE  /\ post'[entry'[a]] = "stored"
                      /\ ticket'[a].id = body'[entry'[a]].club
                      /\ ticket'[a].club = body'[entry'[a]].club
                      /\ ticket'[a].shares = body'[entry'[a]].shares
    BY DEF GrantMatchesInvitation
  <2>1. CASE ticket[a] = Null
    <3>1. /\ post[entry[a]] = "stored"
          /\ post' = post /\ body' = body /\ entry' = entry
      BY <2>1, TicketFromQuery
    <3>2. ticket'[a] = [id |-> body[entry[a]].club,
                        club |-> body[entry[a]].club,
                        shares |-> body[entry[a]].shares]
      BY <2>1, TicketFromQuery
    <3> QED
      BY <3>1, <3>2
  <2>2. CASE ticket[a] # Null
    <3>1. entry[a] \in Codes
      BY <2>2, NullAssumption DEF Bookkeeping, TypeOK, AttemptsAreOrdered
    <3> QED
      BY <2>2, <3>1, TicketStays, StoredStays DEF GrantMatchesInvitation
  <2> QED
    BY <2>1, <2>2
<1> QED
  BY <1>1, <1>2, BookkeepingHolds, PTL DEF Spec

\* A slow or failing addMember never costs the joiner the code before the app
\* has heard from it or given up on it.
THEOREM ConsumedAfter == Spec => []ConsumedAfterAnswered
<1>1. Init => ConsumedAfterAnswered
  BY DEF Init, ConsumedAfterAnswered
<1>2. Bookkeeping /\ ConsumedAfterAnswered /\ [Next]_vars
        => ConsumedAfterAnswered'
  <2> SUFFICES ASSUME Bookkeeping, ConsumedAfterAnswered, [Next]_vars
               PROVE  ConsumedAfterAnswered'
    OBVIOUS
  <2> USE DEF ConsumedAfterAnswered, Bookkeeping, TypeOK
  <2>1. ASSUME NEW p \in Pages, PageNext(p)
        PROVE  UNCHANGED <<add, reply, del>>
    BY <2>1 DEF PageNext, OpenPage, countStream, Reload, ClosePage,
       joinVars
  <2>2. ASSUME NEW c \in Codes, PostNext(c)
        PROVE  UNCHANGED <<add, reply, del>>
    BY <2>2 DEF PostNext, sendInvitationCode, LosePost, CodeReturned,
       CodeFailed, joinVars
  <2>3. ASSUME NEW a \in Attempts, JoinNext(a)
        PROVE  ConsumedAfterAnswered'
    <3>1. CASE checkInvitationCode(a)
      BY <3>1 DEF checkInvitationCode, AttemptsAreOrdered
    <3>2. CASE ServerAddMember(a) \/ LoseAdd(a)
      BY <3>2 DEF ServerAddMember, LoseAdd
    <3>3. CASE addMember(a) \/ AddMemberCaught(a)
      BY <3>3 DEF addMember, AddMemberCaught
    <3>4. CASE DeleteDocument(a) \/ DeleteDenied(a)
      BY <3>4 DEF DeleteDocument, DeleteDenied
    <3>5. CASE \/ \E c \in Codes : onCompleted(a, c)
               \/ NotCorrect(a) \/ CheckFailed(a)
               \/ PushDashboard(a) \/ QuitApp(a)
      BY <3>5 DEF onCompleted, NotCorrect, CheckFailed, PushDashboard, QuitApp
    <3> QED
      BY <2>3, <3>1, <3>2, <3>3, <3>4, <3>5 DEF JoinNext
  <2> QED
    BY <2>1, <2>2, <2>3 DEF Next, vars
<1> QED
  BY <1>1, <1>2, BookkeepingHolds, PTL DEF Spec

\* What every step does to the collection: nothing, or one stored post, or one
\* applied delete.
LEMMA RoomSteps ==
  ASSUME Bookkeeping, [Next]_vars
  PROVE  \/ /\ UNCHANGED <<invitationRoom, del>>
         \/ /\ UNCHANGED invitationRoom
            /\ \E a \in Attempts : ticket[a] # Null
                 /\ del' = [del EXCEPT ![a] = "sent"]
         \/ /\ UNCHANGED invitationRoom
            /\ \E a \in Attempts : del' = [del EXCEPT ![a] = "denied"]
         \/ /\ UNCHANGED <<del, entry, ticket>>
            /\ \E c \in Codes : sendInvitationCode(c)
         \/ /\ UNCHANGED <<post, body, entry, ticket>>
            /\ \E a \in Attempts : DeleteDocument(a)
<1>1. ASSUME NEW p \in Pages, PageNext(p)
      PROVE  UNCHANGED <<invitationRoom, del>>
  BY <1>1 DEF PageNext, OpenPage, countStream, Reload, ClosePage,
     joinVars
<1>2. ASSUME NEW c \in Codes, PostNext(c)
      PROVE  \/ UNCHANGED <<invitationRoom, del>>
             \/ UNCHANGED <<del, entry, ticket>> /\ sendInvitationCode(c)
  BY <1>2 DEF PostNext, sendInvitationCode, LosePost, CodeReturned, CodeFailed,
     joinVars
<1>3. ASSUME NEW a \in Attempts, JoinNext(a)
      PROVE  \/ UNCHANGED <<invitationRoom, del>>
             \/ /\ UNCHANGED invitationRoom
                /\ ticket[a] # Null /\ del' = [del EXCEPT ![a] = "sent"]
             \/ /\ UNCHANGED invitationRoom
                /\ del' = [del EXCEPT ![a] = "denied"]
             \/ UNCHANGED <<post, body, entry, ticket>> /\ DeleteDocument(a)
  BY <1>3 DEF JoinNext, onCompleted, checkInvitationCode, NotCorrect,
     CheckFailed, ServerAddMember, LoseAdd, addMember, AddMemberCaught,
     DeleteDocument, DeleteDenied, PushDashboard, QuitApp, pageVars,
     Bookkeeping, AttemptsAreOrdered
<1> QED
  BY <1>1, <1>2, <1>3 DEF Next, vars

\* A delete is applied for an attempt that found its code.
LEMMA DoneHasTicket ==
  ASSUME Bookkeeping, [Next]_vars, NEW a \in Attempts, del'[a] = "done"
  PROVE  ticket[a] # Null
<1> USE DEF Bookkeeping, TypeOK, AttemptsAreOrdered
<1>1. CASE UNCHANGED del
  BY <1>1
<1>2. ASSUME NEW b \in Attempts, NEW w \in {"sent", "denied"},
             del' = [del EXCEPT ![b] = w]
      PROVE  ticket[a] # Null
  BY <1>2
<1>3. ASSUME NEW b \in Attempts, DeleteDocument(b)
      PROVE  ticket[a] # Null
  BY <1>3 DEF DeleteDocument
<1> HIDE DEF Bookkeeping, TypeOK, AttemptsAreOrdered
<1> QED
  BY <1>1, <1>2, <1>3, RoomSteps

\* A used code never works again, whatever posts were under way when its
\* document was deleted.
THEOREM ConsumedStays == Spec => []ConsumedCodeStaysConsumed
<1>1. Init => ConsumedCodeStaysConsumed
  BY DEF Init, ConsumedCodeStaysConsumed
<1>2. Bookkeeping /\ GrantMatchesInvitation /\ ConsumedCodeStaysConsumed
      /\ [Next]_vars => ConsumedCodeStaysConsumed'
  <2> SUFFICES ASSUME Bookkeeping, GrantMatchesInvitation,
                      ConsumedCodeStaysConsumed, [Next]_vars,
                      NEW a \in Attempts, del'[a] = "done",
                      NEW k \in Clubs
               PROVE  invitationRoom'[k] # entry'[a]
    BY DEF ConsumedCodeStaysConsumed
  <2> USE DEF Bookkeeping, TypeOK
  <2>1. ticket[a] # Null
    BY DoneHasTicket
  <2>2. /\ entry'[a] = entry[a] /\ entry[a] \in Codes
        /\ post[entry[a]] = "stored" /\ ticket[a].id = body[entry[a]].club
    BY <2>1, TicketStays, NullAssumption DEF AttemptsAreOrdered,
       GrantMatchesInvitation
  <2>3. CASE UNCHANGED invitationRoom /\ del[a] = "done"
    BY <2>2, <2>3 DEF ConsumedCodeStaysConsumed
  <2>4. ASSUME NEW c \in Codes, sendInvitationCode(c)
        PROVE  invitationRoom'[k] # entry'[a]
    <3>1. c # entry[a] /\ del[a] = "done"
      BY <2>2, <2>4 DEF sendInvitationCode, joinVars
    <3> QED
      BY <2>2, <2>4, <3>1 DEF sendInvitationCode, ConsumedCodeStaysConsumed
  <2>5. ASSUME NEW b \in Attempts, DeleteDocument(b)
        PROVE  invitationRoom'[k] # entry'[a]
    <3>1. CASE a = b
      <4>1. invitationRoom[k] = entry[a] => k = ticket[a].id
        BY <2>2, NullAssumption DEF RoomHoldsStoredCodes
      <4> QED
        BY <2>2, <2>5, <3>1, <4>1, NullAssumption DEF DeleteDocument
    <3>2. CASE a # b
      BY <2>2, <2>5, <3>2, NullAssumption DEF DeleteDocument,
         ConsumedCodeStaysConsumed
    <3> QED
      BY <3>1, <3>2
  <2> QED
    BY <2>3, <2>4, <2>5, RoomSteps
<1> QED
  BY <1>1, <1>2, BookkeepingHolds, GrantMatches, PTL DEF Spec

\* A phone forgets the codes it deleted and is never told of them again.
THEOREM DeletedForgotten == Spec => []DeletedIsForgotten
<1>1. Init => DeletedIsForgotten
  BY DEF Init, DeletedIsForgotten
<1>2. Bookkeeping /\ GrantMatchesInvitation /\ ConsumedCodeStaysConsumed
      /\ DeletedIsForgotten /\ [Next]_vars => DeletedIsForgotten'
  <2> SUFFICES ASSUME Bookkeeping, GrantMatchesInvitation,
                      ConsumedCodeStaysConsumed, DeletedIsForgotten,
                      [Next]_vars,
                      NEW a \in Attempts, del'[a] = "done",
                      NEW k \in Clubs
               PROVE  copy'[phone'[a]][k] # entry'[a]
    BY DEF DeletedIsForgotten
  <2> USE DEF Bookkeeping, TypeOK
  <2>1. ticket[a] # Null
    BY DoneHasTicket
  <2>2. /\ entry'[a] = entry[a] /\ entry[a] \in Codes /\ entry[a] # Null
        /\ post[entry[a]] = "stored" /\ ticket[a].id = body[entry[a]].club
    BY <2>1, TicketStays, NullAssumption DEF AttemptsAreOrdered,
       GrantMatchesInvitation
  <2>3. ASSUME ~\E b \in Attempts : JoinNext(b)
        PROVE  UNCHANGED <<phone, copy, del>>
    BY <2>3 DEF Next, vars, PageNext, OpenPage, countStream, Reload,
       ClosePage, PostNext, sendInvitationCode, LosePost, CodeReturned,
       CodeFailed, joinVars
  <2>4. ASSUME NEW b \in Attempts, DeleteDocument(b)
        PROVE  copy'[phone'[a]][k] # entry'[a]
    <3>1. /\ phone' = phone /\ del' = [del EXCEPT ![b] = "done"]
          /\ copy' = [copy EXCEPT ![phone[b]][ticket[b].id] = Null]
          /\ phone[a] \in Phones /\ phone[b] \in Phones
      BY <2>4 DEF DeleteDocument
    <3>2. copy'[phone[a]][k] \in {copy[phone[a]][k], Null}
      BY <3>1
    <3>3. CASE a = b
      <4>1. copy[phone[a]][k] = entry[a] => k = ticket[a].id
        BY <2>2, <3>1 DEF CopiesHoldStoredCodes
      <4> QED
        BY <2>2, <3>1, <3>2, <3>3, <4>1
    <3>4. CASE a # b
      <4>1. del[a] = "done"
        BY <3>1, <3>4
      <4> QED
        BY <2>2, <3>1, <3>2, <4>1 DEF DeletedIsForgotten
    <3> QED
      BY <3>3, <3>4
  <2>5. ASSUME NEW b \in Attempts, JoinNext(b), ~DeleteDocument(b)
        PROVE  del[a] = "done" /\ phone' = phone
    BY <2>5, CopySteps DEF JoinNext, onCompleted, checkInvitationCode,
       NotCorrect, CheckFailed, ServerAddMember, LoseAdd, addMember,
       AddMemberCaught, DeleteDenied, PushDashboard, QuitApp
  <2>6. ASSUME NEW b \in Attempts, JoinNext(b), ~DeleteDocument(b)
        PROVE  copy'[phone'[a]][k] # entry'[a]
    <3>1. CASE UNCHANGED copy
      BY <2>2, <2>5, <2>6, <3>1 DEF DeletedIsForgotten
    <3>2. CASE /\ phone[b] \in Phones
               /\ copy' = [copy EXCEPT ![phone[b]] =
                             Refreshed(phone[b], entry[b])]
      <4>1. copy'[phone[a]][k] \in {invitationRoom[k], copy[phone[a]][k]}
        BY <3>2 DEF Refreshed
      <4> QED
        BY <2>2, <2>5, <2>6, <4>1
           DEF DeletedIsForgotten, ConsumedCodeStaysConsumed
    <3> QED
      BY <2>6, <3>1, <3>2, CopySteps
  <2>7. CASE UNCHANGED <<phone, copy, del>>
    BY <2>2, <2>7 DEF DeletedIsForgotten
  <2> QED
    BY <2>3, <2>4, <2>6, <2>7
<1> QED
  BY <1>1, <1>2, BookkeepingHolds, GrantMatches, ConsumedStays, PTL DEF Spec

\* A code found after a delete of it was applied comes from a copy of another
\* phone: the server does not have it, nor does the phone that deleted it.
LEMMA FoundAfterDelete ==
  ASSUME Bookkeeping, ConsumedCodeStaysConsumed, DeletedIsForgotten,
         [Next]_vars, NEW a \in Attempts, NEW b \in Attempts,
         ticket'[a] # ticket[a], entry[a] = entry[b], del[b] = "done"
  PROVE  /\ phone[a] # phone[b]
         /\ \E k \in Clubs : copy[phone[a]][k] = entry[a]
         /\ ~Live(entry[a])
<1>1. ticket[a] = Null
  BY TicketStays
<1>2. /\ body[entry[a]].club \in Clubs
      /\ \/ invitationRoom[body[entry[a]].club] = entry[a]
         \/ copy[phone[a]][body[entry[a]].club] = entry[a]
  BY <1>1, TicketFromQuery
<1>3. ~Live(entry[a])
  BY DEF Live, ConsumedCodeStaysConsumed
<1>4. copy[phone[a]][body[entry[a]].club] = entry[a]
  BY <1>2, <1>3 DEF Live
<1> QED
  BY <1>2, <1>3, <1>4 DEF DeletedIsForgotten

\* Once the document of a code is deleted by an attempt that used it, that code
\* is found nowhere but in the copy another phone kept, though its post, its
\* page and other attempts are still under way.
THEOREM NoLateAdmission == Spec => NoAdmissionAfterDelete
<1>1. Bookkeeping /\ ConsumedCodeStaysConsumed /\ DeletedIsForgotten
      /\ [Next]_vars
        => [\A a, b \in Attempts :
              ticket'[a] # ticket[a] /\ entry[a] = entry[b] /\ del[b] = "done"
                => /\ phone[a] # phone[b]
                   /\ \E k \in Clubs : copy[phone[a]][k] = entry[a]]_vars
  BY FoundAfterDelete
<1> QED
  BY <1>1, BookkeepingHolds, ConsumedStays, DeletedForgotten, PTL
     DEF Spec, NoAdmissionAfterDelete

\* The page's "One time invitation code" is true of every run in which no
\* attempt finds a code between another's query and its delete, nor one that
\* the server has no more: these are the only ways to use a code twice.
THEOREM OneTimeUnlessOverlapping ==
    Spec /\ [][OneAtATime /\ CurrentAnswers]_vars => []OneTimeCode
<1> DEFINE Holders == \A a, b \in Attempts :
                        (/\ ticket[a] # Null /\ ticket[b] # Null
                         /\ entry[a] = entry[b]) => a = b
<1>1. Init => Holders
  BY DEF Init
<1>2. Bookkeeping /\ ConsumedCodeStaysConsumed /\ DeletedIsForgotten
      /\ Holders /\ [Next]_vars /\ [OneAtATime /\ CurrentAnswers]_vars
        => Holders'
  <2> SUFFICES ASSUME Bookkeeping, ConsumedCodeStaysConsumed,
                      DeletedIsForgotten, Holders,
                      [Next]_vars, [OneAtATime /\ CurrentAnswers]_vars,
                      NEW a \in Attempts, NEW b \in Attempts, a # b,
                      ticket'[a] # Null, ticket'[b] # Null,
                      entry'[a] = entry'[b]
               PROVE  FALSE
    OBVIOUS
  <2>1. ASSUME NEW x \in Attempts, NEW y \in Attempts, x # y,
               ticket[x] = Null, ticket'[x] # Null, ticket[y] # Null,
               entry'[x] = entry'[y]
        PROVE  FALSE
    <3>1. entry' = entry
      BY <2>1, TicketFromQuery
    <3>2. del[y] = "done" /\ Live(entry[x])
      BY <2>1, <3>1 DEF OneAtATime, CurrentAnswers, vars
    <3> QED
      BY <2>1, <3>1, <3>2, FoundAfterDelete
  <2>2. CASE ticket[a] # Null /\ ticket[b] # Null
    BY <2>2, TicketStays
  <2>3. CASE ticket[a] = Null /\ ticket[b] = Null
    <3>1. PICK c \in Attempts :
            \A x \in Attempts \ {c} : ticket'[x] = ticket[x]
      <4>1. ASSUME ~\E c \in Attempts : JoinNext(c)
            PROVE  UNCHANGED ticket
        BY <4>1 DEF Next, vars, PageNext, OpenPage, countStream, Reload,
           ClosePage, PostNext, sendInvitationCode, LosePost, CodeReturned,
           CodeFailed, joinVars
      <4>2. ASSUME NEW c \in Attempts, JoinNext(c)
            PROVE  \A x \in Attempts \ {c} : ticket'[x] = ticket[x]
        <5>1. CASE checkInvitationCode(c)
          <6>1. PICK t : ticket' = [ticket EXCEPT ![c] = t]
            BY <5>1, QueryFinds
          <6> QED
            BY <6>1 DEF Bookkeeping, TypeOK
        <5>2. CASE ~checkInvitationCode(c)
          BY <4>2, <5>2 DEF JoinNext, onCompleted, NotCorrect, CheckFailed,
             ServerAddMember, LoseAdd, addMember, AddMemberCaught,
             DeleteDocument, DeleteDenied, PushDashboard, QuitApp
        <5> QED
          BY <5>1, <5>2
      <4> QED
        BY <4>1, <4>2
    <3> QED
      BY <2>3, <3>1
  <2> QED
    BY <2>1, <2>2, <2>3
<1>3. Bookkeeping /\ Holders => OneTimeCode
  BY DEF Bookkeeping, AttemptsAreOrdered, OneTimeCode
<1> QED
  BY <1>1, <1>2, <1>3, BookkeepingHolds, ConsumedStays, DeletedForgotten, PTL
     DEF Spec

\* An invitation is lost only at the moment a newer code of its club is stored
\* or the delete of an attempt on its club is applied, never through what
\* happens on another club.
THEOREM LossExplained == Spec => NoUnexplainedLoss
<1> DEFINE Explained(c) ==
      \/ \E d \in Codes : /\ post[d] # "stored" /\ Live(d)'
                          /\ body[d].club = body[c].club
      \/ \E a \in Attempts : /\ del[a] = "sent" /\ del'[a] = "done"
                             /\ body[entry[a]].club = body[c].club
<1>1. Bookkeeping /\ GrantMatchesInvitation /\ [Next]_vars
        => [\A c \in Codes : Live(c) /\ ~Live(c)' => Explained(c)]_vars
  <2> SUFFICES ASSUME Bookkeeping, GrantMatchesInvitation, [Next]_vars,
                      NEW c \in Codes, Live(c), ~Live(c)'
               PROVE  Explained(c)
    OBVIOUS
  <2> USE NullAssumption DEF Bookkeeping, TypeOK
  <2>1. PICK k \in Clubs : invitationRoom[k] = c
    BY DEF Live
  <2>2. body[c].club = k /\ invitationRoom'[k] # c
    BY <2>1 DEF Live, RoomHoldsStoredCodes
  <2>3. ASSUME NEW d \in Codes, sendInvitationCode(d)
        PROVE  Explained(c)
    <3>1. /\ post[d] = "sent" /\ body[d] \in Body
          /\ invitationRoom' = [invitationRoom EXCEPT ![body[d].club] = d]
      BY <2>3 DEF sendInvitationCode, PostsHaveBodies
    <3>2. body[d].club = k
      BY <2>1, <2>2, <3>1
    <3>3. Live(d)'
      BY <3>1, <3>2 DEF Live
    <3> QED
      BY <2>2, <3>1, <3>2, <3>3
  <2>4. ASSUME NEW a \in Attempts, DeleteDocument(a)
        PROVE  Explained(c)
    <3>1. /\ del[a] = "sent" /\ del'[a] = "done"
          /\ invitationRoom' = [invitationRoom EXCEPT ![ticket[a].id] = Null]
      BY <2>4 DEF DeleteDocument
    <3>2. ticket[a].id = k
      BY <2>1, <2>2, <3>1
    <3>3. body[entry[a]].club = k
      BY <3>1, <3>2 DEF AttemptsAreOrdered, GrantMatchesInvitation
    <3> QED
      BY <2>2, <3>1, <3>3
  <2> QED
    BY <2>1, <2>2, <2>3, <2>4, RoomSteps
<1> QED
  BY <1>1, BookkeepingHolds, GrantMatches, PTL DEF Spec, NoUnexplainedLoss

\* The screen never shows a code the server does not have, nor one of another
\* page, club or share count.
THEOREM ShownStored == Spec => []ShownCodeIsStored
<1>1. Init => ShownCodeIsStored
  BY DEF Init, ShownCodeIsStored
<1>2. Bookkeeping /\ ShownCodeIsStored /\ [Next]_vars => ShownCodeIsStored'
  <2> SUFFICES ASSUME Bookkeeping, ShownCodeIsStored, [Next]_vars,
                      NEW q \in Pages, page'[q] # Null,
                      page'[q].shown \in Codes
               PROVE  /\ post'[page'[q].shown] = "stored"
                      /\ body'[page'[q].shown] =
                           [page |-> q, club |-> page'[q].club,
                            shares |-> page'[q].shares]
    BY DEF ShownCodeIsStored
  <2> USE DEF Bookkeeping, TypeOK
  <2>1. CASE /\ page[q] # Null /\ page'[q].shown = page[q].shown
             /\ page'[q].club = page[q].club
             /\ page'[q].shares = page[q].shares
    BY <2>1, StoredStays DEF ShownCodeIsStored
  <2>2. ASSUME NEW p \in Pages, NEW k \in Clubs, NEW s \in Shares,
               OpenPage(p, k, s)
        PROVE  page'[q] = page[q] /\ page[q] # Null
    BY <2>2, NullAssumption DEF OpenPage
  <2>3. ASSUME NEW p \in Pages, countStream(p) \/ Reload(p)
        PROVE  /\ page[q] # Null /\ page'[q].shown = page[q].shown
               /\ page'[q].club = page[q].club
               /\ page'[q].shares = page[q].shares
    <3>1. CASE countStream(p)
      BY <3>1 DEF countStream, PageState
    <3>2. CASE Reload(p)
      <4>1. PICK c \in Codes :
              page' = [page EXCEPT ![p].pending = c, ![p].count = CountFrom]
        BY <3>2 DEF Reload
      <4> DEFINE built == [page[p] EXCEPT !.pending = c]
      <4>2. page[p] \in PageState
        BY <3>2 DEF Reload
      <4>3. /\ built \in PageState /\ built.shown = page[p].shown
            /\ built.club = page[p].club /\ built.shares = page[p].shares
        BY <4>2 DEF PageState
      <4>4. page'[q] = IF q = p THEN [built EXCEPT !.count = CountFrom]
                       ELSE page[q]
        BY <4>1
      <4> HIDE DEF built
      <4> QED
        BY <3>2, <4>3, <4>4 DEF Reload, PageState
    <3> QED
      BY <2>3, <3>1, <3>2
  <2>4. ASSUME NEW p \in Pages, ClosePage(p)
        PROVE  page'[q] = page[q] /\ page[q] # Null
    BY <2>4 DEF ClosePage
  <2>5. ASSUME NEW c \in Codes, CodeReturned(c)
        PROVE  \/ page'[q] = page[q] /\ page[q] # Null
               \/ /\ post[c] = "stored" /\ page'[q].shown = c
                  /\ body[c] = [page |-> q, club |-> page'[q].club,
                                shares |-> page'[q].shares]
    <3>1. body[c] \in Body
      BY <2>5 DEF CodeReturned, PostsHaveBodies
    <3> DEFINE p == body[c].page
               idle == [page[p] EXCEPT !.pending = Null]
               told == [idle EXCEPT !.shown = c]
    <3>2. p \in Pages /\ post[c] = "stored"
      BY <2>5, <3>1 DEF CodeReturned, Body
    <3>3. CASE page[p] # Null /\ page[p].pending = c
      <4>1. /\ page[p] \in PageState
            /\ body[c] = [page |-> p, club |-> page[p].club,
                          shares |-> page[p].shares]
        BY <3>2, <3>3, NullAssumption DEF PagesBuildOnTheirPosts
      <4>2. /\ idle \in PageState
            /\ idle.club = page[p].club /\ idle.shares = page[p].shares
        BY <4>1 DEF PageState
      <4>3. page'[q] = IF q = p THEN [told EXCEPT !.count = CountFrom]
                       ELSE page[q]
        BY <2>5, <3>2, <3>3 DEF CodeReturned, Show
      <4> HIDE DEF idle
      <4>4. /\ told \in PageState /\ told.shown = c
            /\ told.club = page[p].club /\ told.shares = page[p].shares
        BY <4>2 DEF PageState
      <4> HIDE DEF told
      <4>5. LET r == [told EXCEPT !.count = CountFrom]
            IN  /\ r.shown = c /\ r.club = page[p].club
                /\ r.shares = page[p].shares
        BY <4>4 DEF PageState
      <4> HIDE DEF p
      <4> QED
        BY <3>2, <4>1, <4>3, <4>5
    <3>4. CASE ~(page[p] # Null /\ page[p].pending = c)
      BY <2>5, <3>4 DEF CodeReturned, Show
    <3> QED
      BY <3>3, <3>4
  <2>6. ASSUME NEW c \in Codes, CodeFailed(c)
        PROVE  page'[q] = page[q] /\ page[q] # Null
    <3>1. body[c] \in Body
      BY <2>6 DEF CodeFailed, PostsHaveBodies
    <3> QED
      BY <2>6, <3>1, NullAssumption DEF CodeFailed, Show, PageState, Body
  <2>7. ASSUME \/ UNCHANGED vars
               \/ \E c \in Codes : sendInvitationCode(c) \/ LosePost(c)
               \/ \E a \in Attempts : JoinNext(a)
        PROVE  page'[q] = page[q] /\ page[q] # Null
    BY <2>7 DEF vars, sendInvitationCode, LosePost, JoinNext, onCompleted,
       checkInvitationCode, NotCorrect, CheckFailed, ServerAddMember, LoseAdd,
       addMember, AddMemberCaught, DeleteDocument, DeleteDenied,
       PushDashboard, QuitApp, pageVars
  <2> QED
    BY <2>1, <2>2, <2>3, <2>4, <2>5, <2>6, <2>7, StoredStays
       DEF Next, PageNext, PostNext
<1> QED
  BY <1>1, <1>2, BookkeepingHolds, PTL DEF Spec

-----------------------------------------------------------------------------
\* The refinement mapping, by name.
Status == [c \in Codes |-> IF post[c] # "stored" THEN "unused"
                           ELSE IF \E k \in Clubs : invitationRoom[k] = c
                                THEN "live" ELSE "gone"]
Known == [h \in Phones |-> {c \in Codes : \E k \in Clubs : copy[h][k] = c}]
Holds == [a \in Attempts |-> IF ticket[a] = Null THEN Null ELSE entry[a]]
Granted == {a \in Attempts : add[a] = "done"}

\* The mapped status is a function on the codes, before and after a step.
LEMMA StatusIsFunction ==
  /\ Status = [c \in Codes |-> Status[c]]
  /\ Status' = [c \in Codes |-> Status'[c]]
BY DEF Status

\* The codes of a phone whose copies stay, are cleared or are brought up to
\* date are some it knew and some that are live.
LEMMA PhoneLearns ==
  ASSUME Bookkeeping, NEW h \in Phones,
         copy' \in [Phones -> [Clubs -> Codes \cup {Null}]],
         \A g \in Phones \ {h} : copy'[g] = copy[g],
         \A k \in Clubs : copy'[h][k] \in {copy[h][k], invitationRoom[k], Null}
  PROVE  \E new \in SUBSET {c \in Codes : Status[c] = "live"},
            old \in SUBSET Known[h] :
           Known' = [Known EXCEPT ![h] = new \cup old]
<1> USE NullAssumption DEF Bookkeeping, TypeOK
<1> DEFINE told == {c \in Known'[h] : Status[c] = "live"}
           kept == Known'[h] \cap Known[h]
<1>1. ASSUME NEW c \in Known'[h]
      PROVE  c \in Codes /\ (Status[c] = "live" \/ c \in Known[h])
  <2>1. c \in Codes
    BY DEF Known
  <2>2. PICK k \in Clubs : copy'[h][k] = c
    BY DEF Known
  <2>3. CASE copy[h][k] = c
    BY <2>1, <2>3 DEF Known
  <2>4. CASE invitationRoom[k] = c
    BY <2>1, <2>4 DEF Status, RoomHoldsStoredCodes
  <2> QED
    BY <2>1, <2>2, <2>3, <2>4
<1>2. /\ told \in SUBSET {c \in Codes : Status[c] = "live"}
      /\ kept \in SUBSET Known[h]
  BY <1>1
<1>3. Known'[h] = told \cup kept
  BY <1>1
<1>4. \A g \in Phones \ {h} : Known'[g] = Known[g]
  BY DEF Known
<1>5. /\ Known = [g \in Phones |-> Known[g]]
      /\ Known' = [g \in Phones |-> Known'[g]]
  BY DEF Known
<1> HIDE DEF told, kept
<1>6. Known' = [Known EXCEPT ![h] = told \cup kept]
  BY <1>3, <1>4, <1>5
<1> QED
  BY <1>2, <1>6

\* A query tells the phone what it may learn, whoever answers it.
LEMMA QueryLearns ==
  ASSUME Bookkeeping, NEW a \in Attempts, NEW h \in Phones, h = phone[a],
         checkInvitationCode(a) \/ NotCorrect(a)
  PROVE  /\ \E new \in SUBSET {c \in Codes : Status[c] = "live"},
               old \in SUBSET Known[h] :
              Known' = [Known EXCEPT ![h] = new \cup old]
         /\ phone' = phone /\ post' = post /\ entry' = entry
         /\ invitationRoom' = invitationRoom
<1> USE DEF Bookkeeping, TypeOK
<1>1. /\ entry[a] \in Codes
      /\ UNCHANGED <<phone, post, body, invitationRoom, entry>>
      /\ UNCHANGED copy \/ copy' = [copy EXCEPT ![h] = Refreshed(h, entry[a])]
  BY DEF checkInvitationCode, NotCorrect, get, pageVars, AttemptsAreOrdered
<1>2. /\ copy' \in [Phones -> [Clubs -> Codes \cup {Null}]]
      /\ \A g \in Phones \ {h} : copy'[g] = copy[g]
      /\ \A k \in Clubs :
           copy'[h][k] \in {copy[h][k], invitationRoom[k], Null}
  <2>1. CASE UNCHANGED copy
    BY <1>1, <2>1
  <2>2. CASE copy' = [copy EXCEPT ![h] = Refreshed(h, entry[a])]
    <3>0. PICK e \in Codes : e = entry[a]
      BY <1>1
    <3>1. copy' \in [Phones -> [Clubs -> Codes \cup {Null}]]
      BY <1>1, <2>2, <3>0, RefreshedCopies
    <3>2. copy'[h] = Refreshed(h, entry[a])
      BY <1>1, <2>2
    <3> QED
      BY <1>1, <2>2, <3>1, <3>2 DEF Refreshed
  <2> QED
    BY <1>1, <2>1, <2>2
<1> HIDE DEF Bookkeeping, TypeOK
<1> QED
  BY <1>1, <1>2, PhoneLearns

\* The program's codes live the life CodeLifecycle describes: a step of the
\* pages, the server, Firestore or an attempt issues, retires, takes or grants,
\* or leaves all codes as they are.
THEOREM ImplementsCodeLifecycle == Spec => ImplementsLifecycle
<1>1. Init => Lifecycle!Init
  BY NullAssumption DEF Init, Lifecycle!Init
<1>2. Bookkeeping /\ [Next]_vars => [Lifecycle!Next]_(Lifecycle!vars)
  <2> SUFFICES ASSUME Bookkeeping, [Next]_vars
               PROVE  [Lifecycle!Next]_(Lifecycle!vars)
    OBVIOUS
  <2> USE NullAssumption DEF Bookkeeping, TypeOK
  <2>1. ASSUME UNCHANGED <<Status, phone, Known, Holds, Granted>>
        PROVE  UNCHANGED Lifecycle!vars
    BY <2>1 DEF Lifecycle!vars, Status, Known, Holds, Granted
  <2>2. ASSUME NEW p \in Pages, PageNext(p)
        PROVE  UNCHANGED <<Status, phone, Known, Holds, Granted>>
    <3>1. UNCHANGED <<invitationRoom, phone, copy, ticket, entry, add>>
      BY <2>2 DEF PageNext, OpenPage, countStream, Reload,
         ClosePage, joinVars
    <3>2. ASSUME NEW c \in Codes
          PROVE  post'[c] = "stored" <=> post[c] = "stored"
      <4>1. CASE \/ \E k \in Clubs, s \in Shares : OpenPage(p, k, s)
                 \/ Reload(p)
        <5>1. PICK d \in Codes : /\ post[d] = "unused"
                                /\ post' = [post EXCEPT ![d] = "sent"]
          BY <4>1 DEF OpenPage, Reload, createInvitationCode
        <5> QED
          BY <5>1
      <4>2. CASE countStream(p) \/ ClosePage(p)
        BY <4>2 DEF countStream, ClosePage
      <4> QED
        BY <2>2, <4>1, <4>2 DEF PageNext
    <3> QED
      BY <3>1, <3>2 DEF Status, Known, Holds, Granted
  <2>3. ASSUME NEW c \in Codes, sendInvitationCode(c)
        PROVE  Lifecycle!Issue(c)
    <3> DEFINE k == body[c].club
               d == invitationRoom[k]
    <3>1. k \in Clubs
      BY <2>3 DEF sendInvitationCode, PostsHaveBodies, Body
    <3>2. /\ post[c] = "sent" /\ post' = [post EXCEPT ![c] = "stored"]
          /\ invitationRoom' = [invitationRoom EXCEPT ![k] = c]
          /\ UNCHANGED <<phone, copy, ticket, entry, add>>
      BY <2>3 DEF sendInvitationCode, joinVars
    <3>3. UNCHANGED <<phone, Known, Holds, Granted>> /\ Status[c] = "unused"
      BY <3>2 DEF Status, Known, Holds, Granted
    <3> HIDE DEF k
    <3>4. CASE d = Null
      <4>1. Status' = [Status EXCEPT ![c] = "live"]
        <5>1. Status'[c] = "live"
          BY <3>1, <3>2 DEF Status
        <5>2. ASSUME NEW e \in Codes \ {c}
              PROVE  Status'[e] = Status[e]
          BY <3>1, <3>2, <3>4 DEF Status
        <5> QED
          BY <5>1, <5>2, StatusIsFunction
      <4> QED
        BY <3>3, <4>1 DEF Lifecycle!Issue, Status, Known, Holds, Granted
    <3>5. CASE d # Null
      <4>1. d \in Codes /\ post[d] = "stored" /\ d # c
        BY <3>1, <3>2, <3>5 DEF RoomHoldsStoredCodes
      <4>2. \A j \in Clubs : invitationRoom[j] = d => j = k
        BY <3>1, <3>5, <4>1 DEF RoomHoldsStoredCodes
      <4>3. Status[d] = "live"
        BY <3>1, <4>1 DEF Status
      <4>4. Status' = [Status EXCEPT ![c] = "live", ![d] = "gone"]
        <5>1. Status'[c] = "live"
          BY <3>1, <3>2 DEF Status
        <5>2. Status'[d] = "gone"
          BY <3>1, <3>2, <4>1, <4>2 DEF Status
        <5>3. ASSUME NEW e \in Codes \ {c, d}
              PROVE  Status'[e] = Status[e]
          BY <3>1, <3>2 DEF Status
        <5> QED
          BY <4>1, <5>1, <5>2, <5>3, StatusIsFunction
      <4> QED
        BY <3>3, <4>1, <4>3, <4>4
           DEF Lifecycle!Issue, Status, Known, Holds, Granted
    <3> QED
      BY <3>4, <3>5
  <2>4. ASSUME NEW c \in Codes, LosePost(c) \/ CodeReturned(c) \/ CodeFailed(c)
        PROVE  UNCHANGED <<Status, phone, Known, Holds, Granted>>
    <3>1. UNCHANGED <<invitationRoom, phone, copy, ticket, entry, add>>
      BY <2>4 DEF LosePost, CodeReturned, CodeFailed, joinVars
    <3>2. \A e \in Codes : post'[e] = "stored" <=> post[e] = "stored"
      BY <2>4 DEF LosePost, CodeReturned, CodeFailed
    <3> QED
      BY <3>1, <3>2 DEF Status, Known, Holds, Granted
  <2>5. ASSUME NEW a \in Attempts, checkInvitationCode(a)
        PROVE  \E c \in Codes : Lifecycle!Take(a, c)
    <3> DEFINE e == entry[a]
    <3>1. /\ e \in Codes /\ post[e] = "stored" /\ body[e] \in Body
          /\ \/ invitationRoom[body[e].club] = e
             \/ copy[phone[a]][body[e].club] = e
          /\ ticket' = [ticket EXCEPT ![a] = [id |-> body[e].club,
                                              club |-> body[e].club,
                                              shares |-> body[e].shares]]
      BY <2>5, QueryFinds
    <3>2. /\ ticket[a] = Null /\ add[a] = "none"
          /\ add' = [add EXCEPT ![a] = "sent"]
      BY <2>5 DEF checkInvitationCode, AttemptsAreOrdered
    <3>a. PICK h \in Phones : h = phone[a]
      OBVIOUS
    <3>b. /\ \E new \in SUBSET {c \in Codes : Status[c] = "live"},
               old \in SUBSET Known[h] :
              Known' = [Known EXCEPT ![h] = new \cup old]
          /\ phone' = phone /\ post' = post /\ entry' = entry
          /\ invitationRoom' = invitationRoom
      BY <2>5, <3>a, QueryLearns
    <3>3. /\ Lifecycle!Learn(phone[a])
          /\ phone[a] \in Phones /\ phone' = phone
          /\ post' = post /\ invitationRoom' = invitationRoom /\ entry' = entry
      BY <3>a, <3>b DEF Lifecycle!Learn, Status, Known
    <3>4. Status' = Status /\ Granted' = Granted
      BY <3>2, <3>3 DEF Status, Granted
    <3>5. Status[e] = "live" \/ e \in Known[phone[a]]
      BY <3>1, <3>3 DEF Status, Known, Body
    <3>6. ticket'[a] # Null
      <4>1. ticket'[a] \in Ticket
        BY <3>1 DEF Ticket, Body
      <4> QED
        BY <4>1
    <3>7. Holds[a] = Null /\ Holds' = [Holds EXCEPT ![a] = e]
      BY <3>1, <3>2, <3>3, <3>6 DEF Holds
    <3>8. PICK c \in Codes : c = e
      BY <3>1
    <3>9. Lifecycle!Take(a, c)
      BY <3>3, <3>4, <3>5, <3>7, <3>8
         DEF Lifecycle!Take, Status, Known, Holds, Granted
    <3> QED
      BY <3>9
  <2>6. ASSUME NEW a \in Attempts, ServerAddMember(a)
        PROVE  Lifecycle!Grant(a)
    <3>1. /\ ticket[a] # Null /\ entry[a] # Null /\ add[a] = "sent"
          /\ add' = [add EXCEPT ![a] = "done"]
          /\ post' = post /\ invitationRoom' = invitationRoom
          /\ entry' = entry /\ ticket' = ticket
          /\ UNCHANGED <<phone, copy>>
      BY <2>6 DEF ServerAddMember, AttemptsAreOrdered, pageVars, phoneVars
    <3>2. /\ Holds[a] # Null /\ a \notin Granted
          /\ Granted' = Granted \cup {a}
          /\ UNCHANGED <<Status, phone, Known, Holds>>
      BY <3>1 DEF Status, Known, Holds, Granted
    <3> QED
      BY <3>2 DEF Lifecycle!Grant, Status, Known, Holds, Granted
  <2>7. ASSUME NEW a \in Attempts, DeleteDocument(a)
        PROVE  \E h \in Phones :
                 Lifecycle!Hear(h) \/ \E c \in Codes : Lifecycle!Retire(c, h)
    <3>a. PICK h \in Phones : h = phone[a]
      OBVIOUS
    <3>b. PICK k \in Clubs : k = ticket[a].id
      BY <2>7 DEF DeleteDocument, AttemptsAreOrdered, Ticket
    <3> DEFINE d == invitationRoom[k]
    <3>1. /\ invitationRoom' = [invitationRoom EXCEPT ![k] = Null]
          /\ copy' = [copy EXCEPT ![h][k] = Null]
          /\ post' = post /\ entry' = entry /\ ticket' = ticket /\ add' = add
          /\ phone' = phone
      BY <2>7, <3>a, <3>b DEF DeleteDocument, pageVars
    <3>2. UNCHANGED <<phone, Holds, Granted>>
      BY <3>1 DEF Holds, Granted
    <3>3. Lifecycle!Learn(h)
      <4>1. /\ copy' \in [Phones -> [Clubs -> Codes \cup {Null}]]
            /\ \A g \in Phones \ {h} : copy'[g] = copy[g]
            /\ \A j \in Clubs :
                 copy'[h][j] \in {copy[h][j], invitationRoom[j], Null}
        BY <3>1
      <4>2. \E new \in SUBSET {c \in Codes : Status[c] = "live"},
               old \in SUBSET Known[h] :
              Known' = [Known EXCEPT ![h] = new \cup old]
        <5> HIDE DEF Bookkeeping, TypeOK
        <5> QED
          BY <4>1, PhoneLearns
      <4> QED
        BY <4>2 DEF Lifecycle!Learn, Status, Known
    <3>4. CASE d = Null
      <4>1. Status' = Status
        BY <3>1, <3>4 DEF Status
      <4>2. Lifecycle!Hear(h)
        BY <3>2, <3>3, <4>1 DEF Lifecycle!Hear, Status, Holds, Granted
      <4> QED
        BY <4>2
    <3>5. CASE d # Null
      <4>0. PICK c \in Codes : c = d
        BY <3>5
      <4>1. d \in Codes /\ post[d] = "stored" /\ body[d].club = k
        BY <3>5 DEF RoomHoldsStoredCodes
      <4>2. \A j \in Clubs : invitationRoom[j] = d => j = k
        BY <3>5, <4>1 DEF RoomHoldsStoredCodes
      <4>3. Status[d] = "live"
        BY <3>1, <4>1 DEF Status
      <4>4. Status' = [Status EXCEPT ![d] = "gone"]
        <5>1. Status'[d] = "gone"
          BY <3>1, <4>1, <4>2 DEF Status
        <5>2. ASSUME NEW e \in Codes \ {d}
              PROVE  Status'[e] = Status[e]
          BY <3>1 DEF Status
        <5> QED
          BY <4>1, <5>1, <5>2, StatusIsFunction
      <4>5. Lifecycle!Retire(c, h)
        BY <3>2, <3>3, <4>0, <4>3, <4>4
           DEF Lifecycle!Retire, Status, Holds, Granted
      <4> QED
        BY <4>5
    <3> QED
      BY <3>4, <3>5
  <2>8. ASSUME NEW a \in Attempts,
               \/ \E c \in Codes : onCompleted(a, c)
               \/ CheckFailed(a) \/ LoseAdd(a)
               \/ addMember(a) \/ AddMemberCaught(a) \/ DeleteDenied(a)
               \/ PushDashboard(a) \/ QuitApp(a)
        PROVE  UNCHANGED <<Status, phone, Known, Holds, Granted>>
    <3>1. /\ post' = post /\ invitationRoom' = invitationRoom
          /\ ticket' = ticket /\ UNCHANGED <<phone, copy>>
      BY <2>8 DEF onCompleted, CheckFailed, LoseAdd, addMember,
         AddMemberCaught, DeleteDenied, PushDashboard, QuitApp, pageVars,
         phoneVars
    <3>2. \A b \in Attempts : add'[b] = "done" <=> add[b] = "done"
      BY <2>8 DEF onCompleted, CheckFailed, LoseAdd, addMember,
         AddMemberCaught, DeleteDenied, PushDashboard, QuitApp
    <3>3. \A b \in Attempts : ticket[b] # Null => entry'[b] = entry[b]
      BY TicketStays
    <3> QED
      BY <3>1, <3>2, <3>3 DEF Status, Known, Holds, Granted
  <2>a. ASSUME NEW a \in Attempts, NotCorrect(a)
        PROVE  \E h \in Phones : Lifecycle!Hear(h)
    <3>a. PICK h \in Phones : h = phone[a]
      OBVIOUS
    <3>1. /\ \E new \in SUBSET {c \in Codes : Status[c] = "live"},
               old \in SUBSET Known[h] :
              Known' = [Known EXCEPT ![h] = new \cup old]
          /\ phone' = phone /\ post' = post /\ entry' = entry
          /\ invitationRoom' = invitationRoom
      BY <2>a, <3>a, QueryLearns
    <3>2. ticket' = ticket /\ add' = add
      BY <2>a DEF NotCorrect
    <3>3. UNCHANGED <<phone, Status, Holds, Granted>>
      BY <3>1, <3>2 DEF Status, Holds, Granted
    <3>4. Lifecycle!Learn(h)
      BY <3>1 DEF Lifecycle!Learn, Status, Known
    <3>5. Lifecycle!Hear(h)
      BY <3>3, <3>4 DEF Lifecycle!Hear, Status, Holds, Granted
    <3> QED
      BY <3>5
  <2>9. CASE UNCHANGED vars
    BY <2>9 DEF vars, Lifecycle!vars
  <2> HIDE NullAssumption DEF Bookkeeping, TypeOK
  <2> DEFINE Step == [Lifecycle!Next]_(Lifecycle!vars)
  <2>10. ASSUME NEW p \in Pages, PageNext(p)
         PROVE  Step
    BY <2>1, <2>2, <2>10
  <2>11. ASSUME NEW c \in Codes, PostNext(c)
         PROVE  Step
    BY <2>1, <2>3, <2>4, <2>11 DEF PostNext, Lifecycle!Next
  <2>12. ASSUME NEW a \in Attempts, JoinNext(a)
         PROVE  Step
    <3>1. CASE checkInvitationCode(a)
      BY <2>5, <3>1 DEF Lifecycle!Next
    <3>2. CASE ServerAddMember(a)
      BY <2>6, <3>2 DEF Lifecycle!Next
    <3>3. CASE DeleteDocument(a) \/ NotCorrect(a)
      BY <2>7, <2>a, <3>3 DEF Lifecycle!Next
    <3>4. CASE /\ ~checkInvitationCode(a) /\ ~ServerAddMember(a)
               /\ ~DeleteDocument(a) /\ ~NotCorrect(a)
      BY <2>1, <2>8, <2>12, <3>4 DEF JoinNext
    <3> QED
      BY <3>1, <3>2, <3>3, <3>4
  <2> HIDE DEF Step
  <2>13. ASSUME Next
         PROVE  Step
    BY <2>10, <2>11, <2>12, <2>13 DEF Next
  <2>14. CASE UNCHANGED vars
    BY <2>9, <2>14 DEF Step
  <2> QED
    BY <2>13, <2>14 DEF Step
<1> QED
  BY <1>1, <1>2, BookkeepingHolds, PTL DEF Spec, ImplementsLifecycle,
     Lifecycle!Spec
=============================================================================
