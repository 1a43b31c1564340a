-------------------------- MODULE ClubCreationProofs --------------------------
(***************************************************************************)
(* Creations of clubs keep their creators and their shares, for any number *)
(* of clubs, pages and users: the invariants are proved club by club.      *)
(***************************************************************************)
EXTENDS ClubCreation, TLAPS

\* Everything the invariants say of one club.
ClubInv(c) ==
    /\ InvOf(c)
    /\ payment[c] # Null /\ c \notin away =>
         payment[c] = [email |-> creation[c].createdBy,
                       shares |-> creation[c].picked]
    /\ c \in clubs /\ payment[c] = Null =>
         pc[c] = "setting" \/ post[c] # Null \/ c \in interrupted

\* The variables ClubInv(c) reads, and whether they have changed for c.
SameFor(c) ==
    /\ creation'[c] = creation[c] /\ pc'[c] = pc[c]
    /\ post'[c] = post[c] /\ payment'[c] = payment[c]
    /\ c \in writes' <=> c \in writes
    /\ c \in clubs' <=> c \in clubs
    /\ c \in away' <=> c \in away
    /\ c \in interrupted' <=> c \in interrupted

\* The invariant is the type invariant and ClubInv of each club.
LEMMA InvByClub ==
    TypeOK => (CreationInv <=> \A c \in Clubs : ClubInv(c))
  BY DEF TypeOK, CreationInv, ClubInv, EntryIsCreators, MissingEntryExplained

\* The same of the next state.
LEMMA InvByClubNext ==
    TypeOK' => (CreationInv' <=> \A c \in Clubs : ClubInv(c)')
  BY DEF TypeOK, CreationInv, ClubInv, EntryIsCreators, MissingEntryExplained

\* A step that changes nothing of a club, nor the user, keeps its invariant.
LEMMA SameKeeps ==
    ASSUME NEW c \in Clubs, ClubInv(c), SameFor(c), user' = user
    PROVE  ClubInv(c)'
  BY DEF ClubInv, InvOf, SameFor

\* No record the model uses is Null.
LEMMA NullIsNoRecord ==
    Null \notin Page /\ Null \notin Entry /\ Null \notin Creation
  <1>1. 1..Items \subseteq Nat /\ 0..(Items - 1) \subseteq Nat
    BY ItemsAssumption
  <1>2. /\ Page \subseteq [admin: Emails, dated: BOOLEAN, selected: Nat,
                           sheet: BOOLEAN]
        /\ Entry \subseteq [email: Emails, shares: Nat]
        /\ Creation \subseteq [createdBy: Emails, by: Emails \cup {Null},
                               shares: Nat, picked: Nat]
    BY <1>1 DEF Page, Entry, Creation
  <1>. QED BY <1>2, NullAssumption

\* The steps of the CreateClub page keep the types.
LEMMA FormTyped ==
    ASSUME TypeOK, Form PROVE TypeOK'
  <1> USE DEF TypeOK, creationVars
  <1> PICK p \in Pages :
        \/ OpenCreateClub(p)
        \/ onConfirm(p)
        \/ Create(p)
        \/ \E v \in 0..(Items - 1) : onSelectedItemChange(p, v)
        \/ \E c \in Clubs : Continue(p, c)
    BY DEF Form
  <1>0. 0 \in 0..(Items - 1)
    BY ItemsAssumption
  <1>1. page[p] # Null => page[p] \in Page
    OBVIOUS
  <1>2. CASE OpenCreateClub(p)
    <2>1. [admin |-> user, dated |-> FALSE, selected |-> 0, sheet |-> FALSE]
            \in Page
      BY <1>0, <1>2 DEF OpenCreateClub, Page
    <2>. QED BY <1>2, <2>1 DEF OpenCreateClub
  <1>3. CASE onConfirm(p)
    <2>1. [page[p] EXCEPT !.dated = TRUE] \in Page
      BY <1>1, <1>3 DEF onConfirm, Page
    <2>. QED BY <1>3, <2>1 DEF onConfirm
  <1>4. CASE Create(p)
    <2>1. [page[p] EXCEPT !.sheet = TRUE] \in Page
      BY <1>1, <1>4 DEF Create, Page
    <2>. QED BY <1>4, <2>1 DEF Create
  <1>5. ASSUME NEW v \in 0..(Items - 1), onSelectedItemChange(p, v)
        PROVE  TypeOK'
    <2>1. [page[p] EXCEPT !.selected = v] \in Page
      BY <1>1, <1>5 DEF onSelectedItemChange, Page
    <2>. QED BY <1>5, <2>1 DEF onSelectedItemChange
  <1>6. ASSUME NEW c \in Clubs, Continue(p, c) PROVE TypeOK'
    <2>1. page[p] \in Page
      BY <1>1, <1>6 DEF Continue
    <2>2. [page[p] EXCEPT !.sheet = FALSE] \in Page
      BY <2>1 DEF Page
    <2>3. page[p].selected + 1 \in 1..Items
      BY <2>1, ItemsAssumption DEF Page
    <2>4. [createdBy |-> page[p].admin, by |-> user,
           shares |-> shares(page[p].selected),
           picked |-> Label(page[p].selected)] \in Creation
      BY <2>1, <2>3 DEF Page, Creation, shares, Label
    <2>. QED BY <1>6, <2>2, <2>4 DEF Continue, createClub
  <1>. QED BY <1>2, <1>3, <1>4, <1>5, <1>6

\* The steps of createClub and of the server keep the types.
LEMMA ServerTyped ==
    ASSUME TypeOK, CreationInv, Server PROVE TypeOK'
  <1> USE DEF TypeOK
  <1> PICK c \in Clubs :
        \/ SetApplied(c) \/ SetRefused(c) \/ addMember(c)
        \/ AddMemberHandled(c) \/ AddMemberLost(c) \/ AddMemberEnds(c)
    BY DEF Server
  <1>1. CASE SetApplied(c) BY <1>1 DEF SetApplied
  <1>2. CASE SetRefused(c) BY <1>2 DEF SetRefused
  <1>3. CASE addMember(c)
    <2>1. creation[c] \in Creation
      BY <1>3 DEF addMember, CreationInv, InvOf
    <2>2. user # Null =>
            [email |-> user, shares |-> creation[c].shares] \in Entry
      BY <2>1 DEF Creation, Entry
    <2>. QED BY <1>3, <2>2 DEF addMember
  <1>4. CASE AddMemberHandled(c) BY <1>4 DEF AddMemberHandled
  <1>5. CASE AddMemberLost(c) BY <1>5 DEF AddMemberLost
  <1>6. CASE AddMemberEnds(c) BY <1>6 DEF AddMemberEnds
  <1>. QED BY <1>1, <1>2, <1>3, <1>4, <1>5, <1>6

\* The steps of the club page keep the types and everything else.
LEMMA DetailsTyped ==
    ASSUME TypeOK, Details PROVE view' \in View \cup {Null} /\ pageUnchanged
  <1> USE DEF TypeOK, View, Snapshot
  <1>1. ASSUME NEW c \in Clubs, OpenClubDetails(c)
        PROVE  view' \in View \cup {Null} /\ pageUnchanged
    BY <1>1 DEF OpenClubDetails
  <1>2. CASE Back BY <1>2 DEF Back
  <1>3. CASE ClubArrives BY <1>3 DEF ClubArrives
  <1>4. CASE ClubMissing BY <1>4 DEF ClubMissing
  <1>5. CASE PaymentsArrive BY <1>5 DEF PaymentsArrive
  <1>6. CASE PaymentsMissing BY <1>6 DEF PaymentsMissing
  <1>. QED BY <1>1, <1>2, <1>3, <1>4, <1>5, <1>6 DEF Details

\* The steps of the CreateClub page keep every club's invariant; Continue is
\* the only one that starts a creation, with the shares the picker shows.
LEMMA FormKeeps ==
    ASSUME TypeOK, Form, NEW c \in Clubs, ClubInv(c) PROVE ClubInv(c)'
  <1> USE DEF TypeOK
  <1>1. ASSUME NEW p \in Pages, NEW d \in Clubs, Continue(p, d)
        PROVE  ClubInv(c)'
    <2>1. CASE c # d
      <3>1. SameFor(c) /\ user' = user
        BY <1>1, <2>1 DEF Continue, createClub, SameFor
      <3>. QED BY <3>1, SameKeeps
    <2>2. CASE c = d
      <3>1. creation[c] = Null
        BY <1>1, <2>2 DEF Continue
      <3>2. /\ c \notin writes \cup clubs /\ post[c] = Null
            /\ payment[c] = Null /\ c \notin away
        BY <3>1 DEF ClubInv, InvOf
      <3>3. /\ creation'[c] = [createdBy |-> page[p].admin, by |-> user,
                               shares |-> shares(page[p].selected),
                               picked |-> Label(page[p].selected)]
            /\ pc'[c] = "setting" /\ post'[c] = Null /\ payment'[c] = Null
            /\ clubs' = clubs /\ user' = user
            /\ c \notin away' => user = page[p].admin
        BY <1>1, <2>2, <3>2 DEF Continue, createClub
      <3>4. creation'[c] # Null
        <4>1. page[p] \in Page
          BY <1>1 DEF Continue
        <4>2. page[p].selected + 1 \in 1..Items
          BY <4>1, ItemsAssumption DEF Page
        <4>3. creation'[c] \in Creation
          BY <3>3, <4>1, <4>2 DEF Page, Creation, shares, Label
        <4>. QED BY <4>3, NullIsNoRecord
      <3>5. /\ creation'[c].shares = creation'[c].picked
            /\ creation'[c].createdBy = page[p].admin
        BY <3>3 DEF shares, Label
      <3>. QED BY <3>2, <3>3, <3>4, <3>5 DEF ClubInv, InvOf
    <2>. QED BY <2>1, <2>2
  <1>2. ASSUME UNCHANGED <<user, view, creationVars>> PROVE ClubInv(c)'
    <2>1. SameFor(c) /\ user' = user
      BY <1>2 DEF creationVars, SameFor
    <2>. QED BY <2>1, SameKeeps
  <1>. QED
    BY <1>1, <1>2
    DEF Form, OpenCreateClub, onConfirm, Create, onSelectedItemChange

\* The steps of createClub and of the server keep every club's invariant.
LEMMA ServerKeeps ==
    ASSUME TypeOK, Server, NEW c \in Clubs, ClubInv(c) PROVE ClubInv(c)'
  <1> USE DEF TypeOK
  <1> PICK d \in Clubs :
        \/ SetApplied(d) \/ SetRefused(d) \/ addMember(d)
        \/ AddMemberHandled(d) \/ AddMemberLost(d) \/ AddMemberEnds(d)
    BY DEF Server
  <1>1. CASE c # d
    <2>1. SameFor(c) /\ user' = user
      BY <1>1 DEF SetApplied, SetRefused, addMember, AddMemberHandled,
                  AddMemberLost, AddMemberEnds, SameFor
    <2>. QED BY <2>1, SameKeeps
  <1>2. CASE c = d
    <2>1. CASE SetApplied(c)
      BY <2>1 DEF SetApplied, ClubInv, InvOf
    <2>2. CASE SetRefused(c)
      BY <2>2 DEF SetRefused, ClubInv, InvOf
    <2>3. CASE addMember(c) /\ user = Null
      BY <2>3 DEF addMember, ClubInv, InvOf
    <2>4. CASE addMember(c) /\ user # Null
      <3>1. /\ pc[c] = "setting" /\ c \in clubs /\ pc'[c] = "adding"
            /\ post'[c] = [email |-> user, shares |-> creation[c].shares]
            /\ UNCHANGED <<user, creation, writes, clubs, payment, away,
                           interrupted>>
        BY <2>4 DEF addMember
      <3>2. /\ creation[c] # Null /\ payment[c] = Null
            /\ creation[c].shares = creation[c].picked
            /\ c \notin away => user = creation[c].createdBy
        BY <3>1 DEF ClubInv, InvOf
      <3>3. post'[c] # Null
        <4>1. creation[c] \in Creation
          BY <3>2
        <4>2. post'[c] \in Entry
          BY <2>4, <3>1, <4>1 DEF Creation, Entry
        <4>. QED BY <4>2, NullIsNoRecord
      <3>. QED BY <3>1, <3>2, <3>3 DEF ClubInv, InvOf
    <2>5. CASE AddMemberHandled(c)
      <3>1. /\ post[c] # Null /\ post'[c] = Null
            /\ UNCHANGED <<user, creation, pc, writes, clubs, away,
                           interrupted>>
        BY <2>5 DEF AddMemberHandled
      <3>2. c \in clubs
        BY <3>1 DEF ClubInv, InvOf
      <3>3. payment'[c] = post[c]
        BY <2>5, <3>2 DEF AddMemberHandled
      <3>. QED BY <3>1, <3>2, <3>3 DEF ClubInv, InvOf
    <2>6. CASE AddMemberLost(c)
      BY <2>6 DEF AddMemberLost, ClubInv, InvOf
    <2>7. CASE AddMemberEnds(c)
      BY <2>7 DEF AddMemberEnds, ClubInv, InvOf
    <2>. QED BY <1>2, <2>1, <2>2, <2>3, <2>4, <2>5, <2>6, <2>7
  <1>. QED BY <1>1, <1>2

\* Leaving pages keeps every club's invariant, and so does a change of user:
\* the clubs being set count as away from then on.
LEMMA UserKeeps ==
    ASSUME TypeOK, NEW u \in Emails \cup {Null}, NEW left, NEW closed,
           StackChanges(u, left, closed), NEW c \in Clubs, ClubInv(c)
    PROVE  ClubInv(c)'
  <1>1. /\ UNCHANGED <<creation, pc, writes, clubs, post, payment,
                       interrupted>>
        /\ \/ user' = user /\ away' = away
           \/ c \in away' <=> c \in away \/ pc[c] = "setting"
    BY DEF StackChanges
  <1>2. creation[c] = Null => pc[c] # "setting"
    BY DEF ClubInv, InvOf
  <1>. QED BY <1>1, <1>2 DEF ClubInv, InvOf

\* A restart keeps every club's invariant: the creations it cuts short are
\* recorded.
LEMMA RestartKeeps ==
    ASSUME TypeOK, Restart, NEW c \in Clubs, ClubInv(c) PROVE ClubInv(c)'
  <1>1. /\ UNCHANGED <<user, creation, writes, clubs, post, payment, away>>
        /\ pc'[c] = IF pc[c] = "none" THEN "none" ELSE "done"
        /\ c \in interrupted' <=> c \in interrupted \/ pc[c] = "setting"
    BY DEF Restart
  <1>. QED BY <1>1 DEF ClubInv, InvOf

\* CreationInv is an invariant of creating clubs, whatever pages, users,
\* requests and restarts do in between.
THEOREM CreationInvHolds == Spec => []CreationInv
<1>1. Init => CreationInv
  <2> SUFFICES ASSUME Init PROVE CreationInv
    OBVIOUS
  <2>1. TypeOK
    BY DEF Init, TypeOK
  <2>2. \A c \in Clubs : ClubInv(c)
    BY DEF Init, ClubInv, InvOf
  <2>. QED BY <2>1, <2>2, InvByClub
<1>2. CreationInv /\ [Next]_vars => CreationInv'
  <2> SUFFICES ASSUME CreationInv, [Next]_vars PROVE CreationInv'
    OBVIOUS
  <2>1. TypeOK
    BY DEF CreationInv
  <2>2. \A c \in Clubs : ClubInv(c)
    BY <2>1, InvByClub
  <2>3. CASE Form
    BY <2>1, <2>2, <2>3, FormTyped, FormKeeps, InvByClubNext
  <2>4. CASE Server
    BY <2>1, <2>2, <2>4, ServerTyped, ServerKeeps, InvByClubNext
  <2>5. CASE Details
    <3>1. view' \in View \cup {Null} /\ UNCHANGED <<user, page, creationVars>>
      BY <2>1, <2>5, DetailsTyped DEF pageUnchanged
    <3>2. TypeOK'
      BY <2>1, <3>1 DEF TypeOK, creationVars
    <3>3. \A c \in Clubs : SameFor(c) /\ user' = user
      BY <3>1 DEF SameFor, creationVars
    <3>. QED BY <2>2, <3>2, <3>3, SameKeeps, InvByClubNext
  <2>6. ASSUME NEW u \in Emails \cup {Null}, NEW left, NEW closed,
               StackChanges(u, left, closed)
        PROVE  CreationInv'
    <3>1. page' \in [Pages -> Page \cup {Null}]
      <4>1. ASSUME NEW p \in Pages, page[p] # Null
            PROVE  [page[p] EXCEPT !.sheet = @ /\ p \notin closed] \in Page
        BY <2>1, <4>1 DEF TypeOK, Page
      <4>. QED BY <2>1, <2>6, <4>1 DEF StackChanges, TypeOK
    <3>2. TypeOK'
      BY <2>1, <2>6, <3>1 DEF StackChanges, TypeOK
    <3>. QED BY <2>1, <2>2, <2>6, <3>2, UserKeeps, InvByClubNext
  <2>7. CASE Restart
    <3>1. TypeOK'
      BY <2>1, <2>7 DEF Restart, TypeOK
    <3>. QED BY <2>1, <2>2, <2>7, <3>1, RestartKeeps, InvByClubNext
  <2>8. CASE UNCHANGED vars
    <3>1. TypeOK'
      BY <2>1, <2>8 DEF vars, TypeOK
    <3>2. \A c \in Clubs : SameFor(c) /\ user' = user
      BY <2>8 DEF vars, SameFor
    <3>. QED BY <2>2, <3>1, <3>2, SameKeeps, InvByClubNext
  <2>. QED BY <2>3, <2>4, <2>5, <2>6, <2>7, <2>8 DEF Next
<1>. QED BY <1>1, <1>2, PTL DEF Spec

\* Every variable of a creation keeps its type.
THEOREM CreationTyped == Spec => []TypeOK
  <1>1. CreationInv => TypeOK
    BY DEF CreationInv
  <1>. QED BY <1>1, CreationInvHolds, PTL

\* The entry a creation makes is the creator's, with the number picked,
\* unless the user changed before addMember read the email.
THEOREM EntriesAreCreators == Spec => []EntryIsCreators
  <1>1. CreationInv => EntryIsCreators
    BY DEF CreationInv
  <1>. QED BY <1>1, CreationInvHolds, PTL

\* A stored club without payments is being created or was cut short.
THEOREM MissingEntriesExplained == Spec => []MissingEntryExplained
  <1>1. CreationInv => MissingEntryExplained
    BY DEF CreationInv
  <1>. QED BY <1>1, CreationInvHolds, PTL
=============================================================================
