-------------------------- MODULE ClubSessionProofs --------------------------
(***************************************************************************)
(* ClubSession implements both of its parts.  The inductive argument is    *)
(* that of Session, which types the user and bounds the stack; on top of   *)
(* it every step is a step of ClubCreation, or none.  With PageRoutes, who *)
(* a club is created by and in whose name follows from the same invariant. *)
(***************************************************************************)
EXTENDS ClubSession, SessionProofs

\* Every step of the composition is a step of Session, or changes nothing of
\* it.
LEMMA StepOfSession ==
    ASSUME [NextAll]_allVars PROVE [Next]_vars
<1>1. CASE OpenCreateClubPage \/ CreatePressed \/ RestartApp
  BY <1>1 DEF OpenCreateClubPage, CreatePressed, RestartApp, Next, Navigate,
              Start
<1>2. CASE \E c \in Clubs : ContinuePressed(c)
  BY <1>2 DEF ContinuePressed, Next, Navigate
<1>3. CASE Edit \/ Server \/ UNCHANGED allVars
  BY <1>3 DEF Edit, Server, allVars
<1>4. CASE SessionStep
  BY <1>4 DEF SessionStep, Next, Navigate, Start
<1>5. QED
  BY <1>1, <1>2, <1>3, <1>4 DEF NextAll

\* What Session alone does to the stack and the user is, for ClubCreation,
\* that pages are left, sheets closed and users changed.
LEMMA SessionStepLeaves ==
    ASSUME user' \in Emails \cup {Null}, SessionStep
    PROVE  CC!Next
<1> DEFINE left == {i \in 1..MaxDepth :
                      i > Len(stack') \/ stack'[i].page # "create"}
           closed == {i \in 1..MaxDepth :
                        ~(i < Len(stack') /\ stack'[i + 1].page = "sheet")}
<1>1. page' = [i \in 1..MaxDepth |->
                 IF i \in left \/ page[i] = Null THEN Null
                 ELSE [page[i] EXCEPT !.sheet = @ /\ i \notin closed]]
  BY DEF SessionStep, pagesOn
<1>2. CC!StackChanges(user', left, closed)
  BY <1>1 DEF SessionStep, CC!StackChanges
<1>3. QED
  BY <1>2 DEF CC!Next

\* Every step of the composition is a step of ClubCreation, or changes nothing
\* of it.
LEMMA StepOfClubCreation ==
    ASSUME user' \in Emails \cup {Null},
           Len(stack) \in 1..MaxDepth, [NextAll]_allVars
    PROVE  [CC!Next]_(CC!vars)
<1>1. CASE OpenCreateClubPage
  <2>1. CASE user = Null
    BY <1>1, <2>1 DEF OpenCreateClubPage, OpenCreateClub, navVars, clubVars,
                      CC!vars
  <2>2. CASE user # Null
    <3>1. Len(stack) + 1 \in 1..MaxDepth
      BY <1>1, SessionAssumption DEF OpenCreateClubPage, OpenCreateClub, Push
    <3>2. CC!OpenCreateClub(Len(stack) + 1)
      BY <1>1, <2>2 DEF OpenCreateClubPage
    <3>3. QED
      BY <3>1, <3>2 DEF CC!Next, CC!Form
  <2>3. QED
    BY <2>1, <2>2
<1>2. CASE CreatePressed
  BY <1>2 DEF CreatePressed, CC!Next, CC!Form
<1>3. CASE \E c \in Clubs : ContinuePressed(c)
  BY <1>3 DEF ContinuePressed, CC!Next, CC!Form
<1>4. CASE RestartApp
  BY <1>4 DEF RestartApp, CC!Next
<1>5. CASE Edit
  BY <1>5 DEF Edit, CC!Next, CC!Form
<1>6. CASE Server
  BY <1>6 DEF Server, CC!Next
<1>7. CASE SessionStep
  BY <1>7, SessionStepLeaves
<1>8. CASE UNCHANGED allVars
  BY <1>8 DEF allVars, vars, clubVars, CC!vars
<1>9. QED
  BY <1>1, <1>2, <1>3, <1>4, <1>5, <1>6, <1>7, <1>8 DEF NextAll

-----------------------------------------------------------------------------
\* The composition implements Session: what its pages and creations do never
\* takes the stack, the user or the login page where Session does not.
THEOREM CompositionIsSession == SpecAll => ImplementsSession
<1>1. InitAll => Init
  BY DEF InitAll
<1>2. [NextAll]_allVars => [Next]_vars
  BY StepOfSession
<1>3. QED
  BY <1>1, <1>2, PTL DEF SpecAll, Spec, ImplementsSession

\* The composition implements ClubCreation: leaving pages and changing users
\* at any time is all that sign-ups, logouts and the stack do to creations.
THEOREM CompositionIsClubCreation == SpecAll => ImplementsClubCreation
<1>1. InitAll => CC!Init
  BY DEF InitAll
<1>2. SessionInv /\ SessionInv' /\ [NextAll]_allVars => [CC!Next]_(CC!vars)
  BY StepOfClubCreation DEF SessionInv, TypeOK
<1>3. SpecAll => []SessionInv
  BY CompositionIsSession, SessionInvHolds DEF ImplementsSession
<1>4. QED
  BY <1>1, <1>2, <1>3, PTL DEF SpecAll, CC!Spec, ImplementsClubCreation

-----------------------------------------------------------------------------
(***************************************************************************)
(* In whose name a club is created                                         *)
(***************************************************************************)

\* What a step of Session that is none of ClubCreation's does to the stack: a
\* CreateClub route it holds afterwards was in the same place before.
LEMMA NoNewCreateRoute ==
    ASSUME SessionInv, SessionStep
    PROVE  \A i \in 1..Len(stack') :
             stack'[i].page = "create" =>
                 i <= Len(stack) /\ stack'[i] = stack[i]
<1>1. stack \in Seq(Route) /\ Len(stack) \in Nat /\ Len(stack) >= 1
  BY SessionAssumption DEF SessionInv, TypeOK
<1>2. \A name, u : NewRoute(name, u).page = name
  BY DEF NewRoute
<1>3. ASSUME NEW name, NEW u, stack' = <<NewRoute(name, u)>>, name # "create"
      PROVE  \A i \in 1..Len(stack') : stack'[i].page # "create"
  BY <1>2, <1>3
<1>4. ASSUME NEW name, NEW u, stack' = Append(stack, NewRoute(name, u)),
             name # "create"
      PROVE  \A i \in 1..Len(stack') :
               stack'[i].page = "create" =>
                   i <= Len(stack) /\ stack'[i] = stack[i]
  <2>1. NewRoute(name, u).page # "create"
    BY <1>2, <1>4
  <2>2. \A i \in 1..Len(stack') :
          \/ i <= Len(stack) /\ stack'[i] = stack[i]
          \/ stack'[i] = NewRoute(name, u)
    BY <1>1, <1>4
  <2>3. QED
    BY <2>1, <2>2
<1>5. ASSUME NEW p \in Presses, signIn(p)
      PROVE  \A i \in 1..Len(stack') :
               stack'[i].page = "create" =>
                   i <= Len(stack) /\ stack'[i] = stack[i]
  <2>1. \/ stack' = stack
        \/ stack' = [stack EXCEPT ![Len(stack)] =
                        NewRoute("dashboard", request[p])]
    BY <1>5 DEF signIn
  <2>2. NewRoute("dashboard", request[p]).page # "create"
    BY <1>2
  <2>3. \A i \in 1..Len(stack') :
          \/ i <= Len(stack) /\ stack'[i] = stack[i]
          \/ stack'[i] = NewRoute("dashboard", request[p])
    BY <1>1, <2>1
  <2>4. QED
    BY <2>2, <2>3
<1>6. CASE Back
  BY <1>1, <1>6 DEF Back
<1>7. CASE UNCHANGED stack
  BY <1>1, <1>7
<1>8. CASE Login
  BY <1>5, <1>7, <1>8 DEF Login, validator, LogInInvalid, LogIn, AccountExists,
     SignInFailed
<1>9. CASE LeaveSession
  BY <1>3, <1>7, <1>9 DEF LeaveSession, Logout, SignedOut, LogoutFailed,
     _logout
<1>10. CASE PermissionAnswered \/ _checkLoggedIn
  BY <1>3, <1>7, <1>10 DEF PermissionAnswered, _checkLoggedIn
<1>11. CASE \/ OpenSettings \/ OpenClubDetails \/ JoinUsingScanner
            \/ JoinUsingCode \/ JoinedClub
            \/ \E e, about \in Emails, added \in BOOLEAN :
                 TapNotification(e, about, added)
  <2>1. PICK name \in PageNames \ {"create"} :
          stack' = Append(stack, NewRoute(name, user))
    BY <1>11 DEF OpenSettings, OpenClubDetails, JoinUsingScanner,
       JoinUsingCode, JoinedClub, TapNotification, Push, PageNames, UserPages
  <2>2. QED
    BY <1>4, <2>1
<1>12. QED
  BY <1>6, <1>7, <1>8, <1>9, <1>10, <1>11, SessionStep
     DEF SessionStep, onTap

\* A page on the stack after such a step is one that was there, with the same
\* email.
LEMMA SessionStepKeepsRoutes ==
    ASSUME SessionInv, SessionInv', PageRoutes, SessionStep
    PROVE  PageRoutes'
<1>1. page' = pagesOn(stack')
  BY DEF SessionStep
<1>2. ASSUME NEW i \in 1..MaxDepth
      PROVE  \/ page'[i] = Null
             \/ /\ page[i] # Null /\ i <= Len(stack')
                /\ stack'[i].page = "create"
                /\ page'[i] = [page[i] EXCEPT
                                 !.sheet = @ /\ i < Len(stack')
                                             /\ stack'[i + 1].page = "sheet"]
  BY <1>1 DEF pagesOn
<1>3. page' \in [1..MaxDepth ->
                   [admin: Emails, dated: BOOLEAN, sheet: BOOLEAN,
                    selected: {0} \cup 0..(Items - 1)] \cup {Null}]
  <2>1. \A i \in 1..MaxDepth :
          page'[i] \in [admin: Emails, dated: BOOLEAN, sheet: BOOLEAN,
                        selected: {0} \cup 0..(Items - 1)] \cup {Null}
    BY <1>2 DEF PageRoutes
  <2>2. QED
    BY <1>1, <2>1 DEF pagesOn
<1>4. ASSUME NEW i \in 1..MaxDepth, page'[i] # Null
      PROVE  /\ i <= Len(stack') /\ stack'[i].page = "create"
             /\ stack'[i].admin = page'[i].admin
  <2>1. /\ page[i] # Null /\ i <= Len(stack') /\ stack'[i].page = "create"
        /\ page'[i].admin = page[i].admin
    <3>1. page[i] # Null /\ i <= Len(stack') /\ stack'[i].page = "create"
      BY <1>2, <1>4
    <3>2. page[i] \in [admin: Emails, dated: BOOLEAN, sheet: BOOLEAN,
                       selected: {0} \cup 0..(Items - 1)]
      BY <3>1 DEF PageRoutes
    <3>3. QED
      BY <1>2, <1>4, <3>1, <3>2
  <2>2. Len(stack') \in Nat
    BY DEF SessionInv, TypeOK
  <2>3. stack'[i] = stack[i]
    BY <2>1, <2>2, NoNewCreateRoute
  <2>4. QED
    BY <2>1, <2>3 DEF PageRoutes
<1>5. QED
  BY <1>3, <1>4 DEF PageRoutes

\* The steps of the CreateClub page and its picker.
LEMMA FormKeepsRoutes ==
    ASSUME SessionInv, PageRoutes,
           \/ OpenCreateClubPage
           \/ CreatePressed
           \/ \E c \in Clubs : ContinuePressed(c)
           \/ Edit
    PROVE  PageRoutes'
<1> USE DEF PageRoutes
<1>1. /\ stack \in Seq(Route) /\ Len(stack) \in Nat /\ Len(stack) >= 1
      /\ user \in Emails \cup {Null} /\ MaxDepth \in Nat
  BY SessionAssumption DEF SessionInv, TypeOK
<1>2. ASSUME NEW name, stack' = Append(stack, NewRoute(name, user))
      PROVE  /\ Len(stack') = Len(stack) + 1
             /\ stack'[Len(stack) + 1] = NewRoute(name, user)
             /\ \A i \in 1..MaxDepth :
                  i <= Len(stack) => i <= Len(stack') /\ stack'[i] = stack[i]
  BY <1>1, <1>2
<1>3. CASE OpenCreateClubPage
  <2>1. /\ stack' = Append(stack, NewRoute("create", user))
        /\ Len(stack) + 1 \in 1..MaxDepth
    BY <1>1, <1>3 DEF OpenCreateClubPage, OpenCreateClub, Push
  <2>2. CASE user = Null
    BY <1>2, <1>3, <2>1, <2>2 DEF OpenCreateClubPage, clubVars
  <2>3. CASE user # Null
    <3>1. page' = [page EXCEPT ![Len(stack) + 1] =
                     [admin |-> user, dated |-> FALSE, selected |-> 0,
                      sheet |-> FALSE]]
      BY <1>3, <2>3 DEF OpenCreateClubPage, CC!OpenCreateClub
    <3>2. NewRoute("create", user) = [page |-> "create", admin |-> user]
      BY DEF NewRoute, UserPages
    <3>3. QED
      BY <1>1, <1>2, <2>1, <2>3, <3>1, <3>2
  <2>4. QED
    BY <2>2, <2>3
<1>4. CASE CreatePressed
  <2>1. stack' = Append(stack, NewRoute("sheet", user))
    BY <1>4 DEF CreatePressed, SelectShares, Push
  <2>2. /\ page[Len(stack)] # Null
        /\ page' = [page EXCEPT ![Len(stack)].sheet = TRUE]
    BY <1>4 DEF CreatePressed, CC!Create
  <2>3. QED
    BY <1>1, <1>2, <2>1, <2>2
<1>5. ASSUME NEW c \in Clubs, ContinuePressed(c)
      PROVE  PageRoutes'
  <2>1. /\ stack' = [stack EXCEPT ![Len(stack)] = NewRoute("dashboard", user)]
        /\ stack[Len(stack)].page = "sheet"
    BY <1>5 DEF ContinuePressed, Continue, Top
  <2>2. PICK i \in 1..MaxDepth :
          /\ page[i] # Null
          /\ page' = [page EXCEPT ![i].sheet = FALSE]
    BY <1>5 DEF ContinuePressed, CC!Continue
  <2>3. \A j \in 1..MaxDepth :
          page[j] # Null => /\ j <= Len(stack) /\ j <= Len(stack')
                            /\ stack'[j] = stack[j]
    BY <1>1, <2>1
  <2>4. QED
    BY <1>1, <2>2, <2>3
<1>6. CASE Edit
  <2>1. UNCHANGED stack
    BY <1>6 DEF Edit, vars
  <2>2. PICK i \in 1..MaxDepth :
          /\ page[i] # Null
          /\ \/ page' = [page EXCEPT ![i].dated = TRUE]
             \/ \E v \in 0..(Items - 1) :
                  page' = [page EXCEPT ![i].selected = v]
    BY <1>6 DEF Edit, CC!onConfirm, CC!onSelectedItemChange
  <2>3. QED
    BY <2>1, <2>2
<1>7. QED
  BY <1>3, <1>4, <1>5, <1>6

\* PageRoutes holds of the composition: no step of either part separates a
\* CreateClub page from its route.
LEMMA RoutesHold == SpecAll => []PageRoutes
<1>1. InitAll => PageRoutes
  BY DEF InitAll, CC!Init, PageRoutes
<1>2. SessionInv /\ SessionInv' /\ PageRoutes /\ [NextAll]_allVars
        => PageRoutes'
  <2> SUFFICES ASSUME SessionInv, SessionInv', PageRoutes, [NextAll]_allVars
               PROVE  PageRoutes'
    OBVIOUS
  <2>1. CASE RestartApp
    <3>1. page' = [i \in 1..MaxDepth |-> Null]
      BY <2>1 DEF RestartApp, CC!Restart
    <3>2. QED
      BY <3>1 DEF PageRoutes
  <2>2. CASE Server
    <3>1. UNCHANGED <<page, stack>>
      BY <2>2 DEF Server, CC!Server, CC!SetApplied, CC!SetRefused,
         CC!addMember, CC!AddMemberHandled, CC!AddMemberLost,
         CC!AddMemberEnds, vars
    <3>2. QED
      BY <3>1 DEF PageRoutes
  <2>3. CASE UNCHANGED allVars
    BY <2>3 DEF allVars, vars, clubVars, PageRoutes
  <2>4. QED
    BY <2>1, <2>2, <2>3, FormKeepsRoutes, SessionStepKeepsRoutes DEF NextAll
<1>3. SpecAll => []SessionInv
  BY CompositionIsSession, SessionInvHolds DEF ImplementsSession
<1>4. QED
  BY <1>1, <1>2, <1>3, PTL DEF SpecAll

\* A creation is made by "Continue" alone, in the name of the page's user and
\* by the one who is signed in, both of this session.
LEMMA CreatorOfThisSession ==
    ASSUME SessionInv, PageRoutes, NEW c \in Clubs, ContinuePressed(c)
    PROVE  \E who \in requested, by \in requested \cup {Null} :
             \E n, m : creation' = [creation EXCEPT ![c] =
                          [createdBy |-> who, by |-> by, shares |-> n,
                           picked |-> m]]
<1>1. PICK i \in 1..MaxDepth : CC!Continue(i, c)
  BY DEF ContinuePressed
<1>2. page[i] # Null /\ page[i].admin \in Emails
  BY <1>1 DEF CC!Continue, PageRoutes
<1>3. i \in 1..Len(stack) /\ stack[i].admin = page[i].admin
  <2>1. Len(stack) \in Nat
    BY DEF SessionInv, TypeOK
  <2>2. QED
    BY <1>2, <2>1 DEF PageRoutes
<1>4. page[i].admin \in requested
  BY <1>2, <1>3, SessionAssumption DEF SessionInv, PagesOfThisSession
<1>5. user \in requested \cup {Null}
  BY DEF SessionInv
<1>6. QED
  BY <1>1, <1>4, <1>5 DEF CC!Continue

\* What the other steps do to creations and entries: none makes a creation, a
\* request is posted for somebody, and an entry is a request that arrived.
LEMMA EntriesFromPosts ==
    ASSUME [NextAll]_allVars, \A c \in Clubs : ~ContinuePressed(c),
           DOMAIN pc = Clubs
    PROVE  /\ creation' = creation /\ DOMAIN pc' = Clubs
           /\ \A c \in Clubs : pc'[c] = "setting" => pc[c] = "setting"
           /\ \/ UNCHANGED <<post, payment>>
              \/ \E c \in Clubs :
                   /\ UNCHANGED payment
                   /\ pc[c] = "setting" /\ user # Null
                   /\ \E n : post' = [post EXCEPT ![c] =
                                        [email |-> user, shares |-> n]]
              \/ \E c \in Clubs :
                   /\ post[c] # Null
                   /\ post' = [post EXCEPT ![c] = Null]
                   /\ payment' \in {payment, [payment EXCEPT ![c] = post[c]]}
<1>1. CASE OpenCreateClubPage
  BY <1>1 DEF OpenCreateClubPage, CC!OpenCreateClub, CC!creationVars, clubVars
<1>2. CASE CreatePressed
  BY <1>2 DEF CreatePressed, CC!Create, CC!creationVars
<1>3. CASE RestartApp
  BY <1>3 DEF RestartApp, CC!Restart
<1>4. CASE Edit
  BY <1>4 DEF Edit, CC!onConfirm, CC!onSelectedItemChange, CC!creationVars
<1>5. CASE SessionStep
  BY <1>5 DEF SessionStep
<1>6. CASE Server
  <2>1. PICK c \in Clubs :
          \/ CC!SetApplied(c) \/ CC!SetRefused(c) \/ CC!addMember(c)
          \/ CC!AddMemberHandled(c) \/ CC!AddMemberLost(c)
          \/ CC!AddMemberEnds(c)
    BY <1>6 DEF Server, CC!Server
  <2>2. CASE CC!SetApplied(c) \/ CC!SetRefused(c) \/ CC!AddMemberEnds(c)
    BY <2>2 DEF CC!SetApplied, CC!SetRefused, CC!AddMemberEnds
  <2>3. CASE CC!addMember(c)
    BY <2>3 DEF CC!addMember
  <2>4. CASE CC!AddMemberHandled(c) \/ CC!AddMemberLost(c)
    BY <2>4 DEF CC!AddMemberHandled, CC!AddMemberLost
  <2>5. QED
    BY <2>1, <2>2, <2>3, <2>4
<1>7. CASE UNCHANGED allVars
  BY <1>7 DEF allVars, clubVars
<1>8. QED
  BY <1>1, <1>2, <1>3, <1>4, <1>5, <1>6, <1>7 DEF NextAll

\* A club is only ever created in the name of a user of the present session and
\* by such a user: no page that outlived a logout or a restart makes one.
THEOREM CreatorsAreOfThisSession == SpecAll => ClubsOfThisSession
<1> DEFINE Domains == DOMAIN creation = Clubs /\ DOMAIN pc = Clubs
<1>1. InitAll => Domains
  BY DEF InitAll, CC!Init
<1>2. Domains /\ [NextAll]_allVars => Domains'
  <2> SUFFICES ASSUME Domains, [NextAll]_allVars
               PROVE  Domains'
    OBVIOUS
  <2>1. ASSUME NEW c \in Clubs, ContinuePressed(c)
        PROVE  Domains'
    BY <2>1 DEF ContinuePressed, CC!Continue, CC!createClub
  <2>2. QED
    BY <2>1, EntriesFromPosts
<1>3. SessionInv /\ PageRoutes /\ Domains /\ [NextAll]_allVars
        => [\A c \in Clubs :
              creation'[c] # creation[c] =>
                /\ creation'[c].createdBy \in requested
                /\ creation'[c].by \in requested \cup {Null}]_allVars
  <2> SUFFICES ASSUME SessionInv, PageRoutes, Domains, [NextAll]_allVars,
                      NEW c \in Clubs, creation'[c] # creation[c]
               PROVE  /\ creation'[c].createdBy \in requested
                      /\ creation'[c].by \in requested \cup {Null}
    OBVIOUS
  <2>1. PICK d \in Clubs : ContinuePressed(d)
    BY EntriesFromPosts
  <2>2. PICK who \in requested, by \in requested \cup {Null} :
          \E n, m : creation' = [creation EXCEPT ![d] =
                       [createdBy |-> who, by |-> by, shares |-> n,
                        picked |-> m]]
    BY <2>1, CreatorOfThisSession
  <2>3. QED
    BY <2>2
<1>4. SpecAll => []SessionInv
  BY CompositionIsSession, SessionInvHolds DEF ImplementsSession
<1> HIDE DEF Domains
<1>5. QED
  BY <1>1, <1>2, <1>3, <1>4, RoutesHold, PTL DEF SpecAll, ClubsOfThisSession

\* The shares that were picked are the creator's on every run on which each
\* session has one address: two sign-ups posted from one login page are the
\* only way to create a club in one name and pay for it in another.
THEOREM SharesUnlessTwoAddresses ==
    SpecAll /\ []OneAddress => []SharesAreCreators
<1> DEFINE Agreed(c) == creation[c].by \in {creation[c].createdBy, Null}
           Named ==
             /\ DOMAIN creation = Clubs /\ DOMAIN pc = Clubs
             /\ DOMAIN post = Clubs /\ DOMAIN payment = Clubs
             /\ \A c \in Clubs :
                  /\ pc[c] = "setting" => Agreed(c)
                  /\ post[c] # Null => Agreed(c) /\ post[c].email # Null
                  /\ payment[c] # Null => Agreed(c) /\ payment[c].email # Null
<1>1. InitAll => Named
  BY DEF InitAll, CC!Init
<1>2. SessionInv /\ PageRoutes /\ OneAddress /\ Named /\ [NextAll]_allVars
        => Named'
  <2> SUFFICES ASSUME SessionInv, PageRoutes, OneAddress, Named,
                      [NextAll]_allVars
               PROVE  Named'
    OBVIOUS
  <2>1. ASSUME NEW d \in Clubs, ContinuePressed(d)
        PROVE  Named'
    <3>1. PICK who \in requested, by \in requested \cup {Null} :
            \E n, m : creation' = [creation EXCEPT ![d] =
                         [createdBy |-> who, by |-> by, shares |-> n,
                          picked |-> m]]
      BY <2>1, CreatorOfThisSession
    <3>2. by \in {who, Null}
      BY DEF OneAddress
    <3>3. /\ pc' = [pc EXCEPT ![d] = "setting"]
          /\ UNCHANGED <<post, payment>>
      BY <2>1 DEF ContinuePressed, CC!Continue, CC!createClub
    <3>4. Agreed(d)' /\ \A c \in Clubs \ {d} : creation'[c] = creation[c]
      BY <3>1, <3>2
    <3>5. QED
      BY <3>1, <3>3, <3>4
  <2>2. CASE \A c \in Clubs : ~ContinuePressed(c)
    BY <2>2, EntriesFromPosts
  <2>3. QED
    BY <2>1, <2>2
<1>3. Named => SharesAreCreators
  BY DEF SharesAreCreators
<1>4. SpecAll => []SessionInv
  BY CompositionIsSession, SessionInvHolds DEF ImplementsSession
<1>5. QED
  BY <1>1, <1>2, <1>3, <1>4, RoutesHold, PTL DEF SpecAll
=============================================================================
