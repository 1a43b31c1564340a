---------------------------- MODULE SessionProofs ----------------------------
(***************************************************************************)
(* Proofs about Session, for any number of addresses, presses and routes.  *)
(***************************************************************************)
EXTENDS Session, TLAPS

\* A stack as the invariant wants it, with r the addresses of the session and
\* l those with a listener.
GoodStack(s, r, l) ==
    /\ s \in Seq(Route) /\ Len(s) \in 1..MaxDepth
    /\ \A i \in 1..Len(s) :
         /\ s[i].page = "login" => i = 1
         /\ s[i].admin \in r \cup {Null}
         /\ s[i].page = "dashboard" => s[i].admin \in l \cup {Null}

GoodRoute(t, r, l) ==
    /\ t \in Route /\ t.admin \in r \cup {Null}
    /\ t.page = "dashboard" => t.admin \in l \cup {Null}

\* A stack of one route is good.
LEMMA SingleIsGood ==
  ASSUME NEW r, NEW l, NEW t, GoodRoute(t, r, l)
  PROVE  GoodStack(<<t>>, r, l)
BY SessionAssumption DEF GoodStack, GoodRoute

\* Pushing a page other than the login page keeps a stack good.
LEMMA AppendIsGood ==
  ASSUME NEW r, NEW l, NEW s, NEW t, GoodStack(s, r, l), GoodRoute(t, r, l),
         t.page # "login", Len(s) < MaxDepth
  PROVE  GoodStack(Append(s, t), r, l)
BY SessionAssumption DEF GoodStack, GoodRoute

\* So does replacing its top route by such a page.
LEMMA ReplaceIsGood ==
  ASSUME NEW r, NEW l, NEW s, NEW t, GoodStack(s, r, l), GoodRoute(t, r, l),
         t.page # "login"
  PROVE  GoodStack([s EXCEPT ![Len(s)] = t], r, l)
BY SessionAssumption DEF GoodStack, GoodRoute

\* So does going back.
LEMMA BackIsGood ==
  ASSUME NEW r, NEW l, NEW s, GoodStack(s, r, l), Len(s) > 1
  PROVE  GoodStack(SubSeq(s, 1, Len(s) - 1), r, l)
BY SessionAssumption DEF GoodStack

\* So does learning of more addresses, or of more listeners.
LEMMA MoreIsGood ==
  ASSUME NEW r, NEW q, NEW l, NEW m, NEW s, GoodStack(s, r, l),
         r \subseteq q, l \subseteq m
  PROVE  GoodStack(s, q, m)
BY DEF GoodStack

\* The route a constructor leaves is good for an address of the session, and
\* for a Dashboard if that address has a listener.
LEMMA NewRouteIsGood ==
  ASSUME NEW r \in SUBSET Emails, NEW l, NEW u \in r \cup {Null},
         NEW name \in PageNames,
         name = "dashboard" => u \in l \cup {Null}
  PROVE  GoodRoute(NewRoute(name, u), r, l) /\ NewRoute(name, u).page = name
BY DEF GoodRoute, NewRoute, Route

-----------------------------------------------------------------------------
\* The parts of SessionInv that are not about the stack.
TypeRest ==
    /\ accounts \subseteq Emails
    /\ user \in Emails \cup {Null}
    /\ splash \in Emails \cup {Null, "asking"}
    /\ field \in Emails \cup {"invalid"}
    /\ _email \in Emails \cup {Null}
    /\ form \in BOOLEAN
    /\ request \in [Presses -> Emails \cup {Null}]
    /\ orphans \subseteq Presses
    /\ logout \in [Presses -> {"none", "signingOut", "deletingToken"}]
    /\ button \in [Presses -> 0..MaxDepth]
    /\ listeners \subseteq Emails
    /\ requested \subseteq Emails

Known ==
    /\ user \in requested \cup {Null}
    /\ \A p \in Presses : request[p] \in requested \cup {Null}

Good == TypeRest /\ Known /\ GoodStack(stack, requested, listeners)

\* Good is SessionInv, with the stack's part kept together.
LEMMA GoodIsInv == SessionInv <=> Good
BY DEF SessionInv, Good, TypeRest, Known, GoodStack, TypeOK, LoginAtBottom,
   PagesOfThisSession, DashboardsListen

\* The invariant holds on the splash screen.
LEMMA GoodInit == Init => Good
<1> SUFFICES ASSUME Init
             PROVE  Good
  OBVIOUS
<1>1. TypeRest /\ Known
  BY SessionAssumption DEF Init, TypeRest, Known
<1>2. GoodStack(stack, requested, listeners)
  <2>1. GoodRoute(NewRoute("splash", Null), requested, listeners)
    BY <1>1, NewRouteIsGood DEF TypeRest, PageNames
  <2> QED
    BY <2>1, SingleIsGood DEF Init
<1> QED
  BY <1>1, <1>2 DEF Good

\* Starting and restarting keep it.
LEMMA GoodStart ==
  ASSUME Good, Start
  PROVE  Good'
<1> USE SessionAssumption DEF Good
<1>1. CASE PermissionAnswered
  <2>1. TypeRest' /\ Known'
    BY <1>1 DEF PermissionAnswered, TypeRest, Known, loginVars, requestVars,
       logoutVars
  <2>2. UNCHANGED <<stack, requested, listeners>>
    BY <1>1 DEF PermissionAnswered
  <2> QED
    BY <2>1, <2>2
<1>2. CASE _checkLoggedIn
  <2>1. TypeRest' /\ Known'
    BY <1>2 DEF _checkLoggedIn, FreshLogin, TypeRest, Known, requestVars,
       logoutVars
  <2>2. PICK n \in {"home", "login"} : stack' = <<NewRoute(n, user)>>
    BY <1>2 DEF _checkLoggedIn
  <2>3. UNCHANGED <<requested, listeners>>
    BY <1>2 DEF _checkLoggedIn
  <2>4. GoodRoute(NewRoute(n, user), requested, listeners)
    BY NewRouteIsGood DEF TypeRest, Known, PageNames, UserPages
  <2> QED
    BY <2>1, <2>2, <2>3, <2>4, SingleIsGood
<1>3. CASE Restart
  <2>1. PICK made \in SUBSET {request[p] : p \in Presses} :
          accounts' = accounts \cup (made \ {Null})
    BY <1>3 DEF Restart
  <2>2. accounts' \subseteq Emails
    BY <2>1 DEF TypeRest
  <2>3. TypeRest' /\ Known'
    BY <1>3, <2>2 DEF Restart, FreshLogin, TypeRest, Known
  <2>4. GoodRoute(NewRoute("splash", Null), requested', listeners')
    BY <2>3, NewRouteIsGood DEF TypeRest, PageNames
  <2> QED
    BY <1>3, <2>3, <2>4, SingleIsGood DEF Restart
<1> QED
  BY <1>1, <1>2, <1>3, Start DEF Start

\* The login page and the answers to its requests keep it.
LEMMA GoodLogin ==
  ASSUME Good, Login
  PROVE  Good'
<1> USE SessionAssumption DEF Good, loginVars, requestVars, logoutVars
<1>1. ASSUME NEW text \in Emails \cup {"invalid"}, validator(text)
      PROVE  Good'
  BY <1>1 DEF validator, TypeRest, Known
<1>2. CASE LogInInvalid
  BY <1>2 DEF LogInInvalid, TypeRest, Known
<1>3. ASSUME NEW p \in Presses, LogIn(p)
      PROVE  Good'
  <2>1. TypeRest' /\ Known'
    BY <1>3 DEF LogIn, TypeRest, Known
  <2>2. /\ stack' = stack /\ requested \subseteq requested'
        /\ listeners' = listeners
    BY <1>3 DEF LogIn
  <2> QED
    BY <2>1, <2>2, MoreIsGood
<1>4. ASSUME NEW p \in Presses, signIn(p)
      PROVE  Good'
  <2>1. TypeRest' /\ Known'
    <3>1. /\ accounts' \subseteq Emails /\ user' \in Emails
          /\ request' \in [Presses -> Emails \cup {Null}]
          /\ listeners' \subseteq Emails
      BY <1>4 DEF signIn, Listen, TypeRest
    <3>2. orphans' \subseteq Presses
      BY <1>4 DEF signIn, InFlight, TypeRest
    <3>3. button' \in [Presses -> 0..MaxDepth]
      BY <1>4 DEF signIn, ButtonsUpTo, TypeRest
    <3>4. TypeRest'
      BY <1>4, <3>1, <3>2, <3>3 DEF signIn, FreshLogin, TypeRest
    <3>5. Known'
      BY <1>4 DEF signIn, Known, TypeRest
    <3> QED
      BY <3>4, <3>5
  <2>2. requested' = requested /\ listeners \subseteq listeners'
    BY <1>4 DEF signIn, Listen
  <2>3. GoodStack(stack, requested, listeners')
    BY <2>2, MoreIsGood
  <2>4. CASE stack' = stack
    BY <2>1, <2>2, <2>3, <2>4
  <2>5. CASE stack' # stack
    <3>1. /\ stack' = [stack EXCEPT ![Len(stack)] =
                         NewRoute("dashboard", request[p])]
          /\ request[p] \in listeners'
      BY <1>4, <2>5 DEF signIn, Listen
    <3>2. /\ GoodRoute(NewRoute("dashboard", request[p]), requested,
                       listeners')
          /\ NewRoute("dashboard", request[p]).page # "login"
      <4>1. /\ requested \in SUBSET Emails
            /\ request[p] \in requested \cup {Null}
            /\ "dashboard" \in PageNames
        BY DEF TypeRest, Known, PageNames, UserPages
      <4>2. request[p] \in listeners' \cup {Null}
        BY <3>1
      <4> QED
        BY <4>1, <4>2 DEF GoodRoute, NewRoute, Route, UserPages
    <3> QED
      BY <2>1, <2>2, <2>3, <3>1, <3>2, ReplaceIsGood
  <2> QED
    BY <2>4, <2>5
<1>5. ASSUME NEW p \in Presses, AccountExists(p) \/ SignInFailed(p)
      PROVE  Good'
  <2>1. TypeRest' /\ Known'
    BY <1>5 DEF AccountExists, SignInFailed, TypeRest, Known
  <2>2. UNCHANGED <<stack, requested, listeners>>
    BY <1>5 DEF AccountExists, SignInFailed
  <2> QED
    BY <2>1, <2>2
<1> QED
  BY <1>1, <1>2, <1>3, <1>4, <1>5, Login DEF Login

\* Logging out keeps it.
LEMMA GoodLeave ==
  ASSUME Good, LeaveSession
  PROVE  Good'
<1> USE SessionAssumption DEF Good, loginVars, requestVars
<1>1. ASSUME NEW p \in Presses, Logout(p) \/ SignedOut(p) \/ LogoutFailed(p)
      PROVE  Good'
  <2>1. TypeRest'
    <3>1. CASE Logout(p)
      <4>1. Len(stack) \in 0..MaxDepth
        BY DEF GoodStack
      <4>. QED BY <3>1, <4>1 DEF Logout, TypeRest
    <3>2. CASE SignedOut(p)
      BY <3>2 DEF SignedOut, TypeRest, logoutVars
    <3>3. CASE LogoutFailed(p)
      BY <3>3 DEF LogoutFailed, TypeRest
    <3>. QED BY <1>1, <3>1, <3>2, <3>3
  <2>2. Known'
    BY <1>1 DEF Logout, SignedOut, LogoutFailed, Known
  <2>3. UNCHANGED <<stack, requested, listeners>>
    BY <1>1 DEF Logout, SignedOut, LogoutFailed
  <2> QED
    BY <2>1, <2>2, <2>3
<1>2. ASSUME NEW p \in Presses, _logout(p)
      PROVE  Good'
  <2>1. requested' \subseteq Emails /\ button' \in [Presses -> 0..MaxDepth]
        /\ orphans' \subseteq Presses
    BY <1>2 DEF _logout, Carried, ButtonsUpTo, InFlight, TypeRest
  <2>2. TypeRest'
    BY <1>2, <2>1 DEF _logout, FreshLogin, TypeRest
  <2>3. Known'
    BY <1>2 DEF _logout, Known, Carried, TypeRest
  <2>4. GoodRoute(NewRoute("login", user), requested', listeners')
    BY <1>2, <2>2, <2>3, NewRouteIsGood
       DEF TypeRest, Known, PageNames, _logout
  <2> QED
    BY <1>2, <2>2, <2>3, <2>4, SingleIsGood DEF _logout
<1> QED
  BY <1>1, <1>2, LeaveSession DEF LeaveSession

\* Moving between the pages keeps it.
LEMMA GoodNavigate ==
  ASSUME Good, Navigate
  PROVE  Good'
<1> USE SessionAssumption DEF Good
<1>1. UNCHANGED navVars /\ UNCHANGED requested
  BY Navigate DEF Navigate, OpenCreateClub, OpenSettings, OpenClubDetails,
     SelectShares, Continue, JoinUsingScanner, JoinUsingCode, JoinedClub,
     TapNotification, Back, onTap, navVars
<1>2. listeners' \subseteq Emails
  BY Navigate DEF Navigate, OpenCreateClub, OpenSettings, OpenClubDetails,
     SelectShares, Continue, JoinUsingScanner, JoinUsingCode, JoinedClub,
     TapNotification, Back, onTap, Listen, TypeRest
<1>3. button' \in [Presses -> 0..MaxDepth]
  BY Navigate DEF Navigate, OpenCreateClub, OpenSettings, OpenClubDetails,
     SelectShares, Continue, JoinUsingScanner, JoinUsingCode, JoinedClub,
     TapNotification, Back, onTap, ButtonsUpTo, TypeRest
<1>4. TypeRest' /\ Known'
  BY <1>1, <1>2, <1>3 DEF navVars, loginVars, requestVars,
     TypeRest, Known
<1>5. ASSUME NEW n \in PageNames \ {"login"}, n = "dashboard" => Listen(user)
      PROVE  /\ GoodRoute(NewRoute(n, user), requested, listeners')
             /\ NewRoute(n, user).page # "login"
  <2>1. requested \in SUBSET Emails /\ user \in requested \cup {Null}
    BY DEF TypeRest, Known
  <2>2. n = "dashboard" => user \in listeners' \cup {Null}
    BY <1>5 DEF Listen
  <2> QED
    BY <2>1, <2>2 DEF GoodRoute, NewRoute, Route
<1>6. GoodStack(stack, requested, listeners')
  <2>1. listeners \subseteq listeners'
    BY Navigate DEF Navigate, OpenCreateClub, OpenSettings, OpenClubDetails,
       SelectShares, Continue, JoinUsingScanner, JoinUsingCode, JoinedClub,
       TapNotification, Back, onTap, Listen
  <2> QED
    BY <2>1, MoreIsGood
<1>7. ASSUME Continue
      PROVE  GoodStack(stack', requested, listeners')
  <2>1. "dashboard" \in PageNames \ {"login"}
    BY DEF PageNames, UserPages
  <2> QED
    BY <1>5, <1>6, <1>7, <2>1, ReplaceIsGood DEF Continue
<1>8. ASSUME Back
      PROVE  GoodStack(stack', requested, listeners')
  BY <1>6, <1>8, BackIsGood DEF Back
<1>9. ASSUME onTap
      PROVE  GoodStack(stack', requested, listeners')
  BY <1>6, <1>9 DEF onTap
<1>10. ASSUME ~Continue /\ ~Back /\ ~onTap
       PROVE  GoodStack(stack', requested, listeners')
  <2>1. PICK n \in PageNames \ {"login"} :
          Push(n) /\ (n = "dashboard" => Listen(user))
    BY <1>10, Navigate DEF Navigate, OpenCreateClub, OpenSettings,
       OpenClubDetails, SelectShares, JoinUsingScanner, JoinUsingCode,
       JoinedClub, TapNotification, PageNames, UserPages
  <2> QED
    BY <1>5, <1>6, <2>1, AppendIsGood DEF Push
<1> QED
  BY <1>1, <1>4, <1>7, <1>8, <1>9, <1>10

\* The inductive invariant holds for every number of addresses, presses and
\* routes, whatever answers, restarts and taps come in between.
THEOREM SessionInvHolds == Spec => []SessionInv
<1>1. Init => SessionInv
  BY GoodInit, GoodIsInv
<1>2. SessionInv /\ [Next]_vars => SessionInv'
  <2> SUFFICES ASSUME Good, [Next]_vars
               PROVE  Good'
    <3>1. SessionInv' <=> Good'
      BY GoodIsInv, PTL
    <3> QED
      BY <3>1, GoodIsInv
  <2>1. CASE UNCHANGED vars
    BY <2>1 DEF vars, Good, TypeRest, Known, GoodStack
  <2> QED
    BY <2>1, GoodStart, GoodLogin, GoodLeave, GoodNavigate DEF Next
<1> QED
  BY <1>1, <1>2, PTL DEF Spec

\* The accounts, the stack, the form, the requests and the listeners have
\* their types in every state; the stack is never empty.
THEOREM SessionTyped == Spec => []TypeOK
BY SessionInvHolds, PTL DEF SessionInv

\* The login page is only ever the first route of the stack.
THEOREM LoginIsAtBottom == Spec => []LoginAtBottom
BY SessionInvHolds, PTL DEF SessionInv

\* No page of one session is left on the stack for the next one.
THEOREM PagesAreOfThisSession == Spec => []PagesOfThisSession
BY SessionInvHolds, PTL DEF SessionInv

\* Every Dashboard on the stack has a listener that words messages for its
\* user, through all sign-ups and logouts of the process.
THEOREM DashboardsAreHeard == Spec => []DashboardsListen
BY SessionInvHolds, PTL DEF SessionInv

-----------------------------------------------------------------------------
(***************************************************************************)
(* Accounts that exist, and pages without a user                           *)
(***************************************************************************)

\* createUserWithEmailAndPassword, the one call behind "Log In", throws for an
\* account that exists: whoever has an account and is signed out, by a logout
\* or by a second sign-up, is never signed in again, whichever presses are
\* answered in whichever order and however often the app is restarted.
THEOREM NobodyReturns ==
  ASSUME NEW e \in Emails
  PROVE  Spec => []((e \in accounts /\ user # e) => [](user # e))
<1> DEFINE Out == e \in accounts /\ user # e
<1>1. Out /\ [Next]_vars => Out'
  <2> SUFFICES ASSUME Out, [Next]_vars
               PROVE  Out'
    OBVIOUS
  <2>1. e # Null
    BY SessionAssumption
  <2>2. CASE Start
    BY <2>2 DEF Start, PermissionAnswered, _checkLoggedIn, Restart
  <2>3. CASE Login
    BY <2>3 DEF Login, validator, LogInInvalid, LogIn, signIn, AccountExists,
       SignInFailed
  <2>4. CASE LeaveSession
    BY <2>1, <2>4 DEF LeaveSession, Logout, SignedOut, LogoutFailed, _logout
  <2>5. CASE Navigate
    BY <2>5 DEF Navigate, OpenCreateClub, OpenSettings, OpenClubDetails,
       SelectShares, Continue, JoinUsingScanner, JoinUsingCode, JoinedClub,
       TapNotification, Back, onTap, navVars
  <2>6. CASE UNCHANGED vars
    BY <2>6 DEF vars
  <2> QED
    BY <2>2, <2>3, <2>4, <2>5, <2>6 DEF Next
<1>2. Out => user # e
  OBVIOUS
<1> QED
  BY <1>1, <1>2, PTL DEF Spec

\* A page that is built while u is signed in has that user.
LEMMA NewRouteHasUser ==
  ASSUME NEW u, NEW name \in PageNames,
         u = Null => name \in {"splash", "login"}
  PROVE  /\ NewRoute(name, u).page = name
         /\ name \in UserPages => NewRoute(name, u).admin # Null
BY DEF NewRoute, UserPages

\* The splash screen and what follows it keep UsersStay.
LEMMA UsersStart ==
  ASSUME SessionInv, UsersStay, Start
  PROVE  UsersStay'
<1>1. CASE PermissionAnswered
  <2>1. UNCHANGED <<stack, user, listeners>> /\ splash' = user
    BY <1>1 DEF PermissionAnswered
  <2> QED
    BY <2>1 DEF UsersStay, PagesHaveUsers
<1>2. CASE _checkLoggedIn
  <2>1. PICK n \in {"home", "login"} :
          /\ stack' = <<NewRoute(n, user)>>
          /\ user = Null => n = "login"
    BY <1>2 DEF _checkLoggedIn, UsersStay
  <2>2. NewRoute(n, user).page = n
        /\ (n \in UserPages => NewRoute(n, user).admin # Null)
    BY <2>1, NewRouteHasUser DEF PageNames, UserPages
  <2>3. \A i \in 1..Len(stack') : stack'[i] = NewRoute(n, user)
    BY <2>1
  <2> QED
    BY <1>2, <2>1, <2>2, <2>3
       DEF _checkLoggedIn, UsersStay, PagesHaveUsers, UserPages
<1>3. CASE Restart
  <2>1. NewRoute("splash", Null).page = "splash"
    BY DEF NewRoute
  <2>2. \A i \in 1..Len(stack') : stack'[i].page = "splash"
    BY <1>3, <2>1 DEF Restart
  <2> QED
    BY <1>3, <2>2 DEF Restart, UsersStay, PagesHaveUsers, UserPages
<1> QED
  BY <1>1, <1>2, <1>3, Start DEF Start

\* So do the login page and the answers to its requests.
LEMMA UsersLogin ==
  ASSUME SessionInv, UsersStay, Login
  PROVE  UsersStay'
<1>1. ASSUME NEW p \in Presses, signIn(p)
      PROVE  UsersStay'
  <2>1. PICK e : e = request[p]
    OBVIOUS
  <2>2. e # Null /\ user' = e /\ UNCHANGED splash
    BY <1>1, <2>1 DEF signIn
  <2>3. stack \in Seq(Route) /\ Len(stack) \in Nat
    BY DEF SessionInv, TypeOK
  <2>4. \/ stack' = stack
        \/ stack' = [stack EXCEPT ![Len(stack)] = NewRoute("dashboard", e)]
    BY <1>1, <2>1 DEF signIn
  <2>5. NewRoute("dashboard", e).admin # Null
    BY <2>2 DEF NewRoute, UserPages
  <2>6. \A i \in 1..Len(stack') :
          stack'[i].page \in UserPages => stack'[i].admin # Null
    BY <2>3, <2>4, <2>5 DEF UsersStay, PagesHaveUsers
  <2> QED
    BY <2>2, <2>6 DEF UsersStay, PagesHaveUsers
<1>2. CASE UNCHANGED <<user, stack, splash, listeners>>
  BY <1>2 DEF UsersStay, PagesHaveUsers
<1> QED
  BY <1>1, <1>2, Login DEF Login, validator, LogInInvalid, LogIn,
     AccountExists, SignInFailed

\* So does a logout, but for its signOut.
LEMMA UsersLeave ==
  ASSUME SessionInv, UsersStay, LeaveSession, NobodySignsOut
  PROVE  UsersStay'
<1>1. ASSUME NEW p \in Presses, Logout(p) \/ LogoutFailed(p)
      PROVE  UsersStay'
  BY <1>1 DEF Logout, LogoutFailed, UsersStay, PagesHaveUsers
<1>2. ASSUME NEW p \in Presses, _logout(p)
      PROVE  UsersStay'
  <2>1. NewRoute("login", user).page = "login"
    BY DEF NewRoute
  <2>2. \A i \in 1..Len(stack') : stack'[i].page = "login"
    BY <1>2, <2>1 DEF _logout
  <2> QED
    BY <1>2, <2>2 DEF _logout, UsersStay, PagesHaveUsers, UserPages
<1> QED
  BY <1>1, <1>2, LeaveSession DEF LeaveSession, NobodySignsOut

\* So does moving between the pages: those who can do it are signed in.
LEMMA UsersNavigate ==
  ASSUME SessionInv, UsersStay, Navigate
  PROVE  UsersStay'
<1> USE DEF UsersStay
<1>1. stack \in Seq(Route) /\ Len(stack) \in Nat /\ Len(stack) >= 1
  BY SessionAssumption DEF SessionInv, TypeOK
<1>2. UNCHANGED <<user, splash>>
  BY Navigate DEF Navigate, OpenCreateClub, OpenSettings, OpenClubDetails,
     SelectShares, Continue, JoinUsingScanner, JoinUsingCode, JoinedClub,
     TapNotification, Back, onTap, navVars
<1>3. ASSUME NEW i \in 1..Len(stack), stack[i].page \notin {"splash", "login"}
      PROVE  user # Null
  BY <1>3
<1>4. CASE Back
  <2>1. /\ Len(stack') = Len(stack) - 1
        /\ \A i \in 1..Len(stack') : i \in 1..Len(stack)
                                    /\ stack'[i] = stack[i]
    BY <1>1, <1>4 DEF Back
  <2> QED
    BY <1>2, <1>4, <2>1 DEF Back, PagesHaveUsers
<1>5. CASE onTap
  BY <1>2, <1>5 DEF onTap, PagesHaveUsers
<1>6. CASE ~Back /\ ~onTap
  <2>1. user # Null
    <3>1. Len(stack) \in 1..Len(stack)
      BY <1>1
    <3>2. CASE Top \in UserPages \cup {"sheet"}
      BY <1>3, <3>1, <3>2 DEF Top, UserPages
    <3>3. CASE JoinedClub
      BY <1>3, <3>3 DEF JoinedClub, OnStack
    <3>4. CASE listeners # {}
      BY <3>4
    <3> QED
      BY <1>6, <3>2, <3>3, <3>4, Navigate DEF Navigate, OpenCreateClub,
         OpenSettings, OpenClubDetails, SelectShares, Continue,
         JoinUsingScanner, JoinUsingCode, TapNotification, UserPages
  <2>2. PICK name \in PageNames :
          \/ stack' = Append(stack, NewRoute(name, user))
          \/ stack' = [stack EXCEPT ![Len(stack)] = NewRoute(name, user)]
    BY <1>6, Navigate DEF Navigate, OpenCreateClub, OpenSettings,
       OpenClubDetails, SelectShares, Continue, JoinUsingScanner,
       JoinUsingCode, JoinedClub, TapNotification, Push, PageNames, UserPages
  <2>3. NewRoute(name, user).page \in UserPages
          => NewRoute(name, user).admin # Null
    BY <2>1, NewRouteHasUser
  <2>4. \A i \in 1..Len(stack') :
          \/ i \in 1..Len(stack) /\ stack'[i] = stack[i]
          \/ stack'[i] = NewRoute(name, user)
    BY <1>1, <2>2
  <2> QED
    BY <1>2, <2>1, <2>3, <2>4 DEF PagesHaveUsers
<1> QED
  BY <1>4, <1>5, <1>6

\* What `currentUser!` takes for granted in CreateClub, HomePage and Dashboard
\* is true of every run without a signOut, through restarts, late sign-ups and
\* notifications: a logout under way is the only way to build such a page
\* without a user.
THEOREM UsersUnlessSigningOut ==
    Spec /\ [][NobodySignsOut]_vars => []PagesHaveUsers
<1>1. Init => UsersStay
  <2> SUFFICES ASSUME Init PROVE UsersStay
    OBVIOUS
  <2>1. NewRoute("splash", Null).page = "splash"
    BY DEF NewRoute
  <2>2. \A i \in 1..Len(stack) : stack[i].page = "splash"
    BY <2>1 DEF Init
  <2> QED
    BY <2>2 DEF Init, UsersStay, PagesHaveUsers, UserPages
<1>2. SessionInv /\ UsersStay /\ [Next]_vars /\ [NobodySignsOut]_vars
        => UsersStay'
  <2> SUFFICES ASSUME SessionInv, UsersStay, [Next]_vars,
                      [NobodySignsOut]_vars
               PROVE  UsersStay'
    OBVIOUS
  <2>1. CASE UNCHANGED vars
    BY <2>1 DEF vars, UsersStay, PagesHaveUsers
  <2> QED
    BY <2>1, UsersStart, UsersLogin, UsersLeave, UsersNavigate DEF Next
<1>3. UsersStay => PagesHaveUsers
  BY DEF UsersStay
<1> QED
  BY <1>1, <1>2, <1>3, SessionInvHolds, PTL DEF Spec
=============================================================================
