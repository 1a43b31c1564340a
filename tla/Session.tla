------------------------------- MODULE Session -------------------------------
(***************************************************************************)
(* Signing up, signing out and moving between the app's pages.             *)
(*                                                                         *)
(* The state is what Firebase Auth keeps (accounts, and the current user,  *)
(* which outlives the process), what the process keeps (the navigator's    *)
(* stack of routes, the login form, requests it awaits, message listeners) *)
(* and a little history for the properties.  HomePage, CreateClub and      *)
(* Dashboard read currentUser!.email! while they are constructed: their    *)
(* routes carry that email, or Null when the read found no user.           *)
(*                                                                         *)
(* Pages reached from ClubDetails read no user and push no page that does; *)
(* they are all "details".  The two tabs of Dashboard are not told apart.  *)
(***************************************************************************)
EXTENDS Naturals, Sequences

CONSTANTS
    Emails,     \* well-formed email addresses
    Presses,    \* presses of a button whose handler can be under way
    Platform,   \* "android", "ios" or "desktop"
    MaxDepth,   \* bound on the routes on the stack
    Null        \* no user, no request; also the empty string in _email

ASSUME SessionAssumption ==
    /\ Null \notin Emails
    /\ MaxDepth \in Nat \ {0}
    /\ Platform \in {"android", "ios", "desktop"}

VARIABLES
    accounts,   \* emails Firebase has an account for
    user,       \* FirebaseAuth.instance.currentUser
    stack,      \* the navigator's routes, the one on the screen last
    splash,     \* what _checkLoggedIn read before its delay; until then, and
                \* once the splash screen is gone, "asking"
    field,      \* the Email field: an address, or "invalid"
    _email,     \* what the validator last accepted
    form,       \* the login page was built with the form, not the label
    request,    \* request[p]: the email press p is creating an account for
    orphans,    \* presses whose login page has been removed since
    logout,     \* logout[p]: the await at which press p of "Log out" stands
    button,     \* button[p]: the route that button is on, 0 when it is gone
    listeners,  \* emails captured by the onMessage listeners
    requested   \* history: emails that may sign in since the stack was cleared

loginVars == <<field, _email, form>>
requestVars == <<request, orphans>>
logoutVars == <<logout, button>>
vars == <<accounts, user, stack, splash, field, _email, form, request, orphans,
          logout, button, listeners, requested>>

UserPages == {"dashboard", "home", "create"}
PageNames == UserPages \cup
             {"splash", "login", "settings", "sheet", "join", "scanner",
              "details"}
Route == [page: PageNames, admin: Emails \cup {Null}]

TypeOK ==
    /\ accounts \subseteq Emails
    /\ user \in Emails \cup {Null}
    /\ stack \in Seq(Route) /\ Len(stack) \in 1..MaxDepth
    /\ splash \in Emails \cup {Null, "asking"}
    /\ field \in Emails \cup {"invalid"}
    /\ _email \in Emails \cup {Null}
    /\ form \in BOOLEAN
    /\ request \in [Presses -> Emails \cup {Null}]
    /\ orphans \subseteq Presses
    /\ logout \in [Presses -> {"none", "signingOut", "deletingToken"}]
    /\ button \in [Presses -> 0..MaxDepth]
    /\ listeners \subseteq Emails
    /\ requested \subseteq Emails

Top == stack[Len(stack)].page
InFlight == {p \in Presses : request[p] # Null}
Carried == ({user} \cup {request[p] : p \in Presses}) \ {Null}
OnStack(name) == \E i \in 1..Len(stack) : stack[i].page = name

\* A route as its page's constructor leaves it.
NewRoute(name, u) ==
    [page |-> name, admin |-> IF name \in UserPages THEN u ELSE Null]

Push(name) ==
    /\ Len(stack) < MaxDepth
    /\ stack' = Append(stack, NewRoute(name, user))

\* The route of a button in a stack cut to n routes.
ButtonsUpTo(n) == [p \in Presses |-> IF button[p] <= n THEN button[p] ELSE 0]

\* Slip: only the first Dashboard of the process subscribes a listener.
Listen_Once(u) == listeners' = IF u = Null \/ listeners # {}
                               THEN listeners ELSE {u}

\* Dashboard.initState subscribes a listener; without a user it throws first.
Listen(u) == listeners' = IF u = Null THEN listeners ELSE listeners \cup {u}

\* A new LoginPage has empty fields and shows the form.  So does the model
\* while there is none.
FreshLogin == field' = "invalid" /\ _email' = Null /\ form' = TRUE

Init ==
    /\ accounts \in SUBSET Emails
    /\ user \in accounts \cup {Null}
    /\ stack = <<NewRoute("splash", Null)>>
    /\ splash = "asking"
    /\ field = "invalid" /\ _email = Null /\ form = TRUE
    /\ request = [p \in Presses |-> Null] /\ orphans = {}
    /\ logout = [p \in Presses |-> "none"] /\ button = [p \in Presses |-> 0]
    /\ listeners = {}
    /\ requested = {user} \ {Null}

-----------------------------------------------------------------------------
(***************************************************************************)
(* Start and restart                                                       *)
(***************************************************************************)

\* The permission dialog is answered; the user is read before the delay.
PermissionAnswered ==
    /\ Top = "splash" /\ splash = "asking"
    /\ splash' = user
    /\ UNCHANGED <<accounts, user, stack, loginVars, requestVars, logoutVars,
                   listeners, requested>>

\* Slip: the else branch is missing.
_checkLoggedIn_NoElse ==
    /\ Top = "splash" /\ splash # "asking" /\ splash # Null
    /\ stack' = <<NewRoute("home", user)>>
    /\ splash' = "asking"
    /\ FreshLogin
    /\ UNCHANGED <<accounts, user, requestVars, logoutVars, listeners,
                   requested>>

\* After the delay: HomePage for a user, LoginPage for none.
_checkLoggedIn ==
    /\ Top = "splash" /\ splash # "asking"
    /\ stack' = <<NewRoute(IF splash # Null THEN "home" ELSE "login", user)>>
    /\ splash' = "asking"
    /\ FreshLogin
    /\ UNCHANGED <<accounts, user, requestVars, logoutVars, listeners,
                   requested>>

\* The process is killed and started again.  Requests under way may still
\* create their accounts; nobody is signed in by them.
Restart ==
    /\ \E made \in SUBSET {request[p] : p \in Presses} :
         accounts' = accounts \cup (made \ {Null})
    /\ stack' = <<NewRoute("splash", Null)>>
    /\ splash' = "asking"
    /\ FreshLogin
    /\ request' = [p \in Presses |-> Null] /\ orphans' = {}
    /\ logout' = [p \in Presses |-> "none"]
    /\ button' = [p \in Presses |-> 0]
    /\ listeners' = {}
    /\ requested' = {user} \ {Null}
    /\ UNCHANGED user

-----------------------------------------------------------------------------
(***************************************************************************)
(* The login page                                                          *)
(***************************************************************************)

\* Typing validates the field: a well-formed address is kept in _email, an
\* ill-formed one leaves the last accepted address there.
validator(text) ==
    /\ Top = "login" /\ form
    /\ field' = text
    /\ _email' = IF text \in Emails THEN text ELSE _email
    /\ UNCHANGED <<accounts, user, stack, splash, form, requestVars,
                   logoutVars, listeners, requested>>

\* "Log In" with a valid field: signIn posts the address.
LogIn(p) ==
    /\ Top = "login" /\ form
    /\ field \in Emails /\ request[p] = Null
    /\ _email' = field
    /\ request' = [request EXCEPT ![p] = field]
    /\ requested' = requested \cup {field}
    /\ UNCHANGED <<accounts, user, stack, splash, field, form, orphans,
                   logoutVars, listeners>>

\* "Log In" with an invalid field: the page is only built again.
LogInInvalid ==
    /\ Top = "login" /\ form
    /\ field \notin Emails
    /\ form' = (_email = Null)
    /\ UNCHANGED <<accounts, user, stack, splash, field, _email, requestVars,
                   logoutVars, listeners, requested>>

\* The account is made and its user signed in; pushReplacement puts Dashboard
\* in the place of the top route, and the login page, if it is still below,
\* is built again with the label.  If the press's login page is gone by then,
\* its context has no navigator and the call throws.
signIn(p) ==
    LET e == request[p]
    IN  /\ e # Null /\ e \notin accounts
        /\ accounts' = accounts \cup {e}
        /\ user' = e
        /\ request' = [request EXCEPT ![p] = Null]
        /\ IF p \notin orphans
           THEN /\ stack' = [stack EXCEPT ![Len(stack)] =
                               NewRoute("dashboard", e)]
                /\ button' = ButtonsUpTo(Len(stack) - 1)
                /\ Listen(e)
                /\ orphans' = IF Top = "login" THEN InFlight \ {p} ELSE orphans
                /\ IF Top = "login" THEN FreshLogin
                                    ELSE /\ form' = FALSE
                                         /\ UNCHANGED <<field, _email>>
           ELSE /\ orphans' = orphans \ {p}
                /\ UNCHANGED <<stack, button, listeners, loginVars>>
        /\ UNCHANGED <<splash, logout, requested>>

\* createUserWithEmailAndPassword throws: the account exists already.
AccountExists(p) ==
    /\ request[p] # Null /\ request[p] \in accounts
    /\ request' = [request EXCEPT ![p] = Null] /\ orphans' = orphans \ {p}
    /\ UNCHANGED <<accounts, user, stack, splash, loginVars, logoutVars,
                   listeners, requested>>

\* It throws for want of a network, before or after Firebase acted.
SignInFailed(p) ==
    /\ request[p] # Null
    /\ accounts' \in {accounts, accounts \cup {request[p]}}
    /\ request' = [request EXCEPT ![p] = Null] /\ orphans' = orphans \ {p}
    /\ UNCHANGED <<user, stack, splash, loginVars, logoutVars, listeners,
                   requested>>

-----------------------------------------------------------------------------
(***************************************************************************)
(* Signing out: signOut, then deleteToken, then the login page             *)
(***************************************************************************)

Logout(p) ==
    /\ Top \in {"settings", "dashboard"} /\ logout[p] = "none"
    /\ logout' = [logout EXCEPT ![p] = "signingOut"]
    /\ button' = [button EXCEPT ![p] = Len(stack)]
    /\ UNCHANGED <<accounts, user, stack, splash, loginVars, requestVars,
                   listeners, requested>>

\* signOut returns, also when nobody is signed in any more.
SignedOut(p) ==
    /\ logout[p] = "signingOut"
    /\ user' = Null
    /\ logout' = [logout EXCEPT ![p] = "deletingToken"]
    /\ UNCHANGED <<accounts, stack, splash, loginVars, requestVars, button,
                   listeners, requested>>

\* deleteToken throws, or returns when the page with the button is gone and
\* its context has no navigator: _logout ends where it stands.
LogoutFailed(p) ==
    /\ logout[p] = "deletingToken"
    /\ logout' = [logout EXCEPT ![p] = "none"]
    /\ button' = [button EXCEPT ![p] = 0]
    /\ UNCHANGED <<accounts, user, stack, splash, loginVars, requestVars,
                   listeners, requested>>

\* Slip: the predicate of pushAndRemoveUntil keeps the first route.
_logout_KeepsFirst(p) ==
    /\ logout[p] = "deletingToken" /\ button[p] # 0
    /\ logout' = [logout EXCEPT ![p] = "none"]
    /\ button' = ButtonsUpTo(0)
    /\ stack' = <<stack[1], NewRoute("login", user)>>
    /\ FreshLogin
    /\ orphans' = InFlight
    /\ requested' = Carried
    /\ UNCHANGED <<accounts, user, splash, request, listeners>>

\* The token is deleted: every route is removed and the login page pushed.
_logout(p) ==
    /\ logout[p] = "deletingToken" /\ button[p] # 0
    /\ logout' = [logout EXCEPT ![p] = "none"]
    /\ button' = ButtonsUpTo(0)
    /\ stack' = <<NewRoute("login", user)>>
    /\ FreshLogin
    /\ orphans' = InFlight
    /\ requested' = Carried
    /\ UNCHANGED <<accounts, user, splash, request, listeners>>

-----------------------------------------------------------------------------
(***************************************************************************)
(* Navigation                                                              *)
(***************************************************************************)
navVars == <<accounts, user, splash, loginVars, requestVars, logout,
             requested>>

OpenCreateClub ==
    /\ Top \in {"dashboard", "home"}
    /\ Push("create")
    /\ UNCHANGED <<navVars, button, listeners>>

OpenSettings ==
    /\ Top \in UserPages
    /\ Push("settings")
    /\ UNCHANGED <<navVars, button, listeners>>

OpenClubDetails ==
    /\ Top \in {"dashboard", "home"}
    /\ Push("details")
    /\ UNCHANGED <<navVars, button, listeners>>

\* "Create" opens the share picker; "Continue" starts the creation and puts
\* Dashboard in the place of the picker, above the CreateClub page.
SelectShares ==
    /\ Top = "create"
    /\ Push("sheet")
    /\ UNCHANGED <<navVars, button, listeners>>

Continue ==
    /\ Top = "sheet"
    /\ stack' = [stack EXCEPT ![Len(stack)] = NewRoute("dashboard", user)]
    /\ Listen(user)
    /\ UNCHANGED <<navVars, button>>

JoinUsingScanner ==
    /\ Top = "create"
    /\ Platform = "android" \/ Platform = "ios"
    /\ Push(IF Platform = "android" /\ Platform = "ios"
            THEN "scanner" ELSE "join")
    /\ UNCHANGED <<navVars, button, listeners>>

JoinUsingCode ==
    /\ Top = "create"
    /\ Push("join")
    /\ UNCHANGED <<navVars, button, listeners>>

\* The join handler's last step, while its page is still there.
JoinedClub ==
    /\ OnStack("join")
    /\ Push("dashboard")
    /\ Listen(user)
    /\ UNCHANGED <<navVars, button>>

\* The badge of a message, shown by the listener that captured e: one about e
\* opens the club only if it says that e was added.
TapNotification(e, about, added) ==
    /\ e \in listeners
    /\ about = e => added
    /\ Push("details")
    /\ UNCHANGED <<navVars, button, listeners>>

\* Slip: the last route is popped as well.
Back_PopsRoot ==
    /\ Len(stack) > 0
    /\ stack' = SubSeq(stack, 1, Len(stack) - 1)
    /\ button' = ButtonsUpTo(Len(stack) - 1)
    /\ UNCHANGED <<navVars, listeners>>

Back ==
    /\ Len(stack) > 1
    /\ stack' = SubSeq(stack, 1, Len(stack) - 1)
    /\ button' = ButtonsUpTo(Len(stack) - 1)
    /\ UNCHANGED <<navVars, listeners>>

\* Dashboard's other tab: the settings with their button are gone.
onTap ==
    /\ Top = "dashboard"
    /\ button' = ButtonsUpTo(Len(stack) - 1)
    /\ button' # button
    /\ UNCHANGED <<navVars, stack, listeners>>

-----------------------------------------------------------------------------
Start == PermissionAnswered \/ _checkLoggedIn \/ Restart

Login ==
    \/ \E text \in Emails \cup {"invalid"} : validator(text)
    \/ LogInInvalid
    \/ \E p \in Presses :
         LogIn(p) \/ signIn(p) \/ AccountExists(p) \/ SignInFailed(p)

LeaveSession ==
    \E p \in Presses :
        Logout(p) \/ SignedOut(p) \/ LogoutFailed(p) \/ _logout(p)

Navigate ==
    \/ OpenCreateClub
    \/ OpenSettings
    \/ OpenClubDetails
    \/ SelectShares
    \/ Continue
    \/ JoinUsingScanner
    \/ JoinUsingCode
    \/ JoinedClub
    \/ \E e, about \in Emails, added \in BOOLEAN :
         TapNotification(e, about, added)
    \/ Back
    \/ onTap

Next == Start \/ Login \/ LeaveSession \/ Navigate

Spec == Init /\ [][Next]_vars

\* The user answers the permission dialog, the delay passes, and the two
\* calls of _logout return or throw.
Fairness ==
    /\ WF_vars(PermissionAnswered)
    /\ WF_vars(_checkLoggedIn)
    /\ \A p \in Presses : /\ WF_vars(SignedOut(p))
                          /\ WF_vars(_logout(p) \/ LogoutFailed(p))

FairSpec == Spec /\ Fairness
-----------------------------------------------------------------------------
(***************************************************************************)
(* Properties                                                              *)
(***************************************************************************)

\* The login page is only ever the first route: no chain of pages, late
\* sign-ups, notifications and logouts puts it above a page of a session.
LoginAtBottom ==
    \A i \in 1..Len(stack) : stack[i].page = "login" => i = 1

\* Every page on the stack that captured an email captured the one the process
\* started with, or one posted since the stack was last cleared, or one that
\* was signed in or being posted at that moment: no page of one session is
\* left for the next, whatever sign-ups are answered late.
PagesOfThisSession ==
    \A i \in 1..Len(stack) : stack[i].admin \in requested \cup {Null}

\* The user of every Dashboard on the stack has a listener, which words the
\* messages about them with "You", whoever had one before: listeners capture
\* an email and are never cancelled, and the process may go through users.
DashboardsListen ==
    \A i \in 1..Len(stack) :
        stack[i].page = "dashboard" => stack[i].admin \in listeners \cup {Null}

\* What `currentUser!` asserts in CreateClub, HomePage and Dashboard: they are
\* only built while someone is signed in.
PagesHaveUsers ==
    \A i \in 1..Len(stack) :
        stack[i].page \in UserPages => stack[i].admin # Null

\* A step in which no signOut returns.  Where there are only such steps,
\* PagesHaveUsers holds.
NobodySignsOut == \A p \in Presses : ~SignedOut(p)

\* The splash screen is left in the end, for a user and for none, unless the
\* process is killed again and again.
SplashEnds == <>[][~Restart]_vars => (Top = "splash" ~> Top # "splash")

-----------------------------------------------------------------------------
\* The strengthening that makes the invariants above inductive: whoever is
\* signed in, or may still be by a request under way, is in the history.
SessionInv ==
    /\ TypeOK
    /\ LoginAtBottom
    /\ PagesOfThisSession
    /\ DashboardsListen
    /\ user \in requested \cup {Null}
    /\ \A p \in Presses : request[p] \in requested \cup {Null}

\* What makes PagesHaveUsers inductive while nobody signs out: without a user
\* the app has come no further than the login page.
UsersStay ==
    /\ PagesHaveUsers
    /\ splash \notin {"asking", Null} => user # Null
    /\ user = Null =>
         /\ listeners = {}
         /\ \A i \in 1..Len(stack) : stack[i].page \in {"splash", "login"}
=============================================================================
