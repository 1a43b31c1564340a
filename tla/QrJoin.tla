-------------------------------- MODULE QrJoin --------------------------------
(***************************************************************************)
(* Joining a club by its QR code: AddMemberPage, which shows a code that   *)
(* it stamps anew every TimerSeconds, and the scanner, which takes a code  *)
(* for fresh or expired by its own clock.                                  *)
(*                                                                         *)
(* A code carries the club, the shares and the stamp.  The stamp is        *)
(* written as local time without a zone, and parsed as local time of the   *)
(* phone that reads it: what counts is the wall clock of each phone, its   *)
(* zone included.  Encryption has one fixed key, so any code the app made  *)
(* is read back as it was written; anything else throws before the handler *)
(* changes its state, and scanning goes on.                                *)
(*                                                                         *)
(* A route that is popped leaves the screen in a transition.  Until that   *)
(* ends the scanner's State is mounted: it reads codes, and its context    *)
(* still finds the navigator.  Every visit to the scanner is a State of    *)
(* its own, and several may be mounted.                                    *)
(*                                                                         *)
(* Times are in milliseconds.  A timer fires when its delay is over, or    *)
(* later.  A code stays readable after it left the screen, as a picture.   *)
(* The frame between a stamp and its painting is not told apart.  At this  *)
(* commit no button opens the scanner (create_club.dart:315 asks for a     *)
(* platform that is Android and iOS at once); the page is taken as it is.  *)
(***************************************************************************)
EXTENDS Integers, Sequences, FiniteSets

CONSTANTS
    Pages,          \* AddMemberPages, each on a phone of its own
    Scanners,       \* phones that scan
    TimerSeconds,   \* _timerSeconds, 30 in the code
    Expiry,         \* 31 in the code
    Instants,       \* moments told apart
    Skews,          \* how far a wall clock may be ahead of the true time
    MaxSkew,        \* a bound on that, either way
    MaxCodes,       \* bound on the codes made
    MaxVisits,      \* bound on the scanners opened on a phone
    MaxDepth,       \* bound on the routes on a stack
    Null            \* no page

Phones == Pages \cup Scanners
Code == [page: Pages, stamp: Int, at: Nat]  \* at is history: the true time

ASSUME QrAssumption ==
    /\ TimerSeconds \in Nat \ {0} /\ Expiry \in Nat
    /\ Instants \subseteq Nat /\ Skews \subseteq Int /\ MaxSkew \in Nat
    /\ \A k \in Skews : -MaxSkew <= k /\ k <= MaxSkew
    /\ MaxDepth \in Nat \ {0} /\ MaxVisits \in Nat
ASSUME QrNullAssumption ==
    Null \notin [_qrCreated: Int, armed: Nat, i: Nat, label: Nat, ticked: Nat]

VARIABLES
    time,       \* the true time
    ahead,      \* ahead[ph]: how far the wall clock of a phone is ahead
    page,       \* page[p]: the stamp and the two streams of a page
    codes,      \* codes that were painted, on a screen or a picture of it
    stack,      \* stack[s]: the routes on a scanning phone
    visit,      \* visit[s]: how many scanners were opened there
    scan,       \* scan[s][v]: the scanner of visit v, "off" when not mounted
    requests,   \* requests addMemberFromQR has sent
    members     \* those of them the server has handled

pageVars == <<page, codes>>
scannerVars == <<stack, visit, scan, requests, members>>
vars == <<time, ahead, page, codes, stack, visit, scan, requests, members>>

\* armed and ticked are the true times at which the delays began.
Page == [_qrCreated: Int, armed: Nat, i: 1..TimerSeconds,
         label: 1..TimerSeconds, ticked: Nat]
Request == [scanner: Scanners, visit: 1..MaxVisits, code: Code, at: Nat]
Visits == 1..MaxVisits
RouteNames == {"base", "create", "scanner", "details"}
ScanStates == {"off", "scanning", "posting", "expired", "failed", "done"}

TypeOK ==
    /\ time \in Nat
    /\ ahead \in [Phones -> Skews]
    /\ page \in [Pages -> Page \cup {Null}]
    /\ codes \subseteq Code
    /\ stack \in [Scanners -> Seq(RouteNames)]
    /\ visit \in [Scanners -> 0..MaxVisits]
    /\ scan \in [Scanners -> [Visits -> ScanStates]]
    /\ requests \subseteq Request
    /\ members \subseteq requests

Init ==
    /\ time \in Instants
    /\ ahead \in [Phones -> Skews]
    /\ page = [p \in Pages |-> Null]
    /\ codes = {}
    /\ stack = [s \in Scanners |-> <<"base">>]
    /\ visit = [s \in Scanners |-> 0]
    /\ scan = [s \in Scanners |-> [v \in Visits |-> "off"]]
    /\ requests = {} /\ members = {}

now(ph) == time + ahead[ph]

-----------------------------------------------------------------------------
(***************************************************************************)
(* AddMemberPage                                                           *)
(***************************************************************************)

Paint(p) ==
    /\ Cardinality(codes) < MaxCodes
    /\ codes' = codes \cup
         {[page |-> p, stamp |-> page'[p]._qrCreated, at |-> time]}

\* The page is built: the code is stamped, both streams begin their delays.
AddMemberPage(p) ==
    /\ page[p] = Null
    /\ page' = [page EXCEPT ![p] =
                  [_qrCreated |-> now(p), armed |-> time,
                   i |-> TimerSeconds, label |-> TimerSeconds,
                   ticked |-> time]]
    /\ Paint(p)
    /\ UNCHANGED <<time, ahead, scannerVars>>

\* Slip: the count is not started again.
timerCount_NoReset(p) ==
    /\ page[p] # Null /\ time >= page[p].ticked + 1000
    /\ page' = [page EXCEPT ![p].label = page[p].i, ![p].i = page[p].i - 1,
                            ![p].ticked = time]
    /\ UNCHANGED <<time, ahead, codes, scannerVars>>

\* A second later the label shows the count, which goes down to 1.
timerCount(p) ==
    /\ page[p] # Null /\ time >= page[p].ticked + 1000
    /\ page' = [page EXCEPT ![p].label = page[p].i,
                            ![p].i = IF page[p].i - 1 = 0 THEN TimerSeconds
                                                          ELSE page[p].i - 1,
                            ![p].ticked = time]
    /\ UNCHANGED <<time, ahead, codes, scannerVars>>

\* Slip: the frame is painted with the old stamp.
qrReload_KeepsStamp(p) ==
    /\ page[p] # Null /\ time >= page[p].armed + 1000 * TimerSeconds
    /\ page' = [page EXCEPT ![p].armed = time]
    /\ Paint(p)
    /\ UNCHANGED <<time, ahead, scannerVars>>

\* The stamp is renewed after the yield and before the frame that paints it.
qrReload(p) ==
    /\ page[p] # Null /\ time >= page[p].armed + 1000 * TimerSeconds
    /\ page' = [page EXCEPT ![p]._qrCreated = now(p),
                            ![p].armed = time]
    /\ Paint(p)
    /\ UNCHANGED <<time, ahead, scannerVars>>

LeavePage(p) ==
    /\ page[p] # Null
    /\ page' = [page EXCEPT ![p] = Null]
    /\ UNCHANGED <<time, ahead, codes, scannerVars>>

-----------------------------------------------------------------------------
(***************************************************************************)
(* The scanning phone                                                      *)
(***************************************************************************)
worldUnchanged == UNCHANGED <<time, ahead, pageVars>>

Top(s) == stack[s][Len(stack[s])]

\* Some route is left, to push from or to go back to.
AnyRoute(s) == Len(stack[s]) > 0

\* The scanner of visit v has its route on the stack, or has lost it and is
\* still mounted.
OnStack(s, v) ==
    v = visit[s] /\ \E j \in 1..Len(stack[s]) : stack[s][j] = "scanner"
Exiting(s, v) == scan[s][v] # "off" /\ ~OnStack(s, v)

\* The stack without its last n routes; when there are fewer, without any.
Pop(s, n) ==
    stack' = [stack EXCEPT ![s] =
                SubSeq(stack[s], 1,
                       IF Len(stack[s]) > n THEN Len(stack[s]) - n ELSE 0)]

OpenCreateClub(s) ==
    /\ AnyRoute(s) /\ Top(s) = "base" /\ Len(stack[s]) < MaxDepth
    /\ stack' = [stack EXCEPT ![s] = Append(@, "create")]
    /\ UNCHANGED <<visit, scan, requests, members>>
    /\ worldUnchanged

QrCodeScanner(s) ==
    /\ AnyRoute(s) /\ Top(s) = "create" /\ Len(stack[s]) < MaxDepth
    /\ visit[s] < MaxVisits
    /\ stack' = [stack EXCEPT ![s] = Append(@, "scanner")]
    /\ visit' = [visit EXCEPT ![s] = @ + 1]
    /\ scan' = [scan EXCEPT ![s][visit[s] + 1] = "scanning"]
    /\ UNCHANGED <<requests, members>>
    /\ worldUnchanged

\* The badge of a message opens its club above whatever is there.
TapNotification(s) ==
    /\ AnyRoute(s) /\ Len(stack[s]) < MaxDepth
    /\ stack' = [stack EXCEPT ![s] = Append(@, "details")]
    /\ UNCHANGED <<visit, scan, requests, members>>
    /\ worldUnchanged

Back(s) ==
    /\ Len(stack[s]) > 1
    /\ Pop(s, 1)
    /\ UNCHANGED <<visit, scan, requests, members>>
    /\ worldUnchanged

\* The transition of a popped scanner ends, and its State is disposed of.
Unmount(s, v) ==
    /\ Exiting(s, v)
    /\ scan' = [scan EXCEPT ![s][v] = "off"]
    /\ UNCHANGED <<stack, visit, requests, members>>
    /\ worldUnchanged

\* Duration.inSeconds drops what is left over, towards zero.
inSeconds(d) == IF d >= 0 THEN d \div 1000 ELSE -((-d) \div 1000)

\* Slip: a stamp in the future, or of this second, is fresh as well.
Fresh_NoLowerBound(age) == inSeconds(age) < Expiry

Fresh(age) == inSeconds(age) < Expiry /\ inSeconds(age) > 0

\* Slip: the camera is stopped after the call, not before it.
addMemberFromQR_NotDisposed(s, v, c) ==
    /\ requests' = requests \cup
         {[scanner |-> s, visit |-> v, code |-> c, at |-> time]}
    /\ UNCHANGED scan

\* The request is sent; the scanner was disposed of before.
addMemberFromQR(s, v, c) ==
    /\ requests' = requests \cup
         {[scanner |-> s, visit |-> v, code |-> c, at |-> time]}
    /\ scan' = [scan EXCEPT ![s][v] = "posting"]

\* The camera reads a code of the app, also below another page or on its way
\* off the screen.  The handler disposes of the camera, and never starts it
\* again: a code that is not fresh leaves the message and a dead scanner, and
\* so does currentUser! when nobody is signed in.
_onQRViewCreated(s, v, c, signedIn) ==
    /\ scan[s][v] = "scanning"
    /\ LET fresh == Fresh(now(s) - c.stamp)
       IN  \/ /\ fresh /\ signedIn
              /\ addMemberFromQR(s, v, c)
           \/ /\ ~(fresh /\ signedIn)
              /\ scan' = [scan EXCEPT ![s][v] =
                            IF fresh THEN "failed" ELSE "expired"]
              /\ UNCHANGED requests
    /\ UNCHANGED <<stack, visit, members>>
    /\ worldUnchanged

\* The server adds the member; a request that is lost is never handled.
AddMemberHandled(r) ==
    /\ members' = members \cup {r}
    /\ UNCHANGED <<stack, visit, scan, requests>>
    /\ worldUnchanged

\* Slip: only an answer pops, after an error the page stays.
Answered_OnSuccess(s, v) ==
    /\ scan[s][v] = "posting"
    /\ \E r \in members : r.scanner = s /\ r.visit = v
    /\ scan' = [scan EXCEPT ![s][v] = "done"]
    /\ Pop(s, 2)
    /\ UNCHANGED <<visit, requests, members>>
    /\ worldUnchanged

\* Slip: the pops do not depend on the page: they go to the app's navigator.
Answered_NoContext(s, v) ==
    /\ \E r \in requests : r.scanner = s /\ r.visit = v
    /\ scan' = [scan EXCEPT ![s][v] = IF @ = "posting" THEN "done" ELSE @]
    /\ Pop(s, 2)
    /\ UNCHANGED <<visit, requests, members>>
    /\ worldUnchanged

\* The post returns or throws, which is caught: two routes are popped, from
\* the top, whichever they are by now.  When the State is disposed of its
\* context throws and nothing is popped: that is no step.
Answered(s, v) ==
    /\ scan[s][v] = "posting"
    /\ scan' = [scan EXCEPT ![s][v] = "done"]
    /\ Pop(s, 2)
    /\ UNCHANGED <<visit, requests, members>>
    /\ worldUnchanged

-----------------------------------------------------------------------------
TimePasses(t) ==
    /\ t > time
    /\ time' = t
    /\ UNCHANGED <<ahead, pageVars, scannerVars>>

\* A wall clock is set, or its zone changes.
SetClock(ph, k) ==
    /\ ahead' = [ahead EXCEPT ![ph] = k]
    /\ UNCHANGED <<time, pageVars, scannerVars>>

Showing ==
    \E p \in Pages :
        AddMemberPage(p) \/ timerCount(p) \/ qrReload(p) \/ LeavePage(p)

Scanning ==
    \/ \E s \in Scanners :
         \/ OpenCreateClub(s)
         \/ QrCodeScanner(s)
         \/ TapNotification(s)
         \/ Back(s)
         \/ \E v \in Visits :
              \/ \E c \in codes, signedIn \in BOOLEAN :
                   _onQRViewCreated(s, v, c, signedIn)
              \/ Answered(s, v)
              \/ Unmount(s, v)
    \/ \E r \in requests : AddMemberHandled(r)

Next ==
    \/ \E t \in Instants : TimePasses(t)
    \/ \E ph \in Phones, k \in Skews : SetClock(ph, k)
    \/ Showing
    \/ Scanning

Spec == Init /\ [][Next]_vars

\* A post returns or throws.
Fairness == \A s \in Scanners, v \in Visits : WF_vars(Answered(s, v))

FairSpec == Spec /\ Fairness
-----------------------------------------------------------------------------
(***************************************************************************)
(* Properties                                                              *)
(***************************************************************************)
Age(r) == r.at - r.code.at

\* Who is added read a code that was, in true time, at least a second and
\* less than Expiry seconds old, but for what the two clocks were apart: the
\* picture of an old code adds nobody, however often clocks are set.
AdmittedInWindow ==
    \A r \in members :
        /\ Age(r) >= 1000 - 2 * MaxSkew
        /\ Age(r) < 1000 * Expiry + 2 * MaxSkew

\* The 30 seconds of the page and the 31 of the scanner fit: a code on a
\* screen is fresh to every scanner from its second second until it is due to
\* be stamped anew, as long as clocks are off by less than half of what the
\* one is longer than the other, and whenever they are set.
ScreenIsFresh ==
    2 * MaxSkew < 1000 * (Expiry - TimerSeconds) =>
        \A p \in Pages, s \in Scanners :
            LET age == time - page[p].armed
            IN  /\ page[p] # Null
                /\ 1000 + 2 * MaxSkew <= age /\ age <= 1000 * TimerSeconds
                => Fresh(now(s) - page[p]._qrCreated)

\* One visit to the scanner sends one request, whatever the camera reads while
\* the post is under way: nobody buys shares twice by holding the phone still.
OneRequestPerVisit ==
    \A r, q \in requests :
        r.scanner = q.scanner /\ r.visit = q.visit => r = q

\* The two pops after a post take the page the user came from only when the
\* user has just left the scanner and its transition is not over: neither a
\* scanner that still has its route nor one that is gone ever empties the
\* stack, whatever was opened, left and opened again in between.
BaseLostInTransition ==
    [][\A s \in Scanners :
         AnyRoute(s) /\ ~AnyRoute(s)' =>
             \E v \in Visits : Exiting(s, v) /\ scan[s][v] = "posting"]_vars

\* A scanner whose post is under way is left in the end, also after an error,
\* unless two more pages are opened above it: those are popped instead.
JoinLeavesScanner ==
    \A s \in Scanners, v \in Visits :
        [](Len(stack[s]) < 5) => (scan[s][v] = "posting" ~> ~OnStack(s, v))

-----------------------------------------------------------------------------
(***************************************************************************)
(* The strengthening that makes the invariants above inductive             *)
(***************************************************************************)

\* The base, CreateClub and the scanner have one place each.
StackShape(s) ==
    \A j \in 1..Len(stack[s]) :
         /\ stack[s][j] = "base" <=> j = 1
         /\ stack[s][j] = "create" => j = 2
         /\ stack[s][j] = "scanner" => j = 3

\* Only scanners that were opened are mounted.
VisitsOpened ==
    \A s \in Scanners, v \in Visits : v > visit[s] => scan[s][v] = "off"

\* A stamp is off by at most what a clock can be.
StampsHonest ==
    \A c \in codes : /\ c.stamp - c.at <= MaxSkew
                     /\ c.at - c.stamp <= MaxSkew

\* So is the stamp a page keeps, taken when its delay began.
PagesHonest ==
    \A p \in Pages : page[p] # Null =>
        /\ page[p]._qrCreated - page[p].armed <= MaxSkew
        /\ page[p].armed - page[p]._qrCreated <= MaxSkew

\* Every request, handled or not, is in the window; a visit that is still
\* scanning, or to come, has sent none.
RequestsInWindow ==
    \A r \in requests :
        /\ r.visit <= visit[r.scanner]
        /\ scan[r.scanner][r.visit] # "scanning"
        /\ Age(r) >= 1000 - 2 * MaxSkew
        /\ Age(r) < 1000 * Expiry + 2 * MaxSkew

QrInv ==
    /\ TypeOK
    /\ \A s \in Scanners : StackShape(s)
    /\ VisitsOpened
    /\ StampsHonest
    /\ RequestsInWindow
    /\ OneRequestPerVisit
=============================================================================
