----------------------------- MODULE QrJoinProofs -----------------------------
(***************************************************************************)
(* The window of a QR code in true time, one request for a visit, and the  *)
(* stack below the scanner: for all clocks, pages, phones and instants.    *)
(***************************************************************************)
EXTENDS QrJoin, TLAPS

\* Where the whole seconds of an age are within bounds, so is the age.
LEMMA SecondsBound ==
    ASSUME NEW d \in Int
    PROVE  /\ inSeconds(d) \in Int
           /\ inSeconds(d) > 0 <=> d >= 1000
           /\ inSeconds(d) < Expiry /\ d >= 0 => d < 1000 * Expiry
           /\ d < 1000 * Expiry => inSeconds(d) < Expiry \/ d < 0
  <1>1. CASE d >= 0
    <2>1. d = 1000 * (d \div 1000) + (d % 1000) /\ d % 1000 \in 0..999
          /\ d \div 1000 \in Int
      BY <1>1
    <2>. QED BY <1>1, <2>1, QrAssumption DEF inSeconds
  <1>2. CASE d < 0
    <2> DEFINE e == -d
    <2>1. e = 1000 * (e \div 1000) + (e % 1000) /\ e % 1000 \in 0..999
          /\ e \div 1000 \in Int /\ e \in Nat
      BY <1>2
    <2>2. inSeconds(d) = -(e \div 1000) /\ e \div 1000 >= 0
      BY <1>2, <2>1 DEF inSeconds
    <2>. QED BY <1>2, <2>1, <2>2, QrAssumption
  <1>. QED BY <1>1, <1>2

\* A fresh age is at least a second and less than Expiry seconds, and the
\* other way round.
LEMMA FreshWindow ==
    ASSUME NEW d \in Int
    PROVE  Fresh(d) <=> 1000 <= d /\ d < 1000 * Expiry
  BY SecondsBound, QrAssumption DEF Fresh

\* A wall clock is off by at most MaxSkew.
LEMMA ClockBound ==
    ASSUME TypeOK, NEW ph \in Phones
    PROVE  /\ now(ph) \in Int
           /\ now(ph) - time <= MaxSkew /\ time - now(ph) <= MaxSkew
  <1>1. ahead[ph] \in Skews /\ time \in Nat
    BY DEF TypeOK
  <1>2. /\ ahead[ph] \in Int /\ MaxSkew \in Nat
        /\ -MaxSkew <= ahead[ph] /\ ahead[ph] <= MaxSkew
    BY <1>1, QrAssumption
  <1>. QED BY <1>1, <1>2 DEF now

\* The age a scanner reads off its clock and the true age of a code.
LEMMA ReadingBound ==
    ASSUME TypeOK, StampsHonest, NEW s \in Scanners, NEW c \in codes
    PROVE  /\ now(s) - c.stamp \in Int /\ time - c.at \in Int
           /\ (now(s) - c.stamp) - (time - c.at) <= 2 * MaxSkew
           /\ (time - c.at) - (now(s) - c.stamp) <= 2 * MaxSkew
  <1>1. /\ now(s) \in Int
        /\ now(s) - time <= MaxSkew /\ time - now(s) <= MaxSkew
    BY ClockBound DEF Phones
  <1>2. c.stamp \in Int /\ c.at \in Nat /\ time \in Nat
    BY DEF TypeOK, Code
  <1>3. c.stamp - c.at <= MaxSkew /\ c.at - c.stamp <= MaxSkew
    BY DEF StampsHonest
  <1>. QED BY <1>1, <1>2, <1>3, QrAssumption

-----------------------------------------------------------------------------
\* The invariant holds at the start: no page, no scanner, no code.
LEMMA InitInv == Init => QrInv
  <1> SUFFICES ASSUME Init PROVE QrInv
    OBVIOUS
  <1> USE DEF Init
  <1>1. TypeOK
    <2>1. <<"base">> \in Seq(RouteNames)
      BY DEF RouteNames
    <2>. QED BY <2>1, QrAssumption DEF TypeOK, ScanStates
  <1>2. \A s \in Scanners : StackShape(s)
    BY DEF StackShape
  <1>. QED
    BY <1>1, <1>2 DEF QrInv, VisitsOpened, StampsHonest, RequestsInWindow,
                      OneRequestPerVisit

\* Painting adds one honest code.
LEMMA PaintKeeps ==
    ASSUME TypeOK, StampsHonest, NEW p \in Pages, Paint(p),
           page'[p]._qrCreated = now(p)
    PROVE  codes' \subseteq Code /\ StampsHonest'
  <1>1. now(p) \in Int /\ now(p) - time <= MaxSkew /\ time - now(p) <= MaxSkew
    BY ClockBound DEF Phones
  <1>2. [page |-> p, stamp |-> now(p), at |-> time] \in Code
    BY <1>1 DEF TypeOK, Code
  <1>. QED BY <1>1, <1>2 DEF Paint, StampsHonest, TypeOK

\* The steps of a page touch no scanner.
LEMMA ShowingInv == QrInv /\ Showing => QrInv'
  <1> SUFFICES ASSUME QrInv, NEW p \in Pages,
                      \/ AddMemberPage(p)
                      \/ timerCount(p)
                      \/ qrReload(p)
                      \/ LeavePage(p)
               PROVE  QrInv'
    BY DEF Showing
  <1>0. TypeOK /\ StampsHonest
    BY DEF QrInv
  <1>1. UNCHANGED <<time, ahead, scannerVars>>
    BY DEF AddMemberPage, timerCount, qrReload, LeavePage
  <1>2. SUFFICES /\ page' \in [Pages -> Page \cup {Null}]
                 /\ codes' \subseteq Code /\ StampsHonest'
    <2>1. TypeOK'
      BY <1>0, <1>1, <1>2 DEF TypeOK, scannerVars
    <2>2. (\A s \in Scanners : StackShape(s))' /\ VisitsOpened'
      BY <1>1 DEF QrInv, scannerVars, StackShape, VisitsOpened
    <2>3. RequestsInWindow' /\ OneRequestPerVisit'
      BY <1>1 DEF QrInv, scannerVars, RequestsInWindow, OneRequestPerVisit,
                  Age
    <2>. QED BY <1>2, <2>1, <2>2, <2>3 DEF QrInv
  <1>3. /\ time \in Nat /\ now(p) \in Int /\ p \in DOMAIN page
        /\ page \in [Pages -> Page \cup {Null}]
    BY <1>0, ClockBound DEF TypeOK, Phones
  <1>4. page[p] # Null => page[p] \in Page
    BY <1>3
  <1>5. CASE AddMemberPage(p)
    <2>1. [_qrCreated |-> now(p), armed |-> time, i |-> TimerSeconds,
           label |-> TimerSeconds, ticked |-> time] \in Page
      BY <1>3, QrAssumption DEF Page
    <2>2. page'[p]._qrCreated = now(p)
      BY <1>3, <1>5 DEF AddMemberPage
    <2>3. page' \in [Pages -> Page \cup {Null}]
      BY <1>3, <1>5, <2>1 DEF AddMemberPage
    <2>. QED BY <1>0, <1>5, <2>2, <2>3, PaintKeeps DEF AddMemberPage
  <1>6. CASE timerCount(p)
    <2>1. page[p] \in Page
      BY <1>4, <1>6 DEF timerCount
    <2> DEFINE n == IF page[p].i - 1 = 0 THEN TimerSeconds ELSE page[p].i - 1
    <2>2. page[p].i \in 1..TimerSeconds /\ n \in 1..TimerSeconds
      BY <2>1, QrAssumption DEF Page
    <2>3. [page[p] EXCEPT !.label = page[p].i, !.i = n, !.ticked = time]
            \in Page
      BY <1>3, <2>1, <2>2 DEF Page
    <2>4. page' = [page EXCEPT ![p] =
            [page[p] EXCEPT !.label = page[p].i, !.i = n, !.ticked = time]]
      BY <1>3, <1>6 DEF timerCount
    <2>. QED BY <1>0, <1>3, <1>6, <2>3, <2>4
             DEF timerCount, TypeOK, StampsHonest
  <1>7. CASE qrReload(p)
    <2>1. page[p] \in Page
      BY <1>4, <1>7 DEF qrReload
    <2>2. [page[p] EXCEPT !._qrCreated = now(p), !.armed = time] \in Page
      BY <1>3, <2>1 DEF Page
    <2>3. page' = [page EXCEPT ![p] =
            [page[p] EXCEPT !._qrCreated = now(p), !.armed = time]]
      BY <1>3, <1>7 DEF qrReload
    <2>4. page'[p]._qrCreated = now(p)
      BY <1>3, <2>1, <2>3 DEF Page
    <2>. QED BY <1>0, <1>3, <1>7, <2>2, <2>3, <2>4, PaintKeeps DEF qrReload
  <1>8. CASE LeavePage(p)
    BY <1>0, <1>3, <1>8 DEF LeavePage, TypeOK, StampsHonest
  <1>. QED BY <1>5, <1>6, <1>7, <1>8

\* A stack that is popped keeps its shape, and what is left is what was there.
LEMMA PopShape ==
    ASSUME TypeOK, NEW s \in Scanners, \A t \in Scanners : StackShape(t),
           NEW n \in 1..2, Pop(s, n)
    PROVE  /\ stack' \in [Scanners -> Seq(RouteNames)]
           /\ \A t \in Scanners : StackShape(t)'
           /\ Len(stack[s]) > n => Len(stack'[s]) > 0
           /\ \A t \in Scanners \ {s} : stack'[t] = stack[t]
  <1> DEFINE m == IF Len(stack[s]) > n THEN Len(stack[s]) - n ELSE 0
             left == SubSeq(stack[s], 1, m)
  <1>1. /\ stack[s] \in Seq(RouteNames) /\ Len(stack[s]) \in Nat
        /\ s \in DOMAIN stack /\ stack \in [Scanners -> Seq(RouteNames)]
    BY DEF TypeOK
  <1>2. m \in Nat /\ m <= Len(stack[s]) /\ (Len(stack[s]) > n => m > 0)
    BY <1>1
  <1>3. stack' = [stack EXCEPT ![s] = left]
    BY DEF Pop
  <1> HIDE DEF m
  <1>4. /\ left \in Seq(RouteNames) /\ Len(left) = m
        /\ \A j \in 1..m : left[j] = stack[s][j]
    BY <1>1, <1>2
  <1> HIDE DEF left
  <1>5. /\ stack' \in [Scanners -> Seq(RouteNames)]
        /\ stack'[s] = left
        /\ \A t \in Scanners \ {s} : stack'[t] = stack[t]
    BY <1>1, <1>3, <1>4
  <1>6. ASSUME NEW t \in Scanners PROVE StackShape(t)'
    <2>1. CASE t = s
      BY <1>1, <1>2, <1>4, <1>5, <2>1 DEF StackShape
    <2>2. CASE t # s
      BY <1>5, <2>2 DEF StackShape
    <2>. QED BY <2>1, <2>2
  <1>. QED BY <1>2, <1>4, <1>5, <1>6

\* A step on one scanner that posts nothing and does not make it scan keeps
\* what is said of visits and requests.
LEMMA QuietScan ==
    ASSUME QrInv, NEW s \in Scanners, NEW v \in Visits,
           NEW st \in ScanStates \ {"scanning"}, scan[s][v] # "off",
           scan' = [scan EXCEPT ![s][v] = st],
           UNCHANGED <<visit, requests>>
    PROVE  /\ scan' \in [Scanners -> [Visits -> ScanStates]]
           /\ VisitsOpened' /\ RequestsInWindow' /\ OneRequestPerVisit'
  <1>1. /\ scan \in [Scanners -> [Visits -> ScanStates]]
        /\ requests \subseteq Request
    BY DEF QrInv, TypeOK
  <1>2. scan' \in [Scanners -> [Visits -> ScanStates]]
    BY <1>1
  <1>3. \A t \in Scanners, w \in Visits :
          scan'[t][w] = IF t = s /\ w = v THEN st ELSE scan[t][w]
    BY <1>1
  <1>4. VisitsOpened'
    BY <1>3 DEF QrInv, VisitsOpened
  <1>5. RequestsInWindow'
    <2> SUFFICES ASSUME NEW q \in requests
                 PROVE  scan'[q.scanner][q.visit] # "scanning"
      BY DEF QrInv, RequestsInWindow, Age
    <2>1. q.scanner \in Scanners /\ q.visit \in Visits
      BY <1>1 DEF Request, Visits
    <2>2. scan[q.scanner][q.visit] # "scanning"
      BY DEF QrInv, RequestsInWindow
    <2>. QED BY <1>3, <2>1, <2>2
  <1>. QED BY <1>2, <1>4, <1>5 DEF QrInv, OneRequestPerVisit

\* Going back, and the end of a scanner's transition.
LEMMA LeaveInv ==
    ASSUME QrInv, NEW s \in Scanners,
           Back(s) \/ \E v \in Visits : Unmount(s, v)
    PROVE  QrInv'
  <1>1. TypeOK /\ \A t \in Scanners : StackShape(t)
    BY DEF QrInv
  <1>2. CASE Back(s)
    <2>1. /\ UNCHANGED <<time, ahead, page, codes, visit, scan, requests,
                         members>>
          /\ Pop(s, 1)
      BY <1>2 DEF Back, worldUnchanged, pageVars
    <2>2. /\ stack' \in [Scanners -> Seq(RouteNames)]
          /\ \A t \in Scanners : StackShape(t)'
      BY <1>1, <2>1, PopShape
    <2>. QED
      BY <2>1, <2>2 DEF QrInv, TypeOK, VisitsOpened, StampsHonest,
                        RequestsInWindow, OneRequestPerVisit, Age
  <1>3. ASSUME NEW v \in Visits, Unmount(s, v) PROVE QrInv'
    <2>1. /\ scan[s][v] # "off" /\ scan' = [scan EXCEPT ![s][v] = "off"]
          /\ UNCHANGED <<time, ahead, page, codes, stack, visit, requests,
                         members>>
      BY <1>3 DEF Unmount, Exiting, worldUnchanged, pageVars
    <2>2. /\ scan' \in [Scanners -> [Visits -> ScanStates]]
          /\ VisitsOpened' /\ RequestsInWindow' /\ OneRequestPerVisit'
      BY <2>1, QuietScan DEF ScanStates
    <2>. QED
      BY <2>1, <2>2 DEF QrInv, TypeOK, StackShape, StampsHonest
  <1>. QED BY <1>2, <1>3

\* The answer: two pops, and the scanner is done.
LEMMA AnswerInv ==
    ASSUME QrInv, NEW s \in Scanners, NEW v \in Visits, Answered(s, v)
    PROVE  QrInv'
  <1>1. TypeOK /\ \A t \in Scanners : StackShape(t)
    BY DEF QrInv
  <1>2. /\ scan[s][v] # "off" /\ scan' = [scan EXCEPT ![s][v] = "done"]
        /\ UNCHANGED <<time, ahead, page, codes, visit, requests, members>>
        /\ Pop(s, 2)
    BY DEF Answered, worldUnchanged, pageVars
  <1>3. /\ stack' \in [Scanners -> Seq(RouteNames)]
        /\ \A t \in Scanners : StackShape(t)'
    BY <1>1, <1>2, PopShape
  <1>4. /\ scan' \in [Scanners -> [Visits -> ScanStates]]
        /\ VisitsOpened' /\ RequestsInWindow' /\ OneRequestPerVisit'
    BY <1>2, QuietScan DEF ScanStates
  <1>. QED
    BY <1>2, <1>3, <1>4 DEF QrInv, TypeOK, StampsHonest

\* A route pushed on a stack of the right shape, in its own place.
LEMMA PushShape ==
    ASSUME TypeOK, NEW s \in Scanners, \A t \in Scanners : StackShape(t),
           NEW name \in RouteNames \ {"base"}, AnyRoute(s),
           name = "create" => Top(s) = "base",
           name = "scanner" => Top(s) = "create",
           stack' = [stack EXCEPT ![s] = Append(stack[s], name)]
    PROVE  /\ stack' \in [Scanners -> Seq(RouteNames)]
           /\ \A t \in Scanners : StackShape(t)'
  <1> DEFINE n == Len(stack[s])
             more == Append(stack[s], name)
  <1>1. /\ stack[s] \in Seq(RouteNames) /\ n \in Nat /\ n > 0
        /\ stack \in [Scanners -> Seq(RouteNames)]
    BY DEF TypeOK, AnyRoute
  <1>2. /\ more \in Seq(RouteNames) /\ Len(more) = n + 1
        /\ more[n + 1] = name /\ \A j \in 1..n : more[j] = stack[s][j]
    BY <1>1
  <1>3. stack'[s] = more /\ stack' \in [Scanners -> Seq(RouteNames)]
    BY <1>1, <1>2
  <1>4. n \in 1..n /\ Top(s) = stack[s][n]
    BY <1>1 DEF Top
  <1> HIDE DEF n, more
  <1>5. /\ \A j \in 1..n : /\ stack[s][j] = "base" <=> j = 1
                           /\ stack[s][j] = "create" => j = 2
                           /\ stack[s][j] = "scanner" => j = 3
    BY DEF StackShape, n
  <1>6. /\ name = "create" => n = 1
        /\ name = "scanner" => n = 2
    BY <1>4, <1>5
  <1>7. \A j \in 1..(n + 1) : /\ more[j] = "base" <=> j = 1
                              /\ more[j] = "create" => j = 2
                              /\ more[j] = "scanner" => j = 3
    <2> TAKE j \in 1..(n + 1)
    <2>1. CASE j \in 1..n
      BY <1>2, <1>5, <2>1
    <2>2. CASE j = n + 1
      BY <1>1, <1>2, <1>6, <2>2
    <2>. QED BY <1>1, <2>1, <2>2
  <1>8. ASSUME NEW t \in Scanners PROVE StackShape(t)'
    <2>1. CASE t = s
      BY <1>2, <1>3, <1>7, <2>1 DEF StackShape
    <2>2. CASE t # s
      BY <1>1, <2>2 DEF StackShape
    <2>. QED BY <2>1, <2>2
  <1>. QED BY <1>3, <1>8

\* Opening a page above the others; only a new scanner changes more.
LEMMA PushInv ==
    ASSUME QrInv, NEW s \in Scanners,
           OpenCreateClub(s) \/ QrCodeScanner(s) \/ TapNotification(s)
    PROVE  QrInv'
  <1>1. /\ TypeOK /\ \A t \in Scanners : StackShape(t)
        /\ UNCHANGED <<time, ahead, page, codes, requests, members>>
    BY DEF QrInv, OpenCreateClub, QrCodeScanner, TapNotification,
           worldUnchanged, pageVars
  <1>2. CASE OpenCreateClub(s) \/ TapNotification(s)
    <2>1. PICK name \in {"create", "details"} :
            /\ stack' = [stack EXCEPT ![s] = Append(stack[s], name)]
            /\ name = "create" => Top(s) = "base"
            /\ AnyRoute(s) /\ UNCHANGED <<visit, scan>>
      BY <1>2 DEF OpenCreateClub, TapNotification
    <2>2. /\ stack' \in [Scanners -> Seq(RouteNames)]
          /\ \A t \in Scanners : StackShape(t)'
      BY <1>1, <2>1, PushShape DEF RouteNames
    <2>. QED
      BY <1>1, <2>1, <2>2 DEF QrInv, TypeOK, VisitsOpened, StampsHonest,
                              RequestsInWindow, OneRequestPerVisit, Age
  <1>3. CASE QrCodeScanner(s)
    <2> DEFINE v == visit[s] + 1
    <2>1. /\ stack' = [stack EXCEPT ![s] = Append(stack[s], "scanner")]
          /\ Top(s) = "create" /\ AnyRoute(s)
          /\ visit' = [visit EXCEPT ![s] = v]
          /\ scan' = [scan EXCEPT ![s][v] = "scanning"]
          /\ visit[s] < MaxVisits
      BY <1>3 DEF QrCodeScanner
    <2>2. /\ stack' \in [Scanners -> Seq(RouteNames)]
          /\ \A t \in Scanners : StackShape(t)'
      BY <1>1, <2>1, PushShape DEF RouteNames
    <2>3. /\ scan \in [Scanners -> [Visits -> ScanStates]]
          /\ visit \in [Scanners -> 0..MaxVisits]
          /\ requests \subseteq Request
      BY <1>1 DEF TypeOK
    <2>4. visit[s] \in Nat /\ v \in Visits /\ v \in 0..MaxVisits
      BY <2>1, <2>3, QrAssumption DEF Visits
    <2> HIDE DEF v
    <2>5. /\ scan' \in [Scanners -> [Visits -> ScanStates]]
          /\ visit' \in [Scanners -> 0..MaxVisits]
      BY <2>1, <2>3, <2>4 DEF ScanStates
    <2>6. /\ \A t \in Scanners, w \in Visits :
               scan'[t][w] = IF t = s /\ w = v THEN "scanning" ELSE scan[t][w]
          /\ \A t \in Scanners : visit'[t] = IF t = s THEN v ELSE visit[t]
      BY <2>1, <2>3
    <2>7. VisitsOpened'
      <3> SUFFICES ASSUME NEW t \in Scanners, NEW w \in Visits, w > visit'[t]
                   PROVE  scan'[t][w] = "off"
        BY DEF VisitsOpened
      <3>1. w > visit[t] /\ ~(t = s /\ w = v)
        BY <2>3, <2>4, <2>6, QrAssumption DEF v, Visits
      <3>. QED BY <2>6, <3>1 DEF QrInv, VisitsOpened
    <2>8. RequestsInWindow'
      <3> SUFFICES ASSUME NEW q \in requests
                   PROVE  /\ q.visit <= visit'[q.scanner]
                          /\ scan'[q.scanner][q.visit] # "scanning"
        BY <1>1 DEF QrInv, RequestsInWindow, Age
      <3>1. q.scanner \in Scanners /\ q.visit \in Visits
        BY <2>3 DEF Request, Visits
      <3>2. /\ q.visit <= visit[q.scanner]
            /\ scan[q.scanner][q.visit] # "scanning"
        BY DEF QrInv, RequestsInWindow
      <3>3. q.visit \in Nat /\ visit[q.scanner] \in Nat
        BY <2>3, <3>1, QrAssumption DEF Visits
      <3>. QED BY <2>4, <2>6, <3>1, <3>2, <3>3 DEF v
    <2>. QED
      BY <1>1, <2>2, <2>5, <2>7, <2>8
         DEF QrInv, TypeOK, StampsHonest, OneRequestPerVisit
  <1>. QED BY <1>2, <1>3

\* A code that is read is posted inside the window.
LEMMA ScanInv ==
    ASSUME QrInv, NEW s \in Scanners, NEW v \in Visits, NEW c \in codes,
           NEW signedIn \in BOOLEAN, _onQRViewCreated(s, v, c, signedIn)
    PROVE  QrInv'
  <1> DEFINE sent == [scanner |-> s, visit |-> v, code |-> c, at |-> time]
             seen == now(s) - c.stamp
             age == time - c.at
  <1>1. /\ TypeOK /\ StampsHonest /\ scan[s][v] = "scanning"
        /\ scan \in [Scanners -> [Visits -> ScanStates]]
        /\ visit \in [Scanners -> 0..MaxVisits]
        /\ requests \subseteq Request
        /\ c \in Code /\ time \in Nat /\ v \in Nat /\ visit[s] \in Nat
    BY QrAssumption DEF QrInv, TypeOK, _onQRViewCreated, Visits
  <1>2. UNCHANGED <<time, ahead, page, codes, stack, visit, members>>
    BY DEF _onQRViewCreated, worldUnchanged, pageVars
  <1>3. CASE /\ UNCHANGED requests
             /\ \E st \in {"failed", "expired"} :
                  scan' = [scan EXCEPT ![s][v] = st]
    <2>1. /\ scan' \in [Scanners -> [Visits -> ScanStates]]
          /\ VisitsOpened' /\ RequestsInWindow' /\ OneRequestPerVisit'
      <3>1. PICK st \in ScanStates \ {"scanning"} :
              scan' = [scan EXCEPT ![s][v] = st]
        BY <1>3 DEF ScanStates
      <3>. QED BY <1>1, <1>2, <1>3, <3>1, QuietScan
    <2>. QED BY <1>2, <1>3, <2>1 DEF QrInv, TypeOK, StackShape, StampsHonest
  <1>4. CASE /\ Fresh(seen) /\ requests' = requests \cup {sent}
             /\ scan' = [scan EXCEPT ![s][v] = "posting"]
    <2>1. sent \in Request
      BY <1>1 DEF Request, Visits
    <2>2. /\ Age(sent) >= 1000 - 2 * MaxSkew
          /\ Age(sent) < 1000 * Expiry + 2 * MaxSkew
      <3>1. /\ seen \in Int /\ age \in Int
            /\ seen - age <= 2 * MaxSkew /\ age - seen <= 2 * MaxSkew
        BY <1>1, ReadingBound
      <3>2. 1000 <= seen /\ seen < 1000 * Expiry
        BY <1>4, <3>1, FreshWindow
      <3>3. Age(sent) = age
        BY DEF Age
      <3>. QED BY <3>1, <3>2, <3>3, QrAssumption
    <2>3. scan' \in [Scanners -> [Visits -> ScanStates]]
      BY <1>1, <1>4 DEF ScanStates
    <2>4. \A t \in Scanners, w \in Visits :
            scan'[t][w] = IF t = s /\ w = v THEN "posting" ELSE scan[t][w]
      BY <1>1, <1>4
    <2>5. v <= visit[s]
      BY <1>1 DEF QrInv, VisitsOpened
    <2>6. VisitsOpened'
      BY <1>1, <1>2, <2>4 DEF QrInv, VisitsOpened
    <2>7. \A q \in requests :
            /\ q.scanner \in Scanners /\ q.visit \in Visits
            /\ q.visit <= visit[q.scanner]
            /\ scan[q.scanner][q.visit] # "scanning"
            /\ Age(q) >= 1000 - 2 * MaxSkew
            /\ Age(q) < 1000 * Expiry + 2 * MaxSkew
      BY <1>1 DEF QrInv, RequestsInWindow, Request, Visits
    <2> HIDE DEF sent
    <2>8. sent.scanner = s /\ sent.visit = v
      BY DEF sent
    <2>9. RequestsInWindow'
      <3> SUFFICES ASSUME NEW q \in requests'
                   PROVE  /\ q.visit <= visit[q.scanner]
                          /\ scan'[q.scanner][q.visit] # "scanning"
                          /\ Age(q) >= 1000 - 2 * MaxSkew
                          /\ Age(q) < 1000 * Expiry + 2 * MaxSkew
        BY <1>2 DEF RequestsInWindow, Age
      <3>1. CASE q = sent
        BY <2>2, <2>4, <2>5, <2>8, <3>1
      <3>2. CASE q \in requests
        BY <2>4, <2>7, <3>2
      <3>. QED BY <1>4, <3>1, <3>2
    <2>10. OneRequestPerVisit'
      <3>1. \A q \in requests : ~(q.scanner = s /\ q.visit = v)
        BY <1>1, <2>7
      <3>. QED BY <1>4, <2>8, <3>1 DEF QrInv, OneRequestPerVisit
    <2>11. TypeOK'
      BY <1>1, <1>2, <1>4, <2>1, <2>3 DEF TypeOK
    <2>. QED
      BY <1>2, <2>6, <2>9, <2>10, <2>11 DEF QrInv, StackShape, StampsHonest
  <1>. QED BY <1>3, <1>4 DEF _onQRViewCreated, addMemberFromQR

\* Every step keeps the invariant.
LEMMA NextInv == QrInv /\ [Next]_vars => QrInv'
  <1> SUFFICES ASSUME QrInv, [Next]_vars PROVE QrInv'
    OBVIOUS
  <1>0. /\ TypeOK /\ \A s \in Scanners : StackShape(s)
        /\ stack \in [Scanners -> Seq(RouteNames)]
    BY DEF QrInv, TypeOK
  <1>1. CASE \E t \in Instants : TimePasses(t)
    <2>1. /\ time' \in Nat
          /\ UNCHANGED <<ahead, page, codes, stack, visit, scan,
                         requests, members>>
      BY <1>1, QrAssumption DEF TimePasses, pageVars, scannerVars
    <2>. QED
      BY <2>1 DEF QrInv, TypeOK, StackShape, VisitsOpened, StampsHonest,
                  RequestsInWindow, OneRequestPerVisit, Age
  <1>2. CASE \E ph \in Phones, k \in Skews : SetClock(ph, k)
    <2>1. /\ ahead' \in [Phones -> Skews]
          /\ UNCHANGED <<time, page, codes, stack, visit, scan,
                         requests, members>>
      BY <1>0, <1>2 DEF SetClock, TypeOK, pageVars, scannerVars
    <2>. QED
      BY <2>1 DEF QrInv, TypeOK, StackShape, VisitsOpened, StampsHonest,
                  RequestsInWindow, OneRequestPerVisit, Age
  <1>3. CASE Showing
    BY <1>3, ShowingInv
  <1>4. CASE Scanning
    <2>1. ASSUME NEW s \in Scanners,
                 OpenCreateClub(s) \/ QrCodeScanner(s) \/ TapNotification(s)
          PROVE  QrInv'
      BY <2>1, PushInv
    <2>2. ASSUME NEW s \in Scanners,
                 Back(s) \/ \E v \in Visits : Unmount(s, v)
          PROVE  QrInv'
      BY <2>2, LeaveInv
    <2>3. ASSUME NEW s \in Scanners, NEW v \in Visits, Answered(s, v)
          PROVE  QrInv'
      BY <2>3, AnswerInv
    <2>4. ASSUME NEW r \in requests, AddMemberHandled(r) PROVE QrInv'
      <3>1. /\ members' \subseteq requests
            /\ UNCHANGED <<time, ahead, page, codes, stack, visit, scan,
                           requests>>
        BY <1>0, <2>4 DEF AddMemberHandled, TypeOK, worldUnchanged, pageVars
      <3>. QED
        BY <3>1 DEF QrInv, TypeOK, StackShape, VisitsOpened, StampsHonest,
                    RequestsInWindow, OneRequestPerVisit, Age
    <2>. QED BY <1>4, <2>1, <2>2, <2>3, <2>4, ScanInv DEF Scanning
  <1>5. CASE UNCHANGED vars
    BY <1>5 DEF vars, QrInv, TypeOK, StackShape, VisitsOpened, StampsHonest,
                RequestsInWindow, OneRequestPerVisit, Age
  <1>. QED BY <1>1, <1>2, <1>3, <1>4, <1>5 DEF Next

\* The strengthened invariant holds, for all phones, clocks and instants.
THEOREM QrInvariant == Spec => []QrInv
  BY InitInv, NextInv, PTL DEF Spec

\* Every variable keeps its type; the label of timerCount is never 0.
THEOREM QrTyped == Spec => []TypeOK
  <1>1. QrInv => TypeOK
    BY DEF QrInv
  <1>. QED BY <1>1, QrInvariant, PTL

\* Who is added read a code that was in the window in true time, whatever the
\* clocks of the two phones said and however late the server acted.
THEOREM AdmittedAreInWindow == Spec => []AdmittedInWindow
  <1>1. QrInv => AdmittedInWindow
    BY DEF QrInv, AdmittedInWindow, RequestsInWindow, TypeOK
  <1>. QED BY <1>1, QrInvariant, PTL

\* A page takes its stamp and begins its delay at one moment, and nothing else
\* touches either.
LEMMA PagesHonestInv == QrInv /\ PagesHonest /\ [Next]_vars => PagesHonest'
  <1> SUFFICES ASSUME QrInv, PagesHonest, [Next]_vars,
                      NEW p \in Pages, page'[p] # Null
               PROVE  /\ page'[p]._qrCreated - page'[p].armed <= MaxSkew
                      /\ page'[p].armed - page'[p]._qrCreated <= MaxSkew
    BY DEF PagesHonest
  <1>1. /\ TypeOK /\ page \in [Pages -> Page \cup {Null}] /\ time \in Nat
    BY DEF QrInv, TypeOK
  <1>2. now(p) \in Int /\ now(p) - time <= MaxSkew /\ time - now(p) <= MaxSkew
    BY <1>1, ClockBound DEF Phones
  <1>3. CASE page'[p] = page[p]
    BY <1>3 DEF PagesHonest
  <1>4. CASE AddMemberPage(p) \/ qrReload(p)
    <2>1. page'[p]._qrCreated = now(p) /\ page'[p].armed = time
      BY <1>1, <1>4 DEF AddMemberPage, qrReload, Page
    <2>. QED BY <1>2, <2>1
  <1>5. CASE timerCount(p)
    <2>1. /\ page[p] # Null
          /\ page'[p]._qrCreated = page[p]._qrCreated
          /\ page'[p].armed = page[p].armed
      BY <1>1, <1>5 DEF timerCount, Page
    <2>. QED BY <2>1 DEF PagesHonest
  <1>6. CASE LeavePage(p)
    BY <1>1, <1>6 DEF LeavePage
  <1>7. CASE Showing
    <2>1. PICK q \in Pages : \/ AddMemberPage(q) \/ timerCount(q)
                             \/ qrReload(q) \/ LeavePage(q)
      BY <1>7 DEF Showing
    <2>2. q # p => page'[p] = page[p]
      BY <1>1, <2>1 DEF AddMemberPage, timerCount, qrReload, LeavePage
    <2>. QED BY <1>3, <1>4, <1>5, <1>6, <2>1, <2>2
  <1>8. CASE ~Showing
    <2>1. page' = page
      BY <1>8 DEF Next, Scanning, TimePasses, SetClock, OpenCreateClub,
                  QrCodeScanner, TapNotification, Back, _onQRViewCreated,
                  Answered, Unmount, AddMemberHandled, worldUnchanged,
                  pageVars, vars
    <2>. QED BY <1>3, <2>1
  <1>. QED BY <1>7, <1>8

\* A code on a screen is fresh to every scanner once it is a second old and
\* until the page renews it, for every interval, expiry and setting of clocks.
THEOREM ScreensAreFresh == Spec => []ScreenIsFresh
  <1>1. Init => PagesHonest
    BY DEF Init, PagesHonest
  <1>2. QrInv /\ PagesHonest => ScreenIsFresh
    <2> SUFFICES ASSUME TypeOK, PagesHonest,
                        2 * MaxSkew < 1000 * (Expiry - TimerSeconds),
                        NEW p \in Pages, NEW s \in Scanners,
                        page[p] # Null,
                        1000 + 2 * MaxSkew <= time - page[p].armed,
                        time - page[p].armed <= 1000 * TimerSeconds
                 PROVE  Fresh(now(s) - page[p]._qrCreated)
      BY DEF ScreenIsFresh, QrInv
    <2>1. page[p]._qrCreated \in Int /\ page[p].armed \in Nat /\ time \in Nat
      BY DEF TypeOK, Page
    <2>2. /\ now(s) \in Int
          /\ now(s) - time <= MaxSkew /\ time - now(s) <= MaxSkew
      BY ClockBound DEF Phones
    <2>3. /\ page[p]._qrCreated - page[p].armed <= MaxSkew
          /\ page[p].armed - page[p]._qrCreated <= MaxSkew
      BY DEF PagesHonest
    <2> DEFINE seen == now(s) - page[p]._qrCreated
    <2>4. seen \in Int /\ 1000 <= seen /\ seen < 1000 * Expiry
      BY <2>1, <2>2, <2>3, QrAssumption
    <2>. QED BY <2>4, FreshWindow
  <1>. QED BY <1>1, <1>2, PagesHonestInv, QrInvariant, PTL DEF Spec

\* A visit to the scanner sends at most one request.
THEOREM OneRequest == Spec => []OneRequestPerVisit
  <1>1. QrInv => OneRequestPerVisit
    BY DEF QrInv
  <1>. QED BY <1>1, QrInvariant, PTL

\* The pops of the handler reach the page below CreateClub only from a scanner
\* that the user has just left and that is still mounted: one that has its
\* route on the stack has two routes below it.
THEOREM BaseLost == Spec => BaseLostInTransition
  <1>1. QrInv /\ [Next]_vars =>
          [\A s \in Scanners :
             AnyRoute(s) /\ ~AnyRoute(s)' =>
               \E v \in Visits : Exiting(s, v) /\ scan[s][v] = "posting"]_vars
    <2> SUFFICES ASSUME QrInv, [Next]_vars, NEW s \in Scanners,
                        AnyRoute(s), ~AnyRoute(s)'
                 PROVE  \E v \in Visits :
                          Exiting(s, v) /\ scan[s][v] = "posting"
      OBVIOUS
    <2>1. /\ TypeOK /\ \A t \in Scanners : StackShape(t)
          /\ Len(stack[s]) \in Nat /\ stack[s] \in Seq(RouteNames)
          /\ stack \in [Scanners -> Seq(RouteNames)]
      BY DEF QrInv, TypeOK
    <2>2. ASSUME NEW t \in Scanners, NEW name \in RouteNames,
                 stack' = [stack EXCEPT ![t] = Append(stack[t], name)]
          PROVE  FALSE
      <3>1. CASE t = s
        <4>1. stack'[s] = Append(stack[s], name)
          BY <2>1, <2>2, <3>1
        <4>2. Len(Append(stack[s], name)) = Len(stack[s]) + 1
          BY <2>1
        <4>. QED BY <2>1, <4>1, <4>2 DEF AnyRoute
      <3>2. CASE t # s
        BY <2>1, <2>2, <3>2 DEF AnyRoute
      <3>. QED BY <3>1, <3>2
    <2>3. ASSUME NEW t \in Scanners, Back(t) PROVE FALSE
      <3>1. Pop(t, 1) /\ Len(stack[t]) > 1
        BY <2>3 DEF Back
      <3>2. /\ Len(stack'[t]) > 0
            /\ \A u \in Scanners \ {t} : stack'[u] = stack[u]
        <4>1. 1 \in 1..2
          OBVIOUS
        <4>. QED BY <2>1, <3>1, <4>1, PopShape
      <3>. QED BY <3>2 DEF AnyRoute
    <2>4. ASSUME NEW t \in Scanners, NEW v \in Visits, Answered(t, v)
          PROVE  Exiting(s, v) /\ scan[s][v] = "posting"
      <3>1. Pop(t, 2) /\ scan[t][v] = "posting"
        BY <2>4 DEF Answered
      <3>2. t = s
        <4>1. \A u \in Scanners \ {t} : stack'[u] = stack[u]
          BY <2>1, <3>1, PopShape
        <4>. QED BY <4>1 DEF AnyRoute
      <3>3. ~(Len(stack[s]) > 2)
        <4>1. Len(stack[s]) > 2 => Len(stack'[s]) > 0
          BY <2>1, <3>1, <3>2, PopShape
        <4>. QED BY <4>1 DEF AnyRoute
      <3>4. ~OnStack(s, v)
        BY <2>1, <3>3 DEF OnStack, StackShape
      <3>. QED BY <3>1, <3>2, <3>4 DEF Exiting
    <2>5. CASE UNCHANGED stack
      BY <2>5 DEF AnyRoute
    <2>6. CASE Scanning
      <3>1. ASSUME NEW t \in Scanners,
                   OpenCreateClub(t) \/ QrCodeScanner(t) \/ TapNotification(t)
            PROVE  FALSE
        BY <2>2, <3>1 DEF OpenCreateClub, QrCodeScanner, TapNotification,
                          RouteNames
      <3>2. ASSUME \/ \E t \in Scanners, v \in Visits :
                        \/ Unmount(t, v)
                        \/ \E c \in codes, signedIn \in BOOLEAN :
                             _onQRViewCreated(t, v, c, signedIn)
                   \/ \E q \in requests : AddMemberHandled(q)
            PROVE  UNCHANGED stack
        BY <3>2 DEF Unmount, _onQRViewCreated, AddMemberHandled
      <3>. QED BY <2>3, <2>4, <2>5, <2>6, <3>1, <3>2 DEF Scanning
    <2>7. CASE ~Scanning
      <3>1. UNCHANGED stack
        BY <2>7 DEF Next, TimePasses, SetClock, Showing, AddMemberPage,
                    timerCount, qrReload, LeavePage, scannerVars, vars
      <3>. QED BY <2>5, <3>1
    <2>. QED BY <2>6, <2>7
  <1>. QED BY <1>1, QrInvariant, PTL DEF Spec, BaseLostInTransition
=============================================================================
