# Clubzey: a verification project

Clubzey is a Flutter app with which the members of a club gather money and draw
who gets it. The program is `src/lib` (42 Dart files, about 4000 lines); what it
talks to (Firebase Auth, Firestore, Cloud Messaging, two cloud functions behind
`API.url`, NTP, the plugins) is not in the repository and is modelled only as
far as the app uses it. `macos/Pods` (the C and C++ of gRPC, BoringSSL and
Firebase, nearly all the lines of the repository) is vendored, the platform
runners are generated, and the one test is Flutter's counter template.

## 1. Inventory

| Component | State it keeps | Operations | Met by | What makes it correct |
|---|---|---|---|---|
| Invitation codes (`create_invitation_code_page`, `send_invitation_code_data`, `join_with_code_page`, `timer`) | the page's future, snapshot and countdown; posts under way; one document per club in `invitationRoom`; the await each join stands at | build / Reload posts a code, type a code, `checkInvitationCode`, `addMember`, delete | server, other phones, Session (opens Dashboard) | the code on the screen is usable; a join gets what its code stands for; codes do not come back |
| Session and navigation (`main`, `splash_screen`, `login_page`, `userauth`, `setting_page`, `dashboard`, `homepage`, `create_club`) | current user, accounts, stack of routes, login form, captured emails, listeners | start, sign-up, logout, push / pop | every page reads `currentUser!` | no page of one session in the next; login only at the bottom; the splash screen is left |
| Draw countdown (`club_details` TimerLabel, `helper`) | timer, newest future, text | tick, lookup, NTP, rebuild | Firestore's club stream | never ahead of the draw; "Draw ended" only after it; ends |
| Topic subscriptions (`hive_data`) | Hive list, topic calls waiting, topics of the token | `calculateSubscription`, `updateSubscription` | each Dashboard, logout | the phone listens to the clubs of its user |
| Message listeners (`dashboard`) | captured email per listener | `onMessage`, tap | Session | each Dashboard's user hears of their messages |
| QR join (`add_member`, `qr_code_scanner`, `encryption`) | stamp of the QR code, scanner's loading flag | restamp each 30 s, scan | server | a fresh code admits, an old one does not, and the code on a screen is fresh; one request per visit; when the pops take the wrong pages |
| Club creation and club page (`create_club`, `club_data`, `club_details`, models) | club and payment documents | set, then `addMember`, streams | Session | the page never reads what is not there yet |
| Payments ledger (`payment_details_page`, `transaction_data`, `transactions`) | transactions | validate, set, list | server | no payment is lost, invented or stored twice |
| User documents, DrawOneMember, widgets, theme, configuration | none, or unused | | | |

Everything runs on Dart's event loop: code between two awaits is atomic, and
what is hard happens at the awaits. Handlers of two presses, futures of two
builds and runs of two Dashboards overlap; several phones share the server;
requests and answers get lost; the app may be killed at any await; nothing is
retried, and most errors are either swallowed or thrown into nowhere. The list
`hazards` of `PROJECT.json` names each place.

## 2. Modules

| Module | What it is |
|---|---|
| `CodeLifecycle` | abstract specification: a code is unused, live, gone; memberships are granted only with a code that was live when taken, or that the phone was told of while it was live |
| `Invitations` | the detailed specification of invitation pages, posts, documents and join attempts; implements `CodeLifecycle` |
| `InvitationsProofs` | its theorems |
| `Session`, `SessionProofs` | signing up and out, the stack of routes |
| `ClubCreation`, `ClubCreationProofs` | creating a club, and the club page that reads it |
| `ClubSession`, `ClubSessionProofs` | the composition of the two above; implements both |
| `QrJoin`, `QrJoinProofs` | the QR code of a club and the scanner |
| `PaymentLifecycle` | abstract specification: a payment is made once, kept or refused once, and replaced only by another of its id |
| `Ledger`, `LedgerProofs` | the payment page and the transactions; implements `PaymentLifecycle` |
| `DrawCountdown`, `DrawCountdownProofs` | the countdown label |
| `Subscriptions`, `SubscriptionsProofs` | the topics a phone listens to |
| `MC...` | symmetry sets and values for TLC; one `.cfg` per run |

An action stands for the code between two awaits. Operators keep the names of
the Dart functions; `map` in `PROJECT.json` gives the lines. An operator whose
comment begins with "Slip" is a plausible mistake in the definition that
follows it. The runs never use it; it is there to show that a property notices
the mistake.

### Invitations

`page[p]` is an invitation page on a phone: its club and shares, the future it
builds on (`pending`), the snapshot (`shown`) and the countdown. A code names
the post that carries it: `post`, `waiting` and `body` are that request, whether
its future is still awaited, and its content. `invitationRoom[k]` is the document
of club `k`, `copy[h][k]` what phone `h` kept of it. An attempt `a` is one run of `onCompleted`: `pc[a]` the await,
`entry[a]` the code typed, `ticket[a]` the document found, `add[a]`, `reply[a]`
and `del[a]` the two requests that follow.

`FutureBuilder` shows a completed future only if it is the newest (`Show`), and
completing restarts the countdown, whose stream the builder creates again.
`addMember` catches every error, so the delete follows in any case. A Firestore
delete is queued on the phone: it is applied although the app dies, and until
then it hides the document from the queries of that phone (`Hidden`).

`checkInvitationCode` calls `get()` with the default source, which asks the
server and falls back to the phone's copies when that cannot be reached. In the
model either may answer at any moment (`get`): a phone without a network is told
"not Correct" of a good code, or finds a code that was used and deleted since. A
phone has a copy of a document that a query of its own found (`Refreshed`); an
answer of the server also corrects a copy that matched and no longer does.
Assumed of Firestore: copies are kept over restarts and sign-outs, are not
evicted (a copy that is gone only makes an attempt fail that could have
succeeded), and only these queries read the collection, which is so in `src/lib`.
So `NoAdmissionAfterDelete` does not say that a deleted code admits nobody: it
says that only another phone's copy still does.

Assumed of the server: the document has the id the page posts (the club's), the
handlers are atomic, and the eight hex digits of a UUID are fresh. The page posts
the shares as text and the handler reads an int: a server that does not convert
them makes the cast throw, which is one of the cases of `CheckFailed`. Sharing a
code changes nothing and has no action; the button sends the text `null` before
the post is answered, and an empty text after it failed
(`create_invitation_code_page.dart:110`).

### Session

`stack` holds the routes with the email their page captured when it was built;
`user` and `accounts` are Firebase's. `request[p]` is a press of "Log In" that
waits for `createUserWithEmailAndPassword`, `orphans` the presses whose page is
gone, `logout[p]` and `button[p]` the same for "Log out". `requested` is history:
who may be signed in since the stack was last cleared. `listeners` are the
emails that the listeners of this process captured; none is ever cancelled. On a
restart the splash screen opens HomePage and not Dashboard, so no listener is
there: `DashboardsListen` speaks of Dashboards only.

Simplified: the 300 ms of a page transition, in which a removed route still has
a context, are not told apart here (they are in QrJoin, whose pops depend on
them); Dashboard's two tabs are one page with both
buttons; everything below ClubDetails is "details", since nothing there reads a
user; the stack has at most `MaxDepth` routes.

A user who has an account and logged out cannot log in again, since the only
call behind the button "Log In" creates an account (`userauth.dart:45`) and
nothing catches its error: the theorem `NobodyReturns`. The page says "Log in to
create or join a club." (`login_page.dart:126`), which is so once per address.
Facts seen without a run: the badge of a listener of a former user says "You" to
the present one (`dashboard.dart:106`). "Join using scanner" asks for a platform
that is Android and iOS at once (`create_club.dart:315`), so it opens the page
for codes. "Login link has been sent" is shown for an address that was
typed and then spoilt, and nothing sends a link (`login_page.dart:192`).

### ClubCreation

`page[p]` is a CreateClub page with the email it captured. "Continue" makes
`creation[c]` and queues the set (`writes`); Firestore has a queue for each user
and sends that of the current one (`by`). Once the server has the club
(`clubs`) and the answer is back, `createClub` goes on to `addMember`, which
reads the user anew and posts (`post`); the cloud function makes the payment
document (`payment`). `view` is the open ClubDetails page: what its two streams
delivered last, from which `Body` and `Payments` say what is built. `away` and
`interrupted` are history: a creation during which its creator was not the
user, and one that was cut short. What the rest of the app does to it is one
action, `StackChanges`: the user changes, pages are left, sheets closed.

Assumed of the server: `addMember` makes an entry for the posted email in a club
it knows. Members who join with a code are left to Invitations; their entries
would only make a payment document exist earlier. `getPayments` has a `??[]`
(`user_payment.dart:20`) that is never reached: the call before it throws.

### ClubSession

Extends Session and instantiates ClubCreation with a page for each place on the
stack: the CreateClub page at place `i` is the route there, its sheet the route
above. Steps of both (opening the page, "Create", "Continue", a restart) are
taken by both at once; what Session does alone leaves the pages whose routes are
gone (`pagesOn`). It needs no assumption on when users change: late sign-ups
and logouts are those of Session. ClubDetails is left out, as it changes nothing
of either. `ClubsOfThisSession` says how far a creation can go astray: both the
creator and the user who pressed "Continue" were asked for since the stack was
last cleared.

### QrJoin

`page[p]` is an AddMemberPage: the stamp of its code, and the two streams with
the moment at which their delays began. `codes` are all codes that were ever
painted: a picture of one can be scanned later. `ahead[ph]` is how far the wall
clock of a phone is from the true time, its zone included, since the stamp is
printed and parsed as local time; a clock may be set at any moment. On a
scanning phone `stack` holds the routes, `scan[s][v]` the state of the scanner
of the `v`-th visit and `requests` what `addMemberFromQR` posted. The handler
disposes of the camera before it posts, and pops two routes when the post has
returned or thrown, from whatever the stack is by then: a tapped notification may
have put ClubDetails above. A scanner that found its code expired never scans
again. The 30 s of the page and the 31 s of the scanner are two numbers in two
files; `ScreenIsFresh` is what makes them fit.

"Back" takes the scanner's route off the stack, but its State stays mounted until
the transition is over (`Exiting`, `Unmount`): it may still read a code, and when
its post is answered then, its context finds the navigator and the two pops take
CreateClub and the page below it, which leaves an empty stack. No comment or test
speaks of this, so it is no finding; `BaseLostInTransition` says that this is the
only way: neither a scanner that is still on the stack nor one that is gone loses
the base page. How long a transition lasts is left open.

A code is refused as "expired" in its first second (`inSeconds > 0`,
`qr_code_scanner.dart:90`), when its page already says "Scan within" 30
(`add_member.dart:97`), and accepted for a second after the count is over: both
ends of the window are a second late. The properties take the window as it is.

The code is encrypted with a fixed key, so any code the app made is read as it
was written. At this commit no button opens the scanner (`create_club.dart:315`);
the page is modelled as it would be pushed there.

### Ledger

`page[ph]` is a payment page with the text of its sheet, if one is open, and
`_amount`, which outlives the sheet. "Done" makes `payment[p]` and queues a set
on the phone; nobody awaits it. `documents[i]` is what the server keeps under an
id, `heard[ph]` what a phone knows of that; a list shows the queue over it
(`Local`). Ids are drawn from a set in which they may collide: five hex digits
and the millisecond of the second. `refused` and `entered` are history. The user
of a phone does not change here, so its queue is one. `Status` maps all of it to
`PaymentLifecycle`: a payment waits in a queue, is the document of its id, was
refused, or was replaced; "Done" is `Make`, an applied set is `Keep`, and
everything else leaves the abstract state alone. `SetApplied` is one step for
the server that applies a write and the phone that takes it off its queue: the
SDK resumes its write stream with a token that tells which writes were answered,
so that none is applied twice.

### DrawCountdown

Time is in milliseconds and moves among a given set of instants. A tick of a
running timer replaces the newest future by one that starts with the lookup
(`pending`); `FutureBuilder` keeps the old text until it completes. Without a
lookup the phone's clock is used, which may be off by a member of `Skews`.

### Subscriptions

A run stands at one of four awaits (`pc`): the query, the reading of the Hive
box, the step after it, the put. Topic calls are handed to the plugin and wait
in `calls[c]`, in order and over a restart. The query may answer any set of
clubs, which covers other users and members that come and go. `drift` is history: a run was
between its reading and its put when another run read, when the app died or
when the put failed, or a call was given up. On the web the class does nothing,
and there is nothing to model.

## 3. Runs

| Run | Result | Shows |
|---|---|---|
| `MCInvitations` | pass | what is shown, granted, deleted or lost belongs to the right invitation; a deleted code is found only in another phone's copy; implements `CodeLifecycle` |
| `MCInvitationsLive` | pass | Reload comes up; every join ends |
| `MCInvitationsOneTime` | violation | a "One time invitation code" admits two |
| `MCSession` | pass | login only at the bottom; no page of an old session; each Dashboard's user has a listener; the splash screen is left |
| `MCSessionNullUser` | violation | pages are built without a user during and after a logout |
| `MCClubCreation` | pass | the entry is the creator's unless the user changed; a missing one is explained; a creation leads to its entry; an open page recovers |
| `MCClubSessionOwner` | violation | "Select your shares": a sign-up answered late over an open CreateClub page, and another user gets them |
| `MCDrawCountdown` | pass | the countdown is exact but for dropped parts of a second and the clock; "Draw ended" is shown in the end |
| `MCDrawCountdownFrozen` | violation | "Draw in" over a countdown that stands still |
| `MCSubscriptions` | pass | the list and the topics agree but for the named gaps; the last list is heard, and its calls are made |
| `MCQrJoin` | pass | who is added read a fresh code, but for the clocks; a code on a screen is accepted from its second second until it is renewed; one request per visit; the pops leave the scanner, and take the first page only while a scanner that was left is still mounted |
| `MCLedger` | pass | a missing payment was refused or has the id of another; amounts are those typed; one payment per sheet; implements `PaymentLifecycle`; lists converge |

Bounds. One page, which may be closed and opened for another club, two codes,
clubs, attempts and phones are enough for a code to be replaced, taken twice,
deleted under another attempt, or kept by a phone that did not delete it; the
countdown starts at 1 or 2 because only 0 matters. Two emails and two presses let one sign-up
overtake another or a logout; four routes hold the Dashboard a join pushes over
the join page, CreateClub and the bottom. Two users
and two CreateClub pages let a page outlive its user; one club is enough, since
creations share nothing but the user and the pages, and the theorems are for
any number. The instants lie on both sides of each
boundary of seconds, minutes, hours and
draw dates. Two runs overlap in every way there is, and two calls may wait for
one topic (`MaxCalls`). For QrJoin the interval is 2 s and the window ends at 3,
and the instants 0, 2000 and 3400 with clocks 200 ms behind or ahead give ages
below, at and above both of its ends; stacks of five hold two pages above the
scanner, and two visits let one scanner leave while the next one scans. For Ledger two phones with two payments and two ids
collide, overtake each other and are refused in every order; the amounts typed
are 0, which the validator takes, and a negative one, a repayment. `MCInvitations`
uses symmetry in pages, codes, attempts, phones and clubs; the
runs with liveness properties use none. Deadlock is not checked for Invitations
only: its codes run out.

Fairness. Invitations: the timer ticks while the page is open, and each call of
a plugin returns or throws. Session: the dialog is answered, the delay passes,
the calls of `_logout` return or throw; a press of a button is never assumed.
ClubCreation: queued sets are answered while their user is signed in, calls
return or throw, requests are handled or lost, listeners hear of what the server
has. DrawCountdown: time goes on, a running timer fires, and lookups and NTP are not
overtaken or failing for ever (strong fairness, as each tick drops the future
under way). Subscriptions: the plugin makes a call or gives it up. QrJoin: a post
returns or throws. Ledger: each phone is online in the end, so queued writes are
answered and streams catch up. `SplashEnds`
holds only if the process is not killed again and again, and says so.

## 4. Proofs

All for every value of the constants, from the named assumptions only
(`CountAssumption`, `NullAssumption`, `SessionAssumption`, `TimeAssumption`,
`TextAssumption`, `MaxCallsAssumption`, `ItemsAssumption`, `QrAssumption`,
`QrNullAssumption`, `LedgerAssumption`: types of the bounds, that clocks are off by
at most `MaxSkew`, and that null, blank and "Draw ended" are none of the values
they stand beside). Each component's type invariant is proved too; those of
DrawCountdown, Subscriptions and Ledger are left to the proof and are not part of
their runs.

- `InvitationsProofs`. The properties are not inductive: that a ticket matches
  its code needs that a document holds a stored code of its own club and that
  attempts run in order. `Bookkeeping` collects that, is proved first
  (`BookkeepingHolds`), and the others build on it:
  `GrantMatches`, `ConsumedAfter`, `ConsumedStays`, `LossExplained`,
  `ShownStored`. `ImplementsCodeLifecycle` shows that each step is a step of
  `CodeLifecycle` or leaves its variables alone; a post that stores over a live
  code is one abstract step, and what an answer brings to a phone's copies are
  codes that are live (`QueryLearns`). `DeletedForgotten` adds that a phone on
  which the delete of a code was applied has no copy of it and gets none: the
  server has no such document to send. `NoLateAdmission` follows: who finds such
  a code finds it in a copy, on another phone.
- `SessionProofs`. `SessionInv` adds that whoever is signed in, or may be by a
  request under way, is in `requested`: `LoginIsAtBottom`,
  `PagesAreOfThisSession`, `DashboardsAreHeard`. `NobodyReturns`: to have an
  account and not be the user is kept by every step, since accounts are never
  removed and only `signIn`, which needs a new one, makes somebody the user. It
  is proved only; no run repeats it.
- `ClubCreationProofs`. `InvOf(c)` says of one club which await goes with which
  request and document, that the shares passed on are those picked, and that a
  creator who was not away is the user while the set is awaited. With it both
  properties are inductive, club by club: `EntriesAreCreators`,
  `MissingEntriesExplained`.
- `DrawCountdownProofs`. `DecomposeExact` (hours, minutes and seconds are in
  range and add up, for every duration) gives `CountdownIsNotAhead` and
  `EndedIsPast`; a text that stays on the screen is preserved because time
  does not go back.
- `SubscriptionsProofs`. The properties speak of states in which no call waits;
  the invariant speaks of what the waiting calls will amount to (`Heard`: the last
  call for a topic decides). `LatestInv` gives `LatestListIsHeard`. `DriftInv`
  (one run at a time is inside, its old list is the box's, what will be heard is
  its new list until the put) gives `TopicsFollowTheList`.
- `ClubSessionProofs`. `CompositionIsSession` and `CompositionIsClubCreation`:
  each step of the composition is a step of either part or leaves its variables
  alone, `SessionStep` being a `StackChanges` of ClubCreation. With them every
  theorem of Session and ClubCreation holds of the two together.
  `CreatorsAreOfThisSession` is about the composition itself and holds of neither
  part alone. It joins `SessionInv` to `PageRoutes`: each CreateClub page of
  ClubCreation is a route of Session, with the email that route captured.
- `QrJoinProofs`. `QrInv` adds that a stamp is off by at most a clock
  (`StampsHonest`), that every request was in the window when it was sent and
  belongs to a visit that no longer scans (`RequestsInWindow`), and that base,
  CreateClub and scanner are the first three routes (`StackShape`), which is why
  two pops from a scanner that has its route never take the base (`BaseLost`).
  `FreshWindow` turns whole seconds into milliseconds: `AdmittedAreInWindow`,
  `OneRequest`, for all intervals, instants and clocks. `ScreensAreFresh`
  needs that the stamp on a page is the moment at which its delay began, but for
  the clock (`PagesHonest`).
- `LedgerProofs`. `LedgerInv` adds that what is queued was made, that a document
  lies under its payment's id, and that an open sheet has made nothing yet:
  `LossesAreExplained`, `AmountsAreTyped`, `SheetsPayOnce`.
  `ImplementsPaymentLifecycle` needs `OneFate` on top: a payment is at one place
  of one queue, or refused, or a document, and no two of these. Without it a set
  that waits twice would keep a payment that was replaced.

Each of the four violations has a theorem that says where the claim does hold,
and so what exactly breaks it. The hypothesis of each is a formula about single
steps (or states) of the same specification, that the code does not enforce.

| Claim | Holds on every run in which | Theorem | Why it is inductive then |
|---|---|---|---|
| `OneTimeCode` | no attempt finds a code that another found and has not deleted (`OneAtATime`), and none finds a code the server no longer has (`CurrentAnswers`) | `OneTimeUnlessOverlapping` | of two attempts with one code at most one has a ticket: the first has deleted the document the second would need, and a copy does not do |
| `PagesHaveUsers` | no signOut returns (`NobodySignsOut`) | `UsersUnlessSigningOut` | `UsersStay`: without a user the app has come no further than the login page |
| `SharesAreCreators` | one address at most is asked for between two clearings of the stack (`OneAddress`) | `SharesUnlessTwoAddresses` | creator and user are both of this session, hence the same; the entry is the one that was posted |
| `CountdownTicks` | the draw is not put off, and texts made without NTP are those of the true time (`Undisturbed`) | `TicksUnlessDisturbed` | a timer that stopped means that the draw is past |

So a repair has one place to look at for each: make the query and the delete one
step on the server (a transaction, which also refuses to run on a copy), leave the pages before signing out, pass the creator to `addMember`,
restart the timer.

Only model-checked: liveness (`ReloadIsOffered`, `EveryJoinEnds`, `SplashEnds`,
`CreationPays`, `PageRecovers`, `EndIsShown`, `ListIsHeard`,
`JoinLeavesScanner`, `ListsConverge`),
which is out of the prover's reach, and the violations. That a theorem of Session
holds of the composition is used through its inductive invariant: the prover does
not unfold a theorem reached through an instance.

## 5. Plan

Done, in this order: Invitations with its abstract specification, Session,
DrawCountdown, Subscriptions, ClubCreation, QrJoin, Ledger, the composition of
Session and ClubCreation, the proofs of each, the refinement of
`PaymentLifecycle`, and theorems on the runs on which the four broken claims
hold. What could follow:

1. Subscriptions composed with Session, whose Dashboards start its runs, in
   place of runs that start at any time.
2. Messages: how many badges one message raises when several Dashboards were
   opened in one process, and whom they address.
3. An abstract specification of the creation of a club (asked for, stored, paid
   for or given up), and the proof that ClubCreation implements it.

## 6. Not modelled

All of the program's own state changes are in a module but for the wording of
badges. Left out for good: layout and theme, DrawOneMember (commented out of
the club page), `formatDuration2`, `EmailHiveData`, `emailAuth`, `createUserData`,
`checkUserNameExists`, `updateFcmToken` (no callers), generated configuration.
Everything outside `src/lib` is vendored, generated or assets: it is used through
the plugins' interfaces and is modelled only as far as the app sees it (the
entries marked external in the map).
