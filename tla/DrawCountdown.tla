---------------------------- MODULE DrawCountdown ----------------------------
(***************************************************************************)
(* The draw countdown on the club page: TimerLabel and the part of Helper  *)
(* it calls.                                                               *)
(*                                                                         *)
(* Each second the timer builds the label again, and each build starts a   *)
(* new future: look up a host, ask NTP for the time if that works or take  *)
(* the phone's clock if it does not, and format what is left until the     *)
(* draw.  FutureBuilder listens to the newest future only and keeps the    *)
(* old text until that one completes.  The text "Draw ended" cancels the   *)
(* timer; nothing starts it again.                                         *)
(*                                                                         *)
(* Times are in milliseconds.  Only the instants of a given set are told   *)
(* apart: a tick may leave the time where it is, or move it on to any      *)
(* later one (other seconds pass, the phone sleeps).                       *)
(***************************************************************************)
EXTENDS Integers

CONSTANTS
    Instants,   \* moments told apart
    DrawDates,  \* draw dates a club can have
    Skews,      \* how far the phone's clock may be ahead of the true time
    MaxAhead,   \* a bound on that
    Ended,      \* the text "Draw ended"
    Null        \* no data: shown as 00:00:00

Duration == [h: Nat, m: Nat, s: Nat]

ASSUME TimeAssumption ==
    /\ Instants \subseteq Nat /\ DrawDates \subseteq Nat
    /\ Skews \subseteq Int /\ MaxAhead \in Nat
    /\ \A k \in Skews : k <= MaxAhead
ASSUME TextAssumption ==
    Null \notin Duration /\ Ended \notin Duration /\ Null # Ended

VARIABLES
    time,       \* the true time
    drawDate,   \* widget.club.getDrawDate
    timer,      \* TRUE while the periodic timer runs
    pending,    \* the await the newest future stands at
    shown,      \* snapshot.data: Ended, hours, minutes and seconds, or Null
    shownFor    \* history: the draw date that text was computed for

vars == <<time, drawDate, timer, pending, shown, shownFor>>

TypeOK ==
    /\ time \in Instants
    /\ drawDate \in DrawDates
    /\ timer \in BOOLEAN
    /\ pending \in {"none", "lookup", "ntp"}
    /\ shown \in Duration \cup {Ended, Null}
    /\ shownFor \in DrawDates

\* Duration.inHours, inMinutes and inSeconds drop what is left over.
inHours(d) == d \div 3600000
inMinutes(d) == d \div 60000
inSeconds(d) == d \div 1000

\* Slip: minutes counted from now, without the hours.
decompose_MinutesFromNow(d) ==
    LET hours == inHours(d)
        minutes == inMinutes(d)
    IN  [h |-> hours, m |-> minutes, s |-> inSeconds(d - 60000 * minutes)]

decompose(d) ==
    LET hours == inHours(d)
        minutes == inMinutes(d - 3600000 * hours)
        seconds == inSeconds(d - 60000 * (hours * 60 + minutes))
    IN  [h |-> hours, m |-> minutes, s |-> seconds]

\* Slip: a draw that is due this very moment has ended.
formatDuration_AtDraw(date, now) ==
    IF date <= now THEN Ended ELSE decompose(date - now)

formatDuration(date, now) ==
    IF date < now THEN Ended ELSE decompose(date - now)

Init ==
    /\ time \in Instants
    /\ drawDate \in DrawDates
    /\ timer = TRUE
    /\ pending = "lookup"
    /\ shown = Null
    /\ shownFor = drawDate

\* A second passes, or several: the running timer builds the label again.
Tick(t) ==
    /\ t >= time
    /\ time' = t
    /\ pending' = IF timer THEN "lookup" ELSE pending
    /\ UNCHANGED <<drawDate, timer, shown, shownFor>>

\* The club page is built again, with the same draw date or a new one.
Rebuild(date) ==
    /\ drawDate' = date
    /\ pending' = "lookup"
    /\ UNCHANGED <<time, timer, shown, shownFor>>

\* The newest future completes: the text is shown, and ends the timer if it
\* says so.
Complete(text) ==
    /\ pending' = "none"
    /\ shown' = text
    /\ shownFor' = drawDate
    /\ timer' = (timer /\ text # Ended)
    /\ UNCHANGED <<time, drawDate>>

LookupSucceeded ==
    /\ pending = "lookup"
    /\ pending' = "ntp"
    /\ UNCHANGED <<time, drawDate, timer, shown, shownFor>>

\* The lookup throws SocketException: the phone's clock is used.
LookupFailed ==
    /\ pending = "lookup"
    /\ \E k \in Skews : Complete(formatDuration(drawDate, time + k))

\* Slip: an answer after the draw is dropped.
NtpAnswered_BeforeDraw ==
    /\ pending = "ntp"
    /\ drawDate >= time
    /\ Complete(formatDuration(drawDate, time))

NtpAnswered ==
    /\ pending = "ntp"
    /\ Complete(formatDuration(drawDate, time))

\* NTP.now throws, which nothing catches: the snapshot has an error, no data.
NtpFailed ==
    /\ pending = "ntp"
    /\ Complete(Null)

Next ==
    \/ \E t \in Instants : Tick(t)
    \/ \E date \in DrawDates : Rebuild(date)
    \/ LookupSucceeded
    \/ LookupFailed
    \/ NtpAnswered
    \/ NtpFailed

Spec == Init /\ [][Next]_vars

\* Time goes on, a running timer fires, and again and again a lookup ends and
\* NTP answers before the next tick.
Fairness ==
    /\ WF_vars(\E t \in Instants : t > time /\ Tick(t))
    /\ WF_vars(timer /\ pending = "none" /\ \E t \in Instants : Tick(t))
    /\ SF_vars(LookupSucceeded \/ LookupFailed)
    /\ SF_vars(NtpAnswered)

FairSpec == Spec /\ Fairness
-----------------------------------------------------------------------------
(***************************************************************************)
(* Properties                                                              *)
(***************************************************************************)

\* The seconds a text stands for.
Seconds(t) == 3600 * t.h + 60 * t.m + t.s

\* A countdown is well formed and never ahead of the draw: however old the
\* answer on the screen is, it leaves at least the whole seconds that are
\* left, but for what the phone's clock is ahead.
CountdownNotAhead ==
    shown \in Duration =>
        /\ shown.m < 60 /\ shown.s < 60
        /\ 1000 * (Seconds(shown) + 1) > shownFor - time - MaxAhead

\* "Draw ended" is not shown before the draw, nor at the very moment of it,
\* but for what the phone's clock is ahead.
EndedMeansPast == shown = Ended => shownFor < time + MaxAhead

\* A label whose timer runs says "Draw ended" in the end, though each answer
\* may be overtaken by the next tick.
EndIsShown == timer ~> shown = Ended

\* What the label says under a countdown, "Draw in": the number is counting,
\* so the timer runs.
CountdownTicks == shown \in Duration => timer

\* A step that does not move the draw to a later date, and in which a text made
\* without NTP is that of the true time.  Where there are only such steps,
\* CountdownTicks holds.
Undisturbed ==
    /\ drawDate' <= drawDate
    /\ LookupFailed => shown' = formatDuration(drawDate, time)
=============================================================================
