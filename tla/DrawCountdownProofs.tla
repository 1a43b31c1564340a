------------------------- MODULE DrawCountdownProofs -------------------------
(***************************************************************************)
(* What the draw countdown shows, for every set of instants and of draw    *)
(* dates and every error of the phone's clock.                             *)
(***************************************************************************)
EXTENDS DrawCountdown, TLAPS

\* The hours, minutes and seconds that formatDuration takes from a duration
\* are in range, and together they are the duration but for a part of a
\* second that is dropped.
LEMMA DecomposeExact ==
    ASSUME NEW d \in Nat
    PROVE  /\ decompose(d) \in Duration
           /\ decompose(d).m < 60 /\ decompose(d).s < 60
           /\ 1000 * Seconds(decompose(d)) <= d
           /\ d < 1000 * (Seconds(decompose(d)) + 1)
  <1> DEFINE h == inHours(d)
             e == d - 3600000 * h
             m == inMinutes(e)
             f == d - 60000 * (h * 60 + m)
             s == inSeconds(f)
  <1>1. h \in Nat /\ e \in Nat /\ e < 3600000
    BY DEF inHours
  <1> HIDE DEF h
  <1>2. m \in Nat /\ m < 60 /\ f \in Nat /\ f = e - 60000 * m /\ f < 60000
    <2>1. m \in Nat /\ 60000 * m <= e /\ e < 60000 * m + 60000
      BY <1>1 DEF inMinutes
    <2> HIDE DEF m
    <2>. QED BY <1>1, <2>1
  <1> HIDE DEF m
  <1>3. s \in Nat /\ s < 60 /\ 1000 * s <= f /\ f < 1000 * s + 1000
    BY <1>2 DEF inSeconds
  <1>4. decompose(d) = [h |-> h, m |-> m, s |-> s]
    BY DEF decompose, h, m
  <1> HIDE DEF s
  <1>5. decompose(d) \in Duration
    BY <1>1, <1>2, <1>3, <1>4 DEF Duration
  <1>6. Seconds(decompose(d)) = 3600 * h + 60 * m + s
    BY <1>4 DEF Seconds
  <1>. QED BY <1>1, <1>2, <1>3, <1>4, <1>5, <1>6

\* What formatDuration answers for a draw and a clock.
LEMMA FormatCases ==
    ASSUME NEW date \in Nat, NEW now \in Int
    PROVE  \/ formatDuration(date, now) = Ended /\ date < now
           \/ /\ formatDuration(date, now) \in Duration
              /\ formatDuration(date, now).m < 60
              /\ formatDuration(date, now).s < 60
              /\ 1000 * (Seconds(formatDuration(date, now)) + 1) > date - now
  <1>1. CASE date < now
    BY <1>1 DEF formatDuration
  <1>2. CASE ~(date < now)
    <2>1. date - now \in Nat
      BY <1>2
    <2>2. formatDuration(date, now) = decompose(date - now)
      BY <1>2 DEF formatDuration
    <2>. QED BY <2>1, <2>2, DecomposeExact
  <1>. QED BY <1>1, <1>2

\* The inductive invariant: the types, and both statements about the text.
CountdownInv == TypeOK /\ CountdownNotAhead /\ EndedMeansPast

\* The invariant holds when the label is built.
LEMMA CountdownInit == Init => CountdownInv
  BY TextAssumption
     DEF Init, CountdownInv, TypeOK, CountdownNotAhead, EndedMeansPast

\* A completed future leaves the invariant in place when its text is missing
\* or was computed from a clock that is ahead by at most MaxAhead.
LEMMA CompletePreserves ==
    ASSUME CountdownInv, NEW text, Complete(text),
           \/ text = Null
           \/ \E k \in Int : /\ k <= MaxAhead
                             /\ text = formatDuration(drawDate, time + k)
    PROVE  CountdownInv'
  <1>1. time \in Int /\ drawDate \in Nat /\ MaxAhead \in Nat
    BY TimeAssumption DEF CountdownInv, TypeOK
  <1>2. /\ time' = time /\ drawDate' = drawDate /\ shown' = text
        /\ shownFor' = drawDate /\ pending' = "none"
        /\ timer' = (timer /\ text # Ended)
    BY DEF Complete
  <1>3. CASE text = Null
    BY <1>1, <1>2, <1>3, TextAssumption
       DEF CountdownInv, TypeOK, CountdownNotAhead, EndedMeansPast
  <1>4. CASE \E k \in Int : /\ k <= MaxAhead
                            /\ text = formatDuration(drawDate, time + k)
    <2>1. PICK k \in Int : /\ k <= MaxAhead
                           /\ text = formatDuration(drawDate, time + k)
      BY <1>4
    <2>2. \/ text = Ended /\ drawDate < time + k
          \/ /\ text \in Duration /\ text.m < 60 /\ text.s < 60
             /\ 1000 * (Seconds(text) + 1) > drawDate - (time + k)
      <3> DEFINE now == time + k
                 answer == formatDuration(drawDate, now)
      <3>1. now \in Int
        BY <1>1
      <3> HIDE DEF now
      <3>2. \/ answer = Ended /\ drawDate < now
            \/ /\ answer \in Duration /\ answer.m < 60 /\ answer.s < 60
               /\ 1000 * (Seconds(answer) + 1) > drawDate - now
        BY <1>1, <3>1, FormatCases
      <3>3. text = answer
        BY <2>1 DEF now
      <3> HIDE DEF answer
      <3>. QED BY <3>2, <3>3 DEF now
    <2>3. CASE text = Ended /\ drawDate < time + k
      BY <1>1, <1>2, <2>1, <2>3, TextAssumption
         DEF CountdownInv, TypeOK, CountdownNotAhead, EndedMeansPast
    <2>4. CASE /\ text \in Duration /\ text.m < 60 /\ text.s < 60
               /\ 1000 * (Seconds(text) + 1) > drawDate - (time + k)
      <3>1. Seconds(text) \in Int
        BY <2>4 DEF Seconds, Duration
      <3>2. 1000 * (Seconds(text) + 1) > drawDate - time - MaxAhead
        BY <1>1, <2>1, <2>4, <3>1
      <3>3. Seconds(shown') = Seconds(text)
        BY <1>2
      <3>4. text # Ended
        BY <2>4, TextAssumption
      <3>5. TypeOK'
        BY <1>2, <2>4 DEF CountdownInv, TypeOK
      <3>. QED BY <1>2, <2>4, <3>2, <3>3, <3>4, <3>5
               DEF CountdownInv, CountdownNotAhead, EndedMeansPast
    <2>. QED BY <2>2, <2>3, <2>4
  <1>. QED BY <1>3, <1>4

\* Time only goes on, and a text that stays is not ahead of a later time.
LEMMA CountdownStep ==
    ASSUME CountdownInv, [Next]_vars
    PROVE  CountdownInv'
  <1> USE DEF CountdownInv
  <1>1. time \in Int /\ drawDate \in Nat /\ MaxAhead \in Nat
        /\ shownFor \in Nat
    BY TimeAssumption DEF TypeOK
  <1>2. ASSUME NEW t \in Instants, Tick(t) PROVE CountdownInv'
    <2>1. t \in Int /\ t >= time /\ time' = t
      BY <1>2, TimeAssumption DEF Tick
    <2>2. /\ drawDate' = drawDate /\ timer' = timer
          /\ shown' = shown /\ shownFor' = shownFor
      BY <1>2 DEF Tick
    <2>3. TypeOK'
      BY <1>2, <2>1, <2>2 DEF TypeOK, Tick
    <2>4. CountdownNotAhead'
      <3>1. SUFFICES ASSUME shown \in Duration
                     PROVE  /\ shown.m < 60 /\ shown.s < 60
                            /\ 1000 * (Seconds(shown) + 1)
                                 > shownFor - t - MaxAhead
        BY <2>1, <2>2 DEF CountdownNotAhead, Seconds
      <3>2. Seconds(shown) \in Int
        BY <3>1 DEF Duration, Seconds
      <3>. QED BY <1>1, <2>1, <3>1, <3>2 DEF CountdownNotAhead
    <2>5. EndedMeansPast'
      BY <1>1, <2>1, <2>2 DEF EndedMeansPast
    <2>. QED BY <2>3, <2>4, <2>5
  <1>3. ASSUME NEW date \in DrawDates, Rebuild(date) PROVE CountdownInv'
    BY <1>3 DEF Rebuild, TypeOK, CountdownNotAhead, EndedMeansPast, Seconds
  <1>4. ASSUME LookupSucceeded PROVE CountdownInv'
    BY <1>4 DEF LookupSucceeded, TypeOK, CountdownNotAhead, EndedMeansPast,
                Seconds
  <1>5. ASSUME LookupFailed PROVE CountdownInv'
    <2>1. PICK k \in Skews : Complete(formatDuration(drawDate, time + k))
      BY <1>5 DEF LookupFailed
    <2>2. k \in Int /\ k <= MaxAhead
      BY TimeAssumption
    <2>. QED BY <2>1, <2>2, CompletePreserves
  <1>6. ASSUME NtpAnswered PROVE CountdownInv'
    <2>1. Complete(formatDuration(drawDate, time + 0))
      BY <1>1, <1>6 DEF NtpAnswered
    <2>2. 0 \in Int /\ 0 <= MaxAhead
      BY <1>1
    <2>. QED BY <2>1, <2>2, CompletePreserves
  <1>7. ASSUME NtpFailed PROVE CountdownInv'
    BY <1>7, CompletePreserves DEF NtpFailed
  <1>8. ASSUME UNCHANGED vars PROVE CountdownInv'
    BY <1>8 DEF vars, TypeOK, CountdownNotAhead, EndedMeansPast, Seconds
  <1>. QED BY <1>2, <1>3, <1>4, <1>5, <1>6, <1>7, <1>8 DEF Next

\* Whatever the lookups and NTP do, a countdown on the screen is well formed
\* and leaves at least the whole seconds that are left until the draw, but for
\* the phone's clock.
THEOREM CountdownIsNotAhead == Spec => []CountdownNotAhead
  <1>1. CountdownInv => CountdownNotAhead
    BY DEF CountdownInv
  <1>. QED BY CountdownInit, CountdownStep, <1>1, PTL DEF Spec

\* "Draw ended" on the screen means that the draw is past, but for the phone's
\* clock.
THEOREM EndedIsPast == Spec => []EndedMeansPast
  <1>1. CountdownInv => EndedMeansPast
    BY DEF CountdownInv
  <1>. QED BY CountdownInit, CountdownStep, <1>1, PTL DEF Spec

\* The label, its timer and its future have their types in every state: a
\* countdown never has a negative part, for a draw that is past least of all.
THEOREM CountdownTyped == Spec => []TypeOK
  <1>1. CountdownInv => TypeOK
    BY DEF CountdownInv
  <1>. QED BY CountdownInit, CountdownStep, <1>1, PTL DEF Spec

\* The number under "Draw in" counts on every run on which the draw is not put
\* off and the phone's clock is right whenever NTP cannot be reached: a stopped
\* timer, which nothing starts again, then means that the draw is past for
\* good.
THEOREM TicksUnlessDisturbed ==
    Spec /\ [][Undisturbed]_vars => []CountdownTicks
  <1> DEFINE Stopped == ~timer => drawDate < time
  <1>1. Init => Stopped /\ CountdownTicks
    BY DEF Init, CountdownTicks
  <1>2. TypeOK /\ Stopped /\ CountdownTicks /\ [Next]_vars
        /\ [Undisturbed]_vars => Stopped' /\ CountdownTicks'
    <2> SUFFICES ASSUME TypeOK, Stopped, CountdownTicks, [Next]_vars,
                        [Undisturbed]_vars
                 PROVE  Stopped' /\ CountdownTicks'
      OBVIOUS
    <2>1. time \in Nat /\ drawDate \in Nat
      BY TimeAssumption DEF TypeOK
    <2>2. ASSUME NEW t \in Instants, Tick(t)
          PROVE  Stopped' /\ CountdownTicks'
      BY <2>1, <2>2, TimeAssumption DEF Tick, CountdownTicks
    <2>3. ASSUME NEW date \in DrawDates, Rebuild(date)
          PROVE  Stopped' /\ CountdownTicks'
      <3>1. drawDate' \in Nat /\ drawDate' <= drawDate
        BY <2>1, <2>3, TimeAssumption DEF Rebuild, Undisturbed, vars
      <3>. QED BY <2>1, <2>3, <3>1 DEF Rebuild, CountdownTicks
    <2>4. CASE LookupSucceeded
      BY <2>4 DEF LookupSucceeded, CountdownTicks
    <2>5. CASE NtpFailed
      BY <2>5, TextAssumption DEF NtpFailed, Complete, CountdownTicks
    <2>6. ASSUME Complete(formatDuration(drawDate, time))
          PROVE  Stopped' /\ CountdownTicks'
      <3> DEFINE text == formatDuration(drawDate, time)
      <3>1. \/ text = Ended /\ drawDate < time
            \/ text \in Duration /\ ~(drawDate < time)
        <4>1. CASE drawDate < time
          BY <4>1 DEF formatDuration
        <4>2. CASE ~(drawDate < time)
          <5>1. drawDate - time \in Nat
            BY <2>1, <4>2
          <5>. QED BY <4>2, <5>1, DecomposeExact DEF formatDuration
        <4>. QED BY <4>1, <4>2
      <3>2. /\ timer' = (timer /\ text # Ended) /\ shown' = text
            /\ UNCHANGED <<time, drawDate>>
        BY <2>6 DEF Complete
      <3> HIDE DEF text
      <3>. QED BY <3>1, <3>2, TextAssumption DEF CountdownTicks
    <2>7. CASE LookupFailed
      <3>1. shown' = formatDuration(drawDate, time)
        BY <2>7 DEF Undisturbed, LookupFailed, Complete, vars
      <3>2. Complete(formatDuration(drawDate, time))
        BY <2>7, <3>1 DEF LookupFailed, Complete
      <3>. QED BY <2>6, <3>2
    <2>8. CASE UNCHANGED vars
      BY <2>8 DEF vars, CountdownTicks
    <2>. QED
      BY <2>2, <2>3, <2>4, <2>5, <2>6, <2>7, <2>8 DEF Next, NtpAnswered
  <1> HIDE DEF Stopped
  <1>. QED BY <1>1, <1>2, CountdownTyped, PTL DEF Spec
=============================================================================
