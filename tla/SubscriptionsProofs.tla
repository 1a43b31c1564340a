------------------------- MODULE SubscriptionsProofs -------------------------
(***************************************************************************)
(* What the phone listens to, for any clubs and any number of runs of      *)
(* calculateSubscription at a time.                                        *)
(*                                                                         *)
(* The properties speak of settled states, in which no call waits; they    *)
(* follow from what the waiting calls will amount to: the last call for a  *)
(* topic decides, and without one the topic stays as it is.                *)
(***************************************************************************)
EXTENDS Subscriptions, SequenceTheorems, TLAPS

\* The last element of a sequence after an append.
LEMMA LastOfAppend ==
    ASSUME NEW S, NEW s \in Seq(S), NEW e \in S
    PROVE  /\ Append(s, e) \in Seq(S) /\ Append(s, e) # <<>>
           /\ Len(Append(s, e)) = Len(s) + 1
           /\ Append(s, e)[Len(Append(s, e))] = e
  BY AppendProperties

\* The last element of a sequence is also the last of its tail, if any.
LEMMA LastOfTail ==
    ASSUME NEW S, NEW s \in Seq(S), s # <<>>
    PROVE  /\ Tail(s) \in Seq(S) /\ Len(Tail(s)) = Len(s) - 1
           /\ Tail(s) = <<>> => s[Len(s)] = Head(s)
           /\ Tail(s) # <<>> => Tail(s)[Len(Tail(s))] = s[Len(s)]
  <1>1. Len(s) \in Nat \ {0}
    BY EmptySeq
  <1>2. /\ Tail(s) \in Seq(S) /\ Len(Tail(s)) = Len(s) - 1
        /\ \A i \in 1 .. Len(Tail(s)) : Tail(s)[i] = s[i + 1]
    BY HeadTailProperties
  <1>3. Tail(s) = <<>> => s[Len(s)] = Head(s)
    <2> SUFFICES ASSUME Tail(s) = <<>> PROVE s[Len(s)] = Head(s)
      OBVIOUS
    <2>1. Len(Tail(s)) = 0
      BY EmptySeq
    <2>2. Len(s) = 1
      BY <1>1, <1>2, <2>1
    <2>3. Head(s) = s[1]
      OBVIOUS
    <2>. QED BY <2>2, <2>3
  <1>4. Tail(s) # <<>> => Tail(s)[Len(Tail(s))] = s[Len(s)]
    <2> SUFFICES ASSUME Tail(s) # <<>>
                 PROVE  Tail(s)[Len(Tail(s))] = s[Len(s)]
      OBVIOUS
    <2>1. Len(Tail(s)) \in Nat \ {0}
      BY <1>2, EmptySeq
    <2>. QED BY <1>1, <1>2, <2>1
  <1>. QED BY <1>2, <1>3, <1>4

\* The topic of c will be subscribed once the waiting calls are made.
Heard(c) ==
    IF calls[c] = <<>> THEN c \in topics
                       ELSE calls[c][Len(calls[c])] = "subscribe"

\* The clubs of the latest list will be heard.
LatestInv == \A c \in latest : Heard(c)

Inside(r) == pc[r] \in {"calculate", "put"}

\* What will be heard is in the list, and all of it unless the token is gone.
Follows(list) ==
    \A c \in Clubs : /\ Heard(c) => c \in list
                     /\ c \in list => tokenLost \/ Heard(c)

\* Without drift one run at a time is between its reading and its put, its
\* old list is the one in the box, and what will be heard is its new list from
\* the calls to the put, and the list in the box otherwise.
DriftInv ==
    ~drift =>
        /\ \A q, r \in Runs : Inside(q) /\ Inside(r) => q = r
        /\ \A r \in Runs : pc[r] = "calculate" => old[r] = saved
        /\ \A r \in Runs : pc[r] = "put" => Follows(new[r])
        /\ (\A r \in Runs : pc[r] # "put") => Follows(saved)

SubscriptionsInv == TypeOK /\ LatestInv /\ DriftInv

\* The invariant holds of an empty box and no run.
LEMMA SubscriptionsInit == Init => SubscriptionsInv
  <1> SUFFICES ASSUME Init PROVE SubscriptionsInv
    OBVIOUS
  <1>1. TypeOK
    <2>1. <<>> \in Seq({"subscribe", "unsubscribe"}) /\ Len(<<>>) = 0
      BY EmptySeq
    <2>2. /\ calls \in [Clubs -> Seq({"subscribe", "unsubscribe"})]
          /\ \A c \in Clubs : Len(calls[c]) <= MaxCalls
      BY <2>1, MaxCallsAssumption DEF Init
    <2>. QED BY <2>2 DEF Init, TypeOK
  <1>2. LatestInv
    BY DEF Init, LatestInv
  <1>3. DriftInv
    BY DEF Init, DriftInv, Inside, Follows, Heard
  <1>. QED BY <1>1, <1>2, <1>3 DEF SubscriptionsInv

\* A step that changes neither calls nor topics leaves what will be heard.
LEMMA HeardStays ==
    ASSUME UNCHANGED <<calls, topics>>
    PROVE  \A c : Heard(c)' = Heard(c)
  BY DEF Heard

\* The calls of a run: its new list will be heard, and what was on the old
\* one only will not.
LEMMA HeardAfterCalls ==
    ASSUME TypeOK, NEW r \in Runs, calculateSubscription(r), NEW c \in Clubs
    PROVE  /\ c \in new[r] => Heard(c)'
           /\ c \in old[r] \ new[r] => ~Heard(c)'
           /\ c \notin old[r] \cup new[r] => Heard(c)' = Heard(c)
  <1> USE DEF calculateSubscription, unSubscriptions, subscriptions
  <1>1. calls[c] \in Seq({"subscribe", "unsubscribe"})
    BY DEF TypeOK
  <1>2. CASE c \in old[r] \ new[r]
    <2>1. calls'[c] = Append(calls[c], "unsubscribe")
      BY <1>2 DEF Call
    <2>2. /\ calls'[c] # <<>>
          /\ calls'[c][Len(calls'[c])] = "unsubscribe"
      BY <1>1, <2>1, LastOfAppend
    <2>. QED BY <1>2, <2>2 DEF Heard
  <1>3. CASE c \in new[r]
    <2>1. calls'[c] = Append(calls[c], "subscribe")
      BY <1>3 DEF Call
    <2>2. /\ calls'[c] # <<>>
          /\ calls'[c][Len(calls'[c])] = "subscribe"
      BY <1>1, <2>1, LastOfAppend
    <2>. QED BY <1>3, <2>2 DEF Heard
  <1>4. CASE c \notin old[r] \cup new[r]
    <2>1. calls'[c] = calls[c]
      BY <1>4 DEF Call
    <2>. QED BY <1>4, <2>1 DEF Heard
  <1>. QED BY <1>2, <1>3, <1>4

\* Making the oldest call for a topic does not change what will be heard.
LEMMA HeardAfterCallMade ==
    ASSUME TypeOK, NEW d \in Clubs, CallMade(d), NEW c \in Clubs
    PROVE  Heard(c)' = Heard(c)
  <1>1. CASE c # d
    BY <1>1 DEF CallMade, Heard, TypeOK
  <1>2. CASE c = d
    <2> DEFINE s == calls[d]
    <2>1. s \in Seq({"subscribe", "unsubscribe"}) /\ s # <<>>
      BY DEF TypeOK, CallMade
    <2>2. calls'[d] = Tail(s)
      BY DEF TypeOK, CallMade
    <2>3. d \in topics' <=> Head(s) = "subscribe"
      BY DEF CallMade
    <2> HIDE DEF s
    <2>4. /\ Tail(s) = <<>> => s[Len(s)] = Head(s)
          /\ Tail(s) # <<>> => Tail(s)[Len(Tail(s))] = s[Len(s)]
      BY <2>1, LastOfTail
    <2>5. Heard(d) = (s[Len(s)] = "subscribe")
      BY <2>1 DEF Heard, s
    <2>6. Heard(d)' = IF Tail(s) = <<>> THEN Head(s) = "subscribe"
                      ELSE Tail(s)[Len(Tail(s))] = "subscribe"
      BY <2>2, <2>3 DEF Heard
    <2>. QED BY <1>2, <2>4, <2>5, <2>6
  <1>. QED BY <1>1, <1>2

\* Types.  A topic takes one call more only below the bound, and loses one
\* when a call is made or given up.
LEMMA TypeStep ==
    ASSUME TypeOK, [Next]_vars
    PROVE  TypeOK'
  <1> DEFINE Queues == Seq({"subscribe", "unsubscribe"})
  <1>1. ASSUME NEW r \in Runs, calculateSubscription(r) PROVE TypeOK'
    <2>1. ASSUME NEW c \in Clubs
          PROVE  calls'[c] \in Queues /\ Len(calls'[c]) <= MaxCalls
      <3>1. calls[c] \in Queues /\ Len(calls[c]) < MaxCalls
        BY <1>1 DEF TypeOK, calculateSubscription
      <3>2. Len(calls[c]) \in Nat
        BY <3>1, LenProperties
      <3>3. \/ calls'[c] = Append(calls[c], "unsubscribe")
            \/ calls'[c] = Append(calls[c], "subscribe")
            \/ calls'[c] = calls[c]
        BY <1>1 DEF calculateSubscription, Call
      <3>4. ASSUME NEW e \in {"subscribe", "unsubscribe"}
            PROVE  /\ Append(calls[c], e) \in Queues
                   /\ Len(Append(calls[c], e)) = Len(calls[c]) + 1
        BY <3>1, LastOfAppend
      <3> HIDE DEF Queues
      <3>5. ASSUME NEW e \in {"subscribe", "unsubscribe"},
                   calls'[c] = Append(calls[c], e)
            PROVE  calls'[c] \in Queues /\ Len(calls'[c]) <= MaxCalls
        BY <3>1, <3>2, <3>4, <3>5, MaxCallsAssumption
      <3>6. CASE calls'[c] = calls[c]
        BY <3>1, <3>2, <3>6, MaxCallsAssumption
      <3>. QED BY <3>3, <3>5, <3>6
    <2>2. calls' \in [Clubs -> Queues]
      <3>1. DOMAIN calls' = Clubs /\ calls' = [c \in Clubs |-> calls'[c]]
        BY <1>1 DEF calculateSubscription, Call
      <3>. QED BY <2>1, <3>1
    <2>. QED BY <1>1, <2>1, <2>2 DEF TypeOK, calculateSubscription, Goto
  <1>2. ASSUME NEW c \in Clubs, CallMade(c) \/ CallFailed(c) PROVE TypeOK'
    <2>1. /\ calls[c] \in Queues /\ calls[c] # <<>>
          /\ calls' = [calls EXCEPT ![c] = Tail(@)]
      BY <1>2 DEF TypeOK, CallMade, CallFailed
    <2>2. Tail(calls[c]) \in Queues /\ Len(Tail(calls[c])) = Len(calls[c]) - 1
      BY <2>1, LastOfTail
    <2>3. Len(calls[c]) \in Nat
      BY <2>1, LenProperties
    <2>4. calls' \in [Clubs -> Queues]
      BY <2>1, <2>2 DEF TypeOK
    <2>5. \A d \in Clubs : Len(calls'[d]) <= MaxCalls
      BY <2>1, <2>2, <2>3, MaxCallsAssumption DEF TypeOK
    <2>. QED BY <1>2, <2>4, <2>5 DEF TypeOK, CallMade, CallFailed
  <1>3. ASSUME NEW r \in Runs, NEW clubs \in SUBSET Clubs,
               getAllClubsOnce(r, clubs)
        PROVE  TypeOK'
    BY <1>3 DEF TypeOK, getAllClubsOnce, Goto
  <1>4. ASSUME NEW r \in Runs,
               \/ initState(r) \/ QueryFailed(r) \/ PutFailed(r)
               \/ subscriptionMembersList(r) \/ updateSubscription(r)
        PROVE  TypeOK'
    BY <1>4 DEF TypeOK, initState, QueryFailed, PutFailed, updateSubscription,
                subscriptionMembersList, Goto, End
  <1>5. ASSUME deleteToken \/ Restart PROVE TypeOK'
    BY <1>5 DEF TypeOK, deleteToken, Restart
  <1>6. ASSUME UNCHANGED vars PROVE TypeOK'
    BY <1>6 DEF TypeOK, vars
  <1>. QED BY <1>1, <1>2, <1>3, <1>4, <1>5, <1>6 DEF Next

\* The latest list is heard: by the calls of its own run, and no other run has
\* made any since.
LEMMA LatestStep ==
    ASSUME TypeOK, LatestInv, [Next]_vars
    PROVE  LatestInv'
  <1>1. ASSUME NEW r \in Runs, calculateSubscription(r) PROVE LatestInv'
    <2>1. latest' = new[r] /\ new[r] \subseteq Clubs
      BY <1>1 DEF TypeOK, calculateSubscription
    <2>2. \A c \in new[r] : Heard(c)'
      BY <1>1, <2>1, HeardAfterCalls
    <2>. QED BY <2>1, <2>2 DEF LatestInv
  <1>2. ASSUME NEW d \in Clubs, CallMade(d) PROVE LatestInv'
    <2>1. latest' = latest /\ latest \subseteq Clubs
      BY <1>2 DEF CallMade, TypeOK
    <2>. QED BY <1>2, <2>1, HeardAfterCallMade DEF LatestInv
  <1>3. ASSUME (\E c \in Clubs : CallFailed(c)) \/ deleteToken
        PROVE  LatestInv'
    BY <1>3 DEF CallFailed, deleteToken, LatestInv
  <1>4. ASSUME UNCHANGED <<calls, topics, latest>> PROVE LatestInv'
    BY <1>4, HeardStays DEF LatestInv
  <1>. QED BY <1>1, <1>2, <1>3, <1>4
           DEF Next, vars, initState, getAllClubsOnce, QueryFailed,
               subscriptionMembersList, updateSubscription, PutFailed, Restart

\* Without drift the lists and the calls stay in step.
LEMMA DriftStep ==
    ASSUME TypeOK, DriftInv, [Next]_vars
    PROVE  DriftInv'
  <1> SUFFICES ASSUME ~drift' PROVE DriftInv'
    BY DEF DriftInv
  <1>0. ~drift => /\ \A q, r \in Runs : Inside(q) /\ Inside(r) => q = r
                  /\ \A r \in Runs : pc[r] = "calculate" => old[r] = saved
                  /\ \A r \in Runs : pc[r] = "put" => Follows(new[r])
                  /\ (\A r \in Runs : pc[r] # "put") => Follows(saved)
    BY DEF DriftInv
  <1>1. ASSUME NEW r \in Runs,
               initState(r) \/ QueryFailed(r)
                 \/ \E clubs \in SUBSET Clubs : getAllClubsOnce(r, clubs)
        PROVE  DriftInv'
    <2>1. /\ UNCHANGED <<saved, calls, topics, drift, tokenLost>>
          /\ ~Inside(r) /\ ~Inside(r)'
          /\ \A q \in Runs \ {r} : /\ pc'[q] = pc[q] /\ new'[q] = new[q]
                                   /\ old'[q] = old[q]
      BY <1>1 DEF initState, QueryFailed, getAllClubsOnce, Goto, End, Inside,
                  TypeOK
    <2>. QED BY <1>0, <2>1, HeardStays DEF DriftInv, Inside, Follows
  <1>2. ASSUME NEW r \in Runs, subscriptionMembersList(r) PROVE DriftInv'
    <2>1. /\ UNCHANGED <<saved, calls, topics, tokenLost, new>>
          /\ ~drift /\ pc[r] = "read" /\ pc'[r] = "calculate"
          /\ old'[r] = saved
          /\ \A q \in Runs \ {r} : /\ pc'[q] = pc[q] /\ old'[q] = old[q]
                                   /\ ~Inside(q)
      BY <1>2 DEF subscriptionMembersList, Goto, Inside, TypeOK, Overlap
    <2>. QED BY <1>0, <2>1, HeardStays DEF DriftInv, Inside, Follows
  <1>3. ASSUME NEW r \in Runs, calculateSubscription(r) PROVE DriftInv'
    <2>1. /\ UNCHANGED <<saved, topics, new, old>> /\ tokenLost' = FALSE
          /\ ~drift /\ pc[r] = "calculate" /\ pc'[r] = "put"
          /\ \A q \in Runs \ {r} : pc'[q] = pc[q]
      BY <1>3 DEF calculateSubscription, Goto, TypeOK
    <2>2. \A q \in Runs \ {r} : ~Inside(q) /\ ~Inside(q)'
      BY <1>0, <2>1 DEF Inside
    <2>3. old[r] = saved /\ Follows(saved)
      BY <1>0, <2>1, <2>2 DEF Inside
    <2>4. \A c \in Clubs : Heard(c)' <=> c \in new[r]
      BY <1>3, <2>3, HeardAfterCalls DEF Follows
    <2>. QED BY <2>1, <2>2, <2>4 DEF DriftInv, Inside, Follows
  <1>4. ASSUME NEW r \in Runs, updateSubscription(r) PROVE DriftInv'
    <2>1. /\ UNCHANGED <<calls, topics, tokenLost>>
          /\ ~drift /\ pc[r] = "put" /\ pc'[r] = "idle" /\ saved' = new[r]
          /\ \A q \in Runs \ {r} : pc'[q] = pc[q]
      BY <1>4 DEF updateSubscription, End, Goto, TypeOK
    <2>2. \A q \in Runs : ~Inside(q)'
      BY <1>0, <2>1 DEF Inside
    <2>3. Follows(new[r])
      BY <1>0, <2>1
    <2>. QED BY <2>1, <2>2, <2>3, HeardStays DEF DriftInv, Inside, Follows
  <1>5. ASSUME NEW c \in Clubs, CallMade(c) PROVE DriftInv'
    <2>1. UNCHANGED <<pc, new, old, saved, drift, tokenLost>>
      BY <1>5 DEF CallMade
    <2>2. \A d \in Clubs : Heard(d)' = Heard(d)
      BY <1>5, HeardAfterCallMade
    <2>. QED BY <1>0, <2>1, <2>2 DEF DriftInv, Inside, Follows
  <1>6. ASSUME deleteToken PROVE DriftInv'
    <2>1. UNCHANGED <<pc, new, old, saved, drift>> /\ tokenLost' = TRUE
      BY <1>6 DEF deleteToken
    <2>2. \A c \in Clubs : Heard(c)' => Heard(c)
      BY <1>6 DEF deleteToken, Heard
    <2>. QED BY <1>0, <2>1, <2>2 DEF DriftInv, Inside, Follows
  <1>7. ASSUME Restart PROVE DriftInv'
    <2>1. /\ UNCHANGED <<saved, calls, topics, tokenLost>>
          /\ ~drift /\ \A r \in Runs : pc[r] # "put" /\ pc'[r] = "idle"
      BY <1>7 DEF Restart
    <2>. QED BY <1>0, <2>1, HeardStays DEF DriftInv, Inside, Follows
  <1>8. ASSUME (\E r \in Runs : PutFailed(r)) \/ \E c \in Clubs : CallFailed(c)
        PROVE  DriftInv'
    BY <1>8 DEF PutFailed, CallFailed
  <1>9. ASSUME UNCHANGED vars PROVE DriftInv'
    <2>1. UNCHANGED <<pc, new, old, saved, calls, topics, drift, tokenLost>>
      BY <1>9 DEF vars
    <2>. QED BY <1>0, <2>1, HeardStays DEF DriftInv, Inside, Follows
  <1>. QED BY <1>1, <1>2, <1>3, <1>4, <1>5, <1>6, <1>7, <1>8, <1>9 DEF Next

\* Every step of a run, of the plugin and of the phone keeps it.
LEMMA SubscriptionsStep == SubscriptionsInv /\ [Next]_vars => SubscriptionsInv'
  BY TypeStep, LatestStep, DriftStep DEF SubscriptionsInv

\* Whatever runs overlap or die, once the calls are made the phone listens to
\* every club of the last run that made its calls.
THEOREM LatestListIsHeard == Spec => []LatestListHeard
  <1>1. SubscriptionsInv => LatestListHeard
    <2> SUFFICES ASSUME SubscriptionsInv, Settled
                 PROVE  \A c \in latest : c \in topics
      BY DEF LatestListHeard
    <2>. QED BY DEF SubscriptionsInv, TypeOK, LatestInv, Heard, Settled
  <1>. QED BY SubscriptionsInit, SubscriptionsStep, <1>1, PTL DEF Spec

\* Unless a run is caught between its reading of the box and its put, or a
\* call is given up, the list in the box is what the phone listens to.
THEOREM TopicsFollowTheList == Spec => []TopicsFollowList
  <1>1. SubscriptionsInv => TopicsFollowList
    <2> SUFFICES ASSUME SubscriptionsInv, Settled, ~drift,
                        \A r \in Runs : pc[r] # "put"
                 PROVE  /\ topics \subseteq saved
                        /\ tokenLost \/ topics = saved
      BY DEF TopicsFollowList
    <2>1. Follows(saved)
      BY DEF SubscriptionsInv, DriftInv
    <2>2. \A c \in Clubs : Heard(c) <=> c \in topics
      BY DEF Heard, Settled
    <2>3. topics \subseteq Clubs /\ saved \subseteq Clubs
      BY DEF SubscriptionsInv, TypeOK
    <2>. QED BY <2>1, <2>2, <2>3 DEF Follows
  <1>. QED BY SubscriptionsInit, SubscriptionsStep, <1>1, PTL DEF Spec

\* The lists, the calls and the topics have their types in every state; the
\* calls that wait for a topic stay within their bound.
THEOREM SubscriptionsTyped == Spec => []TypeOK
  <1>1. SubscriptionsInv => TypeOK
    BY DEF SubscriptionsInv
  <1>. QED BY SubscriptionsInit, SubscriptionsStep, <1>1, PTL DEF Spec
=============================================================================
