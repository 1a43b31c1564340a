---------------------------- MODULE Subscriptions ----------------------------
(***************************************************************************)
(* The topics a phone listens to: TopicSubscription.calculateSubscription. *)
(*                                                                         *)
(* Each Dashboard that opens starts a run and does not wait for it.  A run *)
(* asks Firestore for the clubs of the user, reads the list that the run   *)
(* before it left in the Hive box, hands the messaging plugin one call per *)
(* club, and puts its own list into the box.  Runs of two Dashboards may   *)
(* overlap, a run may die with the app, and nobody looks at the results of *)
(* the calls.  Logging out deletes the token, and with it the topics, but  *)
(* leaves the box as it is.                                                *)
(*                                                                         *)
(* What the query answers is up to the server: another user may be signed  *)
(* in than before, and members come and go, so it may be any set of clubs. *)
(* The plugin makes the calls for one topic in the order it got them, and  *)
(* keeps them over a restart of the app.                                   *)
(***************************************************************************)
EXTENDS Integers, Sequences

CONSTANTS
    Clubs,      \* ids of clubs, which are the names of their topics
    Runs,       \* calls of calculateSubscription that may be under way
    MaxCalls    \* a bound on the calls that wait for one topic

ASSUME MaxCallsAssumption == MaxCalls \in Nat

VARIABLES
    pc,         \* the await a run stands at
    new,        \* newSubscriptions of a run
    old,        \* oldSubscriptions of a run
    saved,      \* "subscriptionMembersList" in the Hive box
    calls,      \* for each topic the calls that are not made yet
    topics,     \* the topics the phone's token is subscribed to
    drift,      \* history: something came between the calls and the list
    tokenLost,  \* history: the token was deleted after the last calls
    latest      \* history: the list of the last run that made its calls, {}
                \* when the token is gone or one of the calls is given up

vars == <<pc, new, old, saved, calls, topics, drift, tokenLost, latest>>

TypeOK ==
    /\ pc \in [Runs -> {"idle", "query", "read", "calculate", "put"}]
    /\ new \in [Runs -> SUBSET Clubs]
    /\ old \in [Runs -> SUBSET Clubs]
    /\ saved \in SUBSET Clubs
    /\ calls \in [Clubs -> Seq({"subscribe", "unsubscribe"})]
    /\ \A c \in Clubs : Len(calls[c]) <= MaxCalls
    /\ topics \in SUBSET Clubs
    /\ drift \in BOOLEAN /\ tokenLost \in BOOLEAN
    /\ latest \in SUBSET Clubs

Init ==
    /\ pc = [r \in Runs |-> "idle"]
    /\ new = [r \in Runs |-> {}]
    /\ old = [r \in Runs |-> {}]
    /\ saved = {}
    /\ calls = [c \in Clubs |-> <<>>]
    /\ topics = {}
    /\ drift = FALSE
    /\ tokenLost = FALSE
    /\ latest = {}

Goto(r, here, there) == pc[r] = here /\ pc' = [pc EXCEPT ![r] = there]

\* The function returns or throws, and its lists are gone.
End(r, here) ==
    /\ Goto(r, here, "idle")
    /\ new' = [new EXCEPT ![r] = {}]
    /\ old' = [old EXCEPT ![r] = {}]

\* Dashboard.initState calls calculateSubscription and does not await it.
initState(r) ==
    /\ Goto(r, "idle", "query")
    /\ UNCHANGED <<new, old, saved, calls, topics, drift, tokenLost, latest>>

getAllClubsOnce(r, clubs) ==
    /\ Goto(r, "query", "read")
    /\ new' = [new EXCEPT ![r] = clubs]
    /\ UNCHANGED <<old, saved, calls, topics, drift, tokenLost, latest>>

\* The query throws, and so does a club without an id: the run is over.
QueryFailed(r) ==
    /\ End(r, "query")
    /\ UNCHANGED <<saved, calls, topics, drift, tokenLost, latest>>

\* Another run stands between its reading of the box and its put.
Overlap(r) == \E q \in Runs \ {r} : pc[q] \in {"calculate", "put"}

\* The box is open, and its list is read.
subscriptionMembersList(r) ==
    /\ Goto(r, "read", "calculate")
    /\ old' = [old EXCEPT ![r] = saved]
    /\ drift' = (drift \/ Overlap(r))
    /\ UNCHANGED <<new, saved, calls, topics, tokenLost, latest>>

\* The plugin takes a call for each topic of one set and of the other.
Call(off, on) ==
    calls' = [c \in Clubs |->
                IF c \in off THEN Append(calls[c], "unsubscribe")
                ELSE IF c \in on THEN Append(calls[c], "subscribe")
                ELSE calls[c]]

\* Slip: the difference the other way round.
unSubscriptions_Swapped(r) == new[r] \ old[r]

unSubscriptions(r) == old[r] \ new[r]

\* Slip: only what was not in the old list is subscribed.
subscriptions_OnlyAdded(r) == new[r] \ old[r]

subscriptions(r) == new[r]

\* The rest of calculateSubscription and updateSubscription up to its await:
\* all calls, the ones that unsubscribe first, without a pause.
calculateSubscription(r) ==
    /\ Goto(r, "calculate", "put")
    /\ \A c \in Clubs : Len(calls[c]) < MaxCalls
    /\ Call(unSubscriptions(r), subscriptions(r))
    /\ latest' = new[r]
    /\ tokenLost' = FALSE
    /\ UNCHANGED <<new, old, saved, topics, drift>>

\* Slip: the list in the box is added to.
updateSubscription_Adds(r) ==
    /\ End(r, "put")
    /\ saved' = saved \cup new[r]
    /\ UNCHANGED <<calls, topics, drift, tokenLost, latest>>

\* The box is open again, and the list is put into it.
updateSubscription(r) ==
    /\ End(r, "put")
    /\ saved' = new[r]
    /\ UNCHANGED <<calls, topics, drift, tokenLost, latest>>

\* The box cannot be opened or written: the calls are made, the list is old.
PutFailed(r) ==
    /\ End(r, "put")
    /\ drift' = TRUE
    /\ UNCHANGED <<saved, calls, topics, tokenLost, latest>>

\* The plugin makes the oldest call for a topic.
CallMade(c) ==
    /\ calls[c] # <<>>
    /\ calls' = [calls EXCEPT ![c] = Tail(@)]
    /\ topics' = IF Head(calls[c]) = "subscribe" THEN topics \cup {c}
                                                ELSE topics \ {c}
    /\ UNCHANGED <<pc, new, old, saved, drift, tokenLost, latest>>

\* The plugin gives a call up; its future fails, and nobody listens.
CallFailed(c) ==
    /\ calls[c] # <<>>
    /\ calls' = [calls EXCEPT ![c] = Tail(@)]
    /\ drift' = TRUE
    /\ latest' = {}
    /\ UNCHANGED <<pc, new, old, saved, topics, tokenLost>>

\* _logout deletes the token; the next one has no topics.
deleteToken ==
    /\ topics' = {}
    /\ tokenLost' = TRUE
    /\ latest' = {}
    /\ UNCHANGED <<pc, new, old, saved, calls, drift>>

\* The app is closed or dies, and every run with it.
Restart ==
    /\ pc' = [r \in Runs |-> "idle"]
    /\ new' = [r \in Runs |-> {}]
    /\ old' = [r \in Runs |-> {}]
    /\ drift' = (drift \/ \E r \in Runs : pc[r] = "put")
    /\ UNCHANGED <<saved, calls, topics, tokenLost, latest>>

Next ==
    \/ \E r \in Runs :
        \/ initState(r)
        \/ \E clubs \in SUBSET Clubs : getAllClubsOnce(r, clubs)
        \/ QueryFailed(r)
        \/ subscriptionMembersList(r)
        \/ calculateSubscription(r)
        \/ updateSubscription(r)
        \/ PutFailed(r)
    \/ \E c \in Clubs : CallMade(c) \/ CallFailed(c)
    \/ deleteToken
    \/ Restart

Spec == Init /\ [][Next]_vars

\* The plugin tries a call until it is made or cannot be.
Fairness == \A c \in Clubs : WF_vars(CallMade(c) \/ CallFailed(c))

FairSpec == Spec /\ Fairness
-----------------------------------------------------------------------------
(***************************************************************************)
(* Properties                                                              *)
(***************************************************************************)

\* All calls for all topics have been made.
Settled == \A c \in Clubs : calls[c] = <<>>

\* The list in the box is what the phone listens to once the calls are made
\* and no list waits to be put, through failed queries, restarts, logouts and
\* overlapping queries: unless a run was between its reading of the box and
\* its put when another read, when the app died or when the put failed, or a
\* call was given up.  A deleted token takes topics away, and adds none.
TopicsFollowList ==
    (Settled /\ ~drift /\ \A r \in Runs : pc[r] # "put") =>
        /\ topics \subseteq saved
        /\ tokenLost \/ topics = saved

\* Whatever runs overlapped or died before, and whatever the box says, once
\* the calls are made the phone listens to every club of the last run that
\* made its calls.
LatestListHeard == Settled => latest \subseteq topics

\* And these calls are made in the end, but for a later run, a logout, and a
\* call that is given up.
ListIsHeard ==
    \A c \in Clubs : c \in latest ~> (c \in topics \/ c \notin latest)
=============================================================================
