---------------------------- MODULE CodeLifecycle ----------------------------
(***************************************************************************)
(* What the invitation codes of Clubzey promise, with every message, page  *)
(* and document abstracted away.  A code is unused, then live, then gone,  *)
(* and never comes back.  A phone may keep codes it was told of while they *)
(* were live.  An attempt to join takes a code only while it is live, or   *)
(* one its phone keeps, and is granted its membership at most once and     *)
(* only with a code it took.  The specification promises neither that a    *)
(* code is taken once nor that it is live when it is taken: the program    *)
(* achieves neither.                                                       *)
(***************************************************************************)
CONSTANTS
    Codes,      \* invitation codes
    Attempts,   \* runs of the join handler
    Phones,     \* the phones they run on
    Null        \* no code

VARIABLES
    status,     \* status[c]: "unused", "live" or "gone"
    phone,      \* phone[a]: the phone of attempt a
    known,      \* known[h]: the codes phone h keeps
    holds,      \* holds[a]: the code attempt a took, or Null
    granted     \* the attempts whose user was added to a club

vars == <<status, phone, known, holds, granted>>

Init ==
    /\ status = [c \in Codes |-> "unused"]
    /\ phone \in [Attempts -> Phones]
    /\ known = [h \in Phones |-> {}]
    /\ holds = [a \in Attempts |-> Null]
    /\ granted = {}

\* A phone is told of live codes, and forgets codes.
Learn(h) ==
    \E told \in SUBSET {c \in Codes : status[c] = "live"},
       kept \in SUBSET known[h] :
        known' = [known EXCEPT ![h] = told \cup kept]

Hear(h) == Learn(h) /\ UNCHANGED <<status, phone, holds, granted>>

\* A code becomes live; it may put one live code, its predecessor, out of use.
Issue(c) ==
    /\ status[c] = "unused"
    /\ \/ status' = [status EXCEPT ![c] = "live"]
       \/ \E d \in Codes :
            /\ status[d] = "live"
            /\ status' = [status EXCEPT ![c] = "live", ![d] = "gone"]
    /\ UNCHANGED <<phone, known, holds, granted>>

Retire(c, h) ==
    /\ status[c] = "live"
    /\ status' = [status EXCEPT ![c] = "gone"]
    /\ Learn(h)
    /\ UNCHANGED <<phone, holds, granted>>

Take(a, c) ==
    /\ status[c] = "live" \/ c \in known[phone[a]]
    /\ holds[a] = Null
    /\ holds' = [holds EXCEPT ![a] = c]
    /\ Learn(phone[a])
    /\ UNCHANGED <<status, phone, granted>>

Grant(a) ==
    /\ holds[a] # Null
    /\ a \notin granted
    /\ granted' = granted \cup {a}
    /\ UNCHANGED <<status, phone, known, holds>>

Next ==
    \/ \E c \in Codes : Issue(c) \/ \E h \in Phones : Retire(c, h)
    \/ \E h \in Phones : Hear(h)
    \/ \E a \in Attempts, c \in Codes : Take(a, c)
    \/ \E a \in Attempts : Grant(a)

Spec == Init /\ [][Next]_vars
=============================================================================
