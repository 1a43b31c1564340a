-------------------------- MODULE PaymentLifecycle --------------------------
(***************************************************************************)
(* What the transactions of Clubzey promise a member who pays, with every  *)
(* page, phone, queue and document abstracted away.  A payment is made     *)
(* once, under an id, and then waits.  It is kept or refused, once and for *)
(* good, and a payment that is kept is lost only when another one of the   *)
(* same id is kept in its place; it never comes back.                      *)
(***************************************************************************)
CONSTANTS
    Payments,   \* presses of "Done" that passed the validator
    Ids,        \* the ids of transactions
    Null        \* no id

VARIABLES
    status,     \* "none", "waiting", "kept", "refused" or "replaced"
    id          \* id[p]: the id of payment p, or Null

vars == <<status, id>>

Init ==
    /\ status = [p \in Payments |-> "none"]
    /\ id = [p \in Payments |-> Null]

Make(p, i) ==
    /\ status[p] = "none"
    /\ status' = [status EXCEPT ![p] = "waiting"]
    /\ id' = [id EXCEPT ![p] = i]

\* The payment that was kept under the id makes room.
Keep(p) ==
    /\ status[p] = "waiting"
    /\ status' = [q \in Payments |->
                    IF q = p THEN "kept"
                    ELSE IF status[q] = "kept" /\ id[q] = id[p]
                         THEN "replaced" ELSE status[q]]
    /\ UNCHANGED id

Refuse(p) ==
    /\ status[p] = "waiting"
    /\ status' = [status EXCEPT ![p] = "refused"]
    /\ UNCHANGED id

Next ==
    \E p \in Payments :
        \/ \E i \in Ids : Make(p, i)
        \/ Keep(p)
        \/ Refuse(p)

Spec == Init /\ [][Next]_vars
=============================================================================
