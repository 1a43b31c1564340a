-------------------------------- MODULE Ledger --------------------------------
(***************************************************************************)
(* The payments of a club's members: the payment page of a member, its     *)
(* sheet with the amount, and the transactions Firestore keeps.            *)
(*                                                                         *)
(* "Done" validates the amount, draws an id, hands the document to         *)
(* Firestore and closes the sheet; createTransaction returns nothing to    *)
(* wait for.  Firestore queues the write on the phone, shows it in the     *)
(* page's list at once and sends the queue in order when there is a        *)
(* network, also after a restart.  A set replaces whatever document has    *)
(* the id.  The server may refuse a write; then it disappears from the     *)
(* list, and no code hears of it.                                          *)
(*                                                                         *)
(* An account stands for a club and a payor, the two fields the list is    *)
(* filtered by.  A payment is one press of "Done".  Of the texts only      *)
(* amounts, the empty one and one that is no number are told apart.        *)
(***************************************************************************)
EXTENDS Integers, Sequences

CONSTANTS
    Phones,     \* phones on which payments are entered
    Accounts,   \* pairs of a club and a payor
    Payments,   \* presses of "Done" that passed the validator
    Ids,        \* five digits of a UUID and a millisecond
    Amounts,    \* numbers, also negative ones
    Empty,      \* the empty text
    Junk,       \* a text that is no number
    Null        \* no page, no sheet, no payment, no document

Texts == Amounts \cup {Empty, Junk}
Payment == [id: Ids, account: Accounts, amount: Int, typed: Texts]
Page == [account: Accounts, field: Texts \cup {Null}, _amount: Int]

ASSUME LedgerAssumption ==
    /\ Amounts \subseteq Int
    /\ Empty \notin Amounts /\ Junk \notin Amounts
    /\ Null \notin Texts /\ Null \notin Payments
    /\ Null \notin Payment /\ Null \notin Page

VARIABLES
    page,       \* page[ph]: the payment page on the screen of a phone
    payment,    \* payment[p]: what press p wrote, and (history) the text
    queue,      \* queue[ph]: the writes that wait on a phone, in order
    documents,  \* documents[i]: whose write the server keeps under id i
    heard,      \* heard[ph]: what the phone knows of that
    refused,    \* history: payments the server refused
    entered     \* history: entered[ph]: payments made with the last sheet

vars == <<page, payment, queue, documents, heard, refused, entered>>

Store == [Ids -> Payments \cup {Null}]

TypeOK ==
    /\ page \in [Phones -> Page \cup {Null}]
    /\ payment \in [Payments -> Payment \cup {Null}]
    /\ queue \in [Phones -> Seq(Payments)]
    /\ documents \in Store
    /\ heard \in [Phones -> Store]
    /\ refused \subseteq Payments
    /\ entered \in [Phones -> Nat]

Init ==
    /\ page = [ph \in Phones |-> Null]
    /\ payment = [p \in Payments |-> Null]
    /\ queue = [ph \in Phones |-> <<>>]
    /\ documents = [i \in Ids |-> Null]
    /\ heard = [ph \in Phones |-> [i \in Ids |-> Null]]
    /\ refused = {}
    /\ entered = [ph \in Phones |-> 0]

Queued(ph) == {queue[ph][j] : j \in 1..Len(queue[ph])}

-----------------------------------------------------------------------------
(***************************************************************************)
(* What a page lists                                                       *)
(***************************************************************************)

\* The payment under id i as a phone sees it: its last queued write, or what
\* it heard.
Local(ph, i) ==
    LET mine == {j \in 1..Len(queue[ph]) : payment[queue[ph][j]].id = i}
    IN  IF mine = {} THEN heard[ph][i]
        ELSE queue[ph][CHOOSE j \in mine : \A k \in mine : k <= j]

\* Slip: the query has no condition on the payor.
get_AnyPayor(ph, a) == {Local(ph, i) : i \in Ids} \ {Null}

get(ph, a) ==
    {p \in {Local(ph, i) : i \in Ids} \ {Null} : payment[p].account = a}

-----------------------------------------------------------------------------
(***************************************************************************)
(* The payment page                                                        *)
(***************************************************************************)
storeUnchanged == UNCHANGED <<payment, queue, documents, heard, refused>>
formUnchanged == UNCHANGED <<page, payment, entered>>

PaymentDetailsPage(ph, a) ==
    /\ page[ph] = Null
    /\ page' = [page EXCEPT ![ph] = [account |-> a, field |-> Null,
                                     _amount |-> 0]]
    /\ storeUnchanged
    /\ UNCHANGED entered

LeavePage(ph) ==
    /\ page[ph] # Null /\ page[ph].field = Null
    /\ page' = [page EXCEPT ![ph] = Null]
    /\ storeUnchanged
    /\ UNCHANGED entered

\* A new sheet has an empty field; the page keeps _amount.
OpenSheet(ph) ==
    /\ page[ph] # Null /\ page[ph].field = Null
    /\ page' = [page EXCEPT ![ph].field = Empty]
    /\ entered' = [entered EXCEPT ![ph] = 0]
    /\ storeUnchanged

Type(ph, text) ==
    /\ page[ph] # Null /\ page[ph].field # Null
    /\ page' = [page EXCEPT ![ph].field = text]
    /\ storeUnchanged
    /\ UNCHANGED entered

CloseSheet(ph) ==
    /\ page[ph] # Null /\ page[ph].field # Null
    /\ page' = [page EXCEPT ![ph].field = Null]
    /\ storeUnchanged
    /\ UNCHANGED entered

\* Slip: a text that cannot be parsed is accepted, with the last amount.
validator_Lenient(text, last) ==
    [valid |-> text # Empty,
     _amount |-> IF text \in Amounts THEN text ELSE last]

\* The empty text is refused with a message; one that is no number makes
\* double.parse throw, and the press does nothing.
validator(text, last) ==
    [valid |-> text \in Amounts,
     _amount |-> IF text \in Amounts THEN text ELSE last]

\* Slip: the set is sent again, in case the first is lost.
createTransaction_Twice(ph, p) ==
    queue' = [queue EXCEPT ![ph] = Append(Append(@, p), p)]

\* The set is queued; there is nothing to wait for.
createTransaction(ph, p) == queue' = [queue EXCEPT ![ph] = Append(@, p)]

\* Slip: the write is awaited, and the sheet stays meanwhile.
pop_Awaited(field) == field

\* The field after "Done": the sheet is closed.
pop(field) == Null

\* "Done": one payment is written, under an id that may be in use, and the
\* sheet is closed before another press can come.
Done(ph, p, i) ==
    /\ page[ph] # Null /\ page[ph].field # Null
    /\ payment[p] = Null
    /\ createTransaction(ph, p)
    /\ LET field == page[ph].field
           result == validator(field, page[ph]._amount)
       IN  /\ result.valid
           /\ payment' = [payment EXCEPT ![p] =
                            [id |-> i, account |-> page[ph].account,
                             amount |-> result._amount, typed |-> field]]
           /\ page' = [page EXCEPT ![ph]._amount = result._amount,
                                   ![ph].field = pop(@)]
    /\ entered' = [entered EXCEPT ![ph] = @ + 1]
    /\ UNCHANGED <<documents, heard, refused>>

-----------------------------------------------------------------------------
(***************************************************************************)
(* Firestore                                                               *)
(***************************************************************************)

\* The server takes the first write of a phone's queue, over any document of
\* that id; the phone has heard of it.
SetApplied(ph) ==
    /\ queue[ph] # <<>>
    /\ LET p == Head(queue[ph])
       IN  /\ documents' = [documents EXCEPT ![payment[p].id] = p]
           /\ heard' = [heard EXCEPT ![ph][payment[p].id] = p]
    /\ queue' = [queue EXCEPT ![ph] = Tail(@)]
    /\ UNCHANGED refused
    /\ formUnchanged

\* The server refuses it; the future nobody awaits fails.
SetRefused(ph) ==
    /\ queue[ph] # <<>>
    /\ refused' = refused \cup {Head(queue[ph])}
    /\ queue' = [queue EXCEPT ![ph] = Tail(@)]
    /\ UNCHANGED <<documents, heard>>
    /\ formUnchanged

\* The stream of a phone catches up with the server.
snapshots(ph) ==
    /\ heard[ph] # documents
    /\ heard' = [heard EXCEPT ![ph] = documents]
    /\ UNCHANGED <<queue, documents, refused>>
    /\ formUnchanged

\* Slip: the queue is kept in memory.
Restart_LosesQueue(ph) ==
    /\ page' = [page EXCEPT ![ph] = Null]
    /\ queue' = [queue EXCEPT ![ph] = <<>>]
    /\ UNCHANGED <<payment, documents, heard, refused, entered>>

\* The app is killed and started again; what Firestore keeps stays.
Restart(ph) ==
    /\ page' = [page EXCEPT ![ph] = Null]
    /\ storeUnchanged
    /\ UNCHANGED entered

-----------------------------------------------------------------------------
Form ==
    \E ph \in Phones :
        \/ \E a \in Accounts : PaymentDetailsPage(ph, a)
        \/ LeavePage(ph)
        \/ OpenSheet(ph)
        \/ \E text \in Texts : Type(ph, text)
        \/ CloseSheet(ph)
        \/ \E p \in Payments, i \in Ids : Done(ph, p, i)
        \/ Restart(ph)

Firestore ==
    \E ph \in Phones : SetApplied(ph) \/ SetRefused(ph) \/ snapshots(ph)

Next == Form \/ Firestore

Spec == Init /\ [][Next]_vars

\* Each phone is online in the end.
Fairness ==
    \A ph \in Phones : /\ WF_vars(SetApplied(ph) \/ SetRefused(ph))
                       /\ WF_vars(snapshots(ph))

FairSpec == Spec /\ Fairness
-----------------------------------------------------------------------------
(***************************************************************************)
(* Properties                                                              *)
(***************************************************************************)

\* No payment is lost but by a refusal or under its own id: one that was made
\* waits on a phone, was refused, or its id has a document, its own or that of
\* another payment that drew the same id.  Restarts lose none.
LossExplained ==
    \A p \in Payments :
        payment[p] # Null =>
            \/ \E ph \in Phones : p \in Queued(ph)
            \/ p \in refused
            \/ /\ documents[payment[p].id] # Null
               /\ payment[documents[payment[p].id]].id = payment[p].id

\* The amount of a payment is the number that was in the field when "Done" was
\* pressed, though the page keeps _amount from one sheet to the next.
AmountIsTyped ==
    \A p \in Payments :
        payment[p] # Null => payment[p].amount = payment[p].typed

\* One sheet makes one payment, also without a network: nothing the user does
\* while the write waits repeats it.
OnePaymentPerSheet == \A ph \in Phones : entered[ph] <= 1

\* In the end, when no payment is made any more, every open page lists exactly
\* the payments of its club and payor that the server keeps.
ListsConverge ==
    <>[](\A ph \in Phones :
           page[ph] # Null =>
             get(ph, page[ph].account) =
               {p \in Payments : /\ \E i \in Ids : documents[i] = p
                                 /\ payment[p].account = page[ph].account})

-----------------------------------------------------------------------------
(***************************************************************************)
(* Refinement of PaymentLifecycle                                          *)
(***************************************************************************)

\* What has become of a payment.
Status(p) ==
    IF payment[p] = Null THEN "none"
    ELSE IF documents[payment[p].id] = p THEN "kept"
    ELSE IF p \in refused THEN "refused"
    ELSE IF \E ph \in Phones : p \in Queued(ph) THEN "waiting"
    ELSE "replaced"

Id(p) == IF payment[p] = Null THEN Null ELSE payment[p].id

Lifecycle == INSTANCE PaymentLifecycle WITH
    status <- [p \in Payments |-> Status(p)],
    id <- [p \in Payments |-> Id(p)]

\* The ledger implements PaymentLifecycle: the document of a press reaches the
\* collection at most once, whatever restarts, refusals and collisions of ids
\* there are; a payment that was refused or replaced never turns up again.
ImplementsPayments == Lifecycle!Spec

-----------------------------------------------------------------------------
\* What waits or is kept was made, and a document is under its payment's id.
QueuedAreMade ==
    \A ph \in Phones : \A p \in Queued(ph) : payment[p] # Null

DocumentsUnderIds ==
    \A i \in Ids :
        documents[i] # Null =>
            payment[documents[i]] # Null /\ payment[documents[i]].id = i

\* An open sheet has made nothing yet.
OpenSheetIsNew ==
    \A ph \in Phones :
        /\ entered[ph] <= 1
        /\ page[ph] # Null /\ page[ph].field # Null => entered[ph] = 0

\* A payment waits in one place of one queue, was refused or has documents,
\* and no two of these.
OneFate ==
    /\ \A ph \in Phones : \A j, k \in 1..Len(queue[ph]) :
          queue[ph][j] = queue[ph][k] => j = k
    /\ \A ph, h \in Phones : \A p \in Queued(ph) \cap Queued(h) : ph = h
    /\ \A ph \in Phones : \A p \in Queued(ph) :
          p \notin refused /\ \A i \in Ids : documents[i] # p
    /\ \A p \in refused : payment[p] # Null /\ \A i \in Ids : documents[i] # p

\* The strengthening that makes the invariants above inductive.
LedgerInv ==
    /\ TypeOK
    /\ LossExplained
    /\ AmountIsTyped
    /\ QueuedAreMade
    /\ DocumentsUnderIds
    /\ OpenSheetIsNew
=============================================================================
