---------------------------- MODULE LedgerProofs ----------------------------
(***************************************************************************)
(* Proofs about Ledger: LedgerInv is inductive, and the invariants of the  *)
(* run follow from it for any number of phones, accounts and payments.     *)
(* With OneFate, the ledger implements PaymentLifecycle.                   *)
(***************************************************************************)
EXTENDS Ledger, TLAPS

\* A queue a write is added to holds that write and those it held.
LEMMA Appended ==
    ASSUME NEW S, NEW q \in Seq(S), NEW x \in S
    PROVE  LET r == Append(q, x)
           IN  /\ r \in Seq(S)
               /\ {r[j] : j \in 1..Len(r)}
                    = {q[j] : j \in 1..Len(q)} \cup {x}
<1> DEFINE r == Append(q, x)
<1>1. /\ r \in Seq(S) /\ Len(q) \in Nat /\ Len(r) = Len(q) + 1
      /\ \A j \in 1..Len(q) : r[j] = q[j]
      /\ r[Len(q) + 1] = x
  OBVIOUS
<1>2. ASSUME NEW y \in {r[j] : j \in 1..Len(r)}
      PROVE  y \in {q[j] : j \in 1..Len(q)} \cup {x}
  <2>1. PICK j \in 1..Len(r) : y = r[j]
    BY <1>2
  <2>2. CASE j = Len(q) + 1
    BY <1>1, <2>1, <2>2
  <2>3. CASE j # Len(q) + 1
    <3>1. j \in 1..Len(q)
      BY <1>1, <2>3
    <3>2. QED
      BY <1>1, <2>1, <3>1
  <2>4. QED
    BY <2>2, <2>3
<1>3. ASSUME NEW y \in {q[j] : j \in 1..Len(q)} \cup {x}
      PROVE  y \in {r[j] : j \in 1..Len(r)}
  <2>1. CASE y = x
    <3>1. Len(q) + 1 \in 1..Len(r)
      BY <1>1
    <3>2. QED
      BY <1>1, <2>1, <3>1
  <2>2. CASE y # x
    <3>1. PICK j \in 1..Len(q) : y = q[j]
      BY <1>3, <2>2
    <3>2. j \in 1..Len(r)
      BY <1>1
    <3>3. QED
      BY <1>1, <3>1, <3>2
  <2>3. QED
    BY <2>1, <2>2
<1>4. {r[j] : j \in 1..Len(r)} = {q[j] : j \in 1..Len(q)} \cup {x}
  BY <1>2, <1>3
<1>5. QED
  BY <1>1, <1>4

\* A queue holds its first write and those of the rest.
LEMMA Taken ==
    ASSUME NEW S, NEW q \in Seq(S), q # <<>>
    PROVE  /\ Head(q) \in S /\ Tail(q) \in Seq(S)
           /\ {q[j] : j \in 1..Len(q)}
                = {Tail(q)[j] : j \in 1..Len(Tail(q))} \cup {Head(q)}
<1> DEFINE r == Tail(q)
<1>1. /\ Head(q) \in S /\ r \in Seq(S) /\ Len(q) \in Nat /\ Len(q) >= 1
      /\ Len(r) = Len(q) - 1 /\ Head(q) = q[1]
      /\ \A j \in 1..Len(r) : r[j] = q[j + 1]
  OBVIOUS
<1>2. ASSUME NEW y \in {q[j] : j \in 1..Len(q)}
      PROVE  y \in {r[j] : j \in 1..Len(r)} \cup {Head(q)}
  <2>1. PICK j \in 1..Len(q) : y = q[j]
    BY <1>2
  <2>2. CASE j = 1
    BY <1>1, <2>1, <2>2
  <2>3. CASE j # 1
    <3>1. j - 1 \in 1..Len(r) /\ (j - 1) + 1 = j
      BY <1>1, <2>3
    <3>2. r[j - 1] = q[j]
      BY <1>1, <3>1
    <3>3. QED
      BY <2>1, <3>1, <3>2
  <2>4. QED
    BY <2>2, <2>3
<1>3. ASSUME NEW y \in {r[j] : j \in 1..Len(r)} \cup {Head(q)}
      PROVE  y \in {q[j] : j \in 1..Len(q)}
  <2>1. CASE y = Head(q)
    <3>1. 1 \in 1..Len(q)
      BY <1>1
    <3>2. QED
      BY <1>1, <2>1, <3>1
  <2>2. CASE y # Head(q)
    <3>1. PICK j \in 1..Len(r) : y = r[j]
      BY <1>3, <2>2
    <3>2. j + 1 \in 1..Len(q)
      BY <1>1
    <3>3. QED
      BY <1>1, <3>1, <3>2
  <2>3. QED
    BY <2>1, <2>2
<1>4. QED
  BY <1>1, <1>2, <1>3

-----------------------------------------------------------------------------
\* No page is open and nothing was paid: the invariant holds at the start.
LEMMA InitHolds == Init => LedgerInv
<1> SUFFICES ASSUME Init PROVE LedgerInv
  OBVIOUS
<1>1. TypeOK
  <2>1. <<>> \in Seq(Payments)
    OBVIOUS
  <2>2. QED
    BY <2>1 DEF Init, TypeOK, Store
<1>2. LossExplained /\ AmountIsTyped
  BY DEF Init, LossExplained, AmountIsTyped
<1>3. QueuedAreMade
  <2>1. \A ph \in Phones : Len(queue[ph]) = 0
    BY DEF Init
  <2>2. QED
    BY <2>1 DEF QueuedAreMade, Queued
<1>4. DocumentsUnderIds /\ OpenSheetIsNew
  BY DEF Init, DocumentsUnderIds, OpenSheetIsNew
<1>5. QED
  BY <1>1, <1>2, <1>3, <1>4 DEF LedgerInv

\* A step that leaves the payments and the store alone and keeps the types.
LEMMA StoreKept ==
    ASSUME LedgerInv, storeUnchanged, TypeOK', OpenSheetIsNew'
    PROVE  LedgerInv'
<1>1. \A ph \in Phones : Queued(ph)' = Queued(ph)
  BY DEF storeUnchanged, Queued
<1>2. LossExplained' /\ AmountIsTyped'
  BY <1>1 DEF storeUnchanged, LedgerInv, LossExplained, AmountIsTyped
<1>3. QueuedAreMade' /\ DocumentsUnderIds'
  BY <1>1 DEF storeUnchanged, LedgerInv, QueuedAreMade, DocumentsUnderIds
<1>4. QED
  BY <1>2, <1>3 DEF LedgerInv

\* The steps of the page and its sheet that make no payment.
LEMMA FormHolds ==
    ASSUME LedgerInv, NEW ph \in Phones,
           \/ \E a \in Accounts : PaymentDetailsPage(ph, a)
           \/ LeavePage(ph)
           \/ OpenSheet(ph)
           \/ \E text \in Texts : Type(ph, text)
           \/ CloseSheet(ph)
           \/ Restart(ph)
    PROVE  LedgerInv'
<1> USE DEF LedgerInv
<1>1. TypeOK /\ OpenSheetIsNew
  OBVIOUS
<1>2. page[ph] # Null => page[ph] \in Page
  BY <1>1 DEF TypeOK
<1>3. Empty \in Texts /\ Null \notin Page
  BY LedgerAssumption DEF Texts
<1>4. CASE \E a \in Accounts : PaymentDetailsPage(ph, a)
  <2>1. PICK a \in Accounts : PaymentDetailsPage(ph, a)
    BY <1>4
  <2>2. TypeOK'
    BY <1>1, <2>1 DEF PaymentDetailsPage, storeUnchanged, TypeOK, Page
  <2>3. OpenSheetIsNew'
    BY <1>1, <2>1
       DEF PaymentDetailsPage, storeUnchanged, OpenSheetIsNew, TypeOK
  <2>4. QED
    BY <2>1, <2>2, <2>3, StoreKept DEF PaymentDetailsPage
<1>5. CASE LeavePage(ph) \/ Restart(ph)
  <2>1. TypeOK' /\ OpenSheetIsNew'
    BY <1>1, <1>5
       DEF LeavePage, Restart, storeUnchanged, TypeOK, OpenSheetIsNew
  <2>2. QED
    BY <1>5, <2>1, StoreKept DEF LeavePage, Restart
<1>6. CASE OpenSheet(ph)
  <2>1. TypeOK'
    BY <1>1, <1>2, <1>3, <1>6 DEF OpenSheet, storeUnchanged, TypeOK, Page
  <2>2. OpenSheetIsNew'
    BY <1>1, <1>6 DEF OpenSheet, OpenSheetIsNew, TypeOK
  <2>3. QED
    BY <1>6, <2>1, <2>2, StoreKept DEF OpenSheet
<1>7. CASE \E text \in Texts : Type(ph, text)
  <2>1. PICK text \in Texts : Type(ph, text)
    BY <1>7
  <2>2. TypeOK'
    BY <1>1, <1>2, <2>1 DEF Type, storeUnchanged, TypeOK, Page
  <2>3. OpenSheetIsNew'
    BY <1>1, <2>1 DEF Type, OpenSheetIsNew, TypeOK
  <2>4. QED
    BY <2>1, <2>2, <2>3, StoreKept DEF Type
<1>8. CASE CloseSheet(ph)
  <2>1. TypeOK'
    BY <1>1, <1>2, <1>8 DEF CloseSheet, storeUnchanged, TypeOK, Page
  <2>2. OpenSheetIsNew'
    BY <1>1, <1>2, <1>8 DEF CloseSheet, OpenSheetIsNew, TypeOK, Page
  <2>3. QED
    BY <1>8, <2>1, <2>2, StoreKept DEF CloseSheet
<1>9. QED
  BY <1>4, <1>5, <1>6, <1>7, <1>8

\* "Done": the new payment waits, and nothing that was made changes.
LEMMA DoneHolds ==
    ASSUME LedgerInv, NEW ph \in Phones, NEW p \in Payments, NEW i \in Ids,
           Done(ph, p, i)
    PROVE  LedgerInv'
<1> USE DEF LedgerInv
<1> DEFINE made == [id |-> i, account |-> page[ph].account,
                    amount |-> page[ph].field, typed |-> page[ph].field]
<1>1. TypeOK /\ LossExplained /\ AmountIsTyped /\ QueuedAreMade
      /\ DocumentsUnderIds /\ OpenSheetIsNew
  OBVIOUS
<1>2. /\ page[ph] \in Page /\ page[ph].field # Null
      /\ page[ph].field \in Amounts /\ page[ph].field \in Int
      /\ page[ph].field \in Texts
  BY <1>1, LedgerAssumption DEF Done, TypeOK, validator, Texts
<1>3. /\ payment[p] = Null
      /\ payment' = [payment EXCEPT ![p] = made]
      /\ page' = [page EXCEPT ![ph]._amount = page[ph].field,
                              ![ph].field = Null]
      /\ queue' = [queue EXCEPT ![ph] = Append(@, p)]
      /\ entered' = [entered EXCEPT ![ph] = @ + 1]
      /\ UNCHANGED <<documents, heard, refused>>
  BY <1>2 DEF Done, validator, pop, createTransaction
<1>4. made \in Payment
  BY <1>2 DEF Payment, Page
<1>5. made # Null
  BY <1>4, LedgerAssumption
<1>6. /\ queue' \in [Phones -> Seq(Payments)]
      /\ Queued(ph)' = Queued(ph) \cup {p}
      /\ \A h \in Phones \ {ph} : Queued(h)' = Queued(h)
  <2>1. queue[ph] \in Seq(Payments)
    BY <1>1 DEF TypeOK
  <2>2. queue'[ph] = Append(queue[ph], p)
    BY <1>1, <1>3 DEF TypeOK
  <2>3. \A h \in Phones \ {ph} : queue'[h] = queue[h]
    BY <1>1, <1>3 DEF TypeOK
  <2>4. queue'[ph] \in Seq(Payments)
    BY <2>1, <2>2, Appended
  <2>5. Queued(ph)' = Queued(ph) \cup {p}
    BY <2>1, <2>2, Appended DEF Queued
  <2>6. queue' \in [Phones -> Seq(Payments)]
    BY <1>1, <1>3, <2>2, <2>4 DEF TypeOK
  <2>7. QED
    BY <2>3, <2>5, <2>6 DEF Queued
<1>7. \A x \in Payments :
        /\ payment'[x] = IF x = p THEN made ELSE payment[x]
        /\ payment[x] # Null => payment'[x] = payment[x]
  BY <1>1, <1>3 DEF TypeOK
<1>8. TypeOK'
  <2>1. page' \in [Phones -> Page \cup {Null}]
    BY <1>1, <1>2, <1>3 DEF TypeOK, Page
  <2>2. payment' \in [Payments -> Payment \cup {Null}]
    BY <1>1, <1>3, <1>4 DEF TypeOK
  <2>3. entered' \in [Phones -> Nat]
    BY <1>1, <1>3 DEF TypeOK
  <2>4. QED
    BY <1>1, <1>3, <1>6, <2>1, <2>2, <2>3 DEF TypeOK
<1>9. LossExplained'
  <2> SUFFICES ASSUME NEW x \in Payments, payment'[x] # Null
               PROVE  \/ \E h \in Phones : x \in Queued(h)'
                      \/ x \in refused'
                      \/ /\ documents'[payment'[x].id] # Null
                         /\ payment'[documents'[payment'[x].id]].id
                              = payment'[x].id
    BY DEF LossExplained
  <2>1. CASE x = p
    BY <1>6, <2>1
  <2>2. CASE x # p
    <3>1. payment[x] # Null /\ payment'[x] = payment[x]
      BY <1>7, <2>2
    <3>2. CASE \E h \in Phones : x \in Queued(h)
      BY <1>6, <3>2
    <3>3. CASE x \in refused
      BY <1>3, <3>3
    <3>4. CASE documents[payment[x].id] # Null
      <4>1. payment[x] \in Payment
        BY <1>1, <3>1 DEF TypeOK
      <4>2. payment[x].id \in Ids
        BY <4>1 DEF Payment
      <4> DEFINE d == documents[payment[x].id]
      <4>3. /\ d \in Payments /\ payment[d] # Null
            /\ payment[d].id = payment[x].id
        BY <1>1, <3>4, <4>2 DEF TypeOK, Store, DocumentsUnderIds
      <4>4. payment'[d] = payment[d]
        BY <1>7, <4>3
      <4>5. QED
        BY <1>3, <3>1, <3>4, <4>3, <4>4
    <3>5. QED
      BY <1>1, <3>1, <3>2, <3>3, <3>4 DEF LossExplained
  <2>3. QED
    BY <2>1, <2>2
<1>10. AmountIsTyped'
  BY <1>1, <1>7 DEF AmountIsTyped
<1>11. QueuedAreMade'
  <2> SUFFICES ASSUME NEW h \in Phones, NEW x \in Queued(h)'
               PROVE  payment'[x] # Null
    BY DEF QueuedAreMade
  <2>1. CASE x = p
    BY <1>5, <1>7, <2>1
  <2>2. CASE x # p
    <3>1. x \in Queued(h)
      BY <1>6, <2>2
    <3>2. payment[x] # Null
      BY <1>1, <3>1 DEF QueuedAreMade
    <3>3. x \in Payments
      <4>1. queue[h] \in Seq(Payments)
        BY <1>1 DEF TypeOK
      <4>2. QED
        BY <3>1, <4>1 DEF Queued
    <3>4. QED
      BY <1>7, <3>2, <3>3
  <2>3. QED
    BY <2>1, <2>2
<1>12. DocumentsUnderIds'
  <2> SUFFICES ASSUME NEW k \in Ids, documents[k] # Null
               PROVE  /\ payment'[documents[k]] # Null
                      /\ payment'[documents[k]].id = k
    BY <1>3 DEF DocumentsUnderIds
  <2>1. documents[k] \in Payments
    BY <1>1 DEF TypeOK, Store
  <2>2. payment[documents[k]] # Null /\ payment[documents[k]].id = k
    BY <1>1 DEF DocumentsUnderIds
  <2>3. QED
    BY <1>7, <2>1, <2>2
<1>13. OpenSheetIsNew'
  <2>1. entered[ph] = 0
    BY <1>1, <1>2, LedgerAssumption DEF OpenSheetIsNew
  <2>2. entered'[ph] = 1 /\ page'[ph].field = Null
    BY <1>1, <1>2, <1>3, <2>1 DEF TypeOK, Page
  <2>3. \A h \in Phones \ {ph} :
          entered'[h] = entered[h] /\ page'[h] = page[h]
    BY <1>1, <1>3 DEF TypeOK
  <2>4. QED
    BY <1>1, <2>2, <2>3 DEF OpenSheetIsNew
<1>14. QED
  BY <1>8, <1>9, <1>10, <1>11, <1>12, <1>13

\* A write leaves its queue: what is not kept is refused.
LEMMA WriteTaken ==
    ASSUME LedgerInv, NEW ph \in Phones, queue[ph] # <<>>,
           queue' = [queue EXCEPT ![ph] = Tail(@)]
    PROVE  /\ Head(queue[ph]) \in Queued(ph)
           /\ Head(queue[ph]) \in Payments
           /\ payment[Head(queue[ph])] \in Payment
           /\ queue' \in [Phones -> Seq(Payments)]
           /\ Queued(ph) = Queued(ph)' \cup {Head(queue[ph])}
           /\ \A h \in Phones \ {ph} : Queued(h)' = Queued(h)
<1> USE DEF LedgerInv
<1>1. TypeOK /\ QueuedAreMade
  OBVIOUS
<1>2. queue[ph] \in Seq(Payments)
  BY <1>1 DEF TypeOK
<1>3. queue'[ph] = Tail(queue[ph])
  BY <1>1 DEF TypeOK
<1>4. \A h \in Phones \ {ph} : queue'[h] = queue[h]
  BY <1>1 DEF TypeOK
<1>5. Head(queue[ph]) \in Payments /\ queue'[ph] \in Seq(Payments)
  BY <1>2, <1>3, Taken
<1>6. Queued(ph) = Queued(ph)' \cup {Head(queue[ph])}
  <2>1. Queued(ph)' = {Tail(queue[ph])[j] : j \in 1..Len(Tail(queue[ph]))}
    BY <1>3 DEF Queued
  <2>2. {queue[ph][j] : j \in 1..Len(queue[ph])}
          = {Tail(queue[ph])[j] : j \in 1..Len(Tail(queue[ph]))}
            \cup {Head(queue[ph])}
    BY <1>2, Taken
  <2>3. QED
    BY <2>1, <2>2 DEF Queued
<1>7. payment[Head(queue[ph])] \in Payment
  BY <1>1, <1>5, <1>6 DEF TypeOK, QueuedAreMade
<1>8. queue' \in [Phones -> Seq(Payments)]
  BY <1>1, <1>3, <1>5 DEF TypeOK
<1>9. QED
  BY <1>4, <1>5, <1>6, <1>7, <1>8 DEF Queued

\* A set that is stored leaves a document under its own id.
LEMMA SetAppliedHolds ==
    ASSUME LedgerInv, NEW ph \in Phones, SetApplied(ph)
    PROVE  LedgerInv'
<1> USE DEF LedgerInv
<1> DEFINE p == Head(queue[ph])
           i == payment[p].id
<1>1. TypeOK /\ LossExplained /\ AmountIsTyped /\ QueuedAreMade
      /\ DocumentsUnderIds /\ OpenSheetIsNew
  OBVIOUS
<1>2. /\ p \in Payments /\ payment[p] \in Payment
      /\ queue' \in [Phones -> Seq(Payments)]
      /\ Queued(ph) = Queued(ph)' \cup {p}
      /\ \A h \in Phones \ {ph} : Queued(h)' = Queued(h)
  BY WriteTaken DEF SetApplied
<1>3. i \in Ids /\ payment[p] # Null /\ p # Null
  BY <1>2, LedgerAssumption DEF Payment
<1>4. /\ documents' = [documents EXCEPT ![i] = p]
      /\ heard' = [heard EXCEPT ![ph][i] = p]
      /\ refused' = refused
      /\ page' = page /\ payment' = payment /\ entered' = entered
  BY DEF SetApplied, formUnchanged
<1>5. TypeOK'
  <2>1. documents' \in Store
    BY <1>1, <1>2, <1>3, <1>4 DEF TypeOK, Store
  <2>2. heard' \in [Phones -> Store]
    BY <1>1, <1>2, <1>3, <1>4 DEF TypeOK, Store
  <2>3. QED
    BY <1>1, <1>2, <1>4, <2>1, <2>2 DEF TypeOK
<1>6. \A k \in Ids : documents'[k] = IF k = i THEN p ELSE documents[k]
  BY <1>1, <1>3, <1>4 DEF TypeOK, Store
<1>7. LossExplained'
  <2> SUFFICES ASSUME NEW x \in Payments, payment[x] # Null
               PROVE  \/ \E h \in Phones : x \in Queued(h)'
                      \/ x \in refused
                      \/ /\ documents'[payment[x].id] # Null
                         /\ payment[documents'[payment[x].id]].id
                              = payment[x].id
    BY <1>4 DEF LossExplained
  <2>1. payment[x] \in Payment
    BY <1>1 DEF TypeOK
  <2>2. payment[x].id \in Ids
    BY <2>1 DEF Payment
  <2>3. CASE payment[x].id = i
    BY <1>3, <1>6, <2>2, <2>3
  <2>4. CASE payment[x].id # i
    <3>1. x # p
      BY <2>4
    <3>2. documents'[payment[x].id] = documents[payment[x].id]
      BY <1>6, <2>2, <2>4
    <3>3. CASE \E h \in Phones : x \in Queued(h)
      BY <1>2, <3>1, <3>3
    <3>4. QED
      BY <1>1, <3>2, <3>3 DEF LossExplained
  <2>5. QED
    BY <2>3, <2>4
<1>8. AmountIsTyped' /\ OpenSheetIsNew'
  BY <1>1, <1>4 DEF AmountIsTyped, OpenSheetIsNew
<1>9. QueuedAreMade'
  BY <1>1, <1>2, <1>4 DEF QueuedAreMade
<1>10. DocumentsUnderIds'
  BY <1>1, <1>3, <1>4, <1>6 DEF DocumentsUnderIds
<1>11. QED
  BY <1>5, <1>7, <1>8, <1>9, <1>10

\* A refused set goes down in refused.
LEMMA SetRefusedHolds ==
    ASSUME LedgerInv, NEW ph \in Phones, SetRefused(ph)
    PROVE  LedgerInv'
<1> USE DEF LedgerInv
<1> DEFINE p == Head(queue[ph])
<1>1. TypeOK /\ LossExplained /\ AmountIsTyped /\ QueuedAreMade
      /\ DocumentsUnderIds /\ OpenSheetIsNew
  OBVIOUS
<1>2. /\ p \in Payments
      /\ queue' \in [Phones -> Seq(Payments)]
      /\ Queued(ph) = Queued(ph)' \cup {p}
      /\ \A h \in Phones \ {ph} : Queued(h)' = Queued(h)
  BY WriteTaken DEF SetRefused
<1>3. /\ refused' = refused \cup {p}
      /\ documents' = documents /\ heard' = heard
      /\ page' = page /\ payment' = payment /\ entered' = entered
  BY DEF SetRefused, formUnchanged
<1>4. TypeOK'
  BY <1>1, <1>2, <1>3 DEF TypeOK
<1>5. LossExplained'
  BY <1>1, <1>2, <1>3 DEF LossExplained
<1>6. AmountIsTyped' /\ OpenSheetIsNew' /\ DocumentsUnderIds'
  BY <1>1, <1>3 DEF AmountIsTyped, OpenSheetIsNew, DocumentsUnderIds
<1>7. QueuedAreMade'
  BY <1>1, <1>2, <1>3 DEF QueuedAreMade
<1>8. QED
  BY <1>4, <1>5, <1>6, <1>7

\* A snapshot tells a phone what documents there are, and changes none.
LEMMA snapshotsHolds ==
    ASSUME LedgerInv, NEW ph \in Phones, snapshots(ph)
    PROVE  LedgerInv'
<1> USE DEF LedgerInv
<1>1. TypeOK'
  BY DEF snapshots, formUnchanged, TypeOK
<1>2. \A h \in Phones : Queued(h)' = Queued(h)
  BY DEF snapshots, Queued
<1>3. LossExplained' /\ AmountIsTyped' /\ QueuedAreMade'
  BY <1>2 DEF snapshots, formUnchanged, LossExplained, AmountIsTyped,
              QueuedAreMade
<1>4. DocumentsUnderIds' /\ OpenSheetIsNew'
  BY DEF snapshots, formUnchanged, DocumentsUnderIds, OpenSheetIsNew
<1>5. QED
  BY <1>1, <1>3, <1>4

\* A step that changes nothing keeps the invariant.
LEMMA StutterHolds ==
    ASSUME LedgerInv, UNCHANGED vars
    PROVE  LedgerInv'
<1>1. TypeOK' /\ OpenSheetIsNew' /\ storeUnchanged
  BY DEF LedgerInv, vars, TypeOK, OpenSheetIsNew, storeUnchanged
<1>2. QED
  BY <1>1, StoreKept

-----------------------------------------------------------------------------
\* LedgerInv is an invariant of the payment pages, their sheets and what
\* Firestore does with their writes, in any order.
THEOREM LedgerInvariant == Spec => []LedgerInv
<1>1. Init => LedgerInv
  BY InitHolds
<1>2. LedgerInv /\ [Next]_vars => LedgerInv'
  <2> SUFFICES ASSUME LedgerInv, [Next]_vars PROVE LedgerInv'
    OBVIOUS
  <2>1. CASE Form
    <3>1. PICK ph \in Phones :
            \/ \E a \in Accounts : PaymentDetailsPage(ph, a)
            \/ LeavePage(ph)
            \/ OpenSheet(ph)
            \/ \E text \in Texts : Type(ph, text)
            \/ CloseSheet(ph)
            \/ \E p \in Payments, i \in Ids : Done(ph, p, i)
            \/ Restart(ph)
      BY <2>1 DEF Form
    <3>2. QED
      BY <3>1, FormHolds, DoneHolds
  <2>2. CASE Firestore
    BY <2>2, SetAppliedHolds, SetRefusedHolds, snapshotsHolds DEF Firestore
  <2>3. CASE UNCHANGED vars
    BY <2>3, StutterHolds
  <2>4. QED
    BY <2>1, <2>2, <2>3 DEF Next
<1>3. QED
  BY <1>1, <1>2, PTL DEF Spec

\* The pages, payments, queues and documents have their types in every state:
\* an amount that is written is a number, whatever was typed.
THEOREM LedgerTyped == Spec => []TypeOK
<1>1. LedgerInv => TypeOK
  BY DEF LedgerInv
<1>2. QED
  BY <1>1, LedgerInvariant, PTL

\* createTransaction awaits nothing and its id is five digits and a
\* millisecond; yet a payment is only lost by a refusal or to another payment
\* with its id, and no restart loses one.
THEOREM LossesAreExplained == Spec => []LossExplained
<1>1. LedgerInv => LossExplained
  BY DEF LedgerInv
<1>2. QED
  BY <1>1, LedgerInvariant, PTL

\* What is written is what the sheet's field said when "Done" was pressed,
\* though _amount belongs to the page and outlives the sheet.
THEOREM AmountsAreTyped == Spec => []AmountIsTyped
<1>1. LedgerInv => AmountIsTyped
  BY DEF LedgerInv
<1>2. QED
  BY <1>1, LedgerInvariant, PTL

\* "Done" closes the sheet without waiting for the write: no sheet makes two
\* payments, however long the network is away.
THEOREM SheetsPayOnce == Spec => []OnePaymentPerSheet
<1>1. LedgerInv => OnePaymentPerSheet
  BY DEF LedgerInv, OpenSheetIsNew, OnePaymentPerSheet
<1>2. QED
  BY <1>1, LedgerInvariant, PTL

-----------------------------------------------------------------------------
(***************************************************************************)
(* The ledger implements PaymentLifecycle                                  *)
(***************************************************************************)

\* A queue without repetitions has none after a new write is added.
LEMMA AppendedOnce ==
    ASSUME NEW S, NEW q \in Seq(S), NEW x \in S,
           \A j, k \in 1..Len(q) : q[j] = q[k] => j = k,
           x \notin {q[j] : j \in 1..Len(q)}
    PROVE  LET r == Append(q, x)
           IN  \A j, k \in 1..Len(r) : r[j] = r[k] => j = k
<1> DEFINE r == Append(q, x)
<1>1. /\ Len(q) \in Nat /\ Len(r) = Len(q) + 1
      /\ \A j \in 1..Len(q) : r[j] = q[j]
      /\ r[Len(q) + 1] = x
  OBVIOUS
<1>2. \A j \in 1..Len(q) : q[j] # x
  OBVIOUS
<1>3. SUFFICES ASSUME NEW j \in 1..Len(r), NEW k \in 1..Len(r), r[j] = r[k]
               PROVE  j = k
  OBVIOUS
<1>4. /\ j \in 1..Len(q) \/ j = Len(q) + 1
      /\ k \in 1..Len(q) \/ k = Len(q) + 1
  BY <1>1
<1>5. QED
  BY <1>1, <1>2, <1>3, <1>4

\* What is left of a queue without repetitions has none, and lacks the first.
LEMMA TakenOnce ==
    ASSUME NEW S, NEW q \in Seq(S), q # <<>>,
           \A j, k \in 1..Len(q) : q[j] = q[k] => j = k
    PROVE  /\ \A j, k \in 1..Len(Tail(q)) : Tail(q)[j] = Tail(q)[k] => j = k
           /\ Head(q) \notin {Tail(q)[j] : j \in 1..Len(Tail(q))}
<1> DEFINE r == Tail(q)
<1>1. /\ Len(q) \in Nat /\ Len(q) >= 1
      /\ Len(r) = Len(q) - 1 /\ Head(q) = q[1]
      /\ \A j \in 1..Len(r) : r[j] = q[j + 1]
  OBVIOUS
<1>2. \A j \in 1..Len(r) : j + 1 \in 1..Len(q) /\ j + 1 # 1
  BY <1>1
<1>3. 1 \in 1..Len(q)
  BY <1>1
<1>4. ASSUME NEW j \in 1..Len(r), NEW k \in 1..Len(r), r[j] = r[k]
      PROVE  j = k
  <2>1. q[j + 1] = q[k + 1]
    BY <1>1, <1>4
  <2>2. j + 1 = k + 1
    BY <1>2, <2>1
  <2>3. QED
    BY <2>2
<1>5. \A j \in 1..Len(r) : r[j] # q[1]
  BY <1>1, <1>2, <1>3
<1>6. Head(q) \notin {r[j] : j \in 1..Len(r)}
  BY <1>1, <1>5
<1>7. QED
  BY <1>4, <1>6

\* Nothing was paid: no payment has a fate.
LEMMA InitFate == Init => OneFate
<1> SUFFICES ASSUME Init PROVE OneFate
  OBVIOUS
<1>1. \A ph \in Phones : Len(queue[ph]) = 0
  BY DEF Init
<1>2. \A ph \in Phones : \A p : p \notin Queued(ph)
  BY <1>1 DEF Queued
<1>3. refused = {}
  BY DEF Init
<1>4. QED
  BY <1>1, <1>2, <1>3 DEF OneFate

\* "Done" queues a payment that was never made, once.
LEMMA DoneFate ==
    ASSUME LedgerInv, OneFate, NEW ph \in Phones, NEW p \in Payments,
           NEW i \in Ids, Done(ph, p, i)
    PROVE  /\ OneFate'
           /\ \A h \in Phones : p \notin Queued(h)
           /\ Queued(ph)' = Queued(ph) \cup {p}
           /\ \A h \in Phones \ {ph} : Queued(h)' = Queued(h)
<1>1. TypeOK /\ QueuedAreMade /\ DocumentsUnderIds
  BY DEF LedgerInv
<1>2. /\ payment[p] = Null
      /\ queue' = [queue EXCEPT ![ph] = Append(@, p)]
      /\ UNCHANGED <<documents, refused>>
  BY DEF Done, createTransaction
<1>3. /\ queue[ph] \in Seq(Payments)
      /\ queue'[ph] = Append(queue[ph], p)
      /\ \A h \in Phones \ {ph} : queue'[h] = queue[h]
  BY <1>1, <1>2 DEF TypeOK
<1>4. Queued(ph)' = Queued(ph) \cup {p}
  BY <1>3, Appended DEF Queued
<1>5. \A h \in Phones \ {ph} : Queued(h)' = Queued(h)
  BY <1>3 DEF Queued
<1>6. \A h \in Phones : p \notin Queued(h)
  BY <1>1, <1>2 DEF QueuedAreMade
<1>7. p \notin refused /\ \A k \in Ids : documents[k] # p
  <2>1. p # Null
    BY LedgerAssumption
  <2>2. QED
    BY <1>1, <1>2, <2>1 DEF OneFate, DocumentsUnderIds
<1>8. \A x \in refused : payment'[x] # Null
  <2>1. \A x \in refused : x \in Payments /\ x # p /\ payment[x] # Null
    BY <1>1, <1>7 DEF TypeOK, OneFate
  <2>2. \A x \in Payments : x # p => payment'[x] = payment[x]
    BY <1>1 DEF Done, TypeOK
  <2>3. QED
    BY <2>1, <2>2
<1>9. \A h \in Phones : \A j, k \in 1..Len(queue'[h]) :
        queue'[h][j] = queue'[h][k] => j = k
  <2>1. \A j, k \in 1..Len(queue[ph]) : queue[ph][j] = queue[ph][k] => j = k
    BY DEF OneFate
  <2>2. p \notin {queue[ph][j] : j \in 1..Len(queue[ph])}
    BY <1>6 DEF Queued
  <2>3. \A j, k \in 1..Len(queue'[ph]) :
          queue'[ph][j] = queue'[ph][k] => j = k
    BY <1>3, <2>1, <2>2, AppendedOnce
  <2>4. QED
    BY <1>3, <2>3 DEF OneFate
<1>10. \A g, h \in Phones : \A x \in Queued(g)' \cap Queued(h)' : g = h
  BY <1>4, <1>5, <1>6 DEF OneFate
<1>11. \A h \in Phones : \A x \in Queued(h)' :
         x \notin refused /\ \A k \in Ids : documents[k] # x
  BY <1>4, <1>5, <1>7 DEF OneFate
<1>12. OneFate'
  <2>1. \A x \in refused : \A k \in Ids : documents[k] # x
    BY DEF OneFate
  <2>2. QED
    BY <1>2, <1>8, <1>9, <1>10, <1>11, <2>1 DEF OneFate
<1>13. QED
  BY <1>4, <1>5, <1>6, <1>12

\* A write that leaves its queue waits nowhere any more.
LEMMA TakenFate ==
    ASSUME LedgerInv, OneFate, NEW ph \in Phones, queue[ph] # <<>>,
           queue' = [queue EXCEPT ![ph] = Tail(@)]
    PROVE  /\ \A h \in Phones : Queued(h)' = Queued(h) \ {Head(queue[ph])}
           /\ \A h \in Phones : \A j, k \in 1..Len(queue'[h]) :
                queue'[h][j] = queue'[h][k] => j = k
<1> DEFINE p == Head(queue[ph])
<1>1. TypeOK
  BY DEF LedgerInv
<1>2. /\ queue[ph] \in Seq(Payments)
      /\ queue'[ph] = Tail(queue[ph])
      /\ \A h \in Phones \ {ph} : queue'[h] = queue[h]
  BY <1>1 DEF TypeOK
<1>3. /\ p \in Queued(ph) /\ Queued(ph) = Queued(ph)' \cup {p}
      /\ \A h \in Phones \ {ph} : Queued(h)' = Queued(h)
  BY WriteTaken
<1>4. \A j, k \in 1..Len(queue[ph]) : queue[ph][j] = queue[ph][k] => j = k
  BY DEF OneFate
<1>5. /\ \A j, k \in 1..Len(Tail(queue[ph])) :
           Tail(queue[ph])[j] = Tail(queue[ph])[k] => j = k
      /\ p \notin {Tail(queue[ph])[j] : j \in 1..Len(Tail(queue[ph]))}
  BY <1>2, <1>4, TakenOnce
<1>6. p \notin Queued(ph)'
  BY <1>2, <1>5 DEF Queued
<1>7. \A h \in Phones \ {ph} : p \notin Queued(h)
  BY <1>3 DEF OneFate
<1>8. \A h \in Phones : Queued(h)' = Queued(h) \ {p}
  BY <1>3, <1>6, <1>7
<1>9. QED
  BY <1>2, <1>5, <1>8 DEF OneFate

\* Neither a set that is stored nor one that is refused has another fate.
LEMMA StoreFate ==
    ASSUME LedgerInv, OneFate, NEW ph \in Phones,
           SetApplied(ph) \/ SetRefused(ph)
    PROVE  OneFate'
<1> DEFINE p == Head(queue[ph])
<1>1. TypeOK
  BY DEF LedgerInv
<1>2. /\ queue[ph] # <<>> /\ queue' = [queue EXCEPT ![ph] = Tail(@)]
      /\ payment' = payment
  BY DEF SetApplied, SetRefused, formUnchanged
<1>3. p \in Queued(ph) /\ p \in Payments /\ payment[p] \in Payment
  BY <1>2, WriteTaken
<1>4. /\ \A h \in Phones : Queued(h)' = Queued(h) \ {p}
      /\ \A h \in Phones : \A j, k \in 1..Len(queue'[h]) :
           queue'[h][j] = queue'[h][k] => j = k
  BY <1>2, TakenFate
<1>5. p \notin refused /\ (\A k \in Ids : documents[k] # p)
      /\ payment[p] # Null
  BY <1>3, LedgerAssumption DEF OneFate
<1>6. \A g, h \in Phones : \A x \in Queued(g)' \cap Queued(h)' : g = h
  BY <1>4 DEF OneFate
<1>7. CASE SetApplied(ph)
  <2>1. refused' = refused
    BY <1>7 DEF SetApplied
  <2>2. \A k \in Ids : documents'[k] = documents[k] \/ documents'[k] = p
    BY <1>1, <1>7 DEF SetApplied, TypeOK, Store
  <2>3. \A h \in Phones : \A x \in Queued(h)' :
          x \notin refused' /\ \A k \in Ids : documents'[k] # x
    BY <1>4, <2>1, <2>2 DEF OneFate
  <2>4. \A x \in refused' :
          payment'[x] # Null /\ \A k \in Ids : documents'[k] # x
    BY <1>2, <1>5, <2>1, <2>2 DEF OneFate
  <2>5. QED
    BY <1>4, <1>6, <2>3, <2>4 DEF OneFate
<1>8. CASE SetRefused(ph)
  <2>1. refused' = refused \cup {p} /\ documents' = documents
    BY <1>8 DEF SetRefused
  <2>2. \A h \in Phones : \A x \in Queued(h)' :
          x \notin refused' /\ \A k \in Ids : documents'[k] # x
    BY <1>4, <2>1 DEF OneFate
  <2>3. \A x \in refused' :
          payment'[x] # Null /\ \A k \in Ids : documents'[k] # x
    BY <1>2, <1>5, <2>1 DEF OneFate
  <2>4. QED
    BY <1>4, <1>6, <2>2, <2>3 DEF OneFate
<1>9. QED
  BY <1>7, <1>8

\* What the lifecycle sees of the ledger is in these four variables.
LEMMA LedgerAlone ==
    ASSUME OneFate, UNCHANGED <<payment, queue, documents, refused>>
    PROVE  /\ OneFate'
           /\ UNCHANGED Lifecycle!vars
<1>1. \A ph \in Phones : Queued(ph)' = Queued(ph)
  BY DEF Queued
<1>2. OneFate'
  BY <1>1 DEF OneFate
<1>3. \A p \in Payments : Status(p)' = Status(p) /\ Id(p)' = Id(p)
  BY <1>1 DEF Status, Id
<1>4. QED
  BY <1>2, <1>3 DEF Lifecycle!vars

\* "Done" makes a payment that waits.
LEMMA DoneMakes ==
    ASSUME LedgerInv, OneFate, NEW ph \in Phones, NEW p \in Payments,
           NEW i \in Ids, Done(ph, p, i)
    PROVE  Lifecycle!Make(p, i)
<1>1. TypeOK /\ DocumentsUnderIds
  BY DEF LedgerInv
<1>2. /\ payment[p] = Null
      /\ UNCHANGED <<documents, refused>>
      /\ \A x \in Payments : x # p => payment'[x] = payment[x]
  BY <1>1 DEF Done, TypeOK
<1>3. /\ payment'[p] # Null /\ payment'[p].id = i
  <2>1. LedgerInv'
    BY DoneHolds
  <2>2. p \in Queued(ph)'
    BY DoneFate
  <2>3. payment'[p] # Null
    BY <2>1, <2>2 DEF LedgerInv, QueuedAreMade
  <2>4. payment'[p].id = i
    BY <1>1 DEF Done, TypeOK
  <2>5. QED
    BY <2>3, <2>4
<1>4. /\ \A h \in Phones : \A x \in Payments :
           x # p => (x \in Queued(h)' <=> x \in Queued(h))
      /\ p \in Queued(ph)'
      /\ OneFate'
  BY DoneFate
<1>5. \A x \in Payments : x # p => Status(x)' = Status(x) /\ Id(x)' = Id(x)
  BY <1>2, <1>4 DEF Status, Id
<1>6. Status(p) = "none"
  BY <1>2 DEF Status
<1>7. Status(p)' = "waiting" /\ Id(p)' = i
  <2>1. documents'[i] # p /\ p \notin refused'
    BY <1>4 DEF OneFate
  <2>2. QED
    BY <1>3, <1>4, <2>1 DEF Status, Id
<1>8. QED
  BY <1>5, <1>6, <1>7 DEF Lifecycle!Make

\* The server keeps a payment that waited, in place of one with its id.
LEMMA SetAppliedKeeps ==
    ASSUME LedgerInv, OneFate, NEW ph \in Phones, SetApplied(ph),
           NEW p, p = Head(queue[ph])
    PROVE  Lifecycle!Keep(p)
<1>0. PICK i : i = payment[p].id
  OBVIOUS
<1>1. TypeOK /\ DocumentsUnderIds
  BY DEF LedgerInv
<1>2. /\ p \in Payments /\ payment[p] \in Payment /\ p \in Queued(ph)
      /\ \A h \in Phones : Queued(h)' = Queued(h) \ {p}
  BY WriteTaken, TakenFate DEF SetApplied
<1>3. i \in Ids /\ payment[p] # Null
  BY <1>0, <1>2, LedgerAssumption DEF Payment
<1>4. /\ payment' = payment /\ refused' = refused
      /\ \A k \in Ids : documents'[k] = IF k = i THEN p ELSE documents[k]
  BY <1>0, <1>1, <1>3 DEF SetApplied, formUnchanged, TypeOK, Store
<1>5. documents[i] # p /\ p \notin refused
  BY <1>2, <1>3 DEF OneFate
<1>6. Status(p) = "waiting" /\ Status(p)' = "kept"
  BY <1>0, <1>2, <1>3, <1>4, <1>5 DEF Status
<1>7. ASSUME NEW x \in Payments, x # p
      PROVE  Status(x)' = IF Status(x) = "kept" /\ Id(x) = Id(p)
                          THEN "replaced" ELSE Status(x)
  <2>1. CASE payment[x] = Null
    BY <1>4, <2>1 DEF Status
  <2>2. CASE payment[x] # Null
    <3>1. payment[x] \in Payment
      BY <1>1, <2>2 DEF TypeOK
    <3>2. payment[x].id \in Ids
      BY <3>1 DEF Payment
    <3>3. \A h \in Phones : x \in Queued(h)' <=> x \in Queued(h)
      BY <1>2, <1>7
    <3>4. CASE payment[x].id # i
      BY <1>0, <1>3, <1>4, <2>2, <3>2, <3>3, <3>4 DEF Status, Id
    <3>5. CASE payment[x].id = i /\ documents[i] # x
      BY <1>3, <1>4, <1>7, <2>2, <3>3, <3>5 DEF Status
    <3>6. CASE payment[x].id = i /\ documents[i] = x
      <4>1. x \notin refused /\ \A h \in Phones : x \notin Queued(h)
        BY <1>3, <3>6 DEF OneFate
      <4>2. QED
        BY <1>0, <1>3, <1>4, <1>7, <2>2, <3>3, <3>6, <4>1 DEF Status, Id
    <3>7. QED
      BY <3>4, <3>5, <3>6
  <2>3. QED
    BY <2>1, <2>2
<1>8. \A x \in Payments : Id(x)' = Id(x)
  BY <1>4 DEF Id
<1>9. QED
  BY <1>2, <1>6, <1>7, <1>8 DEF Lifecycle!Keep

\* The server refuses a payment that waited.
LEMMA SetRefusedRefuses ==
    ASSUME LedgerInv, OneFate, NEW ph \in Phones, SetRefused(ph),
           NEW p, p = Head(queue[ph])
    PROVE  Lifecycle!Refuse(p)
<1>1. /\ p \in Payments /\ payment[p] \in Payment /\ p \in Queued(ph)
      /\ \A h \in Phones : Queued(h)' = Queued(h) \ {p}
  BY WriteTaken, TakenFate DEF SetRefused
<1>2. payment[p].id \in Ids /\ payment[p] # Null
  BY <1>1, LedgerAssumption DEF Payment
<1>3. /\ payment' = payment /\ documents' = documents
      /\ refused' = refused \cup {p}
  BY DEF SetRefused, formUnchanged
<1>4. documents[payment[p].id] # p /\ p \notin refused
  BY <1>1, <1>2 DEF OneFate
<1>5. Status(p) = "waiting" /\ Status(p)' = "refused"
  BY <1>1, <1>2, <1>3, <1>4 DEF Status
<1>6. \A x \in Payments : x # p => Status(x)' = Status(x)
  BY <1>1, <1>3 DEF Status
<1>7. \A x \in Payments : Id(x)' = Id(x)
  BY <1>3 DEF Id
<1>8. QED
  BY <1>1, <1>5, <1>6, <1>7 DEF Lifecycle!Refuse

\* A step of the ledger keeps OneFate, and makes, keeps or refuses a payment or
\* leaves them all as they are.
LEMMA LedgerStep ==
    ASSUME LedgerInv, OneFate, [Next]_vars
    PROVE  OneFate' /\ [Lifecycle!Next]_(Lifecycle!vars)
<1>1. ASSUME NEW ph \in Phones, NEW p \in Payments, NEW i \in Ids,
             Done(ph, p, i)
      PROVE  OneFate' /\ Lifecycle!Next
  BY <1>1, DoneFate, DoneMakes DEF Lifecycle!Next
<1>2. ASSUME NEW ph \in Phones, SetApplied(ph) \/ SetRefused(ph)
      PROVE  OneFate' /\ Lifecycle!Next
  <2>1. PICK p \in Payments : p = Head(queue[ph])
    BY <1>2, WriteTaken DEF SetApplied, SetRefused
  <2>2. QED
    BY <1>2, <2>1, StoreFate, SetAppliedKeeps, SetRefusedRefuses
       DEF Lifecycle!Next
<1>3. CASE UNCHANGED <<payment, queue, documents, refused>>
  BY <1>3, LedgerAlone
<1>4. CASE Form
  <2>1. PICK ph \in Phones :
          \/ \E a \in Accounts : PaymentDetailsPage(ph, a)
          \/ LeavePage(ph)
          \/ OpenSheet(ph)
          \/ \E text \in Texts : Type(ph, text)
          \/ CloseSheet(ph)
          \/ \E p \in Payments, i \in Ids : Done(ph, p, i)
          \/ Restart(ph)
    BY <1>4 DEF Form
  <2>2. \/ \E p \in Payments, i \in Ids : Done(ph, p, i)
        \/ UNCHANGED <<payment, queue, documents, refused>>
    BY <2>1 DEF PaymentDetailsPage, LeavePage, OpenSheet, Type, CloseSheet,
                Restart, storeUnchanged
  <2>3. QED
    BY <1>1, <1>3, <2>2
<1>5. CASE Firestore
  <2>1. PICK ph \in Phones : SetApplied(ph) \/ SetRefused(ph) \/ snapshots(ph)
    BY <1>5 DEF Firestore
  <2>2. CASE snapshots(ph)
    BY <1>3, <2>2 DEF snapshots, formUnchanged
  <2>3. QED
    BY <1>2, <2>1, <2>2
<1>6. CASE UNCHANGED vars
  BY <1>3, <1>6 DEF vars
<1>7. QED
  BY <1>4, <1>5, <1>6 DEF Next

\* The ledger implements PaymentLifecycle: each press of "Done" puts one
\* document in the collection at most, a refusal is final, and a stored
\* payment is lost only to another one that drew its id.
THEOREM ImplementsPaymentLifecycle == Spec => ImplementsPayments
<1>1. Init => Lifecycle!Init
  BY DEF Init, Lifecycle!Init, Status, Id
<1>2. LedgerInv /\ OneFate /\ [Next]_vars
        => OneFate' /\ [Lifecycle!Next]_(Lifecycle!vars)
  BY LedgerStep
<1>3. Spec => []OneFate
  BY <1>2, InitFate, LedgerInvariant, PTL DEF Spec
<1>4. QED
  BY <1>1, <1>2, <1>3, LedgerInvariant, PTL
     DEF Spec, ImplementsPayments, Lifecycle!Spec
=============================================================================
