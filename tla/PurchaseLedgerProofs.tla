------------------------ MODULE PurchaseLedgerProofs ------------------------
(***************************************************************************)
(* Machine-checked proofs about PurchaseLedger, for every set of invoices, *)
(* copies, charges and links.  The safety invariants of the table are      *)
(* proved together (LedgerInv): a charge is unique and means "paid" only   *)
(* because of the others.  The two action properties follow from it.       *)
(***************************************************************************)
EXTENDS PurchaseLedger, TLAPS

\* Strengthening: an invoice nothing was recorded for was not paid.
AbsentIsUnpaid ==
  \A i \in Invoices : rows[i].status = "absent" => ~rows[i].paidAt

\* The conjunction that every committed transaction preserves.
LedgerInv ==
  /\ TypeOK
  /\ OneOwnedCopy
  /\ ChargeRecordedOnce
  /\ ChargeMeansPaid
  /\ ChecksHold
  /\ AbsentIsUnpaid

-----------------------------------------------------------------------------
\* The empty table satisfies every invariant.
LEMMA InitEstablishesInv == Init => LedgerInv
  BY NoneIsNull
  DEF Init, LedgerInv, TypeOK, OneOwnedCopy, ChargeRecordedOnce, ChargeMeansPaid,
      ChecksHold, AbsentIsUnpaid, NoRow, Row, Owns, AccessGranting, Statuses, PaidAtPresent,
      DeliveryComplete

\* Every transaction of the repository writes rows of the table's type.
LEMMA TypeIsPreserved == TypeOK /\ [Next]_rows => TypeOK'
  <1> SUFFICES ASSUME TypeOK, [Next]_rows
               PROVE  TypeOK'
    OBVIOUS
  <1> USE DEF TypeOK, Row, Statuses
  <1>1. ASSUME NEW i \in Invoices, NEW c \in Copies, Create(i, c)
        PROVE  TypeOK'
    <2>1. [NoRow EXCEPT !.status = "pending", !.copy = c] \in Row
      BY DEF NoRow
    <2> QED
      BY <1>1, <2>1 DEF Create
  <1>2. ASSUME NEW i \in Invoices, NEW ch \in Charges \cup {None}, MarkPaid(i, ch)
        PROVE  TypeOK'
    <2>1. rows[i] \in Row /\ ChargeAfter(rows[i], ch) \in Charges \cup {None}
      BY DEF ChargeAfter
    <2>2. [rows[i] EXCEPT !.status = "paid", !.paidAt = TRUE,
                          !.charge = ChargeAfter(rows[i], ch)] \in Row
      BY <2>1
    <2> QED
      BY <1>2, <2>2 DEF MarkPaid
  <1>3. ASSUME NEW i \in Invoices, NEW ch \in Charges, ReplayPaid(i, ch)
        PROVE  TypeOK'
    BY <1>3 DEF ReplayPaid
  <1>4. ASSUME NEW i \in Invoices, NEW u \in Links, MarkDelivered(i, u)
        PROVE  TypeOK'
    BY <1>4 DEF MarkDelivered
  <1>5. ASSUME NEW i \in Invoices, MarkRefunded(i)
        PROVE  TypeOK'
    BY <1>5 DEF MarkRefunded
  <1>6. ASSUME ExpirePending
        PROVE  TypeOK'
    BY <1>6 DEF ExpirePending
  <1>7. ASSUME NEW i \in Invoices, GrowStale(i)
        PROVE  TypeOK'
    BY <1>7 DEF GrowStale
  <1>8. CASE UNCHANGED rows
    BY <1>8
  <1> QED
    BY <1>1, <1>2, <1>3, <1>4, <1>5, <1>6, <1>7, <1>8 DEF Next

\* Every committed transaction preserves the invariants of the table.
LEMMA InvIsPreserved == LedgerInv /\ [Next]_rows => LedgerInv'
  <1> SUFFICES ASSUME LedgerInv, [Next]_rows
               PROVE  LedgerInv'
    OBVIOUS
  <1>t. TypeOK /\ TypeOK'
    BY TypeIsPreserved DEF LedgerInv
  <1> USE NoneIsNull, <1>t
      DEF LedgerInv, OneOwnedCopy, ChargeRecordedOnce, ChargeMeansPaid, ChecksHold,
          AbsentIsUnpaid, NoRow,
          Owns, AccessGranting, PaidAtPresent, DeliveryComplete, Statuses, Row, TypeOK
  <1>1. ASSUME NEW i \in Invoices, NEW c \in Copies, Create(i, c)
        PROVE  LedgerInv'
    BY <1>1 DEF Create, NoRow
  <1>2. ASSUME NEW i \in Invoices, NEW ch \in Charges \cup {None}, MarkPaid(i, ch)
        PROVE  LedgerInv'
    BY <1>2 DEF MarkPaid, ChargeAfter, OnlyPaidCopy, OnlyCarrier
  <1>3. ASSUME NEW i \in Invoices, NEW ch \in Charges, ReplayPaid(i, ch)
        PROVE  LedgerInv'
    BY <1>3 DEF ReplayPaid, OnlyCarrier
  <1>4. ASSUME NEW i \in Invoices, NEW u \in Links, MarkDelivered(i, u)
        PROVE  LedgerInv'
    BY <1>4 DEF MarkDelivered
  <1>5. ASSUME NEW i \in Invoices, MarkRefunded(i)
        PROVE  LedgerInv'
    BY <1>5 DEF MarkRefunded
  <1>6. ASSUME ExpirePending
        PROVE  LedgerInv'
    BY <1>6 DEF ExpirePending, Expirable
  <1>7. ASSUME NEW i \in Invoices, GrowStale(i)
        PROVE  LedgerInv'
    BY <1>7 DEF GrowStale
  <1>8. CASE UNCHANGED rows
    BY <1>8
  <1> QED
    BY <1>1, <1>2, <1>3, <1>4, <1>5, <1>6, <1>7, <1>8 DEF Next

\* No committed transaction moves a refunded row.
LEMMA StepKeepsRefunds ==
  ASSUME LedgerInv, [Next]_rows,
         NEW i \in Invoices, rows[i].status = "refunded"
  PROVE  rows'[i] = rows[i]
  <1> USE DEF LedgerInv, TypeOK, Row
  <1>1. ASSUME NEW j \in Invoices, NEW c \in Copies, Create(j, c)
        PROVE  rows'[i] = rows[i]
    BY <1>1 DEF Create
  <1>2. ASSUME NEW j \in Invoices, NEW ch \in Charges \cup {None}, MarkPaid(j, ch)
        PROVE  rows'[i] = rows[i]
    BY <1>2 DEF MarkPaid
  <1>3. ASSUME NEW j \in Invoices, NEW ch \in Charges, ReplayPaid(j, ch)
        PROVE  rows'[i] = rows[i]
    BY <1>3 DEF ReplayPaid, Owns, AccessGranting
  <1>4. ASSUME NEW j \in Invoices, NEW u \in Links, MarkDelivered(j, u)
        PROVE  rows'[i] = rows[i]
    BY <1>4 DEF MarkDelivered
  <1>5. ASSUME NEW j \in Invoices, MarkRefunded(j)
        PROVE  rows'[i] = rows[i]
    BY <1>5 DEF MarkRefunded
  <1>6. ASSUME ExpirePending
        PROVE  rows'[i] = rows[i]
    BY <1>6 DEF ExpirePending, Expirable
  <1>7. ASSUME NEW j \in Invoices, GrowStale(j)
        PROVE  rows'[i] = rows[i]
    BY <1>7 DEF GrowStale
  <1>8. CASE UNCHANGED rows
    BY <1>8
  <1> QED
    BY <1>1, <1>2, <1>3, <1>4, <1>5, <1>6, <1>7, <1>8 DEF Next

\* What PaymentIsNeverForgotten asks of the step for row i.
Remembers(i) ==
  /\ rows[i].paidAt => rows'[i].paidAt
  /\ rows[i].charge # None => rows'[i].charge = rows[i].charge
  /\ rows[i].url # None => rows'[i].url = rows[i].url
  /\ Owns(i) => rows'[i].status \in AccessGranting \cup {"refunded"}

\* No committed transaction forgets a payment, a charge or a delivered URL.
LEMMA StepRemembers ==
  ASSUME LedgerInv, [Next]_rows, NEW i \in Invoices
  PROVE  Remembers(i)
  <1> USE NoneIsNull
      DEF LedgerInv, TypeOK, Row, Remembers, Owns, AccessGranting, Statuses,
          ChargeMeansPaid, ChecksHold, AbsentIsUnpaid
  <1>1. ASSUME NEW j \in Invoices, NEW c \in Copies, Create(j, c)
        PROVE  Remembers(i)
    BY <1>1 DEF Create, NoRow, PaidAtPresent
  <1>2. ASSUME NEW j \in Invoices, NEW ch \in Charges \cup {None}, MarkPaid(j, ch)
        PROVE  Remembers(i)
    BY <1>2 DEF MarkPaid, ChargeAfter
  <1>3. ASSUME NEW j \in Invoices, NEW ch \in Charges, ReplayPaid(j, ch)
        PROVE  Remembers(i)
    BY <1>3 DEF ReplayPaid
  <1>4. ASSUME NEW j \in Invoices, NEW u \in Links, MarkDelivered(j, u)
        PROVE  Remembers(i)
    BY <1>4 DEF MarkDelivered
  <1>5. ASSUME NEW j \in Invoices, MarkRefunded(j)
        PROVE  Remembers(i)
    BY <1>5 DEF MarkRefunded
  <1>6. ASSUME ExpirePending
        PROVE  Remembers(i)
    BY <1>6 DEF ExpirePending, Expirable
  <1>7. ASSUME NEW j \in Invoices, GrowStale(j)
        PROVE  Remembers(i)
    BY <1>7 DEF GrowStale
  <1>8. CASE UNCHANGED rows
    BY <1>8
  <1> QED
    BY <1>1, <1>2, <1>3, <1>4, <1>5, <1>6, <1>7, <1>8 DEF Next

-----------------------------------------------------------------------------
\* The conjunction of the table's invariants holds in every reachable state.
THEOREM LedgerInvariant == Spec => []LedgerInv
  <1>1. Init => LedgerInv
    BY InitEstablishesInv
  <1>2. LedgerInv /\ [Next]_rows => LedgerInv'
    BY InvIsPreserved
  <1> QED
    BY <1>1, <1>2, PTL DEF Spec

\* Type correctness of the purchases table.
THEOREM TypeCorrect == Spec => []TypeOK
  <1>1. LedgerInv => TypeOK
    BY DEF LedgerInv
  <1> QED
    BY <1>1, LedgerInvariant, PTL

\* At most one paid copy per buyer and product, for any number of invoices.
THEOREM OnePaidCopy == Spec => []OneOwnedCopy
  <1>1. LedgerInv => OneOwnedCopy
    BY DEF LedgerInv
  <1> QED
    BY <1>1, LedgerInvariant, PTL

\* One Telegram charge is recorded by one purchase, whatever the sequence of
\* writers.
THEOREM ChargesAreUnique == Spec => []ChargeRecordedOnce
  <1>1. LedgerInv => ChargeRecordedOnce
    BY DEF LedgerInv
  <1> QED
    BY <1>1, LedgerInvariant, PTL

\* Only a purchase that was paid carries a charge: a refund never trips the CHECK
\* of paid_at, and an unpaid Stars purchase holds no payment evidence.
THEOREM ChargesArePaid == Spec => []ChargeMeansPaid
  <1>1. LedgerInv => ChargeMeansPaid
    BY DEF LedgerInv
  <1> QED
    BY <1>1, LedgerInvariant, PTL

\* The CHECK constraints, and that only a delivery records a URL.
THEOREM ConstraintsHold == Spec => []ChecksHold
  <1>1. LedgerInv => ChecksHold
    BY DEF LedgerInv
  <1> QED
    BY <1>1, LedgerInvariant, PTL

\* A refunded purchase is never moved again.
THEOREM RefundFinality == Spec => RefundIsFinal
  <1>1. LedgerInv /\ [Next]_rows =>
          [\A i \in Invoices : rows[i].status = "refunded" => rows'[i] = rows[i]]_rows
    BY StepKeepsRefunds
  <1> QED
    BY <1>1, LedgerInvariant, PTL DEF Spec, RefundIsFinal

\* A recorded payment, its charge and its delivered URL are never lost.
THEOREM PaymentMemory == Spec => PaymentIsNeverForgotten
  <1>1. LedgerInv /\ [Next]_rows =>
          [\A i \in Invoices :
             /\ rows[i].paidAt => rows'[i].paidAt
             /\ rows[i].charge # None => rows'[i].charge = rows[i].charge
             /\ rows[i].url # None => rows'[i].url = rows[i].url
             /\ Owns(i) => rows'[i].status \in AccessGranting \cup {"refunded"}]_rows
    BY StepRemembers DEF Remembers
  <1> QED
    BY <1>1, LedgerInvariant, PTL DEF Spec, PaymentIsNeverForgotten
=============================================================================
