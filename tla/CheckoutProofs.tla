--------------------------- MODULE CheckoutProofs ---------------------------
(***************************************************************************)
(* Machine-checked proofs about Checkout, for any number of presses,       *)
(* invoices, prices and crashes.  The first three invariants hold on every *)
(* schedule, with locks that expire under their holders; the last one      *)
(* needs handlers that fit in the throttle window.                         *)
(*                                                                         *)
(* PressOK says what a press may rely on between two awaits.  Unowned and  *)
(* QueryOK tie its progress to the history: a step past a question was     *)
(* taken after a moment at which the answer was yes.                       *)
(***************************************************************************)
EXTENDS Checkout, TLAPS

\* What a press j has in hand.
PressOK(j) ==
  /\ j.pc = "idle" => j.inv = None
  /\ j.pc \in {"check_owned", "create"} => j.price # None
  /\ j.inv \in CryptoInvoices => billed[j.inv] # None
  /\ j.pc = "show" => j.inv # None
  /\ j.pc \in {"unlock", "show"} /\ j.inv # None => rows[j.inv].status # "absent"

PressesOK == \A p \in Presses : PressOK(press[p])

\* Press p, being j, goes ahead only if the buyer did not own the product.
Unowned(p, j) == j.inv # None \/ j.pc \in {"invoice", "create"} => <<p, "unowned">> \in seen

PressesSawUnowned == \A p \in Presses : Unowned(p, press[p])

\* Everything under way has seen the facts of the moment.
Watching == Witnesses \X Facts \subseteq seen

QueryOK(i) ==
  /\ update[i] # "none" => query[i] = "approved"
  /\ query[i] \in {"owned", "approved"} => <<i, "on_sale">> \in seen
  /\ query[i] = "approved" => <<i, "unowned">> \in seen

QueriesOK == \A i \in StarsInvoices : QueryOK(i)

\* The inductive invariant.
CheckoutInv ==
  /\ TypeOK
  /\ PressesOK
  /\ PressesSawUnowned
  /\ Watching
  /\ QueriesOK
  /\ ShownInvoicesAreRecorded

\* A step without its history.
Step ==
  \/ Buyer
  \/ Admin
  \/ \E p \in Presses : PressStep(p) \/ Crash(p)
  \/ \E i \in StarsInvoices : AnswerPreCheckout(i) \/ UpdateStep(i) \/ CrashUpdate(i)
  \/ ThrottleExpires
  \/ CheckoutExpires

-----------------------------------------------------------------------------
(* The ledger and the provider's invoices.                                 *)

\* Rows are only added: none disappears, and none changes its amount.
RowsKept ==
  \A i \in Invoices :
    rows[i].status # "absent" => rows'[i].status # "absent" /\ amount'[i] = amount[i]

LedgerOK ==
  /\ rows \in [Invoices -> Ledger!Row]
  /\ amount \in [Invoices -> Prices \cup {None}]
  /\ \A i \in Invoices : (amount[i] = None) = (rows[i].status = "absent")

\* A row that is overwritten by another that is recorded.
LEMMA OneRowMoves ==
  ASSUME LedgerOK, NEW i \in Invoices, NEW r \in Ledger!Row,
         rows[i].status # "absent", r.status # "absent",
         rows' = [rows EXCEPT ![i] = r], amount' = amount
  PROVE  LedgerOK' /\ RowsKept
BY DEF LedgerOK, RowsKept

\* Stars charges are named after invoices of their own rail.
LEMMA PaidRowsAreRows ==
  ASSUME LedgerOK, NEW i \in Invoices, NEW ch \in StarsInvoices \cup {None},
         Ledger!MarkPaid(i, ch), amount' = amount
  PROVE  LedgerOK' /\ RowsKept
<1> DEFINE r == [rows[i] EXCEPT !.status = "paid", !.paidAt = TRUE,
                                !.charge = Ledger!ChargeAfter(rows[i], ch)]
<1>1. rows[i] \in Ledger!Row
  BY DEF LedgerOK
<1>2. Ledger!ChargeAfter(rows[i], ch) \in StarsInvoices \cup {None}
  BY <1>1 DEF Ledger!ChargeAfter, Ledger!Row
<1>3. r \in Ledger!Row /\ r.status = "paid"
  BY <1>1, <1>2 DEF Ledger!Row, Ledger!Statuses
<1>4. rows' = [rows EXCEPT ![i] = r] /\ rows[i].status # "absent"
  BY DEF Ledger!MarkPaid
<1> HIDE DEF r
<1> QED
  BY <1>3, <1>4, OneRowMoves

\* A purchase is created with the price that start_purchase has just read.
LEMMA CreationKeepsLedger ==
  ASSUME LedgerOK, PressesOK, press \in [Presses -> Press], NEW p \in Presses, CreatePurchase(p)
  PROVE  LedgerOK' /\ RowsKept
<1>1. press[p].price \in Prices /\ press[p].pc = "create" /\ press[p].rail \in Rails
  BY DEF CreatePurchase, PressesOK, PressOK, Press
<1>2. PICK i \in InvoicesOf(press[p].rail) :
        Ledger!Create(i, Copy) /\ amount' = [amount EXCEPT ![i] = press[p].price]
  BY DEF CreatePurchase
<1>3. i \in Invoices
  BY <1>1 DEF InvoicesOf, Invoices, Rails
<1> DEFINE r == [Ledger!NoRow EXCEPT !.status = "pending", !.copy = Copy]
<1>4. r \in Ledger!Row /\ r.status = "pending"
  BY DEF Ledger!NoRow, Ledger!Row, Ledger!Statuses
<1>5. rows' = [rows EXCEPT ![i] = r] /\ rows[i].status = "absent"
  BY <1>2 DEF Ledger!Create
<1>6. None \notin Prices
  BY CheckoutSettings
<1> HIDE DEF r
<1> QED
  BY <1>1, <1>2, <1>3, <1>4, <1>5, <1>6 DEF LedgerOK, RowsKept

\* Every step keeps the rows that exist.
LEMMA StepKeepsLedger ==
  ASSUME CheckoutInv, Step
  PROVE  LedgerOK' /\ RowsKept
<1>1. LedgerOK /\ press \in [Presses -> Press]
  BY DEF CheckoutInv, TypeOK, LedgerOK, Ledger!TypeOK
<1>2. CASE UNCHANGED ledger
  BY <1>1, <1>2 DEF ledger, LedgerOK, RowsKept
<1>3. ASSUME NEW p \in Presses, CreatePurchase(p)
      PROVE  LedgerOK' /\ RowsKept
  BY <1>1, <1>3, CreationKeepsLedger DEF CheckoutInv
<1>4. ASSUME NEW i \in StarsInvoices, HandleUpdate(i), ~UNCHANGED ledger
      PROVE  LedgerOK' /\ RowsKept
  <2>1. amount' = amount /\ Ledger!MarkPaid(i, i)
    BY <1>4 DEF HandleUpdate, Confirm, ledger
  <2> QED
    BY <1>1, <2>1, PaidRowsAreRows DEF Invoices
<1>5. ASSUME NEW i \in CryptoInvoices, SettleCrypto(i)
      PROVE  LedgerOK' /\ RowsKept
  BY <1>1, <1>5, PaidRowsAreRows DEF SettleCrypto, Invoices
<1>6. ASSUME NEW i \in StarsInvoices, RefundStars(i)
      PROVE  LedgerOK' /\ RowsKept
  <2> DEFINE r == [rows[i] EXCEPT !.status = "refunded"]
  <2>1. rows[i] \in Ledger!Row /\ i \in Invoices
    BY <1>1 DEF LedgerOK, Invoices
  <2>2. r \in Ledger!Row /\ r.status = "refunded"
    BY <2>1 DEF Ledger!Row, Ledger!Statuses
  <2>3. rows' = [rows EXCEPT ![i] = r] /\ rows[i].status # "absent" /\ amount' = amount
    BY <1>6 DEF RefundStars, Ledger!MarkRefunded, Ledger!Statuses
  <2> HIDE DEF r
  <2> QED
    BY <1>1, <2>1, <2>2, <2>3, OneRowMoves
<1>7. ASSUME NEW p \in Presses, PressStep(p), ~CreatePurchase(p)
      PROVE  UNCHANGED ledger
  BY <1>7 DEF PressStep, ReadProduct, CheckOwned, CreateInvoice, LockCheckout, CheckProduct,
     CheckOwnership, UnlockCheckout, ShowInvoice, LeavePress, OnlyThePressMoves
<1>8. ASSUME NEW i \in StarsInvoices,
             \/ AnswerPreCheckout(i) \/ BeginUpdate(i) \/ CrashUpdate(i)
             \/ AskPreCheckout(i) \/ CaptureStars(i)
      PROVE  UNCHANGED ledger
  BY <1>8 DEF AnswerPreCheckout, BeginUpdate, CrashUpdate, AskPreCheckout, CaptureStars
<1>9. ASSUME NEW p \in Presses, Crash(p) \/ \E rail \in Rails : BeginPress(p, rail)
      PROVE  UNCHANGED ledger
  BY <1>9 DEF Crash, BeginPress
<1>10. Admin \/ ThrottleExpires \/ CheckoutExpires => UNCHANGED ledger
  BY DEF Admin, UpdateProduct, ThrottleExpires, CheckoutExpires
<1> QED
  BY <1>2, <1>3, <1>4, <1>5, <1>6, <1>7, <1>8, <1>9, <1>10 DEF Step, Buyer, UpdateStep

\* Crypto Pay's invoices keep the amount they were created with.
LEMMA StepKeepsBills ==
  ASSUME CheckoutInv, Step
  PROVE  /\ billed' \in [CryptoInvoices -> Prices \cup {None}]
         /\ \A i \in CryptoInvoices : billed[i] # None => billed'[i] = billed[i]
<1>1. billed \in [CryptoInvoices -> Prices \cup {None}] /\ press \in [Presses -> Press]
  BY DEF CheckoutInv, TypeOK
<1>2. CASE billed' = billed
  BY <1>1, <1>2
<1>3. ASSUME NEW p \in Presses, CreateInvoice(p), billed' # billed
      PROVE  /\ billed' \in [CryptoInvoices -> Prices \cup {None}]
             /\ \A i \in CryptoInvoices : billed[i] # None => billed'[i] = billed[i]
  <2>1. PICK i \in CryptoInvoices : billed[i] = None /\ billed' = [billed EXCEPT ![i] = press[p].price]
    BY <1>3 DEF CreateInvoice
  <2>2. press[p].price \in Prices \cup {None}
    BY <1>1 DEF Press
  <2> QED
    BY <1>1, <2>1, <2>2
<1>4. ASSUME NEW p \in Presses, PressStep(p), ~CreateInvoice(p)
      PROVE  billed' = billed
  BY <1>4 DEF PressStep, ReadProduct, CheckOwned, LockCheckout, CheckProduct, CheckOwnership,
     CreatePurchase, UnlockCheckout, ShowInvoice, LeavePress, OnlyThePressMoves, invoices
<1>5. ASSUME NEW i \in Invoices,
             \/ AnswerPreCheckout(i) \/ UpdateStep(i) \/ CrashUpdate(i) \/ AskPreCheckout(i)
             \/ CaptureStars(i) \/ SettleCrypto(i) \/ RefundStars(i)
      PROVE  billed' = billed
  BY <1>5 DEF AnswerPreCheckout, UpdateStep, BeginUpdate, HandleUpdate, CrashUpdate,
     AskPreCheckout, CaptureStars, SettleCrypto, RefundStars, invoices
<1>6. ASSUME NEW p \in Presses, Crash(p) \/ \E rail \in Rails : BeginPress(p, rail)
      PROVE  billed' = billed
  BY <1>6 DEF Crash, BeginPress, invoices
<1>7. Admin \/ ThrottleExpires \/ CheckoutExpires => billed' = billed
  BY DEF Admin, UpdateProduct, ThrottleExpires, CheckoutExpires, invoices
<1> QED
  BY <1>2, <1>3, <1>4, <1>5, <1>6, <1>7 DEF Step, Buyer, Invoices

-----------------------------------------------------------------------------
(* Presses.                                                                *)

\* What a press has in hand stays good.
LEMMA PressStaysOK ==
  ASSUME CheckoutInv, Step, NEW j \in Press, PressOK(j)
  PROVE  PressOK(j)'
<1>1. RowsKept /\ \A i \in CryptoInvoices : billed[i] # None => billed'[i] = billed[i]
  BY StepKeepsLedger, StepKeepsBills
<1>2. j.inv \in Invoices \cup {None}
  BY DEF Press
<1> QED
  BY <1>1, <1>2 DEF PressOK, RowsKept

\* Press p goes on as j and has what j needs.
GoesWell(p, j) ==
  /\ j \in Press /\ Goes(p, j)
  /\ PressOK(j)' /\ Unowned(p, j)
  /\ Underway(p) \/ (j.inv = None /\ j.pc \notin {"invoice", "create"})

\* The steps that read the catalogue or try the checkout lock.
LEMMA ReadingStepsGoWell ==
  ASSUME CheckoutInv, Step, NEW p \in Presses,
         ReadProduct(p) \/ LockCheckout(p) \/ CheckProduct(p)
  PROVE  \E j : GoesWell(p, j)
<1>1. press[p] \in Press /\ PressOK(press[p]) /\ Unowned(p, press[p])
  BY DEF CheckoutInv, TypeOK, PressesOK, PressesSawUnowned
<1>9. Underway(p)
  BY DEF Underway, ReadProduct, LockCheckout, CheckProduct
<1>2. /\ product.price \in [Rails -> Prices \cup {None}] /\ press[p].rail \in Rails
      /\ product.price[press[p].rail] \in Prices \cup {None}
  BY <1>1 DEF CheckoutInv, TypeOK, Press
<1>3. CASE ReadProduct(p)
  <2>1. PICK j : /\ j = IF ~product.active THEN [press[p] EXCEPT !.pc = "leave"]
                        ELSE [press[p] EXCEPT !.price = product.price[press[p].rail],
                                !.pc = IF press[p].rail = "stars" THEN "lock" ELSE "owned"]
                 /\ Goes(p, j) /\ press[p].pc = "product"
    BY <1>3 DEF ReadProduct
  <2>2. /\ j.pc \in {"leave", "lock", "owned"} /\ j.inv = press[p].inv /\ j.rail = press[p].rail
        /\ j \in Press
    BY <1>1, <1>2, <2>1 DEF Press, PressPcs
  <2>3. PressOK(j) /\ Unowned(p, j)
    BY <1>1, <2>2 DEF PressOK, Unowned
  <2> QED
    BY <1>9, <2>1, <2>2, <2>3, PressStaysOK DEF GoesWell
<1>4. CASE LockCheckout(p)
  <2>1. PICK j : /\ \/ j = [press[p] EXCEPT !.pc = "check_product"]
                    \/ j = [press[p] EXCEPT !.pc = "leave"]
                 /\ Goes(p, j)
    BY <1>4 DEF LockCheckout
  <2>2. /\ j.pc \in {"leave", "check_product"} /\ j.inv = press[p].inv /\ j.rail = press[p].rail
        /\ j \in Press
    BY <1>1, <2>1 DEF Press, PressPcs
  <2>3. PressOK(j) /\ Unowned(p, j)
    BY <1>1, <2>2 DEF PressOK, Unowned
  <2> QED
    BY <1>9, <2>1, <2>2, <2>3, PressStaysOK DEF GoesWell
<1>5. CASE CheckProduct(p)
  <2>1. PICK j : /\ \/ /\ product.price[press[p].rail] # None
                       /\ j = [press[p] EXCEPT !.price = product.price[press[p].rail],
                                               !.pc = "check_owned"]
                    \/ j = [press[p] EXCEPT !.pc = "unlock", !.inv = None]
                 /\ Goes(p, j)
    BY <1>5 DEF CheckProduct
  <2>2. /\ j.rail = press[p].rail /\ j \in Press
        /\ \/ j.pc = "check_owned" /\ j.inv = press[p].inv /\ j.price # None
           \/ j.pc = "unlock" /\ j.inv = None
    BY <1>1, <1>2, <2>1 DEF Press, PressPcs
  <2>3. PressOK(j) /\ Unowned(p, j)
    BY <1>1, <2>2, CheckoutSettings DEF PressOK, Unowned, Invoices
  <2> QED
    BY <1>9, <2>1, <2>2, <2>3, PressStaysOK DEF GoesWell
<1> QED
  BY <1>3, <1>4, <1>5

\* A press that finds the buyer without the product goes ahead, at a moment
\* that it witnesses.
LEMMA OwnershipChecksGoWell ==
  ASSUME CheckoutInv, Step, NEW p \in Presses,
         CheckOwned(p) \/ CheckOwnership(p)
  PROVE  \E j : GoesWell(p, j)
<1>1. press[p] \in Press /\ PressOK(press[p]) /\ Unowned(p, press[p])
  BY DEF CheckoutInv, TypeOK, PressesOK, PressesSawUnowned
<1>2. Underway(p)
  BY DEF CheckOwned, CheckOwnership, Underway
<1>3. ~Owned => <<p, "unowned">> \in seen
  <2>1. ~Owned => <<p, "unowned">> \in Witnesses \X Facts
    BY <1>2 DEF Witnesses, Facts
  <2> QED
    BY <2>1 DEF CheckoutInv, Watching
<1>4. CASE CheckOwned(p)
  <2>1. PICK j : /\ \/ j = [press[p] EXCEPT !.pc = "leave"]
                    \/ ~Owned /\ j = [press[p] EXCEPT !.pc = "invoice"]
                 /\ Goes(p, j)
    BY <1>4 DEF CheckOwned
  <2>2. /\ j.inv = press[p].inv /\ j.rail = press[p].rail /\ j \in Press
        /\ j.pc = "leave" \/ (j.pc = "invoice" /\ ~Owned)
    BY <1>1, <2>1 DEF Press, PressPcs
  <2>3. PressOK(j) /\ Unowned(p, j)
    BY <1>1, <1>3, <2>2 DEF PressOK, Unowned
  <2> QED
    BY <1>2, <2>1, <2>2, <2>3, PressStaysOK DEF GoesWell
<1>5. CASE CheckOwnership(p)
  <2>1. PICK j : /\ \/ j = [press[p] EXCEPT !.pc = "unlock", !.inv = None]
                    \/ ~Owned /\ j = [press[p] EXCEPT !.pc = "create"]
                 /\ Goes(p, j) /\ press[p].pc = "check_owned"
    BY <1>5 DEF CheckOwnership
  <2>2. /\ j.rail = press[p].rail /\ j \in Press
        /\ \/ j.pc = "unlock" /\ j.inv = None
           \/ j.pc = "create" /\ ~Owned /\ j.inv = press[p].inv /\ j.price = press[p].price
    BY <1>1, <2>1 DEF Press, PressPcs
  <2>3. PressOK(j) /\ Unowned(p, j)
    BY <1>1, <1>3, <2>1, <2>2, CheckoutSettings DEF PressOK, Unowned, Invoices
  <2> QED
    BY <1>2, <2>1, <2>2, <2>3, PressStaysOK DEF GoesWell
<1> QED
  BY <1>4, <1>5

\* The steps that create an invoice or a purchase.
LEMMA BillingStepsGoWell ==
  ASSUME CheckoutInv, Step, NEW p \in Presses,
         CreateInvoice(p) \/ CreatePurchase(p)
  PROVE  \E j : GoesWell(p, j)
<1>1. press[p] \in Press /\ PressOK(press[p]) /\ Unowned(p, press[p])
  BY DEF CheckoutInv, TypeOK, PressesOK, PressesSawUnowned
<1>9. Underway(p)
  BY DEF Underway, CreateInvoice, CreatePurchase
<1>2. CASE CreateInvoice(p) /\ billed' = billed
  <2>1. PICK j : j = [press[p] EXCEPT !.pc = "leave"] /\ Goes(p, j)
    <3>1. CASE Goes(p, [press[p] EXCEPT !.pc = "leave"])
      BY <3>1
    <3>2. CASE \E i \in CryptoInvoices : /\ billed[i] = None /\ press[p].price # None
                                         /\ billed' = [billed EXCEPT ![i] = press[p].price]
      BY <1>2, <3>2 DEF CheckoutInv, TypeOK
    <3> QED
      BY <1>2, <3>1, <3>2 DEF CreateInvoice
  <2>2. j.pc = "leave" /\ j.inv = press[p].inv /\ j.rail = press[p].rail /\ j \in Press
    BY <1>1, <2>1 DEF Press, PressPcs
  <2>3. PressOK(j) /\ Unowned(p, j)
    BY <1>1, <2>2 DEF PressOK, Unowned
  <2> QED
    BY <1>9, <2>1, <2>2, <2>3, PressStaysOK DEF GoesWell
<1>3. CASE CreateInvoice(p) /\ billed' # billed
  <2>1. PICK i \in CryptoInvoices :
          /\ press[p].pc = "invoice" /\ press[p].price # None
          /\ billed' = [billed EXCEPT ![i] = press[p].price]
          /\ Goes(p, [press[p] EXCEPT !.inv = i, !.pc = "lock"])
    BY <1>3 DEF CreateInvoice
  <2>2. PICK j : j = [press[p] EXCEPT !.inv = i, !.pc = "lock"] /\ Goes(p, j)
    BY <2>1
  <2>3. j.pc = "lock" /\ j.inv = i /\ j.rail = press[p].rail /\ j \in Press
    BY <1>1, <2>2 DEF Press, PressPcs, Invoices
  <2>4. billed'[i] # None
    BY <2>1 DEF CheckoutInv, TypeOK
  <2>5. PressOK(j)' /\ Unowned(p, j)
    BY <1>1, <2>1, <2>3, <2>4 DEF PressOK, Unowned
  <2> QED
    BY <1>9, <2>2, <2>3, <2>5 DEF GoesWell
<1>4. CASE CreatePurchase(p)
  <2>1. PICK i \in InvoicesOf(press[p].rail) :
          /\ press[p].pc = "create" /\ (press[p].rail = "crypto" => i = press[p].inv)
          /\ Ledger!Create(i, Copy)
          /\ Goes(p, [press[p] EXCEPT !.inv = i, !.pc = "unlock"])
          /\ billed' = billed
    BY <1>4 DEF CreatePurchase, invoices
  <2>2. PICK j : j = [press[p] EXCEPT !.inv = i, !.pc = "unlock"] /\ Goes(p, j)
    BY <2>1
  <2>3. i \in Invoices /\ press[p].rail \in Rails
    BY <1>1, <2>1 DEF Press, InvoicesOf, Invoices, Rails
  <2>4. j.pc = "unlock" /\ j.inv = i /\ j \in Press
    BY <1>1, <2>2, <2>3 DEF Press, PressPcs
  <2>5. i \in CryptoInvoices => billed[i] # None
    BY <1>1, <2>1, <2>3, CheckoutSettings DEF PressOK, InvoicesOf, Rails
  <2>6. rows'[i].status = "pending"
    <3>1. [Ledger!NoRow EXCEPT !.status = "pending", !.copy = Copy].status = "pending"
      BY DEF Ledger!NoRow
    <3> QED
      BY <2>1, <2>3, <3>1 DEF Ledger!Create, CheckoutInv, TypeOK, Ledger!TypeOK
  <2>7. PressOK(j)' /\ Unowned(p, j)
    BY <1>1, <2>1, <2>4, <2>5, <2>6 DEF PressOK, Unowned
  <2> QED
    BY <1>9, <2>2, <2>4, <2>7 DEF GoesWell
<1> QED
  BY <1>2, <1>3, <1>4

\* The steps that end a press.
LEMMA LeavingStepsGoWell ==
  ASSUME CheckoutInv, Step, NEW p \in Presses,
         UnlockCheckout(p) \/ ShowInvoice(p) \/ LeavePress(p) \/ Crash(p)
  PROVE  \E j : GoesWell(p, j)
<1>1. press[p] \in Press /\ PressOK(press[p]) /\ Unowned(p, press[p])
  BY DEF CheckoutInv, TypeOK, PressesOK, PressesSawUnowned
<1>9. Underway(p)
  BY DEF Underway, UnlockCheckout, ShowInvoice, LeavePress, Crash
<1>2. CASE UnlockCheckout(p)
  <2>1. PICK j : /\ j = [press[p] EXCEPT !.pc = IF press[p].inv # None THEN "show" ELSE "leave"]
                 /\ Goes(p, j) /\ press[p].pc = "unlock"
    BY <1>2 DEF UnlockCheckout
  <2>2. /\ j.pc = (IF press[p].inv # None THEN "show" ELSE "leave")
        /\ j.inv = press[p].inv /\ j.rail = press[p].rail /\ j \in Press
    BY <1>1, <2>1 DEF Press, PressPcs
  <2>3. PressOK(j) /\ Unowned(p, j)
    BY <1>1, <2>1, <2>2 DEF PressOK, Unowned
  <2> QED
    BY <1>9, <2>1, <2>2, <2>3, PressStaysOK DEF GoesWell
<1>3. CASE ShowInvoice(p) \/ LeavePress(p) \/ Crash(p)
  <2>1. PICK j : /\ \/ j = [press[p] EXCEPT !.pc = "leave"]
                    \/ j = [press[p] EXCEPT !.pc = "done"]
                 /\ Goes(p, j)
    BY <1>3 DEF ShowInvoice, LeavePress, Crash
  <2>2. j.pc \in {"leave", "done"} /\ j.inv = press[p].inv /\ j.rail = press[p].rail /\ j \in Press
    BY <1>1, <2>1 DEF Press, PressPcs
  <2>3. PressOK(j) /\ Unowned(p, j)
    BY <1>1, <2>2 DEF PressOK, Unowned
  <2> QED
    BY <1>9, <2>1, <2>2, <2>3, PressStaysOK DEF GoesWell
<1> QED
  BY <1>2, <1>3

\* A press begins with nothing in hand.
LEMMA BeginPressGoesWell ==
  ASSUME CheckoutInv, Step, NEW p \in Presses, NEW rail \in Rails, BeginPress(p, rail)
  PROVE  \E j : GoesWell(p, j)
<1>1. PICK first : first = [NoPress EXCEPT !.rail = rail, !.with = {q \in Presses : Underway(q)}]
  OBVIOUS
<1>2. first \in Press /\ first.inv = None
  <2>1. {q \in Presses : Underway(q)} \in SUBSET Presses
    OBVIOUS
  <2> QED
    BY <1>1, <2>1 DEF NoPress, Press, PressPcs, Rails
<1>3. PICK j : /\ j = [first EXCEPT !.pc = "product"] \/ j = [first EXCEPT !.pc = "done"]
               /\ Goes(p, j)
  BY <1>1 DEF BeginPress
<1>4. j.pc \in {"product", "done"} /\ j.inv = None /\ j \in Press
  BY <1>2, <1>3 DEF Press, PressPcs
<1>5. PressOK(j) /\ Unowned(p, j)
  BY <1>4, CheckoutSettings DEF PressOK, Unowned, Invoices
<1> QED
  BY <1>3, <1>4, <1>5, PressStaysOK DEF GoesWell

\* Every step leaves the presses alone or moves one of them well.
LEMMA StepMovesPresses ==
  ASSUME CheckoutInv, Step, press' # press
  PROVE  \E p \in Presses : \E j : GoesWell(p, j)
<1>1. ASSUME NEW p \in Presses, PressStep(p) \/ Crash(p)
      PROVE  \E j : GoesWell(p, j)
  BY <1>1, ReadingStepsGoWell, OwnershipChecksGoWell, BillingStepsGoWell, LeavingStepsGoWell
     DEF PressStep
<1>2. ASSUME NEW p \in Presses, NEW rail \in Rails, BeginPress(p, rail)
      PROVE  \E j : GoesWell(p, j)
  BY <1>2, BeginPressGoesWell
<1>3. ASSUME NEW i \in Invoices,
             \/ AnswerPreCheckout(i) \/ UpdateStep(i) \/ CrashUpdate(i) \/ AskPreCheckout(i)
             \/ CaptureStars(i) \/ SettleCrypto(i) \/ RefundStars(i)
      PROVE  press' = press
  BY <1>3 DEF AnswerPreCheckout, UpdateStep, BeginUpdate, HandleUpdate, CrashUpdate,
     AskPreCheckout, CaptureStars, SettleCrypto, RefundStars
<1>4. Admin \/ ThrottleExpires \/ CheckoutExpires => press' = press
  BY DEF Admin, UpdateProduct, ThrottleExpires, CheckoutExpires
<1> QED
  BY <1>1, <1>2, <1>3, <1>4 DEF Step, Buyer, Invoices

-----------------------------------------------------------------------------
(* The other variables.                                                    *)

\* What the admin, Redis and crashes change.
LEMMA StepKeepsSettings ==
  ASSUME CheckoutInv, Step
  PROVE  /\ product' \in [active : BOOLEAN, price : [Rails -> Prices \cup {None}]]
         /\ throttle' \in Presses \cup StarsInvoices \cup {Free, Orphan}
         /\ checkout' \in Presses \cup {Free, Orphan}
         /\ crashes' \in 0..MaxCrashes
<1> USE CheckoutSettings
<1>1. /\ product \in [active : BOOLEAN, price : [Rails -> Prices \cup {None}]]
      /\ throttle \in Presses \cup StarsInvoices \cup {Free, Orphan}
      /\ checkout \in Presses \cup {Free, Orphan}
      /\ crashes \in 0..MaxCrashes
  BY DEF CheckoutInv, TypeOK
<1>2. ASSUME NEW p \in Presses, PressStep(p)
      PROVE  /\ product' = product /\ crashes' = crashes
             /\ throttle' \in {throttle, Free} /\ checkout' \in {checkout, Free, p}
  <2>1. CASE ReadProduct(p) \/ CheckOwned(p) \/ CheckProduct(p) \/ CheckOwnership(p)
    BY <2>1 DEF ReadProduct, CheckOwned, CheckProduct, CheckOwnership, OnlyThePressMoves
  <2>2. CASE CreateInvoice(p) \/ LockCheckout(p) \/ CreatePurchase(p)
    BY <2>2 DEF CreateInvoice, LockCheckout, CreatePurchase
  <2>3. CASE UnlockCheckout(p) \/ ShowInvoice(p) \/ LeavePress(p)
    BY <2>3 DEF UnlockCheckout, ShowInvoice, LeavePress, Exit
  <2> QED
    BY <1>2, <2>1, <2>2, <2>3 DEF PressStep
<1>3. ASSUME NEW p \in Presses, Crash(p) \/ \E rail \in Rails : BeginPress(p, rail)
      PROVE  /\ product' = product /\ crashes' \in 0..MaxCrashes
             /\ throttle' \in {throttle, p, Orphan} /\ checkout' \in {checkout, Orphan}
  <2>1. CASE Crash(p)
    BY <1>1, <2>1 DEF Crash
  <2>2. CASE \E rail \in Rails : BeginPress(p, rail)
    <3>1. UNCHANGED <<product, checkout, crashes>> /\ throttle' \in {throttle, p}
      BY <2>2 DEF BeginPress, Enter
    <3> QED
      BY <1>1, <3>1
  <2> QED
    BY <1>3, <2>1, <2>2
<1>4. ASSUME NEW i \in Invoices,
             \/ AnswerPreCheckout(i) \/ AskPreCheckout(i) \/ CaptureStars(i)
             \/ SettleCrypto(i) \/ RefundStars(i)
      PROVE  UNCHANGED <<product, throttle, checkout, crashes>>
  BY <1>4 DEF AnswerPreCheckout, AskPreCheckout, CaptureStars, SettleCrypto, RefundStars
<1>5. ASSUME NEW i \in StarsInvoices, UpdateStep(i) \/ CrashUpdate(i)
      PROVE  /\ product' = product /\ checkout' = checkout /\ crashes' \in 0..MaxCrashes
             /\ throttle' \in {throttle, i, Free, Orphan}
  BY <1>1, <1>5 DEF UpdateStep, BeginUpdate, HandleUpdate, CrashUpdate, Enter, Exit
<1>6. CASE Admin
  <2>1. PICK new : UpdateProduct(new) /\ new \in [active : BOOLEAN, price : [Rails -> Prices \cup {None}]]
    <3>1. [product EXCEPT !.active = ~@] \in [active : BOOLEAN, price : [Rails -> Prices \cup {None}]]
      BY <1>1
    <3>2. \A r \in Rails, x \in Prices \cup {None} :
            [product EXCEPT !.price[r] = x] \in [active : BOOLEAN, price : [Rails -> Prices \cup {None}]]
      BY <1>1
    <3> QED
      BY <1>6, <3>1, <3>2 DEF Admin
  <2> QED
    BY <1>1, <2>1 DEF UpdateProduct
<1>7. CASE ThrottleExpires \/ CheckoutExpires
  BY <1>1, <1>7 DEF ThrottleExpires, CheckoutExpires
<1> QED
  BY <1>1, <1>2, <1>3, <1>4, <1>5, <1>6, <1>7 DEF Step, Buyer, Invoices

\* What is shown is on record, and a Stars invoice asks for what the row says.
LEMMA StepKeepsShown ==
  ASSUME CheckoutInv, Step
  PROVE  shown' \subseteq Invoices \X Prices /\ ShownInvoicesAreRecorded'
<1>1. CASE shown' = shown
  <2>1. shown' \subseteq Invoices \X Prices
    BY <1>1 DEF CheckoutInv, TypeOK
  <2>2. ASSUME NEW s \in shown
        PROVE  rows'[s[1]].status # "absent" /\ (s[1] \in StarsInvoices => s[2] = amount'[s[1]])
    <3>1. s[1] \in Invoices
      BY DEF CheckoutInv, TypeOK
    <3> QED
      BY <3>1, StepKeepsLedger DEF RowsKept, CheckoutInv, ShownInvoicesAreRecorded
  <2> QED
    BY <1>1, <2>1, <2>2 DEF ShownInvoicesAreRecorded
<1>2. ASSUME NEW p \in Presses, ShowInvoice(p)
      PROVE  shown' \subseteq Invoices \X Prices /\ ShownInvoicesAreRecorded'
  <2> DEFINE i == press[p].inv
  <2>1. i \in Invoices /\ rows[i].status # "absent" /\ (i \in CryptoInvoices => billed[i] # None)
    <3>1. press[p] \in Press /\ PressOK(press[p]) /\ press[p].pc = "show"
      BY <1>2 DEF CheckoutInv, TypeOK, PressesOK, ShowInvoice
    <3> QED
      BY <3>1 DEF PressOK, Press
  <2>2. amount[i] # None
    BY <2>1 DEF CheckoutInv, TypeOK
  <2>3. AmountAsked(i) \in Prices /\ (i \in StarsInvoices => AmountAsked(i) = amount[i])
    BY <2>1, <2>2 DEF AmountAsked, CheckoutInv, TypeOK, Invoices
  <2>4. UNCHANGED ledger /\ shown' \subseteq shown \cup {<<i, AmountAsked(i)>>}
    BY <1>2 DEF ShowInvoice
  <2>5. \A s \in shown : /\ s \in Invoices \X Prices /\ rows[s[1]].status # "absent"
                         /\ s[1] \in StarsInvoices => s[2] = amount[s[1]]
    BY DEF CheckoutInv, TypeOK, ShownInvoicesAreRecorded
  <2> QED
    BY <2>1, <2>3, <2>4, <2>5 DEF ShownInvoicesAreRecorded, ledger
<1>3. ASSUME NEW p \in Presses, PressStep(p), ~ShowInvoice(p)
      PROVE  shown' = shown
  BY <1>3 DEF PressStep, ReadProduct, CheckOwned, CreateInvoice, LockCheckout, CheckProduct,
     CheckOwnership, CreatePurchase, UnlockCheckout, LeavePress, OnlyThePressMoves, invoices
<1>4. ASSUME NEW i \in Invoices,
             \/ AnswerPreCheckout(i) \/ UpdateStep(i) \/ CrashUpdate(i) \/ AskPreCheckout(i)
             \/ CaptureStars(i) \/ SettleCrypto(i) \/ RefundStars(i)
      PROVE  shown' = shown
  BY <1>4 DEF AnswerPreCheckout, UpdateStep, BeginUpdate, HandleUpdate, CrashUpdate,
     AskPreCheckout, CaptureStars, SettleCrypto, RefundStars, invoices
<1>5. ASSUME NEW p \in Presses, Crash(p) \/ \E rail \in Rails : BeginPress(p, rail)
      PROVE  shown' = shown
  BY <1>5 DEF Crash, BeginPress, invoices
<1>6. Admin \/ ThrottleExpires \/ CheckoutExpires => shown' = shown
  BY DEF Admin, UpdateProduct, ThrottleExpires, CheckoutExpires, invoices
<1> QED
  BY <1>1, <1>2, <1>3, <1>4, <1>5, <1>6 DEF Step, Buyer, Invoices

-----------------------------------------------------------------------------
(* The history.                                                            *)

\* A fact stays with what witnessed it until that begins anew.
LEMMA SeenStays ==
  ASSUME Observe, NEW x, NEW f, <<x, f>> \in seen, x \in Witnesses \/ x \notin Witnesses'
  PROVE  <<x, f>> \in seen'
BY DEF Observe

\* The history sees the facts of every state.
LEMMA ObserveWatches ==
  ASSUME CheckoutInv, Observe
  PROVE  Watching' /\ seen' \subseteq (Presses \cup StarsInvoices) \X {"unowned", "on_sale"}
<1>1. Watching'
  BY DEF Observe, Watching
<1>2. /\ Witnesses' \subseteq Presses \cup StarsInvoices
      /\ Facts' \subseteq {"unowned", "on_sale"}
  BY DEF Witnesses, Facts
<1>3. seen' \subseteq seen \cup (Witnesses' \X Facts')
  BY DEF Observe
<1> QED
  BY <1>1, <1>2, <1>3 DEF CheckoutInv, TypeOK

\* Every press keeps what it needs.
LEMMA StepKeepsPresses ==
  ASSUME CheckoutInv, Step, Observe
  PROVE  press' \in [Presses -> Press] /\ PressesOK' /\ PressesSawUnowned'
<1>1. ASSUME NEW p \in Presses, press[p].inv # None \/ press[p].pc \in {"invoice", "create"},
             Underway(p) \/ ~Underway(p)'
      PROVE  <<p, "unowned">> \in seen'
  <2>1. <<p, "unowned">> \in seen
    BY <1>1 DEF CheckoutInv, PressesSawUnowned, Unowned
  <2>2. p \in Witnesses \/ p \notin Witnesses'
    BY <1>1, CheckoutSettings DEF Witnesses, Invoices
  <2> QED
    BY <2>1, <2>2, SeenStays
<1>2. CASE press' = press
  <2>1. press' \in [Presses -> Press]
    BY <1>2 DEF CheckoutInv, TypeOK
  <2>2. ASSUME NEW p \in Presses
        PROVE  PressOK(press[p])'
    <3>1. PICK j : j = press[p]
      OBVIOUS
    <3>2. j \in Press /\ PressOK(j)
      BY <3>1 DEF CheckoutInv, TypeOK, PressesOK
    <3> QED
      BY <1>2, <3>1, <3>2, PressStaysOK DEF PressOK
  <2>3. PressesSawUnowned'
    BY <1>1, <1>2 DEF PressesSawUnowned, Unowned, Underway
  <2> QED
    BY <2>1, <2>2, <2>3 DEF PressesOK
<1>3. CASE press' # press
  <2>0. PICK p \in Presses : \E j : GoesWell(p, j)
    BY <1>3, StepMovesPresses
  <2>1. PICK j : GoesWell(p, j)
    BY <2>0
  <2>2. /\ press' \in [Presses -> Press] /\ press'[p] = j
        /\ \A q \in Presses \ {p} : press'[q] = press[q]
    BY <2>1 DEF GoesWell, Goes, CheckoutInv, TypeOK
  <2>3. PressesOK'
    <3> SUFFICES ASSUME NEW q \in Presses
                 PROVE  PressOK(press[q])'
      BY DEF PressesOK
    <3>1. CASE q = p
      BY <2>1, <2>2, <3>1 DEF GoesWell, PressOK
    <3>2. CASE q # p
      <4>1. PICK k : k = press[q]
        OBVIOUS
      <4>2. k \in Press /\ PressOK(k)
        BY <4>1 DEF CheckoutInv, TypeOK, PressesOK
      <4> QED
        BY <2>2, <3>2, <4>1, <4>2, PressStaysOK DEF PressOK
    <3> QED
      BY <3>1, <3>2
  <2>4. PressesSawUnowned'
    <3> SUFFICES ASSUME NEW q \in Presses,
                        press'[q].inv # None \/ press'[q].pc \in {"invoice", "create"}
                 PROVE  <<q, "unowned">> \in seen'
      BY DEF PressesSawUnowned, Unowned
    <3>1. CASE q # p
      BY <1>1, <2>2, <3>1 DEF Underway
    <3>2. CASE q = p
      <4>1. Underway(p) /\ <<p, "unowned">> \in seen
        BY <2>1, <2>2, <3>2 DEF GoesWell, Unowned
      <4>2. p \in Witnesses
        BY <4>1 DEF Witnesses
      <4> QED
        BY <3>2, <4>1, <4>2, SeenStays
    <3> QED
      BY <3>1, <3>2
  <2> QED
    BY <2>2, <2>3, <2>4
<1> QED
  BY <1>2, <1>3

UpdatePcs == {"none", "queued", "handling", "handled", "throttled", "lost"}

QueriesAreTyped ==
  query \in [StarsInvoices -> QueryPcs] /\ update \in [StarsInvoices -> UpdatePcs]

\* A query that is not asked or answered keeps what it saw.
LEMMA QuietQueryStaysOK ==
  ASSUME CheckoutInv, Observe, NEW i \in StarsInvoices, query'[i] = query[i],
         update'[i] = update[i] \/ query[i] = "approved"
  PROVE  QueryOK(i)'
<1>1. QueryOK(i)
  BY DEF CheckoutInv, QueriesOK
<1>2. i \in Witnesses \/ i \notin Witnesses'
  BY CheckoutSettings DEF Witnesses, Asking, Invoices
<1>3. \A f : <<i, f>> \in seen => <<i, f>> \in seen'
  BY <1>2, SeenStays
<1> QED
  BY <1>1, <1>3 DEF QueryOK

\* What an answer leaves of a query.
LEMMA AnswerOutcomes ==
  ASSUME NEW i \in StarsInvoices, CheckoutInv, AnswerPreCheckout(i)
  PROVE  \/ query[i] = "status" /\ query'[i] \in {"product", "refused"}
         \/ query[i] = "product" /\ (query'[i] = "refused" \/ (query'[i] = "owned" /\ product.active))
         \/ query[i] = "owned" /\ (query'[i] = "refused" \/ (query'[i] = "approved" /\ ~Owned))
<1>1. query'[i] = IF Passes(i) THEN NextQuestion(query[i]) ELSE "refused"
  BY DEF AnswerPreCheckout, CheckoutInv, TypeOK
<1>2. CASE query[i] = "status"
  <2>1. NextQuestion(query[i]) = "product"
    BY <1>2 DEF NextQuestion
  <2> QED
    BY <1>1, <1>2, <2>1
<1>3. CASE query[i] = "product"
  <2>1. NextQuestion(query[i]) = "owned" /\ (Passes(i) <=> product.active)
    BY <1>3 DEF NextQuestion, Passes
  <2> QED
    BY <1>1, <1>3, <2>1
<1>4. CASE query[i] = "owned"
  <2>1. NextQuestion(query[i]) = "approved" /\ (Passes(i) <=> ~Owned)
    BY <1>4 DEF NextQuestion, Passes
  <2> QED
    BY <1>1, <1>4, <2>1
<1> QED
  BY <1>2, <1>3, <1>4 DEF AnswerPreCheckout, Asking

\* A question answered with yes has been seen to be so.
LEMMA AnswerKeepsQueries ==
  ASSUME CheckoutInv, Observe, NEW i \in StarsInvoices, AnswerPreCheckout(i)
  PROVE  QueriesAreTyped' /\ QueriesOK'
<1>1. /\ update' = update /\ QueriesAreTyped /\ QueryOK(i)
      /\ \A j \in StarsInvoices \ {i} : query'[j] = query[j]
  BY DEF AnswerPreCheckout, CheckoutInv, TypeOK, QueriesAreTyped, UpdatePcs, QueriesOK
<1>2. QueriesAreTyped'
  <2>1. query'[i] \in QueryPcs
    BY AnswerOutcomes DEF QueryPcs
  <2>2. query' = [query EXCEPT ![i] = query'[i]]
    BY <1>1 DEF AnswerPreCheckout, QueriesAreTyped
  <2> QED
    BY <1>1, <2>1, <2>2 DEF QueriesAreTyped
<1>3. i \in Witnesses /\ \A f : <<i, f>> \in seen => <<i, f>> \in seen'
  BY SeenStays DEF AnswerPreCheckout, Witnesses
<1>4. \A f \in Facts : <<i, f>> \in seen
  BY <1>3 DEF CheckoutInv, Watching
<1>5. update[i] = "none"
  BY <1>1 DEF QueryOK, AnswerPreCheckout, Asking
<1>6. product.active => <<i, "on_sale">> \in seen'
  BY <1>3, <1>4 DEF Facts
<1>7. ~Owned => <<i, "unowned">> \in seen'
  BY <1>3, <1>4 DEF Facts
<1>8. query[i] = "owned" => <<i, "on_sale">> \in seen'
  BY <1>1, <1>3 DEF QueryOK
<1>9. QueryOK(i)'
  <2>1. /\ query'[i] \in {"owned", "approved"} => <<i, "on_sale">> \in seen'
        /\ query'[i] = "approved" => <<i, "unowned">> \in seen'
    BY <1>6, <1>7, <1>8, AnswerOutcomes
  <2> QED
    BY <1>1, <1>5, <2>1 DEF QueryOK
<1>10. QueriesOK'
  BY <1>1, <1>9, QuietQueryStaysOK DEF QueriesOK
<1> QED
  BY <1>2, <1>10

\* Every query keeps what it saw.
LEMMA StepKeepsQueries ==
  ASSUME CheckoutInv, Step, Observe
  PROVE  QueriesAreTyped' /\ QueriesOK'
<1>1. QueriesAreTyped /\ \A i \in StarsInvoices : QueryOK(i)
  BY DEF CheckoutInv, TypeOK, QueriesAreTyped, UpdatePcs, QueriesOK
<1>2. CASE UNCHANGED payments
  BY <1>1, <1>2, QuietQueryStaysOK DEF payments, QueriesAreTyped, QueriesOK
<1>3. ASSUME NEW i \in StarsInvoices, AskPreCheckout(i)
      PROVE  QueriesAreTyped' /\ QueriesOK'
  <2>1. /\ update' = update /\ update[i] = "none" /\ query'[i] = "status"
        /\ \A j \in StarsInvoices \ {i} : query'[j] = query[j]
    BY <1>1, <1>3 DEF AskPreCheckout, QueriesAreTyped
  <2>2. QueriesAreTyped'
    BY <1>1, <1>3 DEF AskPreCheckout, QueriesAreTyped, QueryPcs
  <2>3. QueryOK(i)'
    BY <2>1 DEF QueryOK
  <2> QED
    BY <2>1, <2>2, <2>3, QuietQueryStaysOK DEF QueriesOK
<1>4. ASSUME NEW i \in StarsInvoices, AnswerPreCheckout(i)
      PROVE  QueriesAreTyped' /\ QueriesOK'
  BY <1>4, AnswerKeepsQueries
<1>5. ASSUME NEW i \in StarsInvoices, CaptureStars(i) \/ UpdateStep(i) \/ CrashUpdate(i)
      PROVE  QueriesAreTyped' /\ QueriesOK'
  <2>1. /\ query' = query /\ query[i] = "approved"
        /\ \A j \in StarsInvoices \ {i} : update'[j] = update[j]
    BY <1>1, <1>5 DEF CaptureStars, UpdateStep, BeginUpdate, HandleUpdate, CrashUpdate, payments,
       QueriesAreTyped, QueryOK
  <2>2. QueriesAreTyped'
    BY <1>1, <1>5, <2>1 DEF CaptureStars, UpdateStep, BeginUpdate, HandleUpdate, CrashUpdate,
       QueriesAreTyped, UpdatePcs
  <2> QED
    BY <2>1, <2>2, QuietQueryStaysOK DEF QueriesOK
<1>6. ASSUME NEW p \in Presses, PressStep(p)
      PROVE  UNCHANGED payments
  BY <1>6 DEF PressStep, ReadProduct, CheckOwned, CreateInvoice, LockCheckout, CheckProduct,
     CheckOwnership, CreatePurchase, UnlockCheckout, ShowInvoice, LeavePress, OnlyThePressMoves
<1>7. ASSUME NEW p \in Presses, Crash(p) \/ \E rail \in Rails : BeginPress(p, rail)
      PROVE  UNCHANGED payments
  BY <1>7 DEF Crash, BeginPress
<1>8. ASSUME NEW i \in Invoices, SettleCrypto(i) \/ RefundStars(i)
      PROVE  UNCHANGED payments
  BY <1>8 DEF SettleCrypto, RefundStars
<1>9. Admin \/ ThrottleExpires \/ CheckoutExpires => UNCHANGED payments
  BY DEF Admin, UpdateProduct, ThrottleExpires, CheckoutExpires
<1> QED
  BY <1>2, <1>3, <1>4, <1>5, <1>6, <1>7, <1>8, <1>9 DEF Step, Buyer, Invoices

-----------------------------------------------------------------------------
(* The invariant.                                                          *)

\* Nobody has pressed a button yet.
LEMMA InitEstablishesCheckoutInv == Init => CheckoutInv
<1> SUFFICES ASSUME Init
             PROVE  CheckoutInv
  OBVIOUS
<1>1. NoPress \in Press /\ NoPress.pc = "idle" /\ NoPress.inv = None
  BY DEF NoPress, Press, PressPcs, Rails
<1>2. Ledger!NoRow \in Ledger!Row /\ Ledger!NoRow.status = "absent"
  BY DEF Ledger!NoRow, Ledger!Row, Ledger!Statuses
<1>3. /\ Ledger!TypeOK /\ amount \in [Invoices -> Prices \cup {None}]
      /\ \A i \in Invoices : (amount[i] = None) = (rows[i].status = "absent")
  BY <1>2 DEF Init, Ledger!Init, Ledger!TypeOK
<1>4. TypeOK
  <2>1. product \in [active : BOOLEAN, price : [Rails -> Prices \cup {None}]]
    BY DEF Init
  <2>2. /\ press \in [Presses -> Press] /\ crashes \in 0..MaxCrashes
        /\ query \in [StarsInvoices -> QueryPcs]
    BY <1>1, CheckoutSettings DEF Init, QueryPcs
  <2> QED
    BY <1>3, <2>1, <2>2 DEF Init, TypeOK
<1>5. PressesOK /\ PressesSawUnowned
  BY <1>1, CheckoutSettings DEF Init, PressesOK, PressOK, PressesSawUnowned, Unowned, Invoices
<1>6. Watching
  <2>1. Witnesses = {}
    BY <1>1 DEF Init, Witnesses, Underway, Asking
  <2> QED
    BY <2>1 DEF Watching
<1>7. QueriesOK /\ ShownInvoicesAreRecorded
  BY DEF Init, QueriesOK, QueryOK, ShownInvoicesAreRecorded
<1> QED
  BY <1>4, <1>5, <1>6, <1>7 DEF CheckoutInv

\* Every step keeps the invariant.
LEMMA StepKeepsCheckoutInv == CheckoutInv /\ [Next]_vars => CheckoutInv'
<1>1. ASSUME CheckoutInv, Next
      PROVE  CheckoutInv'
  <2>1. Step /\ Observe
    BY <1>1 DEF Next, Step
  <2>2. TypeOK'
    BY <1>1, <2>1, StepKeepsLedger, StepKeepsBills, StepKeepsPresses, StepKeepsSettings,
       StepKeepsShown, StepKeepsQueries, ObserveWatches
       DEF TypeOK, LedgerOK, Ledger!TypeOK, QueriesAreTyped, UpdatePcs
  <2> QED
    BY <1>1, <2>1, <2>2, StepKeepsPresses, StepKeepsShown, StepKeepsQueries, ObserveWatches
       DEF CheckoutInv
<1>2. CheckoutInv /\ UNCHANGED vars => CheckoutInv'
  BY DEF vars, CheckoutInv, TypeOK, Ledger!TypeOK, PressesOK, PressOK, PressesSawUnowned,
     Unowned, Watching, Witnesses, Underway, Asking, Facts, Owned, Ledger!Owns, QueriesOK,
     QueryOK, ShownInvoicesAreRecorded
<1> QED
  BY <1>1, <1>2

\* The invariant holds in every reachable state.
LEMMA CheckoutInvHolds == Spec => []CheckoutInv
BY InitEstablishesCheckoutInv, StepKeepsCheckoutInv, PTL DEF Spec

-----------------------------------------------------------------------------
(* Handlers that fit in the throttle window.                               *)

\* No throttle key expires under its holder; Redis' values are told apart.
HandlersFit == "ttl" \notin Faults /\ Free \notin Presses /\ Orphan \notin Presses

\* A press under way holds the throttle, so a press that met another one was
\* turned away.
ThrottleOK(p) ==
  /\ Underway(p) => throttle = p
  /\ press[p].with # {} => press[p].pc = "done" /\ press[p].inv = None

ThrottleInv == \A p \in Presses : ThrottleOK(p)

\* A press gives the throttle up with its last step, or loses it in a crash.
LEMMA PressKeepsThrottle ==
  ASSUME HandlersFit, CheckoutInv, ThrottleInv, NEW p \in Presses, PressStep(p) \/ Crash(p)
  PROVE  ThrottleInv'
<1>1. press[p] \in Press /\ Underway(p)
  <2>1. press[p] \in Press
    BY DEF CheckoutInv, TypeOK
  <2>2. CASE PressStep(p)
    BY <2>1, <2>2 DEF PressStep, Underway, ReadProduct, CheckOwned, CreateInvoice, LockCheckout,
       CheckProduct, CheckOwnership, CreatePurchase, UnlockCheckout, ShowInvoice, LeavePress
  <2>3. CASE Crash(p)
    BY <2>1, <2>3 DEF Crash
  <2> QED
    BY <2>1, <2>2, <2>3
<1>2. throttle = p /\ press[p].with = {}
  BY <1>1 DEF ThrottleInv, ThrottleOK, Underway
<1>3. \A q \in Presses \ {p} : ~Underway(q)
  BY <1>2 DEF ThrottleInv, ThrottleOK
<1>4. \E j : Goes(p, j) /\ j.with = {} /\ (j.pc = "done" \/ throttle' = throttle)
  <2>1. CASE ReadProduct(p) \/ CheckOwned(p)
    BY <1>1, <1>2, <2>1 DEF ReadProduct, CheckOwned, OnlyThePressMoves, Press
  <2>2. CASE CheckProduct(p) \/ CheckOwnership(p)
    BY <1>1, <1>2, <2>2 DEF CheckProduct, CheckOwnership, OnlyThePressMoves, Press
  <2>3. CASE CreateInvoice(p) \/ LockCheckout(p)
    BY <1>1, <1>2, <2>3 DEF CreateInvoice, LockCheckout, Press
  <2>4. CASE CreatePurchase(p)
    BY <1>1, <1>2, <2>4 DEF CreatePurchase, Press
  <2>5. CASE UnlockCheckout(p) \/ ShowInvoice(p)
    BY <1>1, <1>2, <2>5 DEF UnlockCheckout, ShowInvoice, Press
  <2>6. CASE LeavePress(p) \/ Crash(p)
    BY <1>1, <1>2, <2>6 DEF LeavePress, Crash, Press
  <2> QED
    BY <2>1, <2>2, <2>3, <2>4, <2>5, <2>6 DEF PressStep
<1>5. PICK j : Goes(p, j) /\ j.with = {} /\ (j.pc = "done" \/ throttle' = throttle)
  BY <1>4
<1>6. press'[p] = j /\ \A q \in Presses \ {p} : press'[q] = press[q]
  BY <1>5 DEF Goes, CheckoutInv, TypeOK
<1>7. ThrottleOK(p)'
  BY <1>2, <1>5, <1>6 DEF ThrottleOK, Underway
<1>8. \A q \in Presses \ {p} : ThrottleOK(q)'
  BY <1>3, <1>6 DEF ThrottleInv, ThrottleOK, Underway
<1> QED
  BY <1>7, <1>8 DEF ThrottleInv

\* A press that gets the throttle met nobody.
LEMMA BeginKeepsThrottle ==
  ASSUME HandlersFit, CheckoutInv, ThrottleInv, NEW p \in Presses, NEW rail \in Rails,
         BeginPress(p, rail)
  PROVE  ThrottleInv'
<1>1. PICK first : first = [NoPress EXCEPT !.rail = rail, !.with = {q \in Presses : Underway(q)}]
  OBVIOUS
<1>2. first.inv = None /\ first.with = {q \in Presses : Underway(q)}
  BY <1>1 DEF NoPress
<1>3. CASE throttle = Free
  <2>1. {q \in Presses : Underway(q)} = {}
    BY <1>3 DEF ThrottleInv, ThrottleOK, HandlersFit
  <2>2. Goes(p, [first EXCEPT !.pc = "product"]) /\ throttle' = p
    BY <1>1, <1>3 DEF BeginPress, Enter
  <2>3. [first EXCEPT !.pc = "product"].with = {}
    BY <1>1, <2>1 DEF NoPress
  <2>4. press'[p].with = {} /\ \A q \in Presses \ {p} : press'[q] = press[q]
    BY <2>2, <2>3 DEF Goes, CheckoutInv, TypeOK
  <2> QED
    BY <2>1, <2>2, <2>4 DEF ThrottleInv, ThrottleOK, Underway
<1>4. CASE throttle # Free
  <2>1. PICK j : Goes(p, j) /\ j = [first EXCEPT !.pc = "done"] /\ throttle' = throttle
    BY <1>1, <1>4 DEF BeginPress, Enter
  <2>2. j.pc = "done" /\ j.inv = None
    BY <1>1, <2>1 DEF NoPress
  <2>3. press'[p] = j /\ \A q \in Presses \ {p} : press'[q] = press[q]
    BY <2>1 DEF Goes, CheckoutInv, TypeOK
  <2> QED
    BY <2>1, <2>2, <2>3 DEF ThrottleInv, ThrottleOK, Underway
<1> QED
  BY <1>3, <1>4

\* Nobody else takes the throttle from a press under way.
LEMMA StepKeepsThrottle ==
  ASSUME HandlersFit, CheckoutInv, ThrottleInv, [Next]_vars
  PROVE  ThrottleInv'
<1>1. CASE press' = press /\ \A p \in Presses : Underway(p) => throttle' = throttle
  BY <1>1 DEF ThrottleInv, ThrottleOK, Underway
<1>2. ASSUME NEW p \in Presses, PressStep(p) \/ Crash(p)
      PROVE  ThrottleInv'
  BY <1>2, PressKeepsThrottle
<1>3. ASSUME NEW p \in Presses, NEW rail \in Rails, BeginPress(p, rail)
      PROVE  ThrottleInv'
  BY <1>3, BeginKeepsThrottle
<1>4. ASSUME NEW i \in StarsInvoices, UpdateStep(i) \/ CrashUpdate(i)
      PROVE  press' = press /\ \A p \in Presses : Underway(p) => throttle' = throttle
  <2>1. press' = press /\ (throttle' = throttle \/ throttle \in {Free, i})
    BY <1>4 DEF UpdateStep, BeginUpdate, HandleUpdate, CrashUpdate, Enter, Exit
  <2>2. \A p \in Presses : Underway(p) => throttle \notin {Free, i}
    BY CheckoutSettings DEF ThrottleInv, ThrottleOK, HandlersFit, Invoices
  <2> QED
    BY <2>1, <2>2
<1>5. ASSUME NEW i \in Invoices,
             \/ AnswerPreCheckout(i) \/ AskPreCheckout(i) \/ CaptureStars(i)
             \/ SettleCrypto(i) \/ RefundStars(i)
      PROVE  press' = press /\ throttle' = throttle
  BY <1>5 DEF AnswerPreCheckout, AskPreCheckout, CaptureStars, SettleCrypto, RefundStars
<1>6. Admin \/ CheckoutExpires \/ UNCHANGED vars => press' = press /\ throttle' = throttle
  BY DEF Admin, UpdateProduct, CheckoutExpires, vars
<1>7. ThrottleExpires => press' = press /\ \A p \in Presses : ~Underway(p)
  BY DEF ThrottleExpires, ThrottleInv, ThrottleOK, HandlersFit
<1> QED
  BY <1>1, <1>2, <1>3, <1>4, <1>5, <1>6, <1>7 DEF Next, Buyer, Invoices

-----------------------------------------------------------------------------
(* The two locks.  A step leaves a lock and those inside it alone, or is   *)
(* one step of LockService.                                                *)

\* A token is none of the marks of a free or an orphaned key.
TokensAreTokens ==
  /\ Free \notin Presses \cup StarsInvoices
  /\ Orphan \notin Presses \cup StarsInvoices

\* The checkout key carries a press only while that press is in start_purchase.
CheckoutIsHeld == \A p \in Presses : checkout = p => p \in Starting

\* A press moves alone.
LEMMA OthersStand ==
  ASSUME TypeOK, NEW p \in Presses, NEW j, Goes(p, j), update' = update
  PROVE  /\ press'[p] = j
         /\ Handling' \ {p} = Handling \ {p}
         /\ Starting' \ {p} = Starting \ {p}
         /\ p \in Handling' <=> j.pc \notin {"idle", "done"}
         /\ p \in Starting' <=> j.pc \in {"check_product", "check_owned", "create", "unlock"}
  <1>1. press' = [press EXCEPT ![p] = j] /\ press \in [Presses -> Press]
    BY DEF Goes, TypeOK
  <1>2. press'[p] = j /\ \A q \in Presses \ {p} : press'[q] = press[q]
    BY <1>1
  <1>3. p \notin StarsInvoices
    BY CheckoutSettings DEF Invoices
  <1> QED
    BY <1>2, <1>3 DEF Handling, Starting, Underway

\* An update moves alone.
LEMMA OtherUpdatesStand ==
  ASSUME TypeOK, NEW i \in StarsInvoices, NEW u, update' = [update EXCEPT ![i] = u],
         press' = press
  PROVE  /\ Handling' \ {i} = Handling \ {i}
         /\ Starting' = Starting
         /\ i \in Handling' <=> u = "handling"
  <1>1. update'[i] = u /\ \A j \in StarsInvoices \ {i} : update'[j] = update[j]
    BY DEF TypeOK
  <1>2. i \notin Presses
    BY CheckoutSettings DEF Invoices
  <1> QED
    BY <1>1, <1>2 DEF Handling, Starting, Underway

\* What a step does to a lock whose key is k and whose clients are inside.
Stays(k, inside) == k' = k /\ inside' = inside

Takes(k, inside, x) == k = Free /\ k' = x /\ x \notin inside /\ inside' = inside \cup {x}

Leaves(k, inside, x) ==
  x \in inside /\ inside' = inside \ {x} /\ k' = IF k = x THEN Free ELSE k

Dies(k, inside, x) ==
  x \in inside /\ inside' = inside \ {x} /\ k' = IF k = x THEN Orphan ELSE k

RunsOut(k, inside) == k' = Free /\ inside' = inside

LEMMA PressMovesLocks ==
  ASSUME TypeOK, NEW p \in Presses, PressStep(p)
  PROVE  /\ Stays(throttle, Handling) \/ Leaves(throttle, Handling, p)
         /\ \/ Stays(checkout, Starting)
            \/ Takes(checkout, Starting, p)
            \/ Leaves(checkout, Starting, p)
  <1>1. press[p] \in Press /\ Underway(p)
    BY DEF PressStep, Underway, ReadProduct, CheckOwned, CreateInvoice, LockCheckout, TypeOK,
       CheckProduct, CheckOwnership, CreatePurchase, UnlockCheckout, ShowInvoice, LeavePress
  <1>2. p \in Handling /\ p \notin StarsInvoices
    BY <1>1, CheckoutSettings DEF Handling, Invoices
  <1>f. \A pc : [press[p] EXCEPT !.pc = pc].pc = pc
    BY <1>1 DEF Press
  <1>3. CASE ReadProduct(p) \/ CheckOwned(p) \/ CreateInvoice(p) \/ ShowInvoice(p)
    <2>1. \E j : /\ Goes(p, j)
                 /\ j.pc \in {"leave", "lock", "owned", "invoice"}
      <3>1. CASE ReadProduct(p)
        <4>1. PICK j : /\ \/ j = [press[p] EXCEPT !.pc = "leave"]
                          \/ \E x : \/ j = [press[p] EXCEPT !.price = x, !.pc = "lock"]
                                    \/ j = [press[p] EXCEPT !.price = x, !.pc = "owned"]
                       /\ Goes(p, j)
          BY <3>1 DEF ReadProduct
        <4> QED
          BY <1>1, <4>1 DEF Press
      <3>4. CASE CheckOwned(p)
        <4>1. PICK j : /\ \/ j = [press[p] EXCEPT !.pc = "leave"]
                          \/ j = [press[p] EXCEPT !.pc = "invoice"]
                       /\ Goes(p, j)
          BY <3>4 DEF CheckOwned
        <4> QED
          BY <1>1, <4>1 DEF Press
      <3>2. CASE CreateInvoice(p)
        <4>1. PICK j : /\ \/ j = [press[p] EXCEPT !.pc = "leave"]
                          \/ \E i : j = [press[p] EXCEPT !.inv = i, !.pc = "lock"]
                       /\ Goes(p, j)
          BY <3>2 DEF CreateInvoice
        <4> QED
          BY <1>1, <4>1 DEF Press
      <3>3. CASE ShowInvoice(p)
        BY <1>f, <3>3 DEF ShowInvoice
      <3> QED
        BY <1>3, <3>1, <3>2, <3>3, <3>4
    <2>2. UNCHANGED <<throttle, checkout, update>>
      BY <1>3 DEF ReadProduct, CheckOwned, CreateInvoice, ShowInvoice, OnlyThePressMoves, payments
    <2>3. p \notin Starting
      BY <1>3 DEF ReadProduct, CheckOwned, CreateInvoice, ShowInvoice, Starting
    <2> QED
      BY <1>2, <2>1, <2>2, <2>3, OthersStand DEF Stays
  <1>4. CASE CheckProduct(p) \/ CheckOwnership(p) \/ CreatePurchase(p)
    <2>1. \E j : Goes(p, j) /\ j.pc \in {"check_owned", "create", "unlock"}
      <3>1. CASE CheckProduct(p)
        <4>1. PICK j : /\ \/ \E x : j = [press[p] EXCEPT !.price = x, !.pc = "check_owned"]
                          \/ j = [press[p] EXCEPT !.pc = "unlock", !.inv = None]
                       /\ Goes(p, j)
          BY <3>1 DEF CheckProduct
        <4> QED
          BY <1>1, <4>1 DEF Press
      <3>2. CASE CheckOwnership(p)
        <4>1. PICK j : /\ \/ j = [press[p] EXCEPT !.pc = "create"]
                          \/ j = [press[p] EXCEPT !.pc = "unlock", !.inv = None]
                       /\ Goes(p, j)
          BY <3>2 DEF CheckOwnership
        <4> QED
          BY <1>1, <4>1 DEF Press
      <3>3. CASE CreatePurchase(p)
        <4>1. PICK j : /\ \E i : j = [press[p] EXCEPT !.inv = i, !.pc = "unlock"]
                       /\ Goes(p, j)
          BY <3>3 DEF CreatePurchase
        <4> QED
          BY <1>1, <4>1 DEF Press
      <3> QED
        BY <1>4, <3>1, <3>2, <3>3
    <2>2. UNCHANGED <<throttle, checkout, update>>
      BY <1>4 DEF CheckProduct, CheckOwnership, CreatePurchase, OnlyThePressMoves, payments
    <2>3. p \in Starting
      BY <1>4 DEF CheckProduct, CheckOwnership, CreatePurchase, Starting
    <2> QED
      BY <1>2, <2>1, <2>2, <2>3, OthersStand DEF Stays
  <1>5. CASE LockCheckout(p)
    <2>1. \E j : /\ Goes(p, j)
                 /\ \/ checkout = Free /\ checkout' = p /\ j.pc = "check_product"
                    \/ checkout' = checkout /\ j.pc = "leave"
      BY <1>f, <1>5 DEF LockCheckout
    <2>2. UNCHANGED <<throttle, update>> /\ p \notin Starting
      BY <1>5 DEF LockCheckout, payments, Starting
    <2> QED
      BY <1>2, <2>1, <2>2, OthersStand DEF Stays, Takes
  <1>6. CASE UnlockCheckout(p)
    <2>1. \E j : Goes(p, j) /\ j.pc \in {"show", "leave"}
      BY <1>f, <1>6 DEF UnlockCheckout
    <2>2. /\ UNCHANGED <<throttle, update>>
          /\ checkout' = IF checkout = p THEN Free ELSE checkout
          /\ p \in Starting
      BY <1>6 DEF UnlockCheckout, payments, Starting
    <2> QED
      BY <1>2, <2>1, <2>2, OthersStand DEF Stays, Leaves
  <1>7. CASE LeavePress(p)
    <2>1. \E j : Goes(p, j) /\ j.pc = "done"
      BY <1>f, <1>7 DEF LeavePress
    <2>2. /\ UNCHANGED <<checkout, update>>
          /\ throttle' = IF throttle = p THEN Free ELSE throttle
          /\ p \notin Starting
      BY <1>7 DEF LeavePress, Exit, payments, Starting
    <2> QED
      BY <1>2, <2>1, <2>2, OthersStand DEF Stays, Leaves
  <1> QED
    BY <1>3, <1>4, <1>5, <1>6, <1>7 DEF PressStep

\* A press that dies leaves both locks orphaned, if it had both.
LEMMA CrashMovesLocks ==
  ASSUME TypeOK, CheckoutIsHeld, NEW p \in Presses, Crash(p)
  PROVE  /\ Dies(throttle, Handling, p)
         /\ Stays(checkout, Starting) \/ Dies(checkout, Starting, p)
  <1>1. \E j : Goes(p, j) /\ j.pc = "done"
    BY DEF Crash, TypeOK, Press
  <1>2. /\ update' = update /\ p \in Handling /\ p \notin StarsInvoices
        /\ throttle' = IF throttle = p THEN Orphan ELSE throttle
        /\ checkout' = IF checkout = p THEN Orphan ELSE checkout
    BY CheckoutSettings DEF Crash, payments, Handling, Invoices
  <1>3. p \notin Starting => checkout # p
    BY DEF CheckoutIsHeld
  <1> QED
    BY <1>1, <1>2, <1>3, OthersStand DEF Stays, Dies

LEMMA BeginMovesLocks ==
  ASSUME TypeOK, NEW p \in Presses, NEW rail \in Rails, BeginPress(p, rail)
  PROVE  /\ Stays(throttle, Handling) \/ Takes(throttle, Handling, p)
         /\ Stays(checkout, Starting)
  <1>1. press[p].pc = "idle" /\ p \notin Handling /\ p \notin Starting
    BY CheckoutSettings DEF BeginPress, Handling, Underway, Starting, Invoices
  <1>2. \E j : /\ Goes(p, j)
               /\ \/ throttle = Free /\ throttle' = p /\ j.pc = "product"
                  \/ throttle' = throttle /\ j.pc = "done"
    <2>1. PICK first : /\ first = [NoPress EXCEPT !.rail = rail,
                                                 !.with = {q \in Presses : Underway(q)}]
                       /\ \/ throttle = Free /\ throttle' = p /\ Goes(p, [first EXCEPT !.pc = "product"])
                          \/ throttle' = throttle /\ Goes(p, [first EXCEPT !.pc = "done"])
      BY DEF BeginPress, Enter
    <2>2. \A pc : [first EXCEPT !.pc = pc].pc = pc
      BY <2>1 DEF NoPress
    <2> QED
      BY <2>1, <2>2
  <1>3. UNCHANGED <<checkout, update>>
    BY DEF BeginPress, payments
  <1> QED
    BY <1>1, <1>2, <1>3, OthersStand DEF Stays, Takes

LEMMA UpdateMovesLocks ==
  ASSUME TypeOK, NEW i \in StarsInvoices, UpdateStep(i) \/ CrashUpdate(i)
  PROVE  /\ \/ Stays(throttle, Handling)
            \/ Takes(throttle, Handling, i)
            \/ Leaves(throttle, Handling, i)
            \/ Dies(throttle, Handling, i)
         /\ Stays(checkout, Starting)
  <1>1. UNCHANGED <<press, checkout>>
    BY DEF UpdateStep, BeginUpdate, HandleUpdate, CrashUpdate
  <1>2. i \in Handling <=> update[i] = "handling"
    BY CheckoutSettings DEF Handling, Invoices
  <1>3. CASE BeginUpdate(i)
    <2>1. PICK u : /\ update' = [update EXCEPT ![i] = u]
                 /\ \/ throttle = Free /\ throttle' = i /\ u = "handling"
                    \/ throttle' = throttle /\ u = "throttled"
      BY <1>3 DEF BeginUpdate, Enter
    <2>2. i \notin Handling
      BY <1>2, <1>3 DEF BeginUpdate
    <2>3. /\ Handling' \ {i} = Handling \ {i}
          /\ Starting' = Starting
          /\ i \in Handling' <=> u = "handling"
      BY <1>1, <2>1, OtherUpdatesStand
    <2> QED
      BY <1>1, <2>1, <2>2, <2>3 DEF Stays, Takes
  <1>4. CASE HandleUpdate(i)
    <2>1. \E u : update' = [update EXCEPT ![i] = u] /\ u = "handled"
      BY <1>4 DEF HandleUpdate
    <2> QED
      BY <1>1, <1>2, <1>4, <2>1, OtherUpdatesStand DEF Stays, Leaves, HandleUpdate, Exit
  <1>5. CASE CrashUpdate(i)
    <2>1. \E u : update' = [update EXCEPT ![i] = u] /\ u = "lost"
      BY <1>5 DEF CrashUpdate
    <2> QED
      BY <1>1, <1>2, <1>5, <2>1, OtherUpdatesStand DEF Stays, Dies, CrashUpdate
  <1> QED
    BY <1>3, <1>4, <1>5 DEF UpdateStep

\* A captured payment is a message that no handler has seen yet.
LEMMA CaptureMovesNoLock ==
  ASSUME TypeOK, NEW i \in StarsInvoices, CaptureStars(i)
  PROVE  Stays(throttle, Handling) /\ Stays(checkout, Starting)
  <1>1. \A j \in StarsInvoices : update[j] = "handling" <=> update'[j] = "handling"
    BY DEF CaptureStars, TypeOK
  <1>2. press' = press /\ throttle' = throttle /\ checkout' = checkout
    BY DEF CaptureStars
  <1> QED
    BY <1>1, <1>2 DEF Stays, Handling, Starting, Underway

\* Every step of the model, seen by the two locks.
LEMMA StepMovesLocks ==
  ASSUME TypeOK, CheckoutIsHeld, [Next]_vars
  PROVE  /\ \/ Stays(throttle, Handling) \/ RunsOut(throttle, Handling)
            \/ \E x \in Presses \cup StarsInvoices :
                 \/ Takes(throttle, Handling, x)
                 \/ Leaves(throttle, Handling, x)
                 \/ Dies(throttle, Handling, x)
         /\ \/ Stays(checkout, Starting) \/ RunsOut(checkout, Starting)
            \/ \E p \in Presses :
                 \/ Takes(checkout, Starting, p)
                 \/ Leaves(checkout, Starting, p)
                 \/ Dies(checkout, Starting, p)
  <1>1. UNCHANGED <<press, update>> => Handling' = Handling /\ Starting' = Starting
    BY DEF Handling, Starting, Underway
  <1>2. ASSUME NEW p \in Presses, PressStep(p) \/ Crash(p)
               \/ \E rail \in Rails : BeginPress(p, rail)
        PROVE  /\ \/ Stays(throttle, Handling)
                  \/ Takes(throttle, Handling, p) \/ Leaves(throttle, Handling, p)
                  \/ Dies(throttle, Handling, p)
               /\ \/ Stays(checkout, Starting)
                  \/ Takes(checkout, Starting, p) \/ Leaves(checkout, Starting, p)
                  \/ Dies(checkout, Starting, p)
    BY <1>2, PressMovesLocks, CrashMovesLocks, BeginMovesLocks
  <1>3. ASSUME NEW i \in StarsInvoices, UpdateStep(i) \/ CrashUpdate(i)
        PROVE  /\ \/ Stays(throttle, Handling)
                  \/ Takes(throttle, Handling, i) \/ Leaves(throttle, Handling, i)
                  \/ Dies(throttle, Handling, i)
               /\ Stays(checkout, Starting)
    BY <1>3, UpdateMovesLocks
  <1>4. ASSUME NEW i \in StarsInvoices, CaptureStars(i)
        PROVE  Stays(throttle, Handling) /\ Stays(checkout, Starting)
    BY <1>4, CaptureMovesNoLock
  <1>5. ASSUME NEW i \in Invoices,
               AnswerPreCheckout(i) \/ AskPreCheckout(i) \/ SettleCrypto(i) \/ RefundStars(i)
        PROVE  Stays(throttle, Handling) /\ Stays(checkout, Starting)
    BY <1>1, <1>5
    DEF AnswerPreCheckout, AskPreCheckout, SettleCrypto, RefundStars, payments, Stays
  <1>6. CASE Admin \/ UNCHANGED vars
    BY <1>1, <1>6 DEF Admin, UpdateProduct, vars, payments, Stays
  <1>7. CASE ThrottleExpires \/ CheckoutExpires
    BY <1>1, <1>7 DEF ThrottleExpires, CheckoutExpires, payments, Stays, RunsOut
  <1> QED
    BY <1>2, <1>3, <1>4, <1>5, <1>6, <1>7 DEF Next, Buyer, Invoices

LEMMA CheckoutIsHeldIsKept ==
  ASSUME TypeOK, TokensAreTokens, CheckoutIsHeld, [Next]_vars
  PROVE  CheckoutIsHeld'
  <1>1. \/ Stays(checkout, Starting) \/ RunsOut(checkout, Starting)
        \/ \E p \in Presses :
             \/ Takes(checkout, Starting, p)
             \/ Leaves(checkout, Starting, p)
             \/ Dies(checkout, Starting, p)
    BY StepMovesLocks
  <1> QED
    BY <1>1 DEF TokensAreTokens, CheckoutIsHeld, Stays, RunsOut, Takes, Leaves, Dies

\* What moves a lock so is a step of LockService.
LEMMA ThrottleFollowsContract ==
  ASSUME TypeOK, TokensAreTokens,
         \/ Stays(throttle, Handling) \/ RunsOut(throttle, Handling)
         \/ \E x \in Presses \cup StarsInvoices :
              \/ Takes(throttle, Handling, x)
              \/ Leaves(throttle, Handling, x)
              \/ Dies(throttle, Handling, x)
  PROVE  [ThrottleLock!Next]_ThrottleLock!vars
  <1> DEFINE Clients == Presses \cup StarsInvoices
             Taken   == IF throttle = Free THEN {} ELSE {"key"}
             Inside  == [x \in Clients |-> IF x \in Handling THEN "key" ELSE "none"]
             Owners  == {x \in Handling : throttle = x}
  <1>h. Handling \subseteq Clients /\ Handling' \subseteq Clients
    BY DEF Handling
  <1>t. Free \notin Clients /\ Orphan \notin Clients /\ Free # Orphan
    BY DEF TokensAreTokens, Free, Orphan
  <1>1. CASE Stays(throttle, Handling)
    BY <1>1 DEF Stays, ThrottleLock!vars
  <1>2. CASE RunsOut(throttle, Handling)
    <2>1. Taken' = {} /\ Owners' = {}
      BY <1>2, <1>t, <1>h DEF RunsOut
    <2>2. Inside' = Inside
      BY <1>2 DEF RunsOut
    <2> QED
      BY <2>1, <2>2 DEF ThrottleLock!Next, ThrottleLock!Expire
  <1>3. ASSUME NEW x \in Clients, Takes(throttle, Handling, x)
        PROVE  ThrottleLock!Acquire(x, "key")
    <2>1. Inside[x] = "none" /\ "key" \notin Taken
      BY <1>3 DEF Takes
    <2>2. Taken' = Taken \cup {"key"}
      BY <1>3, <1>t DEF Takes
    <2>3. Inside' = [Inside EXCEPT ![x] = "key"]
      BY <1>3, <1>h DEF Takes
    <2>4. Owners' = Owners \cup {x}
      BY <1>3, <1>t, <1>h DEF Takes
    <2> QED
      BY <2>1, <2>2, <2>3, <2>4 DEF ThrottleLock!Acquire
  <1>4. ASSUME NEW x \in Clients, Leaves(throttle, Handling, x)
        PROVE  ThrottleLock!Release(x)
    <2>1. Inside[x] = "key"
      BY <1>4 DEF Leaves
    <2>2. Taken' = IF x \in Owners THEN Taken \ {Inside[x]} ELSE Taken
      BY <1>4, <1>t, <2>1 DEF Leaves
    <2>3. Inside' = [Inside EXCEPT ![x] = "none"]
      BY <1>4, <1>h DEF Leaves
    <2>4. Owners' = Owners \ {x}
      BY <1>4, <1>t, <1>h DEF Leaves
    <2> QED
      BY <2>1, <2>2, <2>3, <2>4 DEF ThrottleLock!Release
  <1>5. ASSUME NEW x \in Clients, Dies(throttle, Handling, x)
        PROVE  ThrottleLock!Die(x)
    <2>1. Inside[x] = "key"
      BY <1>5 DEF Dies
    <2>2. Taken' = Taken
      BY <1>5, <1>t DEF Dies
    <2>3. Inside' = [Inside EXCEPT ![x] = "none"]
      BY <1>5, <1>h DEF Dies
    <2>4. Owners' = Owners \ {x}
      BY <1>5, <1>t, <1>h DEF Dies
    <2> QED
      BY <2>1, <2>2, <2>3, <2>4 DEF ThrottleLock!Die
  <1> QED
    BY <1>1, <1>2, <1>3, <1>4, <1>5 DEF ThrottleLock!Next

LEMMA CheckoutFollowsContract ==
  ASSUME TypeOK, TokensAreTokens,
         \/ Stays(checkout, Starting) \/ RunsOut(checkout, Starting)
         \/ \E x \in Presses :
              \/ Takes(checkout, Starting, x)
              \/ Leaves(checkout, Starting, x)
              \/ Dies(checkout, Starting, x)
  PROVE  [CheckoutLock!Next]_CheckoutLock!vars
  <1> DEFINE Clients == Presses
             Taken   == IF checkout = Free THEN {} ELSE {"key"}
             Inside  == [x \in Clients |-> IF x \in Starting THEN "key" ELSE "none"]
             Owners  == {x \in Starting : checkout = x}
  <1>h. Starting \subseteq Clients /\ Starting' \subseteq Clients
    BY DEF Starting
  <1>t. Free \notin Clients /\ Orphan \notin Clients /\ Free # Orphan
    BY DEF TokensAreTokens, Free, Orphan
  <1>1. CASE Stays(checkout, Starting)
    BY <1>1 DEF Stays, CheckoutLock!vars
  <1>2. CASE RunsOut(checkout, Starting)
    <2>1. Taken' = {} /\ Owners' = {}
      BY <1>2, <1>t, <1>h DEF RunsOut
    <2>2. Inside' = Inside
      BY <1>2 DEF RunsOut
    <2> QED
      BY <2>1, <2>2 DEF CheckoutLock!Next, CheckoutLock!Expire
  <1>3. ASSUME NEW x \in Clients, Takes(checkout, Starting, x)
        PROVE  CheckoutLock!Acquire(x, "key")
    <2>1. Inside[x] = "none" /\ "key" \notin Taken
      BY <1>3 DEF Takes
    <2>2. Taken' = Taken \cup {"key"}
      BY <1>3, <1>t DEF Takes
    <2>3. Inside' = [Inside EXCEPT ![x] = "key"]
      BY <1>3, <1>h DEF Takes
    <2>4. Owners' = Owners \cup {x}
      BY <1>3, <1>t, <1>h DEF Takes
    <2> QED
      BY <2>1, <2>2, <2>3, <2>4 DEF CheckoutLock!Acquire
  <1>4. ASSUME NEW x \in Clients, Leaves(checkout, Starting, x)
        PROVE  CheckoutLock!Release(x)
    <2>1. Inside[x] = "key"
      BY <1>4 DEF Leaves
    <2>2. Taken' = IF x \in Owners THEN Taken \ {Inside[x]} ELSE Taken
      BY <1>4, <1>t, <2>1 DEF Leaves
    <2>3. Inside' = [Inside EXCEPT ![x] = "none"]
      BY <1>4, <1>h DEF Leaves
    <2>4. Owners' = Owners \ {x}
      BY <1>4, <1>t, <1>h DEF Leaves
    <2> QED
      BY <2>1, <2>2, <2>3, <2>4 DEF CheckoutLock!Release
  <1>5. ASSUME NEW x \in Clients, Dies(checkout, Starting, x)
        PROVE  CheckoutLock!Die(x)
    <2>1. Inside[x] = "key"
      BY <1>5 DEF Dies
    <2>2. Taken' = Taken
      BY <1>5, <1>t DEF Dies
    <2>3. Inside' = [Inside EXCEPT ![x] = "none"]
      BY <1>5, <1>h DEF Dies
    <2>4. Owners' = Owners \ {x}
      BY <1>5, <1>t, <1>h DEF Dies
    <2> QED
      BY <2>1, <2>2, <2>3, <2>4 DEF CheckoutLock!Die
  <1> QED
    BY <1>1, <1>2, <1>3, <1>4, <1>5 DEF CheckoutLock!Next

-----------------------------------------------------------------------------
(* Theorems.                                                               *)

\* Every variable keeps its type, and exactly the rows that exist have an
\* amount: CheckProduct has a price in hand when the purchase is created.
THEOREM TypeCorrect == Spec => []TypeOK
<1>1. CheckoutInv => TypeOK
  BY DEF CheckoutInv
<1> QED
  BY <1>1, CheckoutInvHolds, PTL

\* start_crypto_checkout and start_purchase bill a buyer only if there was a
\* moment of the press at which the buyer did not own the product.
THEOREM OwnersAreNeverBilled == Spec => []OwnersAreNotBilled
<1>1. CheckoutInv => OwnersAreNotBilled
  BY DEF CheckoutInv, PressesSawUnowned, Unowned, OwnersAreNotBilled
<1> QED
  BY <1>1, CheckoutInvHolds, PTL

\* An invoice in front of the buyer has its purchase row, and a Stars invoice
\* asks for the amount of that row, whatever the admin does to the price.
THEOREM ShownIsRecorded == Spec => []ShownInvoicesAreRecorded
<1>1. CheckoutInv => ShownInvoicesAreRecorded
  BY DEF CheckoutInv
<1> QED
  BY <1>1, CheckoutInvHolds, PTL

\* handle_pre_checkout approves only after it saw the product on sale and the
\* buyer without it since that query began.
THEOREM CapturesAreJustified == Spec => []ChargesAreJustified
<1>1. CheckoutInv => ChargesAreJustified
  BY DEF CheckoutInv, QueriesOK, QueryOK, ChargesAreJustified, Captured
<1> QED
  BY <1>1, CheckoutInvHolds, PTL

\* While handlers fit in the throttle window ThrottleMiddleware lets one of two
\* overlapping presses through: crashes included, two never both end with an
\* invoice.
THEOREM OneInvoice == HandlersFit => (Spec => []OneInvoicePerOverlap)
<1> SUFFICES ASSUME HandlersFit
             PROVE  Spec => []OneInvoicePerOverlap
  OBVIOUS
<1>1. Init => ThrottleInv
  BY DEF Init, ThrottleInv, ThrottleOK, Underway, NoPress
<1>2. CheckoutInv /\ ThrottleInv /\ [Next]_vars => ThrottleInv'
  BY StepKeepsThrottle
<1>3. ThrottleInv => OneInvoicePerOverlap
  BY DEF ThrottleInv, ThrottleOK, OneInvoicePerOverlap
<1> QED
  BY <1>1, <1>2, <1>3, CheckoutInvHolds, PTL DEF Spec

\* ThrottleMiddleware and start_purchase use their locks as LockManager's contract
\* allows, on any schedule and with keys that expire under their holders: an update
\* enters with a free key, and leaves once, whether its block ends well, in an
\* exception or with its process; leaving late frees nobody else's key.
THEOREM CheckoutUsesTheContract ==
  ASSUME TokensAreTokens
  PROVE  Spec => UsesLockService
<1>1. Init => ThrottleLock!Init /\ CheckoutLock!Init /\ CheckoutIsHeld
  <2> SUFFICES ASSUME Init
               PROVE  ThrottleLock!Init /\ CheckoutLock!Init /\ CheckoutIsHeld
    OBVIOUS
  <2>1. /\ \A p \in Presses : press[p].pc = "idle"
        /\ \A i \in StarsInvoices : update[i] = "none"
        /\ throttle = Free /\ checkout = Free
    BY DEF Init, NoPress
  <2>2. Handling = {} /\ Starting = {}
    BY <2>1 DEF Handling, Underway, Starting
  <2> QED
    BY <2>1, <2>2 DEF ThrottleLock!Init, CheckoutLock!Init, CheckoutIsHeld, TokensAreTokens
<1>2. TypeOK /\ CheckoutIsHeld /\ [Next]_vars =>
        /\ CheckoutIsHeld'
        /\ [ThrottleLock!Next]_ThrottleLock!vars
        /\ [CheckoutLock!Next]_CheckoutLock!vars
  BY StepMovesLocks, CheckoutIsHeldIsKept, ThrottleFollowsContract, CheckoutFollowsContract
<1> QED
  BY <1>1, <1>2, TypeCorrect, PTL
  DEF Spec, UsesLockService, ThrottleLock!Spec, CheckoutLock!Spec
=============================================================================
