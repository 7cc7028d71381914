--------------------------- MODULE PurchaseLedger ---------------------------
(***************************************************************************)
(* The `purchases` table and what the repository promises about it.        *)
(*                                                                         *)
(* Each action is one committed transaction of SqlAlchemyPurchaseRepository*)
(* that changes a row.  A transaction that raises (a refunded purchase     *)
(* paid again, a second paid copy, a charge already recorded) is rolled    *)
(* back by the unit of work, so it is a stuttering step here.              *)
(*                                                                         *)
(* This module is the abstract specification: Settlement, which reads and  *)
(* writes the same rows from concurrent workers holding Redis locks, is    *)
(* checked to implement it.                                                *)
(***************************************************************************)
EXTENDS Naturals

CONSTANTS
  Invoices,   \* (provider, external_id) pairs; an invoice identifies its row
  Copies,     \* (user_id, product_id) pairs
  Charges,    \* Telegram payment charge ids
  Links,      \* delivery URLs
  None        \* SQL NULL

\* NULL is not a value of any nullable column.
ASSUME NoneIsNull == None \notin Charges \cup Links \cup Copies

VARIABLE rows   \* rows[i]: the purchase recorded for invoice i, if any

Statuses == {"pending", "paid", "delivered", "refunded", "expired"}

\* ACCESS_GRANTING_STATUSES: the buyer owns the product.
AccessGranting == {"paid", "delivered"}

Row == [status : Statuses \cup {"absent"},
        copy   : Copies \cup {None},
        charge : Charges \cup {None},   \* telegram_charge_id
        paidAt : BOOLEAN,               \* paid_at IS NOT NULL
        url    : Links \cup {None},     \* delivered_url (and delivered_at)
        stale  : BOOLEAN]               \* created_at < now - invoice_ttl

NoRow == [status |-> "absent", copy |-> None, charge |-> None,
          paidAt |-> FALSE, url |-> None, stale |-> FALSE]

Owns(i) == rows[i].status \in AccessGranting

-----------------------------------------------------------------------------
(* The constraints PostgreSQL enforces when a transaction writes.          *)

\* Deviation: the partial index covers PAID rows only.
OnlyPaidCopyForgetsDelivered(i) ==
  \A j \in Invoices \ {i} : ~(rows[j].status = "paid" /\ rows[j].copy = rows[i].copy)

\* uq_purchases_user_product_paid, for row i about to grant access.
OnlyPaidCopy(i) ==
  \A j \in Invoices \ {i} : ~(Owns(j) /\ rows[j].copy = rows[i].copy)

\* Deviation: the charge index covers access-granting rows only.
OnlyCarrierAmongOwned(i, ch) ==
  ch # None => \A j \in Invoices \ {i} : ~(Owns(j) /\ rows[j].charge = ch)

\* uq_purchases_telegram_charge_id, for row i about to carry charge ch.
OnlyCarrier(i, ch) ==
  ch # None => \A j \in Invoices \ {i} : rows[j].charge # ch

\* CHECK paid_at_present.
PaidAtPresent(r) == r.status \in {"absent", "pending", "expired"} \/ r.paidAt

\* CHECK delivery_complete.
DeliveryComplete(r) == r.status = "delivered" => r.url # None

-----------------------------------------------------------------------------
Init == rows = [i \in Invoices |-> NoRow]

\* create: a new PENDING row.  uq_purchases_provider_external_id refuses a
\* second row for the invoice.
Create(i, c) ==
  /\ rows[i].status = "absent"
  /\ rows' = [rows EXCEPT ![i] = [NoRow EXCEPT !.status = "pending", !.copy = c]]

\* What mark_paid stores of a charge: a NULL argument keeps what is there.
ChargeAfter(r, ch) == IF ch = None THEN r.charge ELSE ch

\* Deviation: mark_paid without its REFUNDED branch.
MarkPaidRevivingRefund(i, ch) ==
  /\ rows[i].status \in {"pending", "expired", "refunded"}
  /\ OnlyPaidCopy(i)
  /\ OnlyCarrier(i, ch)
  /\ rows' = [rows EXCEPT ![i] = [@ EXCEPT !.status = "paid",
                                         !.paidAt = TRUE,
                                         !.charge = ChargeAfter(rows[i], ch)]]

\* mark_paid on a PENDING or EXPIRED row: money that arrives late is honoured.
MarkPaid(i, ch) ==
  /\ rows[i].status \in {"pending", "expired"}
  /\ OnlyPaidCopy(i)
  /\ OnlyCarrier(i, ch)
  /\ rows' = [rows EXCEPT ![i] = [@ EXCEPT !.status = "paid",
                                         !.paidAt = TRUE,
                                         !.charge = ChargeAfter(rows[i], ch)]]

\* Deviation: a replay overwrites the charge already recorded.
ReplayPaidOverwriting(i, ch) ==
  /\ Owns(i)
  /\ ch # None /\ rows[i].charge # ch
  /\ OnlyCarrier(i, ch)
  /\ rows' = [rows EXCEPT ![i].charge = ch]

\* mark_paid on a PAID or DELIVERED row: a replay only fills a missing charge.
ReplayPaid(i, ch) ==
  /\ Owns(i)
  /\ ch # None /\ rows[i].charge = None
  /\ OnlyCarrier(i, ch)
  /\ rows' = [rows EXCEPT ![i].charge = ch]

\* mark_delivered: only a PAID row moves; a DELIVERED one is left as it is.
MarkDelivered(i, u) ==
  /\ rows[i].status = "paid"
  /\ rows' = [rows EXCEPT ![i] = [@ EXCEPT !.status = "delivered", !.url = u]]

\* mark_refunded: any row, as long as CHECK paid_at_present lets it through.
MarkRefunded(i) ==
  /\ rows[i].status \in Statuses \ {"refunded"}
  /\ PaidAtPresent([rows[i] EXCEPT !.status = "refunded"])
  /\ rows' = [rows EXCEPT ![i].status = "refunded"]

\* expire_pending: one UPDATE over every PENDING row older than the TTL.
Expirable == {i \in Invoices : rows[i].status = "pending" /\ rows[i].stale}

ExpirePending ==
  /\ Expirable # {}
  /\ rows' = [i \in Invoices |-> IF i \in Expirable
                                 THEN [rows[i] EXCEPT !.status = "expired"]
                                 ELSE rows[i]]

\* Time passes: a row becomes older than the invoice lifetime.
GrowStale(i) ==
  /\ rows[i].status = "pending" /\ ~rows[i].stale
  /\ rows' = [rows EXCEPT ![i].stale = TRUE]

Next ==
  \/ \E i \in Invoices, c \in Copies : Create(i, c)
  \/ \E i \in Invoices, ch \in Charges \cup {None} : MarkPaid(i, ch)
  \/ \E i \in Invoices, ch \in Charges : ReplayPaid(i, ch)
  \/ \E i \in Invoices, u \in Links : MarkDelivered(i, u)
  \/ \E i \in Invoices : MarkRefunded(i)
  \/ ExpirePending
  \/ \E i \in Invoices : GrowStale(i)

Spec == Init /\ [][Next]_rows

-----------------------------------------------------------------------------
(* Correctness.                                                            *)

\* Every column holds a value of its type.
TypeOK == rows \in [Invoices -> Row]

\* A buyer holds at most one paid copy of a product, whichever of several
\* competing invoices (Stars and USDT, two presses) was paid and in whatever
\* order refunds free the copy again: find_access_granting's scalar_one_or_none
\* never meets two rows.
OneOwnedCopy ==
  \A i, j \in Invoices :
    Owns(i) /\ Owns(j) /\ rows[i].copy = rows[j].copy => i = j

\* A Telegram charge is recorded by at most one purchase, so that the refund of
\* that charge (get_by_charge_id) revokes exactly one.
ChargeRecordedOnce ==
  \A i, j \in Invoices :
    rows[i].charge # None /\ rows[i].charge = rows[j].charge => i = j

\* A row that carries a charge id has been paid.  refund_by_charge_id relies on
\* it (a refund never trips CHECK paid_at_present), and so does verify_payment:
\* a pending or expired Stars purchase never holds payment evidence.
ChargeMeansPaid ==
  \A i \in Invoices :
    rows[i].charge # None =>
      rows[i].paidAt /\ rows[i].status \in AccessGranting \cup {"refunded"}

\* The CHECK constraints, and that a URL is recorded only by a delivery, hold
\* of every committed row although only two of the writers set the columns.
ChecksHold ==
  \A i \in Invoices :
    /\ PaidAtPresent(rows[i])
    /\ DeliveryComplete(rows[i])
    /\ rows[i].url # None => rows[i].status \in {"delivered", "refunded"}

\* A refunded purchase can never be re-paid, expired or delivered: no writer,
\* late notification or housekeeping pass moves the row again.
RefundIsFinal ==
  [][\A i \in Invoices : rows[i].status = "refunded" => rows'[i] = rows[i]]_rows

\* Money once recorded is never forgotten: paid_at, the charge and the
\* delivered URL are never cleared or replaced, and a row that granted access
\* leaves that only through a refund.
PaymentIsNeverForgotten ==
  [][\A i \in Invoices :
       /\ rows[i].paidAt => rows'[i].paidAt
       /\ rows[i].charge # None => rows'[i].charge = rows[i].charge
       /\ rows[i].url # None => rows'[i].url = rows[i].url
       /\ Owns(i) => rows'[i].status \in AccessGranting \cup {"refunded"}]_rows
=============================================================================
