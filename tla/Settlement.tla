----------------------------- MODULE Settlement -----------------------------
(***************************************************************************)
(* From money at the provider to a link in the buyer's chat.               *)
(*                                                                         *)
(* Several asynchronous tasks of the bot and API processes settle the same *)
(* purchases: the Telegram update handler, the Crypto Pay webhook, the     *)
(* reconciliation loop, the panel's "verify" and "resend" buttons and a    *)
(* repeated /start.  They share PostgreSQL rows and Redis locks, and every *)
(* await is a point where another task may run, so each action below is    *)
(* what a task does between two awaits:                                    *)
(*                                                                         *)
(*   pay_lock -> read -> mark_paid -> pay_unlock          confirm_payment  *)
(*     -> deliver_lock -> load -> send* -> mark_delivered -> deliver_unlock*)
(*                                                               _deliver  *)
(*                                                                         *)
(* confirm_payment finds the row (get_by_external_id) before mark_paid     *)
(* locks it (SELECT ... FOR UPDATE) in the same transaction.  The first    *)
(* statement only tells whether there is a row: it is mapped to a domain   *)
(* object and the session keeps nothing of it alive, so that mark_paid     *)
(* decides on the row as it is under the lock.  A delivery, on the other   *)
(* hand, sends what its first transaction read and writes in a second one. *)
(***************************************************************************)
EXTENDS Naturals, FiniteSets

CONSTANTS
  Invoices, Copies, Charges, Links, None,   \* as in PurchaseLedger
  StarsInvoices,   \* invoices of the Stars rail; the others are Crypto Pay's
  Workers,         \* concurrent tasks
  Reconciler,      \* the task that runs ReconciliationWorker.run_forever
  MaxAttempts,     \* DELIVERY_MAX_ATTEMPTS
  Tasks,           \* which kinds of work an instance contains
  Faults,          \* which faults an instance contains
  MaxCrashes       \* how many tasks may die with their process

TaskKinds == {"notify", "reconcile", "verify", "redeliver",
              "refund", "housekeeping", "rotate"}

\* "db": a transaction raises.  "ack_lost": Telegram accepted a message but the
\* answer was lost.  "ttl": a lock's lifetime ends while its holder still works.
FaultKinds == {"db", "ack_lost", "ttl"}

ASSUME ConfigurationIsValid ==
  /\ StarsInvoices \subseteq Invoices
  /\ Reconciler \in Workers
  /\ MaxAttempts \in Nat \ {0}
  /\ Tasks \subseteq TaskKinds
  /\ Faults \subseteq FaultKinds
  /\ MaxCrashes \in Nat

VARIABLES
  rows,       \* the purchases table
  lock,       \* Redis: lock[k] is the token under key k
  job,        \* job[w]: what task w is doing
  link,       \* link[c]: the product's delivery_url right now
  money,      \* <<invoice, charge>> pairs the providers have captured
  received,   \* links the buyer received for an invoice
  sends,      \* messages sent by settlements of an invoice: 0, 1, 2 (or more)
  crashes     \* how many tasks have died

vars == <<rows, lock, job, link, money, received, sends, crashes>>

Ledger == INSTANCE PurchaseLedger

CryptoInvoices == Invoices \ StarsInvoices

\* payment_lock_key and delivery_lock_key.
LockKeys == {"pay", "deliver"} \X Invoices

\* Where a task outside both locked sections is.
NoSection == <<"none", None>>

\* Orphan is the token of a crashed task: only its TTL removes it.
Free   == "free"
Orphan == "orphan"

Idle == [pc |-> "idle", kind |-> "none", inv |-> None, charge |-> None,
         view |-> Ledger!NoRow, url |-> None, tries |-> 0, queue |-> {},
         ok |-> FALSE]

Pcs == {"idle", "poll", "next", "ask", "pay_lock", "read", "mark_paid",
        "pay_unlock", "deliver_lock", "load", "send", "mark_delivered",
        "deliver_unlock"}

Job == [pc     : Pcs,
        kind   : {"none", "settle", "reconcile", "redeliver"},
        inv    : Invoices \cup {None},
        charge : Charges \cup {None},
        view   : Ledger!Row,              \* the row this task delivers, as it read it
        url    : Links \cup {None},       \* the link this task is sending
        tries  : 0..MaxAttempts,
        queue  : SUBSET CryptoInvoices,   \* reconciliation: still to be settled
        ok     : BOOLEAN]                 \* did confirm_payment succeed

Captured(i) == \E m \in money : m[1] = i

-----------------------------------------------------------------------------
(* The buyer, the providers and the admin.                                 *)

\* A payment button created the invoice and its PENDING row (see Checkout); the
\* buyer is shown how to pay only after the row is committed.
StartPurchase(i, c) ==
  /\ ~Captured(i)
  /\ Ledger!Create(i, c)
  /\ UNCHANGED <<lock, job, link, money, received, sends, crashes>>

\* The provider captures a payment.  A Stars invoice never expires and carries
\* a fresh charge id; a Crypto Pay invoice has the row's own lifetime, and the
\* Crypto Pay app may also be paid for an invoice the shop never recorded.
Capture(i, ch) ==
  /\ IF i \in StarsInvoices
     THEN /\ ch # None /\ \A m \in money : m[2] # ch
          /\ rows[i].status # "absent"
     ELSE ch = None /\ ~rows[i].stale /\ ~Captured(i)
  /\ money' = money \cup {<<i, ch>>}
  /\ UNCHANGED <<rows, lock, job, link, received, sends, crashes>>

\* The admin rotates a product's delivery_url.
RotateLink(c, u) ==
  /\ "rotate" \in Tasks
  /\ link[c] # u
  /\ link' = [link EXCEPT ![c] = u]
  /\ UNCHANGED <<rows, lock, job, money, received, sends, crashes>>

\* handle_refunded_payment: get_by_charge_id and mark_refunded in one
\* transaction; the refund of a charge no row carries is only logged.
Refund(i) ==
  /\ "refund" \in Tasks
  /\ rows[i].charge # None
  /\ Ledger!MarkRefunded(i)
  /\ UNCHANGED <<lock, job, link, money, received, sends, crashes>>

\* HousekeepingWorker.run_once, and the time that makes a row stale.
Housekeeping ==
  /\ "housekeeping" \in Tasks
  /\ Ledger!ExpirePending
  /\ UNCHANGED <<lock, job, link, money, received, sends, crashes>>

GrowStale(i) ==
  /\ "housekeeping" \in Tasks
  /\ Ledger!GrowStale(i)
  /\ UNCHANGED <<lock, job, link, money, received, sends, crashes>>

-----------------------------------------------------------------------------
(* Where a task comes from.                                                *)

Moves(w, j) == job' = [job EXCEPT ![w] = j]

OnlyJobsMove == UNCHANGED <<rows, lock, link, money, received, sends, crashes>>

\* successful_payment update or invoice_paid webhook: any number of times, at
\* any delay, or never.
Notified(w, m) ==
  /\ "notify" \in Tasks /\ w # Reconciler
  /\ job[w].pc = "idle"
  /\ m \in money
  /\ Moves(w, [Idle EXCEPT !.pc = "pay_lock", !.kind = "settle",
                           !.inv = m[1], !.charge = m[2]])
  /\ OnlyJobsMove

\* verify_payment: what the stored status asks for.
VerifyPlan(i) ==
  LET r == rows[i]
      settling == [Idle EXCEPT !.kind = "settle", !.inv = i]
  IN  CASE r.status = "paid" -> [settling EXCEPT !.pc = "deliver_lock"]
        [] r.status \in {"pending", "expired"} /\ i \in CryptoInvoices ->
             [settling EXCEPT !.pc = "ask"]
        [] r.status \in {"pending", "expired"} /\ i \in StarsInvoices /\ r.charge # None ->
             [settling EXCEPT !.pc = "pay_lock", !.charge = r.charge]
        [] OTHER -> Idle

Verify(w, i) ==
  /\ "verify" \in Tasks /\ w # Reconciler
  /\ job[w].pc = "idle"
  /\ VerifyPlan(i) # Idle
  /\ Moves(w, VerifyPlan(i))
  /\ OnlyJobsMove

\* redeliver: a repeated /start, a pay press on an owned product, or "resend".
Redeliver(w, i) ==
  /\ "redeliver" \in Tasks /\ w # Reconciler
  /\ job[w].pc = "idle"
  /\ rows[i].status # "absent"
  /\ Moves(w, [Idle EXCEPT !.pc = "deliver_lock", !.kind = "redeliver", !.inv = i])
  /\ OnlyJobsMove

\* Deviation: the loop lists the pending purchases of the other rail.
ListPendingOfStars(w) ==
  LET pending == {i \in StarsInvoices : rows[i].status = "pending"}
  IN  /\ "reconcile" \in Tasks /\ w = Reconciler
      /\ job[w].pc = "idle"
      /\ pending # {}
      /\ Moves(w, [Idle EXCEPT !.pc = "poll", !.kind = "reconcile", !.queue = pending])
      /\ OnlyJobsMove

\* ReconciliationWorker.run_once: list_pending(CRYPTO).  The batch limit is not
\* modelled: the instance's invoices fit in one batch.
ListPending(w) ==
  LET pending == {i \in CryptoInvoices : rows[i].status = "pending"}
  IN  /\ "reconcile" \in Tasks /\ w = Reconciler
      /\ job[w].pc = "idle"
      /\ pending # {}
      /\ Moves(w, [Idle EXCEPT !.pc = "poll", !.kind = "reconcile", !.queue = pending])
      /\ OnlyJobsMove

\* fetch_states answers: the PAID invoices are settled one after the other.
StatesFetched(w) ==
  /\ job[w].pc = "poll"
  /\ Moves(w, [job[w] EXCEPT !.pc = "next", !.queue = {i \in @ : Captured(i)}])
  /\ OnlyJobsMove

\* Crypto Pay is unreachable: the iteration is given up.
StatesUnavailable(w) ==
  /\ job[w].pc = "poll"
  /\ Moves(w, Idle)
  /\ OnlyJobsMove

SettleNext(w) ==
  /\ job[w].pc = "next"
  /\ IF job[w].queue = {} THEN Moves(w, Idle)
     ELSE \E i \in job[w].queue :
            Moves(w, [job[w] EXCEPT !.pc = "pay_lock", !.inv = i, !.queue = @ \ {i}])
  /\ OnlyJobsMove

\* Deviation: any answer of Crypto Pay counts as PAID.
AskProviderTrusting(w) ==
  /\ job[w].pc = "ask"
  /\ \/ Moves(w, [job[w] EXCEPT !.pc = "pay_lock"])
     \/ Moves(w, Idle)
  /\ OnlyJobsMove

\* _verify_crypto: settle when Crypto Pay says PAID, report anything else.
AskProvider(w) ==
  /\ job[w].pc = "ask"
  /\ \/ Captured(job[w].inv) /\ Moves(w, [job[w] EXCEPT !.pc = "pay_lock"])
     \/ Moves(w, Idle)
  /\ OnlyJobsMove

-----------------------------------------------------------------------------
(* RedisLockManager, as the two services use it.                           *)

\* A task that is done: the loop goes on with its batch, the others return.
Done(j) == IF j.kind = "reconcile" THEN [Idle EXCEPT !.pc = "next", !.kind = "reconcile",
                                                   !.queue = j.queue]
           ELSE Idle

\* Deviation: SET without NX.
AcquireWithoutNX(w, k, pc) ==
  /\ lock' = [lock EXCEPT ![k] = w]
  /\ Moves(w, [job[w] EXCEPT !.pc = pc])
  /\ UNCHANGED <<rows, link, money, received, sends, crashes>>

\* SET NX PX succeeded.
Acquire(w, k, pc) ==
  /\ lock[k] = Free
  /\ lock' = [lock EXCEPT ![k] = w]
  /\ Moves(w, [job[w] EXCEPT !.pc = pc])
  /\ UNCHANGED <<rows, link, money, received, sends, crashes>>

\* LockBusyError: every caller logs it and gives up this settlement.
GiveUp(w, k) ==
  /\ lock[k] # Free
  /\ Moves(w, Done(job[w]))
  /\ OnlyJobsMove

\* Deviation: the key is deleted whatever it holds.
ReleaseBlindly(w, k, j) ==
  /\ lock' = [lock EXCEPT ![k] = Free]
  /\ Moves(w, j)
  /\ UNCHANGED <<rows, link, money, received, sends, crashes>>

\* Compare-and-delete: a lock that expired and was taken by another task stays.
Release(w, k, j) ==
  /\ lock' = [lock EXCEPT ![k] = IF @ = w THEN Free ELSE @]
  /\ Moves(w, j)
  /\ UNCHANGED <<rows, link, money, received, sends, crashes>>

\* Deviation: locks without a TTL.
LockNeverExpires(k) ==
  /\ lock[k] \in Workers /\ "ttl" \in Faults
  /\ lock' = [lock EXCEPT ![k] = Free]
  /\ UNCHANGED <<rows, job, link, money, received, sends, crashes>>

\* The TTL fires: always for an orphan, for a living holder only as a fault.
LockExpires(k) ==
  /\ lock[k] = Orphan \/ (lock[k] \in Workers /\ "ttl" \in Faults)
  /\ lock' = [lock EXCEPT ![k] = Free]
  /\ UNCHANGED <<rows, job, link, money, received, sends, crashes>>

-----------------------------------------------------------------------------
(* confirm_payment                                                         *)

PayKey(w) == <<"pay", job[w].inv>>

AcquirePay(w) == job[w].pc = "pay_lock" /\ Acquire(w, PayKey(w), "read")

\* The lock stayed busy for PAYMENT_CONFIRMATION_WAIT_SECONDS.
PayBusy(w) == job[w].pc = "pay_lock" /\ GiveUp(w, PayKey(w))

\* get_by_external_id finds the row; PurchaseNotFoundError if there is none.
ReadInvoice(w) ==
  /\ job[w].pc = "read"
  /\ Moves(w, [job[w] EXCEPT !.pc = IF rows[job[w].inv].status = "absent"
                                    THEN "pay_unlock" ELSE "mark_paid"])
  /\ OnlyJobsMove

\* Deviation: the charge id is not stored with the payment.
PaidRowWithoutCharge(i, ch) ==
  IF rows[i].status \in Ledger!AccessGranting THEN rows[i]
  ELSE [rows[i] EXCEPT !.status = "paid", !.paidAt = TRUE]

\* The row mark_paid writes: a replay fills in a missing charge, anything else that
\* is not refused becomes paid.
PaidRow(i, ch) ==
  IF rows[i].status \in Ledger!AccessGranting
  THEN [rows[i] EXCEPT !.charge = IF @ = None THEN ch ELSE @]
  ELSE [rows[i] EXCEPT !.status = "paid", !.paidAt = TRUE,
                       !.charge = Ledger!ChargeAfter(rows[i], ch)]

\* Deviation: mark_paid does not refuse a refunded purchase.
PayRefusedForgettingRefunds(i, ch) ==
  \/ ~Ledger!OnlyPaidCopy(i)
  \/ ~Ledger!OnlyCarrier(i, PaidRow(i, ch).charge)

\* Deviation: no unique index on the paid copies.
PayRefusedWithoutIndex(i, ch) ==
  \/ rows[i].status = "refunded"
  \/ ~Ledger!OnlyCarrier(i, PaidRow(i, ch).charge)

\* What makes mark_paid raise: REFUNDED, a second paid copy, a known charge.
PayRefused(i, ch) ==
  \/ rows[i].status = "refunded"
  \/ rows[i].status \in {"pending", "expired"} /\ ~Ledger!OnlyPaidCopy(i)
  \/ ~Ledger!OnlyCarrier(i, PaidRow(i, ch).charge)

MarkPaid(w) ==
  LET i == job[w].inv
      refused == PayRefused(i, job[w].charge)
  IN  /\ job[w].pc = "mark_paid"
      /\ rows' = IF refused THEN rows
                 ELSE [rows EXCEPT ![i] = PaidRow(i, job[w].charge)]
      /\ Moves(w, [job[w] EXCEPT !.pc = "pay_unlock", !.ok = ~refused])
      /\ UNCHANGED <<lock, link, money, received, sends, crashes>>

ReleasePay(w) ==
  /\ job[w].pc = "pay_unlock"
  /\ Release(w, PayKey(w), IF job[w].ok THEN [job[w] EXCEPT !.pc = "deliver_lock"]
                           ELSE Done(job[w]))

-----------------------------------------------------------------------------
(* _deliver                                                                *)

DeliverKey(w) == <<"deliver", job[w].inv>>

AcquireDeliver(w) == job[w].pc = "deliver_lock" /\ Acquire(w, DeliverKey(w), "load")

DeliverBusy(w) == job[w].pc = "deliver_lock" /\ GiveUp(w, DeliverKey(w))

\* Deviation: deliver_purchase does not skip a DELIVERED purchase.
MustSendAgain(r, kind) == r.status \in Ledger!AccessGranting

\* _load_context, then the two checks on what it read.
MustSend(r, kind) ==
  /\ r.status \in Ledger!AccessGranting
  /\ r.status = "delivered" => kind = "redeliver"

Load(w) ==
  LET r == rows[job[w].inv]
  IN  /\ job[w].pc = "load"
      /\ Moves(w, IF MustSend(r, job[w].kind)
                  THEN [job[w] EXCEPT !.pc = "send", !.view = r, !.url = link[r.copy]]
                  ELSE [job[w] EXCEPT !.pc = "deliver_unlock"])
      /\ OnlyJobsMove

\* The buyer sees the message.
Arrives(w) ==
  LET i == job[w].inv
  IN  /\ received' = [received EXCEPT ![i] = @ \cup {job[w].url}]
      /\ sends' = IF job[w].kind = "redeliver" \/ sends[i] = 2 THEN sends
                  ELSE [sends EXCEPT ![i] = @ + 1]

\* A transient failure: retried until MaxAttempts is spent.
Retry(w) ==
  LET n == job[w].tries + 1
  IN  Moves(w, [job[w] EXCEPT !.tries = n,
                              !.pc = IF n = MaxAttempts THEN "deliver_unlock" ELSE @])

SendSucceeds(w) ==
  /\ job[w].pc = "send"
  /\ Arrives(w)
  /\ Moves(w, [job[w] EXCEPT !.pc = IF job[w].view.status = "delivered"
                                    THEN "deliver_unlock" ELSE "mark_delivered"])
  /\ UNCHANGED <<rows, lock, link, money, crashes>>

SendFails(w) ==
  /\ job[w].pc = "send"
  /\ Retry(w)
  /\ OnlyJobsMove

\* DeliveryPermanentError: the buyer blocked the bot, no retry.
SendRefused(w) ==
  /\ job[w].pc = "send"
  /\ Moves(w, [job[w] EXCEPT !.pc = "deliver_unlock"])
  /\ OnlyJobsMove

\* A time-out after Telegram accepted the message looks like a failure.
SendAckLost(w) ==
  /\ "ack_lost" \in Faults
  /\ job[w].pc = "send"
  /\ Arrives(w)
  /\ Retry(w)
  /\ UNCHANGED <<rows, lock, link, money, crashes>>

\* Deviation: the product's current link is recorded, not the one sent.
RecordDeliveryOfCurrentLink(w) ==
  LET i == job[w].inv
  IN  /\ job[w].pc = "mark_delivered"
      /\ \/ Ledger!MarkDelivered(i, link[rows[i].copy])
         \/ rows[i].status # "paid" /\ UNCHANGED rows
      /\ Moves(w, [job[w] EXCEPT !.pc = "deliver_unlock"])
      /\ UNCHANGED <<lock, link, money, received, sends, crashes>>

\* mark_delivered: ConflictError when the row is not PAID any more.
RecordDelivery(w) ==
  LET i == job[w].inv
  IN  /\ job[w].pc = "mark_delivered"
      /\ \/ Ledger!MarkDelivered(i, job[w].url)
         \/ rows[i].status # "paid" /\ UNCHANGED rows
      /\ Moves(w, [job[w] EXCEPT !.pc = "deliver_unlock"])
      /\ UNCHANGED <<lock, link, money, received, sends, crashes>>

ReleaseDeliver(w) ==
  job[w].pc = "deliver_unlock" /\ Release(w, DeliverKey(w), Done(job[w]))

-----------------------------------------------------------------------------
(* Faults.                                                                 *)

\* The process dies: the open transaction rolls back, the locks stay.
Crash(w) ==
  /\ crashes < MaxCrashes
  /\ job[w].pc # "idle"
  /\ crashes' = crashes + 1
  /\ Moves(w, Idle)
  /\ lock' = [k \in LockKeys |-> IF lock[k] = w THEN Orphan ELSE lock[k]]
  /\ UNCHANGED <<rows, link, money, received, sends>>

\* A transaction raises: the unit of work rolls back, `finally` releases.  It is no
\* AppError, so run_once does not go on to the rest of its batch.
TransactionFails(w) ==
  /\ "db" \in Faults
  /\ \/ /\ job[w].pc \in {"read", "mark_paid"}
        /\ Moves(w, [job[w] EXCEPT !.pc = "pay_unlock", !.queue = {}])
     \/ /\ job[w].pc \in {"load", "mark_delivered"}
        /\ Moves(w, [job[w] EXCEPT !.pc = "deliver_unlock", !.queue = {}])
  /\ OnlyJobsMove

-----------------------------------------------------------------------------
Init ==
  /\ Ledger!Init
  /\ lock = [k \in LockKeys |-> Free]
  /\ job = [w \in Workers |-> Idle]
  /\ link \in [Copies -> Links]
  /\ money = {}
  /\ received = [i \in Invoices |-> {}]
  /\ sends = [i \in Invoices |-> 0]
  /\ crashes = 0

Environment ==
  \/ \E i \in Invoices, c \in Copies : StartPurchase(i, c)
  \/ \E i \in Invoices, ch \in Charges \cup {None} : Capture(i, ch)
  \/ \E c \in Copies, u \in Links : RotateLink(c, u)
  \/ \E i \in Invoices : Refund(i)
  \/ Housekeeping
  \/ \E i \in Invoices : GrowStale(i)

Begin(w) ==
  \/ \E m \in money : Notified(w, m)
  \/ \E i \in Invoices : Verify(w, i)
  \/ \E i \in Invoices : Redeliver(w, i)
  \/ ListPending(w)

\* What a task that has begun does by itself.
Step(w) ==
  \/ StatesFetched(w) \/ StatesUnavailable(w) \/ SettleNext(w) \/ AskProvider(w)
  \/ AcquirePay(w) \/ PayBusy(w) \/ ReadInvoice(w) \/ MarkPaid(w) \/ ReleasePay(w)
  \/ AcquireDeliver(w) \/ DeliverBusy(w) \/ Load(w)
  \/ SendSucceeds(w) \/ SendFails(w) \/ SendRefused(w) \/ SendAckLost(w)
  \/ RecordDelivery(w) \/ ReleaseDeliver(w)

Next ==
  \/ Environment
  \/ \E w \in Workers : Begin(w) \/ Step(w) \/ Crash(w) \/ TransactionFails(w)
  \/ \E k \in LockKeys : LockExpires(k)

Spec == Init /\ [][Next]_vars

(* Fairness.  Tasks run on an event loop and every await returns: each task  *)
(* that has begun goes on (WF), and an orphaned key expires (WF).  The loop  *)
(* polls on a fixed interval for ever (WF), so an outage of Crypto Pay or a  *)
(* busy lock does not meet it every time it comes round (SF).  Nothing is    *)
(* assumed of the buyer, the webhooks, the admin or housekeeping.            *)
Fairness ==
  /\ \A w \in Workers : WF_vars(Step(w))
  /\ \A k \in LockKeys : WF_vars(lock[k] = Orphan /\ LockExpires(k))
  /\ WF_vars(ListPending(Reconciler))
  /\ SF_vars(StatesFetched(Reconciler))
  /\ SF_vars(AcquirePay(Reconciler))

FairSpec == Spec /\ Fairness

-----------------------------------------------------------------------------
(* Correctness.                                                            *)

\* Every variable holds a value of its type.
TypeOK ==
  /\ Ledger!TypeOK
  /\ lock \in [LockKeys -> Workers \cup {Free, Orphan}]
  /\ job \in [Workers -> Job]
  /\ link \in [Copies -> Links]
  /\ money \subseteq Invoices \X (Charges \cup {None})
  /\ received \in [Invoices -> SUBSET Links]
  /\ sends \in [Invoices -> 0..2]
  /\ crashes \in 0..MaxCrashes

\* The concurrent tasks, with their separate reads, locks and writes, change
\* the table only as the repository's atomic transactions would, even when a lock
\* has expired under its holder and transactions fail: settlement implements the
\* ledger, so a refund stays final and a payment is never lost.
ImplementsLedger == Ledger!Spec

\* Where a task is inside confirm_payment's or _deliver's locked section.
Section(w) ==
  IF job[w].pc \in {"read", "mark_paid", "pay_unlock"} THEN PayKey(w)
  ELSE IF job[w].pc \in {"load", "send", "mark_delivered", "deliver_unlock"} THEN DeliverKey(w)
  ELSE NoSection

Locks == INSTANCE LockService WITH
  Clients <- Workers,
  Keys    <- LockKeys,
  NoKey   <- NoSection,
  taken   <- {k \in LockKeys : lock[k] # Free},
  inside  <- [w \in Workers |-> Section(w)],
  owners  <- {w \in Workers : Section(w) # NoSection /\ lock[Section(w)] = w}

\* The tasks use locks as LockManager's contract allows, which RedisLocks implements:
\* a section is entered with a free key and left once, also by an exception, a crash
\* or after the key expired.
UsesLockService == Locks!Spec

\* A buyer never holds two paid copies, whichever mix of webhook, Stars update,
\* reconciliation and verify settles the competing invoices.
OneOwnedCopy == Ledger!OneOwnedCopy

\* A link reaches a buyer only for an invoice whose money the provider captured
\* and whose payment the ledger still shows.
NoLinkWithoutMoney ==
  \A i \in Invoices : received[i] # {} => Captured(i) /\ rows[i].paidAt

\* The recorded charge is the one Telegram captured for this very invoice, and
\* a paid Stars purchase always carries one: it can be refunded by charge id.
ChargeIsReal ==
  \A i \in Invoices :
    /\ rows[i].charge # None => <<i, rows[i].charge>> \in money
    /\ i \in StarsInvoices /\ rows[i].paidAt => rows[i].charge # None

\* delivered_url is a link this buyer did receive, even when the admin rotates
\* the product's link between the send and the write.
RecordedLinkWasReceived ==
  \A i \in Invoices : rows[i].url # None => rows[i].url \in received[i]

\* While locks outlive the work they guard, two tasks are never inside
\* _deliver's locked section, nor inside confirm_payment's, for one purchase.
Inside(w, i, pcs) == job[w].pc \in pcs /\ job[w].inv = i

LocksExclude ==
  \A v, w \in Workers, i \in Invoices :
    /\ Inside(v, i, {"load", "send", "mark_delivered"})
         /\ Inside(w, i, {"load", "send", "mark_delivered"}) => v = w
    /\ Inside(v, i, {"read", "mark_paid"}) /\ Inside(w, i, {"read", "mark_paid"}) => v = w

\* "A replayed notification confirms nothing new and delivers nothing twice":
\* however often and through however many tasks a payment is settled, its buyer
\* gets one delivery message.
DeliversOnce == \A i \in Invoices : sends[i] <= 1

\* A crypto payment whose webhook is lost is settled by the reconciliation loop:
\* the row of a captured invoice eventually grants access (or was refunded, or
\* another invoice already gave the buyer this copy).
Settled(i) ==
  \/ rows[i].status \in Ledger!AccessGranting \cup {"refunded"}
  \/ ~Ledger!OnlyPaidCopy(i)

LostWebhookIsSettled ==
  \A i \in CryptoInvoices :
    (Captured(i) /\ rows[i].status # "absent") ~> Settled(i)

\* A crashed task blocks nobody: every lock left behind is free again, and every
\* task that has begun ends.
NobodyBlocksForEver ==
  /\ \A k \in LockKeys : (lock[k] = Orphan) ~> (lock[k] # Orphan)
  /\ \A w \in Workers \ {Reconciler} : (job[w].pc # "idle") ~> (job[w].pc = "idle")
=============================================================================
