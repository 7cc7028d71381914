-------------------------- MODULE SettlementProofs --------------------------
(***************************************************************************)
(* Machine-checked proofs about Settlement, for any number of tasks,       *)
(* invoices, copies, attempts and crashes, and with every fault: failing   *)
(* transactions, lost acknowledgements and locks that expire under their   *)
(* holders.                                                                *)
(*                                                                         *)
(* What the reads, writes and constraints give by themselves comes first   *)
(* and uses no lock.  RowInv says what a row promises, JobInv what a task  *)
(* may rely on between two awaits; neither is inductive without the other. *)
(* The refinement of the ledger rests on them alone, because mark_paid     *)
(* decides on the row that it has locked.                                  *)
(*                                                                         *)
(* LocksAlwaysExclude and OneMessagePerPayment show what the Redis locks   *)
(* add.  While no lock expires under its holder, a task inside a locked    *)
(* section owns the section's key (Holds), so that two tasks never meet in *)
(* one, whatever crashes or fails.  If nothing crashes or fails either, a  *)
(* settlement sends one message for a payment: at any moment, either no    *)
(* message was sent for a paid row, or the task that sent it still holds   *)
(* the delivery lock and is about to record it (SentOK).                   *)
(***************************************************************************)
EXTENDS Settlement, TLAPS

AccessGranting == Ledger!AccessGranting

Paying     == {"pay_lock", "read", "mark_paid"}
Sending    == {"send", "mark_delivered"}
Nameless   == {"idle", "poll", "next"}
BeforeSend == Pcs \ {"send", "mark_delivered", "deliver_unlock"}

\* Stars captures carry a charge id, Crypto Pay's do not.
MoneyInv == \A m \in money : (m[1] \in StarsInvoices) <=> (m[2] # None)

\* A row's payment, charge, link and messages rest on captured money.
RowOK(i) ==
  /\ rows[i].status = "absent" => ~rows[i].paidAt
  /\ rows[i].status # "absent" => rows[i].copy \in Copies
  /\ rows[i].status \in AccessGranting => rows[i].paidAt
  /\ rows[i].paidAt => Captured(i) /\ (i \in StarsInvoices => rows[i].charge # None)
  /\ rows[i].charge # None => rows[i].paidAt /\ <<i, rows[i].charge>> \in money
  /\ rows[i].url # None => rows[i].url \in received[i]
  /\ received[i] # {} => rows[i].paidAt

RowInv == \A i \in Invoices : RowOK(i)

\* A task that is about to pay holds captured money; one that has read an
\* access-granting row knows that the row stays paid; one that is about to
\* record a delivery has sent that very link.
JobOK(w) ==
  /\ job[w].pc \notin Nameless => job[w].inv \in Invoices
  /\ job[w].pc \in Nameless \cup {"ask"} => job[w].charge = None
  /\ job[w].pc = "ask" => job[w].inv \in CryptoInvoices
  /\ job[w].pc \in Paying => <<job[w].inv, job[w].charge>> \in money
  /\ job[w].pc # "poll" => \A i \in job[w].queue : <<i, None>> \in money
  /\ job[w].pc = "mark_paid" => rows[job[w].inv].status # "absent"
  /\ job[w].pc \in Sending => job[w].view.status \in AccessGranting /\ job[w].url \in Links
  /\ job[w].pc \in Sending => rows[job[w].inv].paidAt
  /\ job[w].pc = "mark_delivered" => job[w].url \in received[job[w].inv]
  /\ job[w].pc \in BeforeSend => job[w].tries = 0
  /\ job[w].pc = "send" => job[w].tries < MaxAttempts

JobInv == \A w \in Workers : JobOK(w)

\* The inductive invariant.
SettlementInv ==
  /\ TypeOK
  /\ MoneyInv
  /\ RowInv
  /\ JobInv
  /\ OneOwnedCopy

-----------------------------------------------------------------------------
(* Types.                                                                  *)

\* The idle job is well formed.
LEMMA IdleIsAJob == Idle \in Job
  BY ConfigurationIsValid DEF Idle, Job, Pcs, Ledger!NoRow, Ledger!Row, Ledger!Statuses

\* So is a job that is done.
LEMMA DoneIsAJob ==
  ASSUME NEW j \in Job
  PROVE  Done(j) \in Job
  BY IdleIsAJob DEF Done, Job, Pcs, Idle

\* The specification starts in a state of its types.
LEMMA InitIsTyped == Init => TypeOK
  BY IdleIsAJob, ConfigurationIsValid
  DEF Init, TypeOK, Ledger!Init, Ledger!TypeOK, Ledger!NoRow, Ledger!Row, Ledger!Statuses

\* A table in which one row of the right type is written is still a table.
LEMMA WritingARow ==
  ASSUME Ledger!TypeOK, NEW i \in Invoices, NEW r \in Ledger!Row
  PROVE  [rows EXCEPT ![i] = r] \in [Invoices -> Ledger!Row]
  BY DEF Ledger!TypeOK

\* A step that only writes the table keeps the types if it writes rows.
LEMMA OnlyRowsMoveIsTyped ==
  ASSUME TypeOK, rows' \in [Invoices -> Ledger!Row],
         UNCHANGED <<lock, job, link, money, received, sends, crashes>>
  PROVE  TypeOK'
  BY DEF TypeOK, Ledger!TypeOK

\* What the outside world does keeps the types.
LEMMA EnvironmentIsTyped == TypeOK /\ Environment => TypeOK'
  <1> SUFFICES ASSUME TypeOK, Environment
               PROVE  TypeOK'
    OBVIOUS
  <1>r. rows \in [Invoices -> Ledger!Row] /\ Ledger!TypeOK
    BY DEF TypeOK, Ledger!TypeOK
  <1>1. ASSUME NEW i \in Invoices, NEW c \in Copies, StartPurchase(i, c)
        PROVE  TypeOK'
    <2>1. [Ledger!NoRow EXCEPT !.status = "pending", !.copy = c] \in Ledger!Row
      BY DEF Ledger!NoRow, Ledger!Row, Ledger!Statuses
    <2>2. rows' \in [Invoices -> Ledger!Row]
      BY <1>1, <1>r, <2>1, WritingARow DEF StartPurchase, Ledger!Create
    <2> QED
      BY <1>1, <2>2, OnlyRowsMoveIsTyped DEF StartPurchase
  <1>2. ASSUME NEW i \in Invoices, NEW ch \in Charges \cup {None}, Capture(i, ch)
        PROVE  TypeOK'
    BY <1>2 DEF Capture, TypeOK, Ledger!TypeOK
  <1>3. ASSUME NEW c \in Copies, NEW u \in Links, RotateLink(c, u)
        PROVE  TypeOK'
    BY <1>3 DEF RotateLink, TypeOK, Ledger!TypeOK
  <1>4. ASSUME NEW i \in Invoices, Refund(i)
        PROVE  TypeOK'
    <2>1. [rows[i] EXCEPT !.status = "refunded"] \in Ledger!Row
      BY <1>r DEF Ledger!Row, Ledger!Statuses
    <2>2. rows' = [rows EXCEPT ![i] = [rows[i] EXCEPT !.status = "refunded"]]
      BY <1>4, <1>r DEF Refund, Ledger!MarkRefunded
    <2>3. rows' \in [Invoices -> Ledger!Row]
      BY <1>r, <2>1, <2>2, WritingARow
    <2> QED
      BY <1>4, <2>3, OnlyRowsMoveIsTyped DEF Refund
  <1>5. CASE Housekeeping
    <2>1. \A k \in Invoices : [rows[k] EXCEPT !.status = "expired"] \in Ledger!Row
      BY <1>r DEF Ledger!Row, Ledger!Statuses
    <2>2. rows' \in [Invoices -> Ledger!Row]
      BY <1>5, <1>r, <2>1 DEF Housekeeping, Ledger!ExpirePending
    <2> QED
      BY <1>5, <2>2, OnlyRowsMoveIsTyped DEF Housekeeping
  <1>6. ASSUME NEW i \in Invoices, GrowStale(i)
        PROVE  TypeOK'
    <2>1. [rows[i] EXCEPT !.stale = TRUE] \in Ledger!Row
      BY <1>r DEF Ledger!Row
    <2>2. rows' = [rows EXCEPT ![i] = [rows[i] EXCEPT !.stale = TRUE]]
      BY <1>6, <1>r DEF GrowStale, Ledger!GrowStale
    <2>3. rows' \in [Invoices -> Ledger!Row]
      BY <1>r, <2>1, <2>2, WritingARow
    <2> QED
      BY <1>6, <2>3, OnlyRowsMoveIsTyped DEF GrowStale
  <1> QED
    BY <1>1, <1>2, <1>3, <1>4, <1>5, <1>6 DEF Environment

\* Whatever starts a task gives it a job.
LEMMA BeginIsTyped ==
  ASSUME TypeOK, NEW w \in Workers, Begin(w)
  PROVE  TypeOK'
  <1>1. ASSUME NEW m \in money, Notified(w, m)
        PROVE  TypeOK'
    <2>1. [Idle EXCEPT !.pc = "pay_lock", !.kind = "settle",
                       !.inv = m[1], !.charge = m[2]] \in Job
      <3>1. m[1] \in Invoices /\ m[2] \in Charges \cup {None}
        BY <1>1 DEF TypeOK
      <3> QED
        BY <3>1, IdleIsAJob DEF Job, Pcs
    <2> QED
      BY <1>1, <2>1 DEF Notified, TypeOK, Ledger!TypeOK, OnlyJobsMove, Moves
  <1>2. ASSUME NEW i \in Invoices, Verify(w, i)
        PROVE  TypeOK'
    <2>1. VerifyPlan(i) \in Job
      <3>1. rows[i].charge \in Charges \cup {None}
        BY DEF TypeOK, Ledger!TypeOK, Ledger!Row
      <3> QED
        BY <3>1, IdleIsAJob DEF VerifyPlan, Job, Pcs
    <2> QED
      BY <1>2, <2>1 DEF Verify, TypeOK, Ledger!TypeOK, OnlyJobsMove, Moves
  <1>3. ASSUME NEW i \in Invoices, Redeliver(w, i)
        PROVE  TypeOK'
    <2>1. [Idle EXCEPT !.pc = "deliver_lock", !.kind = "redeliver", !.inv = i] \in Job
      BY IdleIsAJob DEF Job, Pcs
    <2> QED
      BY <1>3, <2>1 DEF Redeliver, TypeOK, Ledger!TypeOK, OnlyJobsMove, Moves
  <1>4. CASE ListPending(w)
    <2> DEFINE pending == {i \in CryptoInvoices : rows[i].status = "pending"}
    <2>1. [Idle EXCEPT !.pc = "poll", !.kind = "reconcile", !.queue = pending] \in Job
      BY IdleIsAJob DEF Job, Pcs
    <2> QED
      BY <1>4, <2>1 DEF ListPending, TypeOK, Ledger!TypeOK, OnlyJobsMove, Moves
  <1> QED
    BY <1>1, <1>2, <1>3, <1>4 DEF Begin

\* A step that only moves jobs keeps the types if it moves to a job.
LEMMA OnlyJobsMoveIsTyped ==
  ASSUME TypeOK, OnlyJobsMove, job' \in [Workers -> Job]
  PROVE  TypeOK'
  BY DEF TypeOK, Ledger!TypeOK, OnlyJobsMove

\* Taking a lock to go on at pc keeps the types.
LEMMA AcquireIsTyped ==
  ASSUME TypeOK, NEW w \in Workers, NEW k \in LockKeys, NEW pc \in Pcs, Acquire(w, k, pc)
  PROVE  TypeOK'
  <1>1. [job[w] EXCEPT !.pc = pc] \in Job
    BY DEF TypeOK, Job
  <1> QED
    BY <1>1 DEF Acquire, Moves, TypeOK, Ledger!TypeOK

\* Giving up on a busy lock keeps the types.
LEMMA GiveUpIsTyped ==
  ASSUME TypeOK, NEW w \in Workers, NEW k \in LockKeys, GiveUp(w, k)
  PROVE  TypeOK'
  <1>1. Done(job[w]) \in Job
    BY DoneIsAJob DEF TypeOK
  <1> QED
    BY <1>1, OnlyJobsMoveIsTyped DEF GiveUp, Moves, TypeOK

\* The steps of confirm_payment and of the reconciliation loop keep the types.
LEMMA PayingIsTyped ==
  ASSUME TypeOK, NEW w \in Workers,
         \/ StatesFetched(w) \/ StatesUnavailable(w) \/ SettleNext(w) \/ AskProvider(w)
         \/ AcquirePay(w) \/ PayBusy(w) \/ ReadInvoice(w) \/ MarkPaid(w) \/ ReleasePay(w),
         JobOK(w)
  PROVE  TypeOK'
  <1>j. job[w] \in Job
    BY DEF TypeOK
  <1>k. job[w].inv \in Invoices => PayKey(w) \in LockKeys
    BY DEF PayKey, LockKeys
  <1>i. job[w].pc \notin Nameless => job[w].inv \in Invoices
    BY DEF JobOK
  <1>1. CASE StatesFetched(w)
    <2>1. [job[w] EXCEPT !.pc = "next", !.queue = {i \in @ : Captured(i)}] \in Job
      BY <1>j DEF Job, Pcs
    <2> QED
      BY <1>1, <2>1, OnlyJobsMoveIsTyped DEF StatesFetched, Moves, TypeOK
  <1>2. CASE StatesUnavailable(w)
    BY <1>2, IdleIsAJob, OnlyJobsMoveIsTyped DEF StatesUnavailable, Moves, TypeOK
  <1>3. CASE SettleNext(w)
    <2>1. ASSUME NEW i \in job[w].queue
          PROVE  [job[w] EXCEPT !.pc = "pay_lock", !.inv = i, !.queue = @ \ {i}] \in Job
      BY <1>j DEF Job, Pcs, CryptoInvoices
    <2> QED
      BY <1>3, <2>1, IdleIsAJob, OnlyJobsMoveIsTyped DEF SettleNext, Moves, TypeOK
  <1>4. CASE AskProvider(w)
    <2>1. [job[w] EXCEPT !.pc = "pay_lock"] \in Job
      BY <1>j DEF Job, Pcs
    <2> QED
      BY <1>4, <2>1, IdleIsAJob, OnlyJobsMoveIsTyped DEF AskProvider, Moves, TypeOK
  <1>5. CASE AcquirePay(w)
    BY <1>5, <1>k, <1>i, AcquireIsTyped DEF AcquirePay, Pcs, Nameless
  <1>6. CASE PayBusy(w)
    BY <1>6, <1>k, <1>i, GiveUpIsTyped DEF PayBusy, Nameless
  <1>7. CASE ReadInvoice(w)
    <2>1. \A pc \in Pcs : [job[w] EXCEPT !.pc = pc] \in Job
      BY <1>j DEF Job
    <2> QED
      BY <1>7, <2>1, OnlyJobsMoveIsTyped DEF ReadInvoice, Moves, TypeOK, Pcs
  <1>8. CASE MarkPaid(w)
    <2> DEFINE i == job[w].inv
    <2>1. i \in Invoices
      BY <1>8, <1>i DEF MarkPaid, Nameless
    <2>2. PaidRow(i, job[w].charge) \in Ledger!Row
      <3> DEFINE ch == job[w].charge
      <3>1. rows[i] \in Ledger!Row /\ ch \in Charges \cup {None}
        BY <1>j, <2>1 DEF Job, TypeOK, Ledger!TypeOK
      <3>2. \A c \in Charges \cup {None} : [rows[i] EXCEPT !.charge = c] \in Ledger!Row
        BY <3>1 DEF Ledger!Row
      <3>3. \A c \in Charges \cup {None} :
              [rows[i] EXCEPT !.status = "paid", !.paidAt = TRUE, !.charge = c] \in Ledger!Row
        BY <3>1 DEF Ledger!Row, Ledger!Statuses
      <3>4. rows[i].charge \in Charges \cup {None}
        BY <3>1 DEF Ledger!Row
      <3>5. CASE rows[i].status \in Ledger!AccessGranting
        <4>1. PaidRow(i, ch) =
                [rows[i] EXCEPT !.charge = IF rows[i].charge = None THEN ch ELSE rows[i].charge]
          BY <3>1, <3>5 DEF PaidRow, Ledger!Row
        <4> QED
          BY <3>1, <3>2, <3>4, <4>1
      <3>6. CASE rows[i].status \notin Ledger!AccessGranting
        <4>1. PaidRow(i, ch) =
                [rows[i] EXCEPT !.status = "paid", !.paidAt = TRUE,
                                !.charge = Ledger!ChargeAfter(rows[i], ch)]
          BY <3>6 DEF PaidRow
        <4>2. Ledger!ChargeAfter(rows[i], ch) \in Charges \cup {None}
          BY <3>1, <3>4 DEF Ledger!ChargeAfter
        <4> QED
          BY <3>3, <4>1, <4>2
      <3> QED
        BY <3>5, <3>6
    <2>3. \A b \in BOOLEAN : [job[w] EXCEPT !.pc = "pay_unlock", !.ok = b] \in Job
      BY <1>j DEF Job, Pcs
    <2>4. PayRefused(i, job[w].charge) \in BOOLEAN
      BY DEF PayRefused
    <2> QED
      BY <1>8, <2>1, <2>2, <2>3, <2>4 DEF MarkPaid, Moves, TypeOK, Ledger!TypeOK
  <1>9. CASE ReleasePay(w)
    <2>1. [job[w] EXCEPT !.pc = "deliver_lock"] \in Job
      BY <1>j DEF Job, Pcs
    <2>2. Done(job[w]) \in Job
      BY <1>j, DoneIsAJob
    <2> QED
      BY <1>9, <2>1, <2>2 DEF ReleasePay, Release, Moves, TypeOK, Ledger!TypeOK
  <1> QED
    BY <1>1, <1>2, <1>3, <1>4, <1>5, <1>6, <1>7, <1>8, <1>9

\* The steps of a delivery keep the types: its retries stay within MaxAttempts.
LEMMA DeliveringIsTyped ==
  ASSUME TypeOK, NEW w \in Workers, JobOK(w), RowInv,
         \/ AcquireDeliver(w) \/ DeliverBusy(w) \/ Load(w)
         \/ SendSucceeds(w) \/ SendFails(w) \/ SendRefused(w) \/ SendAckLost(w)
         \/ RecordDelivery(w) \/ ReleaseDeliver(w)
  PROVE  TypeOK'
  <1>j. job[w] \in Job
    BY DEF TypeOK
  <1>k. job[w].inv \in Invoices => DeliverKey(w) \in LockKeys
    BY DEF DeliverKey, LockKeys
  <1>i. job[w].pc \notin Nameless => job[w].inv \in Invoices
    BY DEF JobOK
  <1>p. \A pc \in Pcs : [job[w] EXCEPT !.pc = pc] \in Job
    BY <1>j DEF Job
  <1>s. job[w].pc = "send" => job[w].tries < MaxAttempts /\ job[w].url \in Links
    BY DEF JobOK, Sending
  <1>r. job[w].pc = "send" =>
          \A pc \in Pcs : [job[w] EXCEPT !.tries = job[w].tries + 1, !.pc = pc] \in Job
    <2>1. job[w].pc = "send" => job[w].tries + 1 \in 0..MaxAttempts
      <3>1. job[w].tries \in Nat /\ MaxAttempts \in Nat
        BY <1>j, ConfigurationIsValid DEF Job
      <3> QED
        BY <3>1, <1>s
    <2> QED
      BY <1>j, <2>1 DEF Job
  <1>a. job[w].pc = "send" /\ Arrives(w) =>
          received' \in [Invoices -> SUBSET Links] /\ sends' \in [Invoices -> 0..2]
    BY <1>i, <1>s DEF Arrives, TypeOK, Nameless
  <1>1. CASE AcquireDeliver(w)
    BY <1>1, <1>k, <1>i, AcquireIsTyped DEF AcquireDeliver, Pcs, Nameless
  <1>2. CASE DeliverBusy(w)
    BY <1>2, <1>k, <1>i, GiveUpIsTyped DEF DeliverBusy, Nameless
  <1>3. CASE Load(w)
    <2> DEFINE r == rows[job[w].inv]
    <2>1. r \in Ledger!Row
      BY <1>3, <1>i DEF Load, TypeOK, Ledger!TypeOK, Nameless
    <2>2. ASSUME MustSend(r, job[w].kind)
          PROVE  link[r.copy] \in Links
      BY <1>3, <1>i, <2>2
      DEF Load, MustSend, RowInv, RowOK, TypeOK, Ledger!AccessGranting, Nameless
    <2>3. ASSUME MustSend(r, job[w].kind)
          PROVE  [job[w] EXCEPT !.pc = "send", !.view = r, !.url = link[r.copy]] \in Job
      BY <1>j, <2>1, <2>2, <2>3 DEF Job, Pcs
    <2> QED
      BY <1>3, <2>3, <1>p, OnlyJobsMoveIsTyped DEF Load, Moves, TypeOK, Pcs
  <1>4. CASE SendSucceeds(w)
    BY <1>4, <1>p, <1>a DEF SendSucceeds, Moves, TypeOK, Ledger!TypeOK, Pcs
  <1>5. CASE SendFails(w)
    BY <1>5, <1>r, OnlyJobsMoveIsTyped DEF SendFails, Retry, Moves, TypeOK, Pcs
  <1>6. CASE SendRefused(w)
    BY <1>6, <1>p, OnlyJobsMoveIsTyped DEF SendRefused, Moves, TypeOK, Pcs
  <1>7. CASE SendAckLost(w)
    BY <1>7, <1>r, <1>a DEF SendAckLost, Retry, Moves, TypeOK, Ledger!TypeOK, Pcs
  <1>8. CASE RecordDelivery(w)
    <2>1. job[w].url \in Links
      BY <1>8 DEF RecordDelivery, JobOK, Sending
    <2>2. rows' \in [Invoices -> Ledger!Row]
      <3>1. rows \in [Invoices -> Ledger!Row] /\ job[w].inv \in Invoices
        BY <1>8, <1>i DEF RecordDelivery, TypeOK, Ledger!TypeOK, Nameless
      <3>2. rows[job[w].inv] \in Ledger!Row
        BY <3>1
      <3>3. [rows[job[w].inv] EXCEPT !.status = "delivered", !.url = job[w].url] \in Ledger!Row
        BY <3>2, <2>1 DEF Ledger!Row, Ledger!Statuses
      <3>4. CASE Ledger!MarkDelivered(job[w].inv, job[w].url)
        <4>1. rows' = [rows EXCEPT ![job[w].inv] =
                         [rows[job[w].inv] EXCEPT !.status = "delivered", !.url = job[w].url]]
          BY <3>4, <3>1 DEF Ledger!MarkDelivered
        <4> QED
          BY <3>1, <3>3, <4>1
      <3>5. CASE UNCHANGED rows
        BY <3>1, <3>5
      <3> QED
        BY <1>8, <3>4, <3>5 DEF RecordDelivery
    <2> QED
      BY <1>8, <2>2, <1>p DEF RecordDelivery, Moves, TypeOK, Ledger!TypeOK, Pcs
  <1>9. CASE ReleaseDeliver(w)
    BY <1>9, <1>j, DoneIsAJob DEF ReleaseDeliver, Release, Moves, TypeOK, Ledger!TypeOK
  <1> QED
    BY <1>1, <1>2, <1>3, <1>4, <1>5, <1>6, <1>7, <1>8, <1>9

\* Crashes, failing transactions and expiring locks keep the types.
LEMMA FaultsAreTyped ==
  ASSUME TypeOK,
         \/ \E w \in Workers : Crash(w) \/ TransactionFails(w)
         \/ \E k \in LockKeys : LockExpires(k)
  PROVE  TypeOK'
  <1>1. ASSUME NEW w \in Workers, Crash(w)
        PROVE  TypeOK'
    BY <1>1, IdleIsAJob, ConfigurationIsValid
    DEF Crash, Moves, TypeOK, Ledger!TypeOK
  <1>2. ASSUME NEW w \in Workers, TransactionFails(w)
        PROVE  TypeOK'
    <2>1. \A pc \in Pcs : [job[w] EXCEPT !.pc = pc, !.queue = {}] \in Job
      BY DEF Job, TypeOK
    <2> QED
      BY <1>2, <2>1, OnlyJobsMoveIsTyped DEF TransactionFails, Moves, TypeOK, Pcs
  <1>3. ASSUME NEW k \in LockKeys, LockExpires(k)
        PROVE  TypeOK'
    BY <1>3 DEF LockExpires, TypeOK, Ledger!TypeOK
  <1> QED
    BY <1>1, <1>2, <1>3

-----------------------------------------------------------------------------
(* What a task relies on.                                                  *)

\* Rows, recorded payments, captured money and received links are never taken back.
Grows ==
  /\ \A i \in Invoices : rows[i].status # "absent" => rows'[i].status # "absent"
  /\ \A i \in Invoices : rows[i].paidAt => rows'[i].paidAt
  /\ money \subseteq money'
  /\ \A i \in Invoices : received[i] \subseteq received'[i]

\* So nothing another task does spoils what a task relies on.
LEMMA OthersKeepJobs ==
  ASSUME Grows, NEW w \in Workers, JobOK(w), job'[w] = job[w]
  PROVE  JobOK(w)'
  BY DEF Grows, JobOK, Nameless, Paying, Sending

\* A step that moves no other data than jobs keeps the rest growing.
LEMMA OnlyJobsGrow == OnlyJobsMove => Grows
  BY DEF OnlyJobsMove, Grows

\* The reconciliation loop and confirm_payment hand their task on in order.
LEMMA PayingKeepsJob ==
  ASSUME TypeOK, MoneyInv, RowInv, NEW w \in Workers, JobOK(w),
         \/ StatesFetched(w) \/ StatesUnavailable(w) \/ SettleNext(w) \/ AskProvider(w)
         \/ AcquirePay(w) \/ PayBusy(w) \/ ReadInvoice(w) \/ MarkPaid(w) \/ ReleasePay(w)
  PROVE  JobOK(w)'
  <1>j. job \in [Workers -> Job] /\ job[w] \in Job
    BY DEF TypeOK
  <1> USE DEF Nameless, Paying, Sending, BeforeSend
  <1>1. CASE StatesFetched(w)
    <2>1. \A i \in CryptoInvoices : Captured(i) => <<i, None>> \in money
      BY DEF Captured, MoneyInv, TypeOK, CryptoInvoices
    <2> QED
      BY <1>1, <1>j, <2>1 DEF StatesFetched, Moves, OnlyJobsMove, JobOK, Job, Pcs
  <1>2. CASE StatesUnavailable(w)
    BY <1>2, <1>j DEF StatesUnavailable, Moves, OnlyJobsMove, JobOK, Idle
  <1>3. CASE SettleNext(w)
    <2>1. CASE job[w].queue = {}
      BY <1>3, <1>j, <2>1 DEF SettleNext, Moves, OnlyJobsMove, JobOK, Idle
    <2>2. ASSUME NEW i \in job[w].queue,
                 Moves(w, [job[w] EXCEPT !.pc = "pay_lock", !.inv = i, !.queue = @ \ {i}])
          PROVE  JobOK(w)'
      <3>1. job[w].charge = None /\ job[w].tries = 0
            /\ \A k \in job[w].queue : <<k, None>> \in money
        BY <1>3, <1>j DEF SettleNext, JobOK, Job, Pcs
      <3>2. i \in Invoices
        BY <1>j DEF Job, CryptoInvoices
      <3>3. money' = money
        BY <1>3 DEF SettleNext, OnlyJobsMove
      <3> QED
        BY <1>j, <2>2, <3>1, <3>2, <3>3 DEF Moves, JobOK, Job
    <2> QED
      BY <1>3, <2>1, <2>2 DEF SettleNext
  <1>4. CASE AskProvider(w)
    <2>1. \A i \in CryptoInvoices : Captured(i) => <<i, None>> \in money
      BY DEF Captured, MoneyInv, TypeOK, CryptoInvoices
    <2> QED
      BY <1>4, <1>j, <2>1 DEF AskProvider, Moves, OnlyJobsMove, JobOK, Idle, Job, Pcs
  <1>5. CASE AcquirePay(w)
    BY <1>5, <1>j DEF AcquirePay, Acquire, Moves, JobOK, Job, Pcs
  <1>6. CASE PayBusy(w)
    BY <1>6, <1>j DEF PayBusy, GiveUp, Done, Moves, OnlyJobsMove, JobOK, Idle, Job, Pcs
  <1>7. CASE ReadInvoice(w)
    BY <1>7, <1>j DEF ReadInvoice, Moves, OnlyJobsMove, JobOK, RowInv, RowOK, Job, Pcs
  <1>8. CASE MarkPaid(w)
    BY <1>8, <1>j DEF MarkPaid, Moves, JobOK, Job, Pcs
  <1>9. CASE ReleasePay(w)
    BY <1>9, <1>j DEF ReleasePay, Release, Done, Moves, JobOK, Idle, Job, Pcs
  <1> QED
    BY <1>1, <1>2, <1>3, <1>4, <1>5, <1>6, <1>7, <1>8, <1>9

\* A delivery sends what it has read and records what it has sent.
LEMMA DeliveringKeepsJob ==
  ASSUME TypeOK, RowInv, NEW w \in Workers, JobOK(w),
         \/ AcquireDeliver(w) \/ DeliverBusy(w) \/ Load(w)
         \/ SendSucceeds(w) \/ SendFails(w) \/ SendRefused(w) \/ SendAckLost(w)
         \/ RecordDelivery(w) \/ ReleaseDeliver(w)
  PROVE  JobOK(w)'
  <1>j. job \in [Workers -> Job] /\ job[w] \in Job
    BY DEF TypeOK
  <1> USE DEF Nameless, Paying, Sending, BeforeSend
  <1>1. CASE AcquireDeliver(w)
    BY <1>1, <1>j, ConfigurationIsValid DEF AcquireDeliver, Acquire, Moves, JobOK, Job, Pcs
  <1>2. CASE DeliverBusy(w)
    BY <1>2, <1>j DEF DeliverBusy, GiveUp, Done, Moves, OnlyJobsMove, JobOK, Idle, Job, Pcs
  <1>3. CASE Load(w)
    <2> DEFINE r == rows[job[w].inv]
    <2>1. /\ job[w].inv \in Invoices /\ RowOK(job[w].inv)
          /\ job[w].tries = 0 /\ 0 < MaxAttempts
          /\ \A i \in job[w].queue : <<i, None>> \in money
      BY <1>3, ConfigurationIsValid DEF Load, JobOK, RowInv, Pcs
    <2>2. rows' = rows /\ money' = money
      BY <1>3 DEF Load, OnlyJobsMove
    <2>3. CASE MustSend(r, job[w].kind)
      <3>1. r.status \in AccessGranting /\ r.paidAt /\ link[r.copy] \in Links
        BY <2>1, <2>3 DEF MustSend, RowOK, AccessGranting, Ledger!AccessGranting, TypeOK
      <3>2. job'[w] = [job[w] EXCEPT !.pc = "send", !.view = r, !.url = link[r.copy]]
        BY <1>3, <1>j, <2>3 DEF Load, Moves
      <3> QED
        BY <1>j, <2>1, <2>2, <3>1, <3>2 DEF JobOK, Job
    <2>4. CASE ~MustSend(r, job[w].kind)
      BY <1>3, <1>j, <2>1, <2>2, <2>4 DEF Load, Moves, JobOK, Job
    <2> QED
      BY <2>3, <2>4
  <1>4. CASE SendSucceeds(w)
    BY <1>4, <1>j DEF SendSucceeds, Arrives, Moves, JobOK, TypeOK, Job, Pcs
  <1>5. CASE SendFails(w)
    BY <1>5, <1>j, ConfigurationIsValid DEF SendFails, Retry, Moves, OnlyJobsMove, JobOK, Job, Pcs
  <1>6. CASE SendRefused(w)
    BY <1>6, <1>j DEF SendRefused, Moves, OnlyJobsMove, JobOK, Job, Pcs
  <1>7. CASE SendAckLost(w)
    BY <1>7, <1>j, ConfigurationIsValid DEF SendAckLost, Retry, Arrives, Moves, JobOK, Job, Pcs
  <1>8. CASE RecordDelivery(w)
    BY <1>8, <1>j DEF RecordDelivery, Moves, JobOK, Job, Pcs
  <1>9. CASE ReleaseDeliver(w)
    BY <1>9, <1>j DEF ReleaseDeliver, Release, Done, Moves, JobOK, Idle, Job, Pcs
  <1> QED
    BY <1>1, <1>2, <1>3, <1>4, <1>5, <1>6, <1>7, <1>8, <1>9

\* A task starts with money that was captured, or with none at all.
LEMMA BeginKeepsJob ==
  ASSUME TypeOK, MoneyInv, RowInv, NEW w \in Workers, JobOK(w), Begin(w)
  PROVE  JobOK(w)'
  <1>j. job \in [Workers -> Job]
    BY DEF TypeOK
  <1> USE DEF Nameless, Paying, Sending, BeforeSend
  <1>1. ASSUME NEW m \in money, Notified(w, m)
        PROVE  JobOK(w)'
    <2>1. m = <<m[1], m[2]>> /\ m[1] \in Invoices
      BY <1>1 DEF TypeOK
    <2> QED
      BY <1>1, <1>j, <2>1 DEF Notified, Moves, OnlyJobsMove, JobOK, Idle
  <1>2. ASSUME NEW i \in Invoices, Verify(w, i)
        PROVE  JobOK(w)'
    <2>1. RowOK(i)
      BY DEF RowInv
    <2>2. job'[w] = VerifyPlan(i) /\ money' = money
      BY <1>2, <1>j DEF Verify, Moves, OnlyJobsMove
    <2> QED
      BY <1>2, <2>1, <2>2 DEF Verify, VerifyPlan, JobOK, RowOK, Idle
  <1>3. ASSUME NEW i \in Invoices, Redeliver(w, i)
        PROVE  JobOK(w)'
    BY <1>3, <1>j DEF Redeliver, Moves, JobOK, Idle
  <1>4. CASE ListPending(w)
    BY <1>4, <1>j DEF ListPending, Moves, JobOK, Idle
  <1> QED
    BY <1>1, <1>2, <1>3, <1>4 DEF Begin

\* A task that dies relies on nothing; one whose transaction failed on less.
LEMMA FaultsKeepJob ==
  ASSUME TypeOK, NEW w \in Workers, JobOK(w), Crash(w) \/ TransactionFails(w)
  PROVE  JobOK(w)'
  <1>j. job \in [Workers -> Job] /\ job[w] \in Job
    BY DEF TypeOK
  <1> USE DEF Nameless, Paying, Sending, BeforeSend
  <1>1. CASE Crash(w)
    BY <1>1, <1>j DEF Crash, Moves, JobOK, Idle
  <1>2. CASE TransactionFails(w)
    <2>1. PICK pc \in {"pay_unlock", "deliver_unlock"} :
            /\ job'[w] = [job[w] EXCEPT !.pc = pc, !.queue = {}]
            /\ pc = "pay_unlock" => job[w].pc \in {"read", "mark_paid"}
      BY <1>2, <1>j DEF TransactionFails, Moves
    <2>2. /\ job'[w].pc = pc /\ job'[w].inv = job[w].inv /\ job'[w].charge = job[w].charge
          /\ job'[w].queue = {} /\ job'[w].tries = job[w].tries
      BY <2>1, <1>j DEF Job
    <2>3. job[w].pc \in {"read", "mark_paid", "load", "mark_delivered"}
      BY <1>2 DEF TransactionFails
    <2> QED
      BY <2>1, <2>2, <2>3 DEF JobOK, Pcs
  <1> QED
    BY <1>1, <1>2

-----------------------------------------------------------------------------
(* What the rows promise.                                                  *)

Data == <<rows, money, received>>

\* Without a change of rows, money or messages nothing is promised anew.
LEMMA RowsStay ==
  ASSUME MoneyInv, RowInv, OneOwnedCopy, UNCHANGED Data
  PROVE  MoneyInv' /\ RowInv' /\ OneOwnedCopy' /\ Grows
  BY DEF Data, MoneyInv, RowInv, RowOK, Captured, OneOwnedCopy, Ledger!OneOwnedCopy,
         Ledger!Owns, Grows

\* Writing one row keeps the promises of the table if that row keeps its own,
\* stays paid and recorded, and does not begin to grant access.
LEMMA OneRowKeepsRows ==
  ASSUME TypeOK, MoneyInv, RowInv, OneOwnedCopy, NEW i \in Invoices, NEW r \in Ledger!Row,
         rows' = [rows EXCEPT ![i] = r], UNCHANGED <<money, received>>,
         r.status = "absent" => ~r.paidAt,
         r.status # "absent" => r.copy \in Copies,
         rows[i].status # "absent" => r.status # "absent" /\ r.copy = rows[i].copy,
         r.status \in AccessGranting => rows[i].status \in AccessGranting,
         r.paidAt = rows[i].paidAt, r.charge = rows[i].charge, r.url = rows[i].url
  PROVE  MoneyInv' /\ RowInv' /\ OneOwnedCopy' /\ Grows
  <1>t. rows \in [Invoices -> Ledger!Row]
    BY DEF TypeOK, Ledger!TypeOK
  <1>1. rows'[i] = r /\ \A k \in Invoices \ {i} : rows'[k] = rows[k]
    BY <1>t
  <1>2. RowOK(i)
    BY DEF RowInv
  <1>3. RowOK(i)'
    BY <1>1, <1>2 DEF RowOK, Captured, AccessGranting
  <1>4. ASSUME NEW k \in Invoices \ {i}
        PROVE  RowOK(k)'
    BY <1>1, <1>4 DEF RowInv, RowOK, Captured, AccessGranting
  <1>5. OneOwnedCopy'
    <2>1. rows[i].status \in AccessGranting => rows[i].status # "absent"
      BY DEF AccessGranting, Ledger!AccessGranting
    <2> QED
      BY <1>1, <2>1 DEF OneOwnedCopy, Ledger!OneOwnedCopy, Ledger!Owns, AccessGranting
  <1>6. MoneyInv' /\ Grows
    BY <1>1 DEF MoneyInv, Grows
  <1> QED
    BY <1>3, <1>4, <1>5, <1>6 DEF RowInv

\* Buyers, providers and admins keep the promises.
LEMMA EnvironmentKeepsRows ==
  ASSUME TypeOK, MoneyInv, RowInv, OneOwnedCopy, Environment
  PROVE  MoneyInv' /\ RowInv' /\ OneOwnedCopy' /\ Grows
  <1>t. rows \in [Invoices -> Ledger!Row]
    BY DEF TypeOK, Ledger!TypeOK
  <1>o. \A k \in Invoices : RowOK(k)
    BY DEF RowInv
  <1>1. ASSUME NEW i \in Invoices, NEW c \in Copies, StartPurchase(i, c)
        PROVE  MoneyInv' /\ RowInv' /\ OneOwnedCopy' /\ Grows
    <2> DEFINE r == [Ledger!NoRow EXCEPT !.status = "pending", !.copy = c]
    <2>1. rows' = [rows EXCEPT ![i] = r] /\ UNCHANGED <<money, received>>
      BY <1>1 DEF StartPurchase, Ledger!Create
    <2>2. r \in Ledger!Row
      BY DEF Ledger!NoRow, Ledger!Row, Ledger!Statuses
    <2>3. /\ r.status = "pending" /\ r.copy = c /\ r.charge = None
          /\ r.url = None /\ r.paidAt = FALSE
      BY DEF Ledger!NoRow
    <2>4. rows[i].status = "absent" /\ rows[i].paidAt = FALSE /\ ~Captured(i)
      BY <1>1, <1>o, <1>t DEF StartPurchase, Ledger!Create, RowOK, Ledger!Row
    <2>5. rows[i].charge = None
      BY <1>o, <2>4 DEF RowOK
    <2>6. received[i] = {}
      BY <1>o, <2>4 DEF RowOK
    <2>7. rows[i].url = None
      BY <1>o, <2>6 DEF RowOK
    <2>8. r.status \notin AccessGranting
      BY <2>3 DEF AccessGranting, Ledger!AccessGranting
    <2> HIDE DEF r
    <2> QED
      BY <2>1, <2>2, <2>3, <2>4, <2>5, <2>7, <2>8, OneRowKeepsRows
  <1>2. ASSUME NEW i \in Invoices, NEW ch \in Charges \cup {None}, Capture(i, ch)
        PROVE  MoneyInv' /\ RowInv' /\ OneOwnedCopy' /\ Grows
    <2>1. MoneyInv'
      BY <1>2 DEF Capture, MoneyInv
    <2>2. UNCHANGED <<rows, received>> /\ money \subseteq money'
      BY <1>2 DEF Capture
    <2>3. RowInv'
      BY <2>2 DEF RowInv, RowOK, Captured
    <2> QED
      BY <2>1, <2>2, <2>3 DEF OneOwnedCopy, Ledger!OneOwnedCopy, Ledger!Owns, Grows
  <1>3. ASSUME NEW c \in Copies, NEW u \in Links, RotateLink(c, u)
        PROVE  MoneyInv' /\ RowInv' /\ OneOwnedCopy' /\ Grows
    BY <1>3, RowsStay DEF RotateLink, Data
  <1>4. ASSUME NEW i \in Invoices, Refund(i)
        PROVE  MoneyInv' /\ RowInv' /\ OneOwnedCopy' /\ Grows
    <2> DEFINE r == [rows[i] EXCEPT !.status = "refunded"]
    <2>1. /\ rows' = [rows EXCEPT ![i] = r]
          /\ UNCHANGED <<money, received>> /\ rows[i].status # "absent"
      BY <1>4, <1>t DEF Refund, Ledger!MarkRefunded, Ledger!Statuses
    <2>2. r \in Ledger!Row
      BY <1>t DEF Ledger!Row, Ledger!Statuses
    <2>3. rows[i].copy \in Copies
      BY <1>o, <2>1 DEF RowOK
    <2>4. /\ r.status = "refunded" /\ r.copy = rows[i].copy /\ r.paidAt = rows[i].paidAt
          /\ r.charge = rows[i].charge /\ r.url = rows[i].url
      BY <1>t DEF Ledger!Row
    <2>5. r.status \notin AccessGranting
      BY <2>4 DEF AccessGranting, Ledger!AccessGranting
    <2> HIDE DEF r
    <2> QED
      BY <2>1, <2>2, <2>3, <2>4, <2>5, OneRowKeepsRows
  <1>5. CASE Housekeeping
    <2>1. UNCHANGED <<money, received>>
      BY <1>5 DEF Housekeeping
    <2>2. ASSUME NEW k \in Invoices
          PROVE  \/ rows'[k] = rows[k]
                 \/ /\ rows[k].status = "pending"
                    /\ rows'[k] = [rows[k] EXCEPT !.status = "expired"]
      BY <1>5, <2>2 DEF Housekeeping, Ledger!ExpirePending, Ledger!Expirable
    <2>3. ASSUME NEW k \in Invoices
          PROVE  /\ rows'[k].copy = rows[k].copy /\ rows'[k].paidAt = rows[k].paidAt
                 /\ rows'[k].charge = rows[k].charge /\ rows'[k].url = rows[k].url
                 /\ \/ rows'[k].status = rows[k].status
                    \/ rows[k].status = "pending" /\ rows'[k].status = "expired"
      <3>1. rows[k] \in Ledger!Row
        BY <1>t
      <3>2. CASE rows'[k] = rows[k]
        BY <3>2
      <3>3. CASE rows[k].status = "pending" /\ rows'[k] = [rows[k] EXCEPT !.status = "expired"]
        BY <3>1, <3>3 DEF Ledger!Row
      <3> QED
        BY <2>2, <3>2, <3>3
    <2>4. ASSUME NEW k \in Invoices
          PROVE  RowOK(k)'
      BY <1>o, <2>1, <2>3 DEF RowOK, Captured, AccessGranting, Ledger!AccessGranting
    <2>5. OneOwnedCopy'
      BY <2>3 DEF OneOwnedCopy, Ledger!OneOwnedCopy, Ledger!Owns, Ledger!AccessGranting
    <2> QED
      BY <2>1, <2>3, <2>4, <2>5 DEF RowInv, MoneyInv, Grows
  <1>6. ASSUME NEW i \in Invoices, GrowStale(i)
        PROVE  MoneyInv' /\ RowInv' /\ OneOwnedCopy' /\ Grows
    <2> DEFINE r == [rows[i] EXCEPT !.stale = TRUE]
    <2>1. rows' = [rows EXCEPT ![i] = r] /\ UNCHANGED <<money, received>>
      BY <1>6, <1>t DEF GrowStale, Ledger!GrowStale
    <2>2. r \in Ledger!Row
      BY <1>t DEF Ledger!Row
    <2>3. /\ r.status = rows[i].status /\ r.copy = rows[i].copy /\ r.paidAt = rows[i].paidAt
          /\ r.charge = rows[i].charge /\ r.url = rows[i].url
      BY <1>t DEF Ledger!Row
    <2>4. /\ r.status = "absent" => ~r.paidAt
          /\ r.status # "absent" => r.copy \in Copies
      BY <1>o, <2>3 DEF RowOK
    <2> HIDE DEF r
    <2> QED
      BY <2>1, <2>2, <2>3, <2>4, OneRowKeepsRows
  <1> QED
    BY <1>1, <1>2, <1>3, <1>4, <1>5, <1>6 DEF Environment

\* mark_paid records a captured payment, and never a second paid copy.
LEMMA MarkPaidKeepsRows ==
  ASSUME TypeOK, MoneyInv, RowInv, OneOwnedCopy, NEW w \in Workers, JobOK(w), MarkPaid(w)
  PROVE  MoneyInv' /\ RowInv' /\ OneOwnedCopy' /\ Grows
  <1>i. PICK i \in Invoices : i = job[w].inv
    BY DEF MarkPaid, JobOK, Nameless
  <1> DEFINE ch  == job[w].charge
             new == PaidRow(i, ch)
  <1>t. rows \in [Invoices -> Ledger!Row] /\ job[w] \in Job
    BY DEF TypeOK, Ledger!TypeOK
  <1>j. <<i, ch>> \in money /\ rows[i].status # "absent"
    BY <1>i DEF MarkPaid, JobOK, Paying, Sending
  <1>m. UNCHANGED <<money, received>>
    BY DEF MarkPaid
  <1>1. CASE PayRefused(i, ch)
    BY <1>1, <1>i, <1>m, RowsStay DEF MarkPaid, Data
  <1>2. CASE ~PayRefused(i, ch)
    <2>1. rows' = [rows EXCEPT ![i] = new]
      BY <1>2, <1>i DEF MarkPaid
    <2>2. rows[i] \in Ledger!Row /\ RowOK(i) /\ (i \in StarsInvoices <=> ch # None)
      BY <1>t, <1>j DEF RowInv, MoneyInv
    <2>3. /\ new.paidAt /\ new.copy = rows[i].copy /\ new.url = rows[i].url
          /\ new.status # "absent"
          /\ new.charge = rows[i].charge \/ new.charge = ch
          /\ new.charge = None => rows[i].charge = None
      <3>1. CASE rows[i].status \in Ledger!AccessGranting
        BY <3>1, <1>j, <2>2 DEF PaidRow, RowOK, Ledger!Row, AccessGranting
      <3>2. CASE rows[i].status \notin Ledger!AccessGranting
        BY <3>2, <2>2 DEF PaidRow, Ledger!Row, Ledger!ChargeAfter
      <3> QED
        BY <3>1, <3>2
    <2>4. i \in StarsInvoices => new.charge # None
      <3>1. CASE rows[i].status \in Ledger!AccessGranting
        BY <3>1, <1>j, <2>2, <2>3 DEF RowOK, AccessGranting
      <3>2. CASE rows[i].status \notin Ledger!AccessGranting
        BY <3>2, <2>2 DEF PaidRow, Ledger!Row, Ledger!ChargeAfter
      <3> QED
        BY <3>1, <3>2
    <2>5. new.status = rows[i].status \/ Ledger!OnlyPaidCopy(i)
      BY <1>2, <1>t, <1>j, <2>2
      DEF PaidRow, PayRefused, Ledger!Row, Ledger!Statuses, Ledger!AccessGranting, Job
    <2>6. RowOK(i)'
      BY <1>j, <1>m, <1>t, <2>1, <2>2, <2>3, <2>4 DEF RowOK, Captured
    <2>7. \A k \in Invoices \ {i} : RowOK(k)'
      BY <1>m, <1>t, <2>1 DEF RowInv, RowOK, Captured
    <2>8. OneOwnedCopy'
      BY <1>t, <2>1, <2>3, <2>5
      DEF OneOwnedCopy, Ledger!OneOwnedCopy, Ledger!Owns, Ledger!OnlyPaidCopy
    <2>9. MoneyInv' /\ Grows
      BY <1>m, <1>t, <2>1, <2>3 DEF MoneyInv, Grows
    <2> QED
      BY <2>6, <2>7, <2>8, <2>9 DEF RowInv
  <1> QED
    BY <1>1, <1>2

\* A message reaches the buyer of a paid purchase only.
LEMMA SendingKeepsRows ==
  ASSUME TypeOK, MoneyInv, RowInv, OneOwnedCopy, NEW w \in Workers, JobOK(w),
         SendSucceeds(w) \/ SendAckLost(w)
  PROVE  MoneyInv' /\ RowInv' /\ OneOwnedCopy' /\ Grows
  <1>1. job[w].inv \in Invoices /\ rows[job[w].inv].paidAt
    BY DEF SendSucceeds, SendAckLost, JobOK, Nameless, Sending
  <1>2. UNCHANGED <<rows, money>>
    BY DEF SendSucceeds, SendAckLost
  <1>3. /\ received' = [received EXCEPT ![job[w].inv] = @ \cup {job[w].url}]
        /\ received \in [Invoices -> SUBSET Links]
    BY DEF SendSucceeds, SendAckLost, Arrives, TypeOK
  <1> QED
    BY <1>1, <1>2, <1>3
    DEF MoneyInv, RowInv, RowOK, Captured, OneOwnedCopy, Ledger!OneOwnedCopy,
        Ledger!Owns, Grows

\* mark_delivered records the link that was sent, on a row that is still paid.
LEMMA RecordDeliveryKeepsRows ==
  ASSUME TypeOK, MoneyInv, RowInv, OneOwnedCopy, NEW w \in Workers, JobOK(w),
         RecordDelivery(w)
  PROVE  MoneyInv' /\ RowInv' /\ OneOwnedCopy' /\ Grows
  <1> DEFINE i == job[w].inv
  <1>1. i \in Invoices /\ job[w].url \in received[i]
    BY DEF RecordDelivery, JobOK, Nameless
  <1>2. UNCHANGED <<money, received>>
    BY DEF RecordDelivery
  <1>3. rows \in [Invoices -> Ledger!Row] /\ rows[i] \in Ledger!Row
    BY <1>1 DEF TypeOK, Ledger!TypeOK
  <1>4. CASE rows[i].status # "paid" /\ UNCHANGED rows
    BY <1>4, <1>2, RowsStay DEF Data
  <1>5. CASE Ledger!MarkDelivered(i, job[w].url)
    <2>1. /\ rows' = [rows EXCEPT ![i] = [@ EXCEPT !.status = "delivered", !.url = job[w].url]]
          /\ rows[i].status = "paid"
      BY <1>5, <1>3 DEF Ledger!MarkDelivered, Ledger!Row
    <2> QED
      BY <1>1, <1>2, <1>3, <2>1
      DEF MoneyInv, RowInv, RowOK, Captured, OneOwnedCopy, Ledger!OneOwnedCopy,
          Ledger!Owns, AccessGranting, Ledger!AccessGranting, Grows, Ledger!Row
  <1> QED
    BY <1>4, <1>5 DEF RecordDelivery

-----------------------------------------------------------------------------
(* The inductive invariant.                                                *)

\* Its part without the types, which each step below keeps.
Promises == MoneyInv /\ RowInv /\ JobInv /\ OneOwnedCopy

\* The specification starts with every promise kept.
LEMMA InitKeepsPromises == Init => Promises
  <1> SUFFICES ASSUME Init PROVE Promises
    OBVIOUS
  <1>1. MoneyInv /\ RowInv /\ OneOwnedCopy
    BY DEF Init, Ledger!Init, Ledger!NoRow, MoneyInv, RowInv, RowOK, OneOwnedCopy,
           Ledger!OneOwnedCopy, Ledger!Owns, AccessGranting, Ledger!AccessGranting
  <1>2. JobInv
    BY DEF Init, JobInv, JobOK, Idle, Nameless, Paying, Sending, BeforeSend
  <1> QED
    BY <1>1, <1>2 DEF Promises

\* A step of one task keeps the promises if it keeps the rows' and its own.
LEMMA OneTaskMoves ==
  ASSUME JobInv, NEW w \in Workers, JobOK(w)',
         \A v \in Workers \ {w} : job'[v] = job[v],
         MoneyInv' /\ RowInv' /\ OneOwnedCopy' /\ Grows
  PROVE  Promises'
  <1>1. ASSUME NEW v \in Workers PROVE JobOK(v)'
    <2>1. CASE v = w
      BY <2>1
    <2>2. CASE v # w
      BY <2>2, OthersKeepJobs DEF JobInv
    <2> QED
      BY <2>1, <2>2
  <1> QED
    BY <1>1 DEF Promises, JobInv

\* So does a step that moves no task.
LEMMA NoTaskMoves ==
  ASSUME JobInv, UNCHANGED job, MoneyInv' /\ RowInv' /\ OneOwnedCopy' /\ Grows
  PROVE  Promises'
  <1>1. ASSUME NEW v \in Workers PROVE JobOK(v)'
    BY OthersKeepJobs DEF JobInv
  <1> QED
    BY <1>1 DEF Promises, JobInv

\* Each step of a task moves that task alone.
LEMMA TasksMoveAlone ==
  ASSUME TypeOK, NEW w \in Workers, Begin(w) \/ Step(w) \/ Crash(w) \/ TransactionFails(w)
  PROVE  \A v \in Workers \ {w} : job'[v] = job[v]
  <1>1. PICK j : Moves(w, j)
    <2>1. CASE Begin(w)
      BY <2>1 DEF Begin, Notified, Verify, Redeliver, ListPending
    <2>2. CASE Crash(w) \/ TransactionFails(w)
      BY <2>2 DEF Crash, TransactionFails
    <2>3. CASE Step(w)
      <3>1. CASE \/ StatesFetched(w) \/ StatesUnavailable(w) \/ SettleNext(w)
                 \/ AskProvider(w) \/ ReadInvoice(w) \/ MarkPaid(w) \/ Load(w)
                 \/ SendSucceeds(w) \/ SendFails(w) \/ SendRefused(w)
                 \/ SendAckLost(w) \/ RecordDelivery(w)
        BY <3>1 DEF StatesFetched, StatesUnavailable, SettleNext, AskProvider, ReadInvoice,
                    MarkPaid, Load, SendSucceeds, SendFails, SendRefused, SendAckLost,
                    Retry, RecordDelivery
      <3>2. CASE \/ AcquirePay(w) \/ PayBusy(w) \/ ReleasePay(w)
                 \/ AcquireDeliver(w) \/ DeliverBusy(w) \/ ReleaseDeliver(w)
        BY <3>2 DEF AcquirePay, PayBusy, ReleasePay, AcquireDeliver, DeliverBusy,
                    ReleaseDeliver, Acquire, GiveUp, Release
      <3> QED
        BY <2>3, <3>1, <3>2 DEF Step
    <2> QED
      BY <2>1, <2>2, <2>3
  <1> QED
    BY <1>1 DEF Moves, TypeOK

\* What a task does keeps the promises of the rows.
LEMMA TasksKeepRows ==
  ASSUME TypeOK, MoneyInv, RowInv, OneOwnedCopy, NEW w \in Workers, JobOK(w),
         Begin(w) \/ Step(w) \/ Crash(w) \/ TransactionFails(w)
  PROVE  MoneyInv' /\ RowInv' /\ OneOwnedCopy' /\ Grows
  <1>1. CASE Begin(w)
    BY <1>1, RowsStay DEF Begin, Notified, Verify, Redeliver, ListPending, OnlyJobsMove, Data
  <1>2. CASE Crash(w) \/ TransactionFails(w)
    BY <1>2, RowsStay DEF Crash, TransactionFails, OnlyJobsMove, Data
  <1>3. CASE MarkPaid(w)
    BY <1>3, MarkPaidKeepsRows
  <1>4. CASE SendSucceeds(w) \/ SendAckLost(w)
    BY <1>4, SendingKeepsRows
  <1>5. CASE RecordDelivery(w)
    BY <1>5, RecordDeliveryKeepsRows
  <1>6. CASE \/ StatesFetched(w) \/ StatesUnavailable(w) \/ SettleNext(w) \/ AskProvider(w)
             \/ ReadInvoice(w) \/ Load(w) \/ SendFails(w) \/ SendRefused(w)
    BY <1>6, RowsStay DEF StatesFetched, StatesUnavailable, SettleNext, AskProvider,
                          ReadInvoice, Load, SendFails, SendRefused, OnlyJobsMove, Data
  <1>7. CASE \/ AcquirePay(w) \/ PayBusy(w) \/ ReleasePay(w)
             \/ AcquireDeliver(w) \/ DeliverBusy(w) \/ ReleaseDeliver(w)
    BY <1>7, RowsStay DEF AcquirePay, PayBusy, ReleasePay, AcquireDeliver, DeliverBusy,
                          ReleaseDeliver, Acquire, GiveUp, Release, OnlyJobsMove, Data
  <1> QED
    BY <1>1, <1>2, <1>3, <1>4, <1>5, <1>6, <1>7 DEF Step

\* What a task does keeps its own promise.
LEMMA TasksKeepJob ==
  ASSUME TypeOK, MoneyInv, RowInv, NEW w \in Workers, JobOK(w),
         Begin(w) \/ Step(w) \/ Crash(w) \/ TransactionFails(w)
  PROVE  JobOK(w)'
  BY BeginKeepsJob, PayingKeepsJob, DeliveringKeepsJob, FaultsKeepJob DEF Step

\* What a task does keeps the types.
LEMMA TasksAreTyped ==
  ASSUME TypeOK, RowInv, NEW w \in Workers, JobOK(w),
         Begin(w) \/ Step(w) \/ Crash(w) \/ TransactionFails(w)
  PROVE  TypeOK'
  <1>1. CASE Begin(w)
    BY <1>1, BeginIsTyped
  <1>2. CASE Crash(w) \/ TransactionFails(w)
    BY <1>2, FaultsAreTyped
  <1>3. CASE Step(w)
    BY <1>3, PayingIsTyped, DeliveringIsTyped DEF Step
  <1> QED
    BY <1>1, <1>2, <1>3

\* The inductive step: every action keeps SettlementInv.
LEMMA SettlementInvIsInductive == SettlementInv /\ [Next]_vars => SettlementInv'
  <1> SUFFICES ASSUME SettlementInv, [Next]_vars
               PROVE  SettlementInv'
    OBVIOUS
  <1>i. TypeOK /\ MoneyInv /\ RowInv /\ JobInv /\ OneOwnedCopy
    BY DEF SettlementInv
  <1>1. CASE Environment
    <2>1. UNCHANGED job
      BY <1>1 DEF Environment, StartPurchase, Capture, RotateLink, Refund, Housekeeping, GrowStale
    <2> QED
      BY <1>1, <1>i, <2>1, EnvironmentIsTyped, EnvironmentKeepsRows, NoTaskMoves
      DEF SettlementInv, Promises
  <1>2. ASSUME NEW w \in Workers, Begin(w) \/ Step(w) \/ Crash(w) \/ TransactionFails(w)
        PROVE  SettlementInv'
    <2>1. JobOK(w)
      BY <1>i DEF JobInv
    <2>2. TypeOK'
      BY <1>2, <1>i, <2>1, TasksAreTyped
    <2>3. Promises'
      BY <1>2, <1>i, <2>1, TasksMoveAlone, TasksKeepRows, TasksKeepJob, OneTaskMoves
    <2> QED
      BY <2>2, <2>3 DEF SettlementInv, Promises
  <1>3. ASSUME NEW k \in LockKeys, LockExpires(k)
        PROVE  SettlementInv'
    <2>1. UNCHANGED job /\ UNCHANGED Data
      BY <1>3 DEF LockExpires, Data
    <2> QED
      BY <1>3, <1>i, <2>1, FaultsAreTyped, RowsStay, NoTaskMoves DEF SettlementInv, Promises
  <1>4. CASE UNCHANGED vars
    <2>1. UNCHANGED job /\ UNCHANGED Data /\ TypeOK'
      BY <1>4, <1>i DEF vars, Data, TypeOK, Ledger!TypeOK
    <2> QED
      BY <1>i, <2>1, RowsStay, NoTaskMoves DEF SettlementInv, Promises
  <1> QED
    BY <1>1, <1>2, <1>3, <1>4 DEF Next

\* SettlementInv holds in every reachable state: in spite of failing
\* transactions, crashes, lost acknowledgements and locks that expire early.
THEOREM SettlementInvariant == Spec => []SettlementInv
  <1>1. Init => SettlementInv
    BY InitIsTyped, InitKeepsPromises DEF SettlementInv, Promises
  <1> QED
    BY <1>1, SettlementInvIsInductive, PTL DEF Spec

\* Every variable of the settlement keeps a value of its type.
THEOREM TypeCorrect == Spec => []TypeOK
  <1>1. SettlementInv => TypeOK
    BY DEF SettlementInv
  <1> QED
    BY <1>1, SettlementInvariant, PTL

\* No buyer ever holds two paid copies of a product: the unique index on the paid
\* copies suffices, whatever mark_paid has read and whoever holds the locks.
THEOREM NeverTwoPaidCopies == Spec => []OneOwnedCopy
  <1>1. SettlementInv => OneOwnedCopy
    BY DEF SettlementInv
  <1> QED
    BY <1>1, SettlementInvariant, PTL

\* _deliver sends a link only for an invoice whose money was captured and whose
\* payment is recorded, through whichever task the settlement came.
THEOREM NeverALinkWithoutMoney == Spec => []NoLinkWithoutMoney
  <1>1. SettlementInv => NoLinkWithoutMoney
    BY DEF SettlementInv, RowInv, RowOK, NoLinkWithoutMoney
  <1> QED
    BY <1>1, SettlementInvariant, PTL

\* mark_paid records no charge but the one captured for this invoice, and a paid
\* Stars purchase always has one.
THEOREM ChargeIsAlwaysReal == Spec => []ChargeIsReal
  <1>1. SettlementInv => ChargeIsReal
    BY DEF SettlementInv, RowInv, RowOK, ChargeIsReal
  <1> QED
    BY <1>1, SettlementInvariant, PTL

\* mark_delivered records a link the buyer received, rotations notwithstanding.
THEOREM RecordedLinkWasAlwaysReceived == Spec => []RecordedLinkWasReceived
  <1>1. SettlementInv => RecordedLinkWasReceived
    BY DEF SettlementInv, RowInv, RowOK, RecordedLinkWasReceived
  <1> QED
    BY <1>1, SettlementInvariant, PTL

\* With every fault at once, no step takes back a row, a recorded payment, captured
\* money or a received link: not even a mark_paid whose lock has expired.
THEOREM NothingIsTakenBack == Spec => [][Grows]_vars
  <1>1. SettlementInv /\ [Next]_vars => [Grows]_vars
    <2> SUFFICES ASSUME SettlementInv, Next
                 PROVE  Grows
      OBVIOUS
    <2>i. TypeOK /\ MoneyInv /\ RowInv /\ JobInv /\ OneOwnedCopy
      BY DEF SettlementInv
    <2>1. CASE Environment
      BY <2>1, <2>i, EnvironmentKeepsRows
    <2>2. ASSUME NEW w \in Workers, Begin(w) \/ Step(w) \/ Crash(w) \/ TransactionFails(w)
          PROVE  Grows
      BY <2>2, <2>i, TasksKeepRows DEF JobInv
    <2>3. ASSUME NEW k \in LockKeys, LockExpires(k)
          PROVE  Grows
      BY <2>3 DEF LockExpires, Grows
    <2> QED
      BY <2>1, <2>2, <2>3 DEF Next
  <1> QED
    BY <1>1, SettlementInvariant, PTL DEF Spec

-----------------------------------------------------------------------------
(* What the locks add.                                                     *)

\* A task's token is none of the marks of a free or an orphaned key.
TokensAreTokens == Free \notin Workers /\ Orphan \notin Workers

\* The locks outlive the work they guard.
LocksOutliveWork == "ttl" \notin Faults /\ TokensAreTokens

Confirming == {"read", "mark_paid", "pay_unlock"}
Delivering == {"load", "send", "mark_delivered", "deliver_unlock"}

\* A task inside a locked section owns the section's key.
Holds(w) ==
  /\ job[w].pc \in Confirming => lock[PayKey(w)] = w
  /\ job[w].pc \in Delivering => lock[DeliverKey(w)] = w

HoldInv == \A w \in Workers : Holds(w)

-----------------------------------------------------------------------------
(* Exclusion.                                                              *)

\* The keys of a task's sections are keys.
LEMMA KeysAreKeys ==
  ASSUME TypeOK, NEW w \in Workers, JobOK(w), job[w].pc \in Confirming \cup Delivering \cup
                                                   {"pay_lock", "deliver_lock"}
  PROVE  PayKey(w) \in LockKeys /\ DeliverKey(w) \in LockKeys
  BY DEF PayKey, DeliverKey, LockKeys, JobOK, Nameless, Confirming, Delivering

\* What another task holds stays its own.
LEMMA LocksStay ==
  ASSUME LocksOutliveWork, TypeOK, NEW w \in Workers, JobOK(w), 
         Begin(w) \/ Step(w) \/ Crash(w) \/ TransactionFails(w),
         NEW v \in Workers \ {w}, NEW k \in LockKeys, lock[k] = v
  PROVE  lock'[k] = v
  <1>l. lock \in [LockKeys -> Workers \cup {Free, Orphan}]
    BY DEF TypeOK
  <1>1. CASE Begin(w) \/ TransactionFails(w)
    BY <1>1 DEF Begin, Notified, Verify, Redeliver, ListPending, TransactionFails, OnlyJobsMove
  <1>2. CASE Crash(w)
    BY <1>2 DEF Crash
  <1>3. CASE \/ StatesFetched(w) \/ StatesUnavailable(w) \/ SettleNext(w)
             \/ AskProvider(w) \/ ReadInvoice(w) \/ MarkPaid(w) \/ Load(w)
             \/ SendSucceeds(w) \/ SendFails(w) \/ SendRefused(w)
             \/ SendAckLost(w) \/ RecordDelivery(w) \/ PayBusy(w) \/ DeliverBusy(w)
    BY <1>3 DEF StatesFetched, StatesUnavailable, SettleNext, AskProvider, ReadInvoice,
                MarkPaid, Load, SendSucceeds, SendFails, SendRefused, SendAckLost,
                RecordDelivery, PayBusy, DeliverBusy, GiveUp, OnlyJobsMove
  <1>4. CASE AcquirePay(w) \/ AcquireDeliver(w)
    BY <1>4, <1>l DEF AcquirePay, AcquireDeliver, Acquire, LocksOutliveWork, TokensAreTokens
  <1>5. CASE ReleasePay(w) \/ ReleaseDeliver(w)
    BY <1>5, <1>l DEF ReleasePay, ReleaseDeliver, Release
  <1> QED
    BY <1>1, <1>2, <1>3, <1>4, <1>5 DEF Step

\* A task that is outside the locked sections after a step holds nothing.
LEMMA OutsideHolds ==
  ASSUME NEW w \in Workers, job'[w].pc \notin Confirming \cup Delivering
  PROVE  Holds(w)'
  BY DEF Holds

\* Section names the key of the section a task is in.
LEMMA HoldsTheSection ==
  ASSUME NEW w \in Workers
  PROVE  Holds(w) <=> (Section(w) # NoSection => lock[Section(w)] = w)
  BY DEF Holds, Section, NoSection, PayKey, DeliverKey, Confirming, Delivering

\* A task that stays outside, or inside one section, stays where it is.
LEMMA StaysOutside ==
  ASSUME NEW w \in Workers, job[w].pc \notin Confirming \cup Delivering,
         job'[w].pc \notin Confirming \cup Delivering
  PROVE  Section(w)' = Section(w)
  BY DEF Section, NoSection, Confirming, Delivering

LEMMA StaysInside ==
  ASSUME NEW w \in Workers, job'[w].inv = job[w].inv,
         \/ job[w].pc \in Confirming /\ job'[w].pc \in Confirming
         \/ job[w].pc \in Delivering /\ job'[w].pc \in Delivering
  PROVE  Section(w)' = Section(w)
  BY DEF Section, PayKey, DeliverKey, Confirming, Delivering

\* Only taking and releasing a key, or dying, leads into or out of a section.
LEMMA OnlyLocksMoveSections ==
  ASSUME TypeOK, NEW w \in Workers,
         \/ Begin(w) \/ TransactionFails(w)
         \/ Step(w) /\ ~AcquirePay(w) /\ ~AcquireDeliver(w)
                    /\ ~ReleasePay(w) /\ ~ReleaseDeliver(w)
  PROVE  UNCHANGED lock /\ Section(w)' = Section(w)
  <1>j. job \in [Workers -> Job] /\ job[w] \in Job
    BY DEF TypeOK
  <1> USE DEF Confirming, Delivering
  <1>o. ASSUME NEW j, Moves(w, j), j.pc \notin Confirming \cup Delivering,
               job[w].pc \notin Confirming \cup Delivering
        PROVE  Section(w)' = Section(w)
    BY <1>o, <1>j, StaysOutside DEF Moves
  <1>1. CASE Begin(w)
    <2>1. UNCHANGED lock
      BY <1>1 DEF Begin, Notified, Verify, Redeliver, ListPending, OnlyJobsMove
    <2>2. \A i \in Invoices : VerifyPlan(i).pc \notin Confirming \cup Delivering
      BY DEF VerifyPlan, Idle
    <2>3. CASE \E m \in money : Notified(w, m)
      BY <1>o, <2>1, <2>3 DEF Notified, Idle
    <2>4. CASE \E i \in Invoices : Verify(w, i)
      BY <1>o, <2>1, <2>2, <2>4 DEF Verify
    <2>5. CASE \E i \in Invoices : Redeliver(w, i)
      BY <1>o, <2>1, <2>5 DEF Redeliver, Idle
    <2>6. CASE ListPending(w)
      BY <1>o, <2>1, <2>6 DEF ListPending, Idle
    <2> QED
      BY <1>1, <2>3, <2>4, <2>5, <2>6 DEF Begin
  <1>2. CASE TransactionFails(w)
    BY <1>2, <1>j, StaysInside DEF TransactionFails, Moves, OnlyJobsMove, Job
  <1>3. CASE StatesFetched(w) \/ StatesUnavailable(w)
    <2>1. [job[w] EXCEPT !.pc = "next", !.queue = {i \in @ : Captured(i)}].pc = "next"
      BY <1>j DEF Job
    <2> QED
      BY <1>3, <2>1, <1>o DEF StatesFetched, StatesUnavailable, OnlyJobsMove, Idle
  <1>4. CASE SettleNext(w)
    <2>1. \A i : [job[w] EXCEPT !.pc = "pay_lock", !.inv = i, !.queue = @ \ {i}].pc
                   = "pay_lock"
      BY <1>j DEF Job
    <2> QED
      BY <1>4, <2>1, <1>o DEF SettleNext, OnlyJobsMove, Idle
  <1>5. CASE AskProvider(w)
    BY <1>5, <1>j, StaysOutside DEF AskProvider, OnlyJobsMove, Moves, Idle, Job
  <1>6. CASE PayBusy(w) \/ DeliverBusy(w)
    <2>1. Done(job[w]).pc \notin Confirming \cup Delivering
      BY DEF Done, Idle
    <2> QED
      BY <1>6, <2>1, <1>o DEF PayBusy, DeliverBusy, GiveUp, OnlyJobsMove
  <1>7. CASE ReadInvoice(w)
    BY <1>7, <1>j, StaysInside DEF ReadInvoice, Moves, OnlyJobsMove, Job
  <1>8. CASE MarkPaid(w)
    BY <1>8, <1>j, StaysInside DEF MarkPaid, Moves, Job
  <1>9. CASE Load(w)
    BY <1>9, <1>j, StaysInside DEF Load, Moves, OnlyJobsMove, Job
  <1>10. CASE SendSucceeds(w) \/ SendRefused(w) \/ RecordDelivery(w)
    BY <1>10, <1>j, StaysInside DEF SendSucceeds, SendRefused, RecordDelivery,
                                    Moves, OnlyJobsMove, Job
  <1>11. CASE SendFails(w) \/ SendAckLost(w)
    BY <1>11, <1>j, StaysInside DEF SendFails, SendAckLost, Retry, Moves, OnlyJobsMove, Job
  <1> QED
    BY <1>1, <1>2, <1>3, <1>4, <1>5, <1>6, <1>7, <1>8, <1>9, <1>10, <1>11 DEF Step

\* A key is released by a task that leaves its section.
LEMMA ReleasingLeaves ==
  ASSUME TypeOK, NEW w \in Workers, ReleasePay(w) \/ ReleaseDeliver(w)
  PROVE  job'[w].pc \notin Confirming \cup Delivering
  <1>j. job \in [Workers -> Job] /\ job[w] \in Job
    BY DEF TypeOK
  <1>1. Done(job[w]).pc \notin Confirming \cup Delivering
    BY DEF Done, Idle, Confirming, Delivering
  <1>2. CASE ReleasePay(w)
    BY <1>1, <1>2, <1>j DEF ReleasePay, Release, Moves, Job, Confirming, Delivering
  <1>3. CASE ReleaseDeliver(w)
    BY <1>1, <1>3, <1>j DEF ReleaseDeliver, Release, Moves
  <1> QED
    BY <1>2, <1>3

\* A section is entered with its key.
LEMMA AcquiringEnters ==
  ASSUME TypeOK, NEW w \in Workers, JobOK(w), AcquirePay(w) \/ AcquireDeliver(w)
  PROVE  \E k \in LockKeys :
           /\ lock[k] = Free
           /\ lock' = [lock EXCEPT ![k] = w]
           /\ Section(w) = NoSection
           /\ Section(w)' = k
  <1>j. job \in [Workers -> Job] /\ job[w] \in Job
    BY DEF TypeOK
  <1>1. CASE AcquirePay(w)
    <2>1. PayKey(w) \in LockKeys
      BY <1>1, KeysAreKeys DEF AcquirePay
    <2>2. job'[w].inv = job[w].inv /\ job'[w].pc = "read" /\ job[w].pc = "pay_lock"
      BY <1>1, <1>j DEF AcquirePay, Acquire, Moves, Job
    <2>3. Section(w)' = PayKey(w) /\ Section(w) = NoSection
      BY <2>2 DEF Section, PayKey
    <2>4. PICK k \in LockKeys : k = PayKey(w)
      BY <2>1
    <2> QED
      BY <1>1, <2>3, <2>4 DEF AcquirePay, Acquire
  <1>2. CASE AcquireDeliver(w)
    <2>1. DeliverKey(w) \in LockKeys
      BY <1>2, KeysAreKeys DEF AcquireDeliver
    <2>2. job'[w].inv = job[w].inv /\ job'[w].pc = "load" /\ job[w].pc = "deliver_lock"
      BY <1>2, <1>j DEF AcquireDeliver, Acquire, Moves, Job
    <2>3. Section(w)' = DeliverKey(w) /\ Section(w) = NoSection
      BY <2>2 DEF Section, DeliverKey
    <2>4. PICK k \in LockKeys : k = DeliverKey(w)
      BY <2>1
    <2> QED
      BY <1>2, <2>3, <2>4 DEF AcquireDeliver, Acquire
  <1> QED
    BY <1>1, <1>2

\* A task takes the key before it enters a section.
LEMMA TasksHold ==
  ASSUME TypeOK, NEW w \in Workers, JobOK(w), Holds(w),
         Begin(w) \/ Step(w) \/ Crash(w) \/ TransactionFails(w)
  PROVE  Holds(w)'
  <1>t. job \in [Workers -> Job] /\ lock \in [LockKeys -> Workers \cup {Free, Orphan}]
    BY DEF TypeOK
  <1>1. CASE Crash(w)
    BY <1>1, <1>t, OutsideHolds DEF Crash, Moves, Idle, Confirming, Delivering
  <1>2. CASE AcquirePay(w) \/ AcquireDeliver(w)
    <2>1. PICK k \in LockKeys : lock' = [lock EXCEPT ![k] = w] /\ Section(w)' = k
      BY <1>2, AcquiringEnters
    <2>2. (Section(w) # NoSection => lock[Section(w)] = w)'
      BY <1>t, <2>1
    <2> QED
      BY <2>2 DEF Holds, Section, NoSection, PayKey, DeliverKey, Confirming, Delivering
  <1>3. CASE ReleasePay(w) \/ ReleaseDeliver(w)
    BY <1>3, ReleasingLeaves, OutsideHolds
  <1>4. CASE \/ Begin(w) \/ TransactionFails(w)
             \/ Step(w) /\ ~AcquirePay(w) /\ ~AcquireDeliver(w)
                        /\ ~ReleasePay(w) /\ ~ReleaseDeliver(w)
    <2>1. UNCHANGED lock /\ Section(w)' = Section(w)
      BY <1>4, OnlyLocksMoveSections
    <2>2. (Section(w) # NoSection => lock[Section(w)] = w)'
      BY <2>1, HoldsTheSection DEF NoSection
    <2> QED
      BY <2>2 DEF Holds, Section, NoSection, PayKey, DeliverKey, Confirming, Delivering
  <1> QED
    BY <1>1, <1>2, <1>3, <1>4

\* A task that does not move keeps its keys, as long as nobody takes them.
LEMMA StillHolds ==
  ASSUME TypeOK, NEW v \in Workers, JobOK(v), Holds(v), job'[v] = job[v],
         \A k \in LockKeys : lock[k] = v => lock'[k] = v
  PROVE  Holds(v)'
  BY KeysAreKeys DEF Holds, PayKey, DeliverKey

\* Every step leaves the keys with the tasks that are inside.
LEMMA HoldInvIsInductive ==
  ASSUME LocksOutliveWork, SettlementInv, HoldInv, [Next]_vars
  PROVE  HoldInv'
  <1>i. TypeOK /\ JobInv
    BY DEF SettlementInv
  <1>1. CASE Environment \/ UNCHANGED vars
    <2>1. UNCHANGED <<lock, job>>
      BY <1>1 DEF Environment, StartPurchase, Capture, RotateLink, Refund, Housekeeping,
                  GrowStale, vars
    <2> QED
      BY <2>1 DEF HoldInv, Holds, PayKey, DeliverKey
  <1>2. ASSUME NEW w \in Workers, Begin(w) \/ Step(w) \/ Crash(w) \/ TransactionFails(w)
        PROVE  HoldInv'
    <2>1. Holds(w)'
      BY <1>2, <1>i, TasksHold DEF JobInv, HoldInv
    <2>2. ASSUME NEW v \in Workers \ {w} PROVE Holds(v)'
      <3>1. job'[v] = job[v]
        BY <1>2, <1>i, TasksMoveAlone
      <3>2. \A k \in LockKeys : lock[k] = v => lock'[k] = v
        BY <1>2, <1>i, LocksStay DEF JobInv
      <3> QED
        BY <1>i, <3>1, <3>2, StillHolds DEF JobInv, HoldInv
    <2> QED
      BY <2>1, <2>2 DEF HoldInv
  <1>3. ASSUME NEW k \in LockKeys, LockExpires(k)
        PROVE  HoldInv'
    <2>1. ASSUME NEW v \in Workers PROVE Holds(v)'
      <3>1. \A h \in LockKeys : lock[h] = v => lock'[h] = v
        BY <1>3, <1>i DEF LockExpires, LocksOutliveWork, TokensAreTokens, TypeOK
      <3> QED
        BY <1>3, <1>i, <3>1, StillHolds DEF JobInv, HoldInv, LockExpires
    <2> QED
      BY <2>1 DEF HoldInv
  <1> QED
    BY <1>1, <1>2, <1>3 DEF Next

\* Two tasks inside the same section of one purchase are one task.
LEMMA InsideAlone ==
  ASSUME HoldInv, NEW v \in Workers, NEW w \in Workers, job[v].inv = job[w].inv,
         \/ job[v].pc \in Confirming /\ job[w].pc \in Confirming
         \/ job[v].pc \in Delivering /\ job[w].pc \in Delivering
  PROVE  v = w
  BY DEF HoldInv, Holds, PayKey, DeliverKey

\* While locks outlive the work they guard, the locked sections of
\* confirm_payment and _deliver exclude each other for one purchase, through
\* crashes, orphaned keys and failing transactions.
THEOREM LocksAlwaysExclude ==
  ASSUME LocksOutliveWork
  PROVE  Spec => []LocksExclude
  <1>1. Init => HoldInv
    BY DEF Init, HoldInv, Holds, Idle, Confirming, Delivering
  <1>2. SettlementInv /\ HoldInv /\ [Next]_vars => HoldInv'
    BY HoldInvIsInductive
  <1>3. HoldInv => LocksExclude
    BY InsideAlone DEF LocksExclude, Inside, Confirming, Delivering
  <1> QED
    BY <1>1, <1>2, <1>3, SettlementInvariant, PTL DEF Spec

-----------------------------------------------------------------------------
(* The contract of the locks.                                              *)

\* The contract's view of a state.
Taken  == {k \in LockKeys : lock[k] # Free}
Within == [w \in Workers |-> Section(w)]
Owners == {w \in Workers : Section(w) # NoSection /\ lock[Section(w)] = w}

\* A section is one of the lock keys, and being outside is none of them.
LEMMA SectionsAreKeys ==
  ASSUME TypeOK, NEW w \in Workers, JobOK(w)
  PROVE  Section(w) # NoSection => Section(w) \in LockKeys
  BY KeysAreKeys DEF Section, Confirming, Delivering

\* A step that moves no key, and no task into or out of a section, is not seen by
\* the contract.
LEMMA NothingSeen ==
  ASSUME UNCHANGED lock, \A w \in Workers : Section(w)' = Section(w)
  PROVE  UNCHANGED <<Taken, Within, Owners>>
  <1>1. Taken' = Taken
    BY DEF Taken
  <1>2. Within' = Within
    BY DEF Within
  <1>3. Owners' = Owners
    BY DEF Owners
  <1> QED
    BY <1>1, <1>2, <1>3

\* A task that does not move stays in its section.
LEMMA OthersStay ==
  ASSUME NEW v \in Workers, job'[v] = job[v]
  PROVE  Section(v)' = Section(v)
  BY DEF Section, PayKey, DeliverKey

\* Entering a section takes its free key.
LEMMA EnteringTakes ==
  ASSUME TypeOK, JobInv, TokensAreTokens, NEW w \in Workers,
         AcquirePay(w) \/ AcquireDeliver(w)
  PROVE  \E k \in LockKeys : Locks!Acquire(w, k)
  <1>l. lock \in [LockKeys -> Workers \cup {Free, Orphan}]
    BY DEF TypeOK
  <1>o. \A v \in Workers \ {w} : Section(v)' = Section(v)
    BY TasksMoveAlone, OthersStay DEF Step
  <1>1. PICK k \in LockKeys : /\ lock[k] = Free
                              /\ lock' = [lock EXCEPT ![k] = w]
                              /\ Section(w) = NoSection
                              /\ Section(w)' = k
    BY AcquiringEnters DEF JobInv
  <1>2. Within[w] = NoSection /\ k \notin Taken /\ k # NoSection
    BY <1>1 DEF Within, Taken, LockKeys, NoSection
  <1>3. Taken' = Taken \cup {k}
    BY <1>1, <1>l DEF Taken, TokensAreTokens
  <1>4. Within' = [Within EXCEPT ![w] = k]
    BY <1>1, <1>o DEF Within
  <1>5. Owners' = Owners \cup {w}
    <2>1. ASSUME NEW v \in Workers \ {w} PROVE v \in Owners' <=> v \in Owners
      <3>1. Section(v) # NoSection => Section(v) \in LockKeys
        BY SectionsAreKeys DEF JobInv
      <3>2. v \in Owners' <=> Section(v) # NoSection /\ lock'[Section(v)] = v
        BY <1>o DEF Owners, NoSection
      <3> QED
        BY <1>1, <1>l, <3>1, <3>2 DEF Owners, TokensAreTokens
    <2>2. w \in Owners'
      BY <1>1, <1>2, <1>l DEF Owners, NoSection
    <2> QED
      BY <2>1, <2>2 DEF Owners
  <1> QED
    BY <1>2, <1>3, <1>4, <1>5 DEF Locks!Acquire, Taken, Within, Owners

\* Who leaves a section is inside nothing and owns nothing.
LEMMA LeavingASection ==
  ASSUME NEW w \in Workers, Section(w)' = NoSection,
         \A v \in Workers \ {w} : Section(v)' = Section(v),
         \A v \in Workers \ {w} :
           Section(v) # NoSection => (lock'[Section(v)] = v <=> lock[Section(v)] = v)
  PROVE  Within' = [Within EXCEPT ![w] = NoSection] /\ Owners' = Owners \ {w}
  <1>1. Within' = [Within EXCEPT ![w] = NoSection]
    BY DEF Within
  <1>2. ASSUME NEW v \in Workers \ {w} PROVE v \in Owners' <=> v \in Owners
    <2>1. v \in Owners' <=> Section(v) # NoSection /\ lock'[Section(v)] = v
      BY <1>2 DEF Owners, NoSection
    <2> QED
      BY <2>1 DEF Owners
  <1>3. w \notin Owners'
    BY DEF Owners, NoSection
  <1> QED
    BY <1>1, <1>2, <1>3 DEF Owners

\* Leaving a section frees its key if the task still has it.
LEMMA LeavingFrees ==
  ASSUME TypeOK, JobInv, TokensAreTokens, NEW w \in Workers,
         ReleasePay(w) \/ ReleaseDeliver(w)
  PROVE  Locks!Release(w)
  <1>l. lock \in [LockKeys -> Workers \cup {Free, Orphan}]
    BY DEF TypeOK
  <1>o. \A v \in Workers \ {w} : Section(v)' = Section(v)
    BY TasksMoveAlone, OthersStay DEF Step
  <1>s. Section(w)' = NoSection
    BY ReleasingLeaves DEF Section, NoSection, Confirming, Delivering
  <1>1. PICK k \in LockKeys :
          Section(w) = k /\ lock' = [lock EXCEPT ![k] = IF @ = w THEN Free ELSE @]
    <2>1. CASE ReleasePay(w)
      <3>1. Section(w) = PayKey(w) /\ PayKey(w) \in LockKeys
        BY <2>1, KeysAreKeys DEF ReleasePay, Section, Confirming, JobInv
      <3>2. lock' = [lock EXCEPT ![PayKey(w)] = IF @ = w THEN Free ELSE @]
        BY <2>1 DEF ReleasePay, Release
      <3> QED
        BY <3>1, <3>2
    <2>2. CASE ReleaseDeliver(w)
      <3>1. Section(w) = DeliverKey(w) /\ DeliverKey(w) \in LockKeys
        BY <2>2, KeysAreKeys DEF ReleaseDeliver, Section, Delivering, JobInv
      <3>2. lock' = [lock EXCEPT ![DeliverKey(w)] = IF @ = w THEN Free ELSE @]
        BY <2>2 DEF ReleaseDeliver, Release
      <3> QED
        BY <3>1, <3>2
    <2> QED
      BY <2>1, <2>2
  <1>2. Within[w] = k /\ k # NoSection
    BY <1>1 DEF Within, LockKeys, NoSection
  <1>3. w \in Owners <=> lock[k] = w
    BY <1>1, <1>2 DEF Owners
  <1>4. Taken' = IF w \in Owners THEN Taken \ {Within[w]} ELSE Taken
    <2>1. CASE lock[k] = w
      <3>1. lock' = [lock EXCEPT ![k] = Free]
        BY <1>1, <2>1
      <3>2. Taken' = Taken \ {k}
        BY <1>l, <3>1 DEF Taken
      <3> QED
        BY <1>2, <1>3, <2>1, <3>2
    <2>2. CASE lock[k] # w
      <3>1. lock' = lock
        BY <1>1, <1>l, <2>2
      <3>2. Taken' = Taken
        BY <3>1 DEF Taken
      <3> QED
        BY <1>3, <2>2, <3>2
    <2> QED
      BY <2>1, <2>2
  <1>5. ASSUME NEW v \in Workers \ {w}, Section(v) # NoSection
        PROVE  lock'[Section(v)] = v <=> lock[Section(v)] = v
    <2>1. Section(v) \in LockKeys
      BY <1>5, SectionsAreKeys DEF JobInv
    <2> QED
      BY <1>1, <1>l, <2>1 DEF TokensAreTokens
  <1>6. Within' = [Within EXCEPT ![w] = NoSection] /\ Owners' = Owners \ {w}
    BY <1>s, <1>o, <1>5, LeavingASection
  <1> QED
    BY <1>2, <1>4, <1>6 DEF Locks!Release, Taken, Within, Owners

\* A task that dies leaves its key to its lifetime.
LEMMA DyingLeaves ==
  ASSUME TypeOK, JobInv, TokensAreTokens, NEW w \in Workers, Crash(w)
  PROVE  Locks!Die(w) \/ UNCHANGED <<Taken, Within, Owners>>
  <1>l. lock \in [LockKeys -> Workers \cup {Free, Orphan}]
    BY DEF TypeOK
  <1>c. lock' = [k \in LockKeys |-> IF lock[k] = w THEN Orphan ELSE lock[k]]
    BY DEF Crash
  <1>o. \A v \in Workers \ {w} : Section(v)' = Section(v)
    BY TasksMoveAlone, OthersStay
  <1>s. Section(w)' = NoSection
    <2>1. job'[w].pc = "idle"
      BY DEF Crash, Moves, Idle, TypeOK
    <2> QED
      BY <2>1 DEF Section, NoSection
  <1>1. Taken' = Taken
    BY <1>l, <1>c DEF Taken, TokensAreTokens, Free, Orphan
  <1>2. ASSUME NEW v \in Workers \ {w}, Section(v) # NoSection
        PROVE  lock'[Section(v)] = v <=> lock[Section(v)] = v
    <2>1. Section(v) \in LockKeys
      BY <1>2, SectionsAreKeys DEF JobInv
    <2> QED
      BY <1>c, <1>l, <2>1 DEF TokensAreTokens
  <1>3. Within' = [Within EXCEPT ![w] = NoSection] /\ Owners' = Owners \ {w}
    BY <1>s, <1>o, <1>2, LeavingASection
  <1>4. CASE Section(w) # NoSection
    <2>1. Within[w] # NoSection
      BY <1>4 DEF Within
    <2> QED
      BY <2>1, <1>1, <1>3 DEF Locks!Die, Taken, Within, Owners
  <1>5. CASE Section(w) = NoSection
    <2>1. Within' = Within
      BY <1>3, <1>5 DEF Within
    <2>2. Owners' = Owners
      BY <1>3, <1>5 DEF Owners
    <2> QED
      BY <1>1, <2>1, <2>2
  <1> QED
    BY <1>4, <1>5

\* A key that expires has no owner any more, and nobody leaves a section.
LEMMA ExpiringTakesAway ==
  ASSUME TypeOK, JobInv, TokensAreTokens, NEW k \in LockKeys, LockExpires(k)
  PROVE  Locks!Expire
  <1>l. lock \in [LockKeys -> Workers \cup {Free, Orphan}]
    BY DEF TypeOK
  <1>k. lock' = [lock EXCEPT ![k] = Free] /\ job' = job
    BY DEF LockExpires
  <1>o. \A v \in Workers : Section(v)' = Section(v)
    BY <1>k, OthersStay
  <1>1. Taken' \in SUBSET Taken
    BY <1>l, <1>k DEF Taken
  <1>2. Within' = Within
    BY <1>o DEF Within
  <1>3. ASSUME NEW v \in Workers
        PROVE  v \in Owners' <=> v \in Owners /\ Within[v] \in Taken'
    <2>1. v \in Owners' <=> Section(v) # NoSection /\ lock'[Section(v)] = v
      BY <1>o DEF Owners, NoSection
    <2>2. Section(v) # NoSection => Section(v) \in LockKeys
      BY SectionsAreKeys DEF JobInv
    <2>3. v # Free /\ Within[v] = Section(v)
      BY DEF TokensAreTokens, Within
    <2> QED
      BY <1>l, <1>k, <2>1, <2>2, <2>3 DEF Owners, Taken
  <1>4. Owners' = {v \in Owners : Within[v] \in Taken'}
    BY <1>3 DEF Owners
  <1> QED
    BY <1>1, <1>2, <1>4 DEF Locks!Expire, Taken, Within, Owners

\* Every step of the settlement uses the locks as their contract allows.
LEMMA StepUsesLocks ==
  TokensAreTokens /\ SettlementInv /\ [Next]_vars =>
    [Locks!Next]_<<Taken, Within, Owners>>
  <1> SUFFICES ASSUME TokensAreTokens, SettlementInv, [Next]_vars
               PROVE  Locks!Next \/ UNCHANGED <<Taken, Within, Owners>>
    OBVIOUS
  <1>i. TypeOK /\ JobInv
    BY DEF SettlementInv
  <1>1. CASE Environment \/ UNCHANGED vars
    <2>1. UNCHANGED <<lock, job>>
      BY <1>1 DEF Environment, StartPurchase, Capture, RotateLink, Refund, Housekeeping,
                  GrowStale, vars
    <2> QED
      BY <2>1, OthersStay, NothingSeen
  <1>2. ASSUME NEW w \in Workers, AcquirePay(w) \/ AcquireDeliver(w)
        PROVE  Locks!Next
    BY <1>2, <1>i, EnteringTakes DEF Locks!Next
  <1>3. ASSUME NEW w \in Workers, ReleasePay(w) \/ ReleaseDeliver(w)
        PROVE  Locks!Next
    BY <1>3, <1>i, LeavingFrees DEF Locks!Next
  <1>4. ASSUME NEW w \in Workers, Crash(w)
        PROVE  Locks!Next \/ UNCHANGED <<Taken, Within, Owners>>
    BY <1>4, <1>i, DyingLeaves DEF Locks!Next
  <1>5. ASSUME NEW k \in LockKeys, LockExpires(k)
        PROVE  Locks!Next
    BY <1>5, <1>i, ExpiringTakesAway DEF Locks!Next
  <1>6. ASSUME NEW w \in Workers,
               \/ Begin(w) \/ TransactionFails(w)
               \/ Step(w) /\ ~AcquirePay(w) /\ ~AcquireDeliver(w)
                          /\ ~ReleasePay(w) /\ ~ReleaseDeliver(w)
        PROVE  UNCHANGED <<Taken, Within, Owners>>
    <2>1. UNCHANGED lock /\ Section(w)' = Section(w)
      BY <1>6, <1>i, OnlyLocksMoveSections
    <2>2. \A v \in Workers \ {w} : Section(v)' = Section(v)
      BY <1>6, <1>i, TasksMoveAlone, OthersStay
    <2> QED
      BY <2>1, <2>2, NothingSeen
  <1> QED
    BY <1>1, <1>2, <1>3, <1>4, <1>5, <1>6 DEF Next

\* The settlement uses locks in no other way than LockManager's contract allows,
\* with every fault: keys that expire under a task, crashes and failing transactions.
THEOREM SettlementUsesTheContract ==
  ASSUME TokensAreTokens
  PROVE  Spec => UsesLockService
  <1>1. Init => Locks!Init
    BY DEF Init, Locks!Init, Section, NoSection, Idle, LockKeys
  <1>2. SettlementInv /\ [Next]_vars => [Locks!Next]_Locks!vars
    BY StepUsesLocks DEF Locks!vars, Taken, Within, Owners
  <1> QED
    BY <1>1, <1>2, SettlementInvariant, PTL DEF Spec, UsesLockService, Locks!Spec

-----------------------------------------------------------------------------
(* The settlement implements the ledger.                                   *)

Open   == {"pending", "expired"}
Unpaid == Open \cup {"absent"}

\* The row mark_paid writes is the row that the repository's transaction would write,
\* or none: a replay finds its charge already recorded.
LEMMA MarkPaidImplements ==
  ASSUME SettlementInv, NEW w \in Workers, MarkPaid(w)
  PROVE  rows' = rows \/ Ledger!MarkPaid(job[w].inv, job[w].charge)
  <1> DEFINE i  == job[w].inv
             ch == job[w].charge
  <1>1. JobOK(w) /\ TypeOK
    BY DEF SettlementInv, JobInv
  <1>2. /\ i \in Invoices /\ ch \in Charges \cup {None}
        /\ rows[i] \in Ledger!Row /\ rows \in [Invoices -> Ledger!Row]
    BY <1>1 DEF MarkPaid, JobOK, Nameless, TypeOK, Ledger!TypeOK, Job
  <1>3. \/ rows' = rows
        \/ ~PayRefused(i, ch) /\ rows' = [rows EXCEPT ![i] = PaidRow(i, ch)]
    BY DEF MarkPaid
  <1>4. ASSUME ~PayRefused(i, ch), rows' = [rows EXCEPT ![i] = PaidRow(i, ch)],
               rows[i].status \in Open
        PROVE  Ledger!MarkPaid(i, ch)
    <2>1. PaidRow(i, ch) =
            [rows[i] EXCEPT !.status = "paid", !.paidAt = TRUE,
                            !.charge = Ledger!ChargeAfter(rows[i], ch)]
      BY <1>4 DEF PaidRow, Ledger!AccessGranting, Open
    <2>2. PaidRow(i, ch).charge = Ledger!ChargeAfter(rows[i], ch)
      BY <1>2, <2>1 DEF Ledger!Row
    <2>3. Ledger!OnlyPaidCopy(i) /\ Ledger!OnlyCarrier(i, ch)
      BY <1>4, <2>2 DEF PayRefused, Open, Ledger!OnlyCarrier, Ledger!ChargeAfter
    <2> QED
      BY <1>4, <2>1, <2>3 DEF Ledger!MarkPaid, Open
  <1>5. ASSUME rows' = [rows EXCEPT ![i] = PaidRow(i, ch)],
               rows[i].status \in AccessGranting
        PROVE  rows' = rows
    <2>1. ch # None => i \in StarsInvoices
      BY <1>1 DEF JobOK, MarkPaid, Paying, SettlementInv, MoneyInv
    <2>2. ch # None => rows[i].charge # None
      BY <1>2, <1>5, <2>1 DEF SettlementInv, RowInv, RowOK
    <2>3. PaidRow(i, ch) = [rows[i] EXCEPT !.charge = rows[i].charge]
      BY <1>2, <1>5, <2>2 DEF PaidRow, AccessGranting, Ledger!Row
    <2>4. PaidRow(i, ch) = rows[i]
      BY <1>2, <2>3 DEF Ledger!Row
    <2> QED
      BY <1>2, <1>5, <2>4
  <1>6. rows[i].status \in Open \cup AccessGranting \cup {"absent", "refunded"}
    BY <1>2 DEF Ledger!Row, Ledger!Statuses, AccessGranting, Ledger!AccessGranting, Open
  <1>7. rows[i].status # "absent"
    BY <1>1 DEF JobOK, MarkPaid
  <1> QED
    BY <1>3, <1>4, <1>5, <1>6, <1>7 DEF PayRefused

\* mark_delivered writes what the repository's would.
LEMMA RecordDeliveryImplements ==
  ASSUME SettlementInv, NEW w \in Workers, RecordDelivery(w)
  PROVE  \/ rows' = rows
         \/ \E u \in Links : Ledger!MarkDelivered(job[w].inv, u)
  <1>1. job[w].url \in Links
    BY DEF SettlementInv, JobInv, JobOK, RecordDelivery, Sending
  <1> QED
    BY <1>1 DEF RecordDelivery

\* The other steps of tasks and locks leave the table alone.
LEMMA OthersLeaveRows ==
  ASSUME NEW w \in Workers,
         Begin(w) \/ Step(w) \/ Crash(w) \/ TransactionFails(w)
  PROVE  MarkPaid(w) \/ RecordDelivery(w) \/ rows' = rows
  <1>1. CASE Begin(w) \/ Crash(w) \/ TransactionFails(w)
    BY <1>1 DEF Begin, Notified, Verify, Redeliver, ListPending, Crash, TransactionFails,
                OnlyJobsMove
  <1>2. CASE \/ StatesFetched(w) \/ StatesUnavailable(w) \/ SettleNext(w)
             \/ AskProvider(w) \/ AcquirePay(w) \/ PayBusy(w) \/ ReadInvoice(w)
             \/ ReleasePay(w) \/ AcquireDeliver(w) \/ DeliverBusy(w) \/ Load(w)
             \/ SendSucceeds(w) \/ SendFails(w) \/ SendRefused(w) \/ SendAckLost(w)
             \/ ReleaseDeliver(w)
    BY <1>2 DEF StatesFetched, StatesUnavailable, SettleNext, AskProvider, AcquirePay, PayBusy,
                ReadInvoice, ReleasePay, AcquireDeliver, DeliverBusy, Load, SendSucceeds,
                SendFails, SendRefused, SendAckLost, ReleaseDeliver, Acquire, Release, GiveUp,
                OnlyJobsMove
  <1> QED
    BY <1>1, <1>2 DEF Step

\* What the outside world does to the table is one step of the ledger, or none.
LEMMA EnvironmentImplements ==
  ASSUME Environment
  PROVE  \/ rows' = rows
         \/ \E i \in Invoices, c \in Copies : Ledger!Create(i, c)
         \/ \E i \in Invoices : Ledger!MarkRefunded(i)
         \/ Ledger!ExpirePending
         \/ \E i \in Invoices : Ledger!GrowStale(i)
  BY DEF Environment, StartPurchase, Capture, RotateLink, Refund, Housekeeping, GrowStale

\* Every step is one step of the ledger, or none.
LEMMA StepImplements ==
  ASSUME SettlementInv, [Next]_vars
  PROVE  [Ledger!Next]_rows
  <1>1. CASE Environment
    BY <1>1, EnvironmentImplements DEF Ledger!Next
  <1>2. ASSUME NEW w \in Workers, Begin(w) \/ Step(w) \/ Crash(w) \/ TransactionFails(w)
        PROVE  [Ledger!Next]_rows
    <2>1. CASE MarkPaid(w)
      <3>1. job[w].inv \in Invoices /\ job[w].charge \in Charges \cup {None}
        BY <2>1 DEF MarkPaid, SettlementInv, JobInv, JobOK, Nameless, TypeOK, Job
      <3> QED
        BY <2>1, <3>1, MarkPaidImplements DEF Ledger!Next
    <2>2. CASE RecordDelivery(w)
      <3>1. job[w].inv \in Invoices
        BY <2>2 DEF RecordDelivery, SettlementInv, JobInv, JobOK, Nameless
      <3> QED
        BY <2>2, <3>1, RecordDeliveryImplements DEF Ledger!Next
    <2> QED
      BY <1>2, <2>1, <2>2, OthersLeaveRows
  <1>3. CASE (\E k \in LockKeys : LockExpires(k)) \/ UNCHANGED vars
    BY <1>3 DEF LockExpires, vars
  <1> QED
    BY <1>1, <1>2, <1>3 DEF Next

\* The concurrent tasks, with their separate reads, locks and writes, change the
\* table only as the repository's atomic transactions would, with every fault: locks
\* that expire under a task, crashes and failing transactions.
THEOREM SettlementImplementsLedger == Spec => ImplementsLedger
  <1>1. Init => Ledger!Init
    BY DEF Init
  <1>2. SettlementInv /\ [Next]_vars => [Ledger!Next]_rows
    BY StepImplements
  <1> QED
    BY <1>1, <1>2, SettlementInvariant, PTL DEF Spec, ImplementsLedger, Ledger!Spec

-----------------------------------------------------------------------------
(* What the ledger's theorems say about the settlement.                    *)

\* The theorems about the ledger.
Proved == INSTANCE PurchaseLedgerProofs

\* What PurchaseLedger assumes of NULL.
NullIsNoValue == None \notin Charges \cup Links \cup Copies

\* Both instances of the ledger start in the same table.
LEMMA SameStart == Ledger!Init => Proved!Init
  BY DEF Ledger!Init, Proved!Init, Ledger!NoRow, Proved!NoRow

\* And take the same steps.
LEMMA SameSteps == [Ledger!Next]_rows => [Proved!Next]_rows
  <1> USE DEF Ledger!Owns, Proved!Owns, Ledger!AccessGranting, Proved!AccessGranting
  <1>1. \A i \in Invoices, c \in Copies : Ledger!Create(i, c) <=> Proved!Create(i, c)
    BY DEF Ledger!Create, Proved!Create, Ledger!NoRow, Proved!NoRow
  <1>2. \A i \in Invoices, ch \in Charges \cup {None} :
          Ledger!MarkPaid(i, ch) <=> Proved!MarkPaid(i, ch)
    BY DEF Ledger!MarkPaid, Proved!MarkPaid, Ledger!OnlyPaidCopy, Proved!OnlyPaidCopy,
           Ledger!OnlyCarrier, Proved!OnlyCarrier, Ledger!ChargeAfter, Proved!ChargeAfter
  <1>3. \A i \in Invoices, ch \in Charges : Ledger!ReplayPaid(i, ch) <=> Proved!ReplayPaid(i, ch)
    BY DEF Ledger!ReplayPaid, Proved!ReplayPaid, Ledger!OnlyCarrier, Proved!OnlyCarrier
  <1>4. \A i \in Invoices, u \in Links : Ledger!MarkDelivered(i, u) <=> Proved!MarkDelivered(i, u)
    BY DEF Ledger!MarkDelivered, Proved!MarkDelivered
  <1>5. \A i \in Invoices : Ledger!MarkRefunded(i) <=> Proved!MarkRefunded(i)
    BY DEF Ledger!MarkRefunded, Proved!MarkRefunded, Ledger!PaidAtPresent, Proved!PaidAtPresent,
           Ledger!Statuses, Proved!Statuses
  <1>6. Ledger!ExpirePending <=> Proved!ExpirePending
    BY DEF Ledger!ExpirePending, Proved!ExpirePending, Ledger!Expirable, Proved!Expirable
  <1>7. \A i \in Invoices : Ledger!GrowStale(i) <=> Proved!GrowStale(i)
    BY DEF Ledger!GrowStale, Proved!GrowStale
  <1> QED
    BY <1>1, <1>2, <1>3, <1>4, <1>5, <1>6, <1>7 DEF Ledger!Next, Proved!Next

\* Through the refinement, the table keeps the ledger's invariant and moves by its
\* transactions.
LEMMA LedgerStaysSound ==
  ASSUME NullIsNoValue
  PROVE  Spec => []Proved!LedgerInv /\ [][Proved!Next]_rows
  <1>1. Ledger!Init => Proved!LedgerInv
    BY SameStart, Proved!InitEstablishesInv DEF NullIsNoValue
  <1>2. Proved!LedgerInv /\ [Ledger!Next]_rows => Proved!LedgerInv'
    BY SameSteps, Proved!InvIsPreserved DEF NullIsNoValue
  <1> QED
    BY <1>1, <1>2, SameSteps, SettlementImplementsLedger, PTL DEF ImplementsLedger, Ledger!Spec

\* Nothing moves a refunded purchase: not a late notification whose task found the
\* row before the refund, nor a delivery that had already begun, whether or not their
\* locks have expired.
THEOREM RefundsStayRefunded ==
  ASSUME NullIsNoValue
  PROVE  Spec => Ledger!RefundIsFinal
  <1>1. Proved!LedgerInv /\ [Proved!Next]_rows =>
          [\A i \in Invoices : rows[i].status = "refunded" => rows'[i] = rows[i]]_rows
    BY Proved!StepKeepsRefunds DEF NullIsNoValue
  <1> QED
    BY <1>1, LedgerStaysSound, PTL DEF Ledger!RefundIsFinal

\* Nor does any mix of tasks, crashes, expired locks and failing transactions clear or
\* replace a recorded payment, its charge or its delivered URL.
THEOREM PaymentsAreRemembered ==
  ASSUME NullIsNoValue
  PROVE  Spec => Ledger!PaymentIsNeverForgotten
  <1>1. Proved!LedgerInv /\ [Proved!Next]_rows =>
          [\A i \in Invoices :
             /\ rows[i].paidAt => rows'[i].paidAt
             /\ rows[i].charge # None => rows'[i].charge = rows[i].charge
             /\ rows[i].url # None => rows'[i].url = rows[i].url
             /\ Ledger!Owns(i) => rows'[i].status \in Ledger!AccessGranting \cup {"refunded"}]_rows
    BY Proved!StepRemembers
    DEF NullIsNoValue, Proved!Remembers, Ledger!Owns, Proved!Owns, Ledger!AccessGranting,
        Proved!AccessGranting
  <1> QED
    BY <1>1, LedgerStaysSound, PTL DEF Ledger!PaymentIsNeverForgotten

\* The writes of the tasks never trip a CHECK of the table, and the refund of a charge
\* finds one purchase.
THEOREM ConstraintsAlwaysHold ==
  ASSUME NullIsNoValue
  PROVE  Spec => [](Ledger!ChecksHold /\ Ledger!ChargeRecordedOnce)
  <1>1. Proved!LedgerInv => Ledger!ChecksHold
    BY DEF Proved!LedgerInv, Proved!ChecksHold, Ledger!ChecksHold, Proved!PaidAtPresent,
           Ledger!PaidAtPresent, Proved!DeliveryComplete, Ledger!DeliveryComplete
  <1>2. Proved!LedgerInv => Ledger!ChargeRecordedOnce
    BY DEF Proved!LedgerInv, Proved!ChargeRecordedOnce, Ledger!ChargeRecordedOnce
  <1> QED
    BY <1>1, <1>2, LedgerStaysSound, PTL

-----------------------------------------------------------------------------
(* That what is paid stays paid.                                           *)

\* A row that has been paid never looks unpaid again.
PaidStays(i) == rows[i].paidAt => rows[i].status \notin Unpaid

PaidInv == \A i \in Invoices : PaidStays(i)

\* What a step that writes no payment may do to a row.
Keeps(i) ==
  /\ rows[i].status \notin Unpaid => rows'[i].status \notin Unpaid
  /\ rows'[i].status = "paid" => rows[i].status = "paid"
  /\ rows'[i].paidAt => rows[i].paidAt

\* Creations, refunds, expiries and deliveries are such steps.
LEMMA LedgerKeeps ==
  ASSUME TypeOK, RowInv, PaidInv,
         \/ rows' = rows
         \/ \E i \in Invoices, c \in Copies : Ledger!Create(i, c)
         \/ \E i \in Invoices : rows[i].charge # None /\ Ledger!MarkRefunded(i)
         \/ Ledger!ExpirePending
         \/ \E i \in Invoices : Ledger!GrowStale(i)
         \/ \E i \in Invoices, u \in Links : Ledger!MarkDelivered(i, u)
  PROVE  \A i \in Invoices : Keeps(i)
  <1>r. rows \in [Invoices -> Ledger!Row]
    BY DEF TypeOK, Ledger!TypeOK
  <1>f. \A i \in Invoices : rows[i] \in Ledger!Row
    BY <1>r
  <1> USE DEF Open, Unpaid, Keeps
  <1>1. CASE rows' = rows
    BY <1>1
  <1>2. ASSUME NEW i \in Invoices, NEW c \in Copies, Ledger!Create(i, c)
        PROVE  \A j \in Invoices : Keeps(j)
    BY <1>2, <1>r DEF Ledger!Create, Ledger!NoRow
  <1>3. ASSUME NEW i \in Invoices, rows[i].charge # None, Ledger!MarkRefunded(i)
        PROVE  \A j \in Invoices : Keeps(j)
    <2>1. rows[i].status \notin Unpaid
      BY <1>3 DEF RowInv, RowOK, PaidInv, PaidStays
    <2> QED
      BY <1>3, <1>r, <1>f, <2>1 DEF Ledger!MarkRefunded, Ledger!Row
  <1>4. CASE Ledger!ExpirePending
    BY <1>4, <1>f DEF Ledger!ExpirePending, Ledger!Expirable, Ledger!Row
  <1>5. ASSUME NEW i \in Invoices, Ledger!GrowStale(i)
        PROVE  \A j \in Invoices : Keeps(j)
    BY <1>5, <1>r, <1>f DEF Ledger!GrowStale, Ledger!Row
  <1>6. ASSUME NEW i \in Invoices, NEW u \in Links, Ledger!MarkDelivered(i, u)
        PROVE  \A j \in Invoices : Keeps(j)
    BY <1>6, <1>r, <1>f DEF Ledger!MarkDelivered, Ledger!Row
  <1> QED
    BY <1>1, <1>2, <1>3, <1>4, <1>5, <1>6

\* A refund finds a row by its charge.
LEMMA EnvironmentKeeps ==
  ASSUME SettlementInv, PaidInv, Environment
  PROVE  \A i \in Invoices : Keeps(i)
  <1>1. \/ rows' = rows
        \/ \E i \in Invoices, c \in Copies : Ledger!Create(i, c)
        \/ \E i \in Invoices : rows[i].charge # None /\ Ledger!MarkRefunded(i)
        \/ Ledger!ExpirePending
        \/ \E i \in Invoices : Ledger!GrowStale(i)
    BY DEF Environment, StartPurchase, Capture, RotateLink, Refund, Housekeeping, GrowStale
  <1>2. TypeOK /\ RowInv
    BY DEF SettlementInv
  <1> QED
    BY <1>1, <1>2, LedgerKeeps

\* Rows that are only kept stay as paid as they were.
LEMMA KeepingKeepsPaid ==
  ASSUME NEW i \in Invoices, PaidStays(i), Keeps(i)
  PROVE  PaidStays(i)'
  BY DEF PaidStays, Keeps

\* mark_paid leaves the other rows alone, and its own becomes PAID.
LEMMA MarkPaidKeepsPaid ==
  ASSUME SettlementInv, PaidInv, NEW w \in Workers, MarkPaid(w)
  PROVE  PaidInv'
  <1> DEFINE i == job[w].inv
  <1>1. i \in Invoices /\ rows \in [Invoices -> Ledger!Row] /\ rows[i] \in Ledger!Row
    BY DEF MarkPaid, SettlementInv, JobInv, JobOK, Nameless, TypeOK, Ledger!TypeOK
  <1>2. ASSUME Ledger!MarkPaid(i, job[w].charge)
        PROVE  rows' = [rows EXCEPT ![i] = [rows[i] EXCEPT
                          !.status = "paid", !.paidAt = TRUE,
                          !.charge = Ledger!ChargeAfter(rows[i], job[w].charge)]]
    BY <1>1, <1>2 DEF Ledger!MarkPaid
  <1>3. [rows[i] EXCEPT !.status = "paid", !.paidAt = TRUE,
           !.charge = Ledger!ChargeAfter(rows[i], job[w].charge)].status = "paid"
    BY <1>1 DEF Ledger!Row
  <1>4. /\ \A j \in Invoices \ {i} : rows'[j] = rows[j]
        /\ rows'[i] = rows[i] \/ rows'[i].status = "paid"
    BY <1>1, <1>2, <1>3, MarkPaidImplements
  <1> QED
    BY <1>4 DEF PaidInv, PaidStays, Unpaid, Open

\* Every step leaves what is paid paid.
LEMMA PaidInvIsInductive ==
  ASSUME SettlementInv, PaidInv, [Next]_vars
  PROVE  PaidInv'
  <1>i. TypeOK /\ RowInv /\ JobInv
    BY DEF SettlementInv
  <1>k. (\A i \in Invoices : Keeps(i)) => PaidInv'
    BY KeepingKeepsPaid DEF PaidInv
  <1>1. CASE Environment
    BY <1>1, <1>k, EnvironmentKeeps
  <1>2. ASSUME NEW w \in Workers, Begin(w) \/ Step(w) \/ Crash(w) \/ TransactionFails(w)
        PROVE  PaidInv'
    <2>1. CASE MarkPaid(w)
      BY <2>1, MarkPaidKeepsPaid
    <2>2. CASE ~MarkPaid(w)
      <3>1. RecordDelivery(w) => job[w].inv \in Invoices
        BY <1>i DEF RecordDelivery, JobInv, JobOK, Nameless
      <3>2. \/ rows' = rows
            \/ \E i \in Invoices, u \in Links : Ledger!MarkDelivered(i, u)
        BY <1>2, <2>2, <3>1, OthersLeaveRows, RecordDeliveryImplements
      <3> QED
        BY <1>i, <1>k, <3>2, LedgerKeeps
    <2> QED
      BY <2>1, <2>2
  <1>3. CASE (\E k \in LockKeys : LockExpires(k)) \/ UNCHANGED vars
    <2>1. rows' = rows
      BY <1>3 DEF LockExpires, vars
    <2> QED
      BY <1>i, <1>k, <2>1, LedgerKeeps
  <1> QED
    BY <1>1, <1>2, <1>3 DEF Next

\* The two invariants that the tasks keep by themselves and the one of the locks.
LEMMA LockedInvariant ==
  ASSUME LocksOutliveWork
  PROVE  Spec => [](SettlementInv /\ HoldInv /\ PaidInv)
  <1>1. Init => HoldInv
    BY DEF Init, HoldInv, Holds, Idle, Confirming, Delivering
  <1>2. Init => PaidInv
    BY DEF Init, Ledger!Init, Ledger!NoRow, PaidInv, PaidStays
  <1>3. SettlementInv /\ HoldInv /\ [Next]_vars => HoldInv'
    BY HoldInvIsInductive
  <1>4. SettlementInv /\ PaidInv /\ [Next]_vars => PaidInv'
    BY PaidInvIsInductive
  <1> QED
    BY <1>1, <1>2, <1>3, <1>4, SettlementInvariant, PTL DEF Spec

-----------------------------------------------------------------------------
(***************************************************************************)
(* "A replayed notification ... delivers nothing twice", as long as nothing*)
(* crashes, no transaction fails, no acknowledgement is lost and locks     *)
(* outlive their work (Calm).  Each of these conditions is needed: the     *)
(* window between Telegram's answer and the commit of mark_delivered is    *)
(* where a delivery may be repeated.                                       *)
(*                                                                         *)
(* The invariant says what the delivery lock makes of that window: while a *)
(* row whose message was sent is still PAID, the task that sent it is in   *)
(* the locked section, about to record the delivery (SentOK); so whoever   *)
(* loads a PAID row under the lock has a message to send (FirstSend).      *)
(***************************************************************************)

\* Nothing happens between a send and its record.
Calm ==
  /\ LocksOutliveWork
  /\ "ack_lost" \notin Faults /\ "db" \notin Faults
  /\ MaxCrashes = 0

Recording(w, i) == job[w].pc = "mark_delivered" /\ job[w].inv = i

\* One message at most; a PAID row whose message was sent is being recorded.
SentOK(i) ==
  sends[i] # 0 =>
    /\ sends[i] = 1
    /\ rows[i].status \notin Unpaid
    /\ rows[i].status = "paid" => \E w \in Workers : Recording(w, i)

\* A settlement that is about to send has nothing sent before it.
FirstSend(w) ==
  job[w].pc = "send" /\ job[w].kind # "redeliver" =>
    sends[job[w].inv] = 0 /\ job[w].view.status # "delivered"

OnceInv ==
  /\ \A i \in Invoices : SentOK(i)
  /\ \A w \in Workers : FirstSend(w)

-----------------------------------------------------------------------------
\* Rows that are only kept need no further message.
LEMMA KeepingKeepsSent ==
  ASSUME NEW i \in Invoices, SentOK(i), Keeps(i), sends'[i] = sends[i],
         \A w \in Workers : Recording(w, i) => Recording(w, i)'
  PROVE  SentOK(i)'
  BY DEF SentOK, Keeps

\* A task that waits to send is not disturbed while nobody else sends.
LEMMA WaitingKeepsFirst ==
  ASSUME NEW w \in Workers, FirstSend(w), job'[w] = job[w],
         job[w].pc = "send" => sends'[job[w].inv] = sends[job[w].inv]
  PROVE  FirstSend(w)'
  BY DEF FirstSend

\* Only a load or a failed attempt leads to sending.
LEMMA WhereStepsLead ==
  ASSUME TypeOK, NEW w \in Workers,
         Begin(w) \/ Step(w) \/ Crash(w) \/ TransactionFails(w)
  PROVE  job'[w].pc = "send" => Load(w) \/ SendFails(w) \/ SendAckLost(w)
  <1>j. job \in [Workers -> Job] /\ job[w] \in Job
    BY DEF TypeOK
  <1>o. ASSUME NEW j, Moves(w, j), j.pc # "send"
        PROVE  job'[w].pc # "send"
    BY <1>o, <1>j DEF Moves
  <1>d. Done(job[w]).pc # "send"
    BY DEF Done, Idle
  <1>1. CASE Begin(w)
    <2>1. \A i \in Invoices : VerifyPlan(i).pc # "send"
      BY DEF VerifyPlan, Idle
    <2>2. CASE \E m \in money : Notified(w, m)
      BY <1>o, <2>2 DEF Notified, Idle
    <2>3. CASE \E i \in Invoices : Verify(w, i)
      BY <1>o, <2>1, <2>3 DEF Verify
    <2>4. CASE \E i \in Invoices : Redeliver(w, i)
      BY <1>o, <2>4 DEF Redeliver, Idle
    <2>5. CASE ListPending(w)
      BY <1>o, <2>5 DEF ListPending, Idle
    <2> QED
      BY <1>1, <2>2, <2>3, <2>4, <2>5 DEF Begin
  <1>2. CASE Crash(w) \/ StatesUnavailable(w)
    BY <1>2, <1>o DEF Crash, StatesUnavailable, Idle
  <1>3. CASE TransactionFails(w)
    BY <1>3, <1>j DEF TransactionFails, Moves, Job
  <1>4. CASE StatesFetched(w)
    <2>1. [job[w] EXCEPT !.pc = "next", !.queue = {i \in @ : Captured(i)}].pc = "next"
      BY <1>j DEF Job
    <2> QED
      BY <1>4, <1>o, <2>1 DEF StatesFetched
  <1>5. CASE SettleNext(w)
    <2>1. \A i : [job[w] EXCEPT !.pc = "pay_lock", !.inv = i, !.queue = @ \ {i}].pc = "pay_lock"
      BY <1>j DEF Job
    <2> QED
      BY <1>5, <1>o, <2>1 DEF SettleNext, Idle
  <1>6. CASE AskProvider(w)
    BY <1>6, <1>j DEF AskProvider, Moves, Idle, Job
  <1>7. CASE AcquirePay(w) \/ AcquireDeliver(w)
    BY <1>7, <1>j DEF AcquirePay, AcquireDeliver, Acquire, Moves, Job
  <1>8. CASE PayBusy(w) \/ DeliverBusy(w)
    BY <1>8, <1>o, <1>d DEF PayBusy, DeliverBusy, GiveUp
  <1>9. CASE MarkPaid(w)
    BY <1>9, <1>j DEF MarkPaid, Moves, Job
  <1>10. CASE ReleasePay(w)
    BY <1>10, <1>j, <1>d DEF ReleasePay, Release, Moves, Job
  <1>11. CASE ReleaseDeliver(w)
    BY <1>11, <1>o, <1>d DEF ReleaseDeliver, Release
  <1>12. CASE ReadInvoice(w)
    BY <1>12, <1>j DEF ReadInvoice, Moves, Job
  <1>13. CASE SendSucceeds(w) \/ SendRefused(w) \/ RecordDelivery(w)
    BY <1>13, <1>j DEF SendSucceeds, SendRefused, RecordDelivery, Moves, Job
  <1> QED
    BY <1>1, <1>2, <1>3, <1>4, <1>5, <1>6, <1>7, <1>8, <1>9, <1>10, <1>11, <1>12, <1>13
    DEF Step

\* In calm, only a send counts, and only the record ends a recording.
LEMMA CalmSteps ==
  ASSUME Calm, TypeOK, NEW w \in Workers, ~SendSucceeds(w), ~RecordDelivery(w),
         Begin(w) \/ Step(w) \/ Crash(w) \/ TransactionFails(w)
  PROVE  sends' = sends /\ job[w].pc # "mark_delivered"
  <1>1. ~Crash(w) /\ ~TransactionFails(w) /\ ~SendAckLost(w)
    <2>1. crashes \in 0..0
      BY DEF TypeOK, Calm
    <2>2. ~(crashes < MaxCrashes)
      BY <2>1 DEF Calm
    <2> QED
      BY <2>2 DEF Calm, Crash, TransactionFails, SendAckLost
  <1>2. CASE Begin(w)
    BY <1>2 DEF Begin, Notified, Verify, Redeliver, ListPending, OnlyJobsMove
  <1>3. CASE \/ StatesFetched(w) \/ StatesUnavailable(w) \/ SettleNext(w) \/ AskProvider(w)
             \/ AcquirePay(w) \/ PayBusy(w) \/ ReadInvoice(w) \/ MarkPaid(w) \/ ReleasePay(w)
    BY <1>3 DEF StatesFetched, StatesUnavailable, SettleNext, AskProvider, AcquirePay,
                PayBusy, ReadInvoice, MarkPaid, ReleasePay, Acquire, Release, GiveUp,
                OnlyJobsMove
  <1>4. CASE \/ AcquireDeliver(w) \/ DeliverBusy(w) \/ Load(w) \/ SendFails(w)
             \/ SendRefused(w) \/ ReleaseDeliver(w)
    BY <1>4 DEF AcquireDeliver, DeliverBusy, Load, SendFails, SendRefused, ReleaseDeliver,
                Acquire, Release, GiveUp, OnlyJobsMove
  <1> QED
    BY <1>1, <1>2, <1>3, <1>4 DEF Step

\* A settlement that finds a PAID row under the delivery lock is the first to
\* send: the task that had sent would hold the lock.
LEMMA LoadIsFirst ==
  ASSUME SettlementInv, HoldInv, OnceInv, NEW w \in Workers, Load(w)
  PROVE  FirstSend(w)'
  <1> DEFINE i == job[w].inv
  <1>1. i \in Invoices /\ job \in [Workers -> Job] /\ job[w] \in Job
    BY DEF Load, SettlementInv, JobInv, JobOK, Nameless, TypeOK
  <1>2. sends' = sends /\ job'[w].kind = job[w].kind /\ job'[w].inv = i
    BY <1>1 DEF Load, Moves, OnlyJobsMove, Job
  <1>3. job'[w].pc = "send" => MustSend(rows[i], job[w].kind) /\ job'[w].view = rows[i]
    BY <1>1 DEF Load, Moves, Job
  <1>4. ASSUME job'[w].pc = "send", job[w].kind # "redeliver"
        PROVE  rows[i].status = "paid" /\ job'[w].view.status = "paid"
    BY <1>3, <1>4 DEF MustSend, Ledger!AccessGranting
  <1>5. ASSUME rows[i].status = "paid", sends[i] # 0
        PROVE  FALSE
    <2>1. PICK v \in Workers : Recording(v, i)
      BY <1>1, <1>5 DEF OnceInv, SentOK
    <2>2. v = w
      BY <2>1, InsideAlone DEF Recording, Delivering, Load
    <2> QED
      BY <2>1, <2>2 DEF Recording, Load
  <1> QED
    BY <1>1, <1>2, <1>4, <1>5 DEF FirstSend

\* A failed attempt leaves the task where it was, or done with sending.
LEMMA FailureKeepsFirst ==
  ASSUME TypeOK, OnceInv, NEW w \in Workers, SendFails(w)
  PROVE  FirstSend(w)'
  <1>1. job \in [Workers -> Job] /\ job[w] \in Job /\ FirstSend(w)
    BY DEF TypeOK, OnceInv
  <1>2. /\ sends' = sends /\ job[w].pc = "send"
        /\ job'[w].kind = job[w].kind /\ job'[w].inv = job[w].inv
        /\ job'[w].view = job[w].view
    BY <1>1 DEF SendFails, Retry, Moves, OnlyJobsMove, Job
  <1> QED
    BY <1>1, <1>2 DEF FirstSend

\* The message of a settlement is the first, and its sender goes on to record it.
LEMMA SendIsOnce ==
  ASSUME SettlementInv, HoldInv, PaidInv, OnceInv, NEW w \in Workers, SendSucceeds(w)
  PROVE  OnceInv'
  <1>0. PICK i \in Invoices : i = job[w].inv
    BY DEF SendSucceeds, SettlementInv, JobInv, JobOK, Nameless
  <1>1. /\ job \in [Workers -> Job] /\ job[w] \in Job /\ TypeOK /\ JobInv
        /\ job[w].view.status \in AccessGranting /\ rows[i].paidAt
    BY <1>0 DEF SendSucceeds, SettlementInv, JobInv, JobOK, TypeOK, Sending
  <1>2. rows' = rows /\ \A v \in Workers \ {w} : job'[v] = job[v]
    BY <1>1 DEF SendSucceeds, Moves
  <1>3. rows[i].status \notin Unpaid
    BY <1>0, <1>1 DEF PaidInv, PaidStays
  <1>4. /\ job'[w].inv = i
        /\ job'[w].pc = IF job[w].view.status = "delivered" THEN "deliver_unlock"
                        ELSE "mark_delivered"
    BY <1>0, <1>1 DEF SendSucceeds, Moves, Job
  <1>5. \A j \in Invoices \ {i} : sends'[j] = sends[j]
    BY <1>0, <1>1 DEF SendSucceeds, Arrives, TypeOK
  <1>6. \/ sends' = sends
        \/ job[w].kind # "redeliver" /\ sends'[i] = sends[i] + 1
    BY <1>0, <1>1 DEF SendSucceeds, Arrives, TypeOK
  <1>7. \/ sends' = sends
        \/ sends'[i] = 1 /\ Recording(w, i)'
    <2>1. ASSUME job[w].kind # "redeliver", sends'[i] = sends[i] + 1
          PROVE  sends'[i] = 1 /\ Recording(w, i)'
      <3>1. sends[i] = 0 /\ job[w].view.status # "delivered"
        BY <1>0, <2>1 DEF OnceInv, FirstSend, SendSucceeds
      <3> QED
        BY <1>4, <2>1, <3>1 DEF Recording
    <2> QED
      BY <1>6, <2>1
  <1>8. ASSUME NEW j \in Invoices PROVE SentOK(j)'
    <2>1. \A v \in Workers : Recording(v, j) => Recording(v, j)'
      BY <1>2 DEF Recording, SendSucceeds
    <2>2. CASE sends'[j] = sends[j]
      BY <1>2, <2>1, <2>2 DEF OnceInv, SentOK
    <2>3. CASE sends'[j] # sends[j]
      <3>1. j = i /\ sends'[j] = 1 /\ Recording(w, j)'
        BY <1>5, <1>7, <2>3
      <3> QED
        BY <1>2, <1>3, <3>1 DEF SentOK
    <2> QED
      BY <2>2, <2>3
  <1>9. ASSUME NEW v \in Workers PROVE FirstSend(v)'
    <2>1. CASE v = w
      BY <1>4, <2>1 DEF FirstSend
    <2>2. CASE v # w
      <3>1. job[v].pc = "send" => job[v].inv \in Invoices /\ job[v].inv # i
        BY <1>0, <1>1, <2>2, InsideAlone DEF Delivering, SendSucceeds, JobInv, JobOK, Nameless
      <3> QED
        BY <1>2, <1>5, <2>2, <3>1, WaitingKeepsFirst DEF OnceInv
    <2> QED
      BY <2>1, <2>2
  <1> QED
    BY <1>8, <1>9 DEF OnceInv

\* After the record of a delivery, the row is not PAID any more.
LEMMA RecordKeepsOnce ==
  ASSUME SettlementInv, PaidInv, OnceInv, NEW w \in Workers, RecordDelivery(w)
  PROVE  OnceInv'
  <1> DEFINE i == job[w].inv
  <1>1. /\ i \in Invoices /\ job \in [Workers -> Job] /\ job[w] \in Job
        /\ TypeOK /\ RowInv /\ rows \in [Invoices -> Ledger!Row] /\ rows[i] \in Ledger!Row
    BY DEF RecordDelivery, SettlementInv, JobInv, JobOK, Nameless, TypeOK, Ledger!TypeOK
  <1>2. sends' = sends /\ \A v \in Workers \ {w} : job'[v] = job[v]
    BY <1>1 DEF RecordDelivery, Moves
  <1>3. \A j \in Invoices : Keeps(j)
    BY <1>1, RecordDeliveryImplements, LedgerKeeps
  <1>4. rows'[i].status # "paid"
    BY <1>1 DEF RecordDelivery, Ledger!MarkDelivered, Ledger!Row
  <1>5. ASSUME NEW j \in Invoices PROVE SentOK(j)'
    <2>1. CASE j = i
      BY <1>2, <1>3, <1>4, <2>1 DEF OnceInv, SentOK, Keeps
    <2>2. CASE j # i
      <3>1. \A v \in Workers : Recording(v, j) => Recording(v, j)'
        BY <1>2, <2>2 DEF Recording
      <3> QED
        BY <1>2, <1>3, <3>1, KeepingKeepsSent DEF OnceInv
    <2> QED
      BY <2>1, <2>2
  <1>6. ASSUME NEW v \in Workers PROVE FirstSend(v)'
    <2>1. CASE v = w
      <3>1. job'[w].pc = "deliver_unlock"
        BY <1>1 DEF RecordDelivery, Moves, Job
      <3> QED
        BY <2>1, <3>1 DEF FirstSend
    <2>2. CASE v # w
      BY <1>2, <2>2, WaitingKeepsFirst DEF OnceInv
    <2> QED
      BY <2>1, <2>2
  <1> QED
    BY <1>5, <1>6 DEF OnceInv

\* A payment is recorded on a row for which nothing was sent.
LEMMA MarkPaidKeepsOnce ==
  ASSUME SettlementInv, OnceInv, NEW w \in Workers, MarkPaid(w)
  PROVE  OnceInv'
  <1> DEFINE i == job[w].inv
  <1>1. /\ i \in Invoices /\ job \in [Workers -> Job] /\ job[w] \in Job
        /\ rows \in [Invoices -> Ledger!Row]
    BY DEF MarkPaid, SettlementInv, JobInv, JobOK, Nameless, TypeOK, Ledger!TypeOK
  <1>2. /\ sends' = sends /\ job'[w].pc = "pay_unlock"
        /\ \A v \in Workers \ {w} : job'[v] = job[v]
    BY <1>1 DEF MarkPaid, Moves, Job
  <1>3. \/ rows' = rows
        \/ rows[i].status \in Open /\ \A j \in Invoices \ {i} : rows'[j] = rows[j]
    BY <1>1, MarkPaidImplements DEF Ledger!MarkPaid, Open
  <1>4. ASSUME NEW j \in Invoices PROVE SentOK(j)'
    <2>1. \A v \in Workers : Recording(v, j) => Recording(v, j)'
      BY <1>2 DEF Recording, MarkPaid
    <2>2. CASE rows'[j] = rows[j]
      BY <1>2, <2>1, <2>2 DEF OnceInv, SentOK
    <2>3. CASE rows'[j] # rows[j]
      <3>1. rows[j].status \in Open
        BY <1>3, <2>3
      <3> QED
        BY <1>2, <3>1 DEF OnceInv, SentOK, Unpaid
    <2> QED
      BY <2>2, <2>3
  <1>5. ASSUME NEW v \in Workers PROVE FirstSend(v)'
    <2>1. CASE v = w
      BY <1>2, <2>1 DEF FirstSend
    <2>2. CASE v # w
      BY <1>2, <2>2, WaitingKeepsFirst DEF OnceInv
    <2> QED
      BY <2>1, <2>2
  <1> QED
    BY <1>4, <1>5 DEF OnceInv

\* In calm, every step keeps deliveries single.
LEMMA OnceInvIsInductive ==
  ASSUME Calm, SettlementInv, HoldInv, PaidInv, OnceInv, [Next]_vars
  PROVE  OnceInv'
  <1>i. TypeOK /\ RowInv /\ JobInv
    BY DEF SettlementInv
  <1>k. ASSUME \A i \in Invoices : Keeps(i), UNCHANGED <<job, sends>>
        PROVE  OnceInv'
    <2>1. ASSUME NEW i \in Invoices PROVE SentOK(i)'
      BY <1>k, KeepingKeepsSent DEF OnceInv, Recording
    <2>2. ASSUME NEW w \in Workers PROVE FirstSend(w)'
      BY <1>k, WaitingKeepsFirst DEF OnceInv
    <2> QED
      BY <2>1, <2>2 DEF OnceInv
  <1>1. CASE Environment
    <2>1. UNCHANGED <<job, sends>>
      BY <1>1 DEF Environment, StartPurchase, Capture, RotateLink, Refund, Housekeeping,
                  GrowStale
    <2> QED
      BY <1>1, <1>k, <2>1, EnvironmentKeeps
  <1>2. ASSUME NEW w \in Workers, Begin(w) \/ Step(w) \/ Crash(w) \/ TransactionFails(w)
        PROVE  OnceInv'
    <2>1. CASE SendSucceeds(w)
      BY <2>1, SendIsOnce
    <2>2. CASE RecordDelivery(w)
      BY <2>2, RecordKeepsOnce
    <2>3. CASE MarkPaid(w)
      BY <2>3, MarkPaidKeepsOnce
    <2>4. CASE ~SendSucceeds(w) /\ ~RecordDelivery(w) /\ ~MarkPaid(w)
      <3>1. rows' = rows
        BY <1>2, <2>4, OthersLeaveRows
      <3>2. sends' = sends /\ job[w].pc # "mark_delivered"
        BY <1>2, <1>i, <2>4, CalmSteps
      <3>3. \A v \in Workers \ {w} : job'[v] = job[v]
        BY <1>2, <1>i, TasksMoveAlone
      <3>4. ASSUME NEW i \in Invoices PROVE SentOK(i)'
        <4>1. \A v \in Workers : Recording(v, i) => Recording(v, i)'
          BY <3>2, <3>3 DEF Recording
        <4> QED
          BY <3>1, <3>2, <4>1 DEF OnceInv, SentOK
      <3>5. FirstSend(w)'
        <4>1. CASE Load(w)
          BY <4>1, LoadIsFirst
        <4>2. CASE SendFails(w)
          BY <1>i, <4>2, FailureKeepsFirst
        <4>3. CASE ~Load(w) /\ ~SendFails(w)
          <5>1. ~SendAckLost(w)
            BY DEF Calm, SendAckLost
          <5> QED
            BY <1>2, <1>i, <4>3, <5>1, WhereStepsLead DEF FirstSend
        <4> QED
          BY <4>1, <4>2, <4>3
      <3>6. ASSUME NEW v \in Workers \ {w} PROVE FirstSend(v)'
        BY <3>2, <3>3, WaitingKeepsFirst DEF OnceInv
      <3> QED
        BY <3>4, <3>5, <3>6 DEF OnceInv
    <2> QED
      BY <2>1, <2>2, <2>3, <2>4
  <1>3. CASE (\E k \in LockKeys : LockExpires(k)) \/ UNCHANGED vars
    <2>1. UNCHANGED <<rows, job, sends>>
      BY <1>3 DEF LockExpires, vars
    <2>2. \A i \in Invoices : Keeps(i)
      BY <1>i, <2>1, LedgerKeeps
    <2> QED
      BY <1>k, <2>1, <2>2
  <1> QED
    BY <1>1, <1>2, <1>3 DEF Next

\* However often and through however many tasks a payment is notified, polled and
\* verified, its settlements send one message: nothing crashing, failing or lost.
THEOREM OneMessagePerPayment ==
  ASSUME Calm
  PROVE  Spec => []DeliversOnce
  <1>1. LocksOutliveWork
    BY DEF Calm
  <1>2. Init => OnceInv
    BY DEF Init, OnceInv, SentOK, FirstSend, Idle
  <1>3. SettlementInv /\ HoldInv /\ PaidInv /\ OnceInv /\ [Next]_vars => OnceInv'
    BY OnceInvIsInductive
  <1>4. OnceInv => DeliversOnce
    BY DEF OnceInv, SentOK, DeliversOnce
  <1>5. Spec => [](SettlementInv /\ HoldInv /\ PaidInv)
    BY <1>1, LockedInvariant
  <1> QED
    BY <1>2, <1>3, <1>4, <1>5, PTL DEF Spec
=============================================================================
