------------------------------ MODULE BotProcess ------------------------------
(***************************************************************************)
(* The life of the bot process: start-up, the two background loops, the    *)
(* messages it accepts, SIGTERM, and the container that starts it again.   *)
(*                                                                         *)
(* Two transports: behind webhooks (production) or by long polling.  A     *)
(* message is an update of Telegram or a notification of Crypto Pay.       *)
(* Telegram is answered as soon as an update is read and its handler runs  *)
(* in the background (the default of SimpleRequestHandler, and of polling);*)
(* a notification is answered by its handler, and sent again until then.   *)
(* Invoices stand for the pending crypto purchases whose notification was  *)
(* lost, which only the loops look after.                                  *)
(***************************************************************************)
EXTENDS Naturals, FiniteSets, Sequences

CONSTANTS
  Updates,    \* updates of Telegram
  Notes,      \* notifications of Crypto Pay
  NInvoices,  \* bound: invoices, in the order of created_at
  BatchSize,  \* reconciliation_batch_size
  MaxFaults   \* bound: stops, kills, failed starts and outages

ASSUME SettingsAreValid ==
  /\ Updates \cap Notes = {} /\ NInvoices \in Nat
  /\ BatchSize \in Nat \ {0} /\ MaxFaults \in Nat

VARIABLES
  webhook,  \* telegram.use_webhook
  phase,    \* how far the process is in run() and main()
  stop,     \* the event set by SIGTERM and SIGINT
  open,     \* clients and pools that are not closed yet
  task,     \* task[w]: where background loop w stands
  batch,    \* the invoices that reconciliation is working on
  msg,      \* msg[m]: where message m stands
  row,      \* row[i]: the purchase of invoice i
  paid,     \* invoices paid at Crypto Pay
  stale,    \* invoices older than invoice_ttl
  up,       \* PostgreSQL and Crypto Pay answer
  faults

process == <<webhook, phase, stop, open>>
invoices == <<row, paid, stale>>
vars == <<process, task, batch, msg, invoices, up, faults>>

Invoices == 1..NInvoices
Messages == Updates \cup Notes
Workers == {"reconciliation", "housekeeping"}

\* The Bot's session, CryptoBotClient, and Resources.
Owned == {"telegram", "crypto", "database", "redis"}

NoTasks == [w \in Workers |-> "none"]

Pending(i) == row[i] = "pending"

\* Deviation: the route of Crypto Pay is not registered.
ListeningToTelegram(m) ==
  m \in Updates /\ (phase = "serving" \/ (webhook /\ phase = "stopping"))

\* The site listens from site.start() to runner.cleanup(), the poller until it
\* is stopped.
Listening(m) ==
  \/ webhook /\ phase \in {"serving", "stopping"}
  \/ ~webhook /\ phase = "serving" /\ m \in Updates

-----------------------------------------------------------------------------
(* main() and run_webhook() or run_polling().                              *)

\* Clients and pools are built and the dependencies probed, whatever the result.
Boot ==
  /\ phase = "down"
  /\ phase' = "booting" /\ stop' = FALSE /\ open' = Owned
  /\ UNCHANGED <<webhook, task, batch, msg, invoices, up, faults>>

\* set_webhook, delete_webhook: what Telegram holds is dropped (the default of
\* drop_pending_updates).
Announce ==
  /\ phase = "booting"
  /\ phase' = "announced"
  /\ msg' = [m \in Messages |-> IF m \in Updates /\ msg[m] = "waiting" THEN "lost" ELSE msg[m]]
  /\ UNCHANGED <<webhook, stop, open, task, batch, invoices, up, faults>>

\* Both loops begin with an iteration.
StartWorkers ==
  /\ phase = "announced"
  /\ phase' = "started" /\ task' = [w \in Workers |-> "run"]
  /\ UNCHANGED <<webhook, stop, open, batch, msg, invoices, up, faults>>

\* runner.setup and site.start, or the first step of the poller.
StartServing ==
  /\ phase = "started"
  /\ phase' = "serving"
  /\ UNCHANGED <<webhook, stop, open, task, batch, msg, invoices, up, faults>>

\* set_webhook or site.start raises: main releases what it built, and only the
\* end of the event loop stops the workers.
StartFails ==
  /\ phase \in {"booting", "started"} /\ (phase = "started" => webhook)
  /\ faults < MaxFaults /\ faults' = faults + 1
  /\ phase' = "aborting"
  /\ UNCHANGED <<webhook, stop, open, task, batch, msg, invoices, up>>

Signal ==
  /\ phase # "down" /\ ~stop
  /\ faults < MaxFaults /\ faults' = faults + 1
  /\ stop' = TRUE
  /\ UNCHANGED <<webhook, phase, open, task, batch, msg, invoices, up>>

\* The poller raises: _wait_for_shutdown ends, run_polling cleans up and re-raises.
PollingFails ==
  /\ phase = "serving" /\ ~webhook
  /\ faults < MaxFaults /\ faults' = faults + 1
  /\ phase' = "stopping" /\ task' = [w \in Workers |-> "cancelled"]
  /\ UNCHANGED <<webhook, stop, open, batch, msg, invoices, up>>

\* Deviation: the loops are awaited and not cancelled.
TasksWhenStoppingAwaited == task

\* _stop_workers: cancel() on both, before either is awaited.
TasksWhenStopping == [w \in Workers |-> "cancelled"]

BeginStop ==
  /\ phase = "serving" /\ stop
  /\ phase' = "stopping" /\ task' = TasksWhenStopping
  /\ UNCHANGED <<webhook, stop, open, batch, msg, invoices, up, faults>>

\* CancelledError at the await where the task stands: the iteration is abandoned.
WorkerEnds(w) ==
  /\ task[w] = "cancelled"
  /\ task' = [task EXCEPT ![w] = "done"]
  /\ batch' = IF w = "reconciliation" THEN {} ELSE batch
  /\ UNCHANGED <<process, msg, invoices, up, faults>>

\* Deviation: the loops are cancelled and not awaited.
WorkersStoppedAtOnce == TRUE

WorkersStopped == \A w \in Workers : task[w] = "done"

\* Polling has no site to clean up.
WorkersAwaited ==
  /\ phase = "stopping" /\ WorkersStopped
  /\ phase' = IF webhook THEN "cleanup" ELSE "closing"
  /\ UNCHANGED <<webhook, stop, open, task, batch, msg, invoices, up, faults>>

\* Deviation: the webhook answers 200 before the payment is settled.
UnhandledForgetting(m) == "lost"

\* What becomes of message m when its handler does not succeed: Crypto Pay sends
\* it again, Telegram has its answer.
Unhandled(m) == IF m \in Notes THEN "waiting" ELSE "lost"

\* runner.cleanup waits for the requests it is serving...
HandlersDone == \A n \in Notes : msg[n] # "handling"

CleanedUp ==
  /\ phase = "cleanup" /\ HandlersDone
  /\ phase' = "closing"
  /\ UNCHANGED <<webhook, stop, open, task, batch, msg, invoices, up, faults>>

\* ... and cancels them after its time-out: such a request is not answered.
CancelRequest(n) ==
  /\ phase = "cleanup" /\ msg[n] = "handling"
  /\ msg' = [msg EXCEPT ![n] = Unhandled(n)]
  /\ UNCHANGED <<process, task, batch, invoices, up, faults>>

\* The finally block of main: session, client, then Resources.close.
Order == <<"telegram", "crypto", "database", "redis">>

Close(k) ==
  /\ phase \in {"closing", "aborting"}
  /\ Order[k] \in open /\ \A j \in 1..(k - 1) : Order[j] \notin open
  /\ open' = open \ {Order[k]}
  /\ UNCHANGED <<webhook, phase, stop, task, batch, msg, invoices, up, faults>>

\* Every handler is abandoned when the process ends.
AtEnd(m) == IF msg[m] = "handling" THEN Unhandled(m) ELSE msg[m]

Ended ==
  /\ phase' = "down" /\ stop' = FALSE /\ open' = {}
  /\ task' = NoTasks /\ batch' = {}
  /\ msg' = [m \in Messages |-> AtEnd(m)]
  /\ UNCHANGED <<webhook, invoices, up>>

\* asyncio.run cancels what still runs and returns.
Exit ==
  /\ phase \in {"closing", "aborting"} /\ open = {}
  /\ Ended /\ UNCHANGED faults

\* SIGKILL, or the process crashes.
Kill ==
  /\ phase # "down"
  /\ faults < MaxFaults /\ faults' = faults + 1
  /\ Ended

-----------------------------------------------------------------------------
(* Messages.                                                               *)

Send(m) ==
  /\ msg[m] = "unsent"
  /\ msg' = [msg EXCEPT ![m] = "waiting"]
  /\ UNCHANGED <<process, task, batch, invoices, up, faults>>

Accept(m) ==
  /\ msg[m] = "waiting" /\ Listening(m)
  /\ msg' = [msg EXCEPT ![m] = "handling"]
  /\ UNCHANGED <<process, task, batch, invoices, up, faults>>

\* The container's health check, or a poll without updates.
Probe == phase = "serving" /\ UNCHANGED vars

\* A failed handler answers Crypto Pay with 500.
Finish(m) ==
  /\ msg[m] = "handling"
  /\ msg' = [msg EXCEPT ![m] = IF up THEN "done" ELSE Unhandled(m)]
  /\ UNCHANGED <<process, task, batch, invoices, up, faults>>

-----------------------------------------------------------------------------
(* The loops.                                                              *)

\* Deviation: a failed iteration ends the loop.
AfterErrorEnds == "done"

\* "The loop must survive anything."
AfterError == "sleep"

\* Deviation: list_pending without its limit.
BatchUnlimited == {i \in Invoices : Pending(i)}

\* list_pending: the oldest pending invoices, up to the size of a batch.
Batch ==
  {i \in Invoices : Pending(i) /\ Cardinality({j \in 1..(i - 1) : Pending(j)}) < BatchSize}

List ==
  /\ task["reconciliation"] = "run"
  /\ \/ /\ up
        /\ batch' = Batch
        /\ task' = [task EXCEPT !["reconciliation"] = IF Batch = {} THEN "sleep" ELSE "ask"]
     \/ /\ ~up
        /\ batch' = {}
        /\ task' = [task EXCEPT !["reconciliation"] = AfterError]
  /\ UNCHANGED <<process, msg, invoices, up, faults>>

\* The invoices that Crypto Pay reports as paid.
ToSettle == batch \cap paid

\* fetch_states: the paid ones remain; an unreachable provider ends the iteration.
Ask ==
  /\ task["reconciliation"] = "ask"
  /\ batch' = IF up THEN ToSettle ELSE {}
  /\ task' = [task EXCEPT !["reconciliation"] = IF up THEN "settle" ELSE "sleep"]
  /\ UNCHANGED <<process, msg, invoices, up, faults>>

\* settle_payment, one invoice after the other; an expired row is paid as well.
Settle ==
  /\ task["reconciliation"] = "settle"
  /\ \/ /\ batch = {}
        /\ task' = [task EXCEPT !["reconciliation"] = "sleep"]
        /\ UNCHANGED <<batch, row>>
     \/ /\ up
        /\ \E i \in batch :
             /\ batch' = batch \ {i}
             /\ row' = [row EXCEPT ![i] = "settled"]
        /\ UNCHANGED task
     \/ /\ ~up /\ batch # {}
        /\ task' = [task EXCEPT !["reconciliation"] = AfterError]
        /\ batch' = {}
        /\ UNCHANGED row
  /\ UNCHANGED <<process, msg, paid, stale, up, faults>>

\* expire_stale: one UPDATE.
Expire ==
  /\ task["housekeeping"] = "run"
  /\ row' = [i \in Invoices |-> IF up /\ Pending(i) /\ i \in stale THEN "expired" ELSE row[i]]
  /\ task' = [task EXCEPT !["housekeeping"] = IF up THEN "sleep" ELSE AfterError]
  /\ UNCHANGED <<process, batch, msg, paid, stale, up, faults>>

Wake(w) ==
  /\ task[w] = "sleep"
  /\ task' = [task EXCEPT ![w] = "run"]
  /\ UNCHANGED <<process, batch, msg, invoices, up, faults>>

-----------------------------------------------------------------------------
(* Buyers, time and outages.                                               *)

Record(i) ==
  /\ row[i] = "none" /\ \A j \in 1..(i - 1) : row[j] # "none"
  /\ row' = [row EXCEPT ![i] = "pending"]
  /\ UNCHANGED <<process, task, batch, msg, paid, stale, up, faults>>

Pay(i) ==
  /\ row[i] # "none" /\ i \notin stale /\ i \notin paid
  /\ paid' = paid \cup {i}
  /\ UNCHANGED <<process, task, batch, msg, row, stale, up, faults>>

Age(i) ==
  /\ row[i] # "none" /\ i \notin stale /\ \A j \in 1..(i - 1) : j \in stale
  /\ stale' = stale \cup {i}
  /\ UNCHANGED <<process, task, batch, msg, row, paid, up, faults>>

GoDown ==
  /\ up /\ faults < MaxFaults /\ faults' = faults + 1
  /\ up' = FALSE
  /\ UNCHANGED <<process, task, batch, msg, invoices>>

Recover ==
  /\ ~up /\ up' = TRUE
  /\ UNCHANGED <<process, task, batch, msg, invoices, faults>>

-----------------------------------------------------------------------------
Init ==
  /\ webhook \in BOOLEAN
  /\ phase = "down" /\ stop = FALSE /\ open = {}
  /\ task = NoTasks /\ batch = {}
  /\ msg = [m \in Messages |-> "unsent"]
  /\ row = [i \in Invoices |-> "none"] /\ paid = {} /\ stale = {}
  /\ up = TRUE /\ faults = 0

MainStep ==
  \/ Boot \/ Announce \/ StartWorkers \/ StartServing
  \/ BeginStop \/ WorkersAwaited \/ CleanedUp
  \/ \E k \in DOMAIN Order : Close(k)
  \/ Exit

Loops == List \/ Ask \/ Settle \/ Expire

Fault == StartFails \/ Signal \/ PollingFails \/ Kill \/ GoDown

Next ==
  \/ MainStep \/ Loops \/ Probe \/ Fault \/ Recover
  \/ \E w \in Workers : WorkerEnds(w) \/ Wake(w)
  \/ \E m \in Messages : Send(m) \/ Accept(m) \/ Finish(m)
  \/ \E n \in Notes : CancelRequest(n)
  \/ \E i \in Invoices : Record(i) \/ Pay(i) \/ Age(i)

Spec == Init /\ [][Next]_vars

\* The event loop runs every task, the container starts the process again
\* (restart: always, for PostgreSQL as well), Crypto Pay repeats its
\* notifications and time passes.  Buyers, signals and failures owe nothing.
Fairness ==
  /\ WF_vars(MainStep) /\ WF_vars(Recover)
  /\ WF_vars(List \/ Ask \/ Settle) /\ WF_vars(Expire)
  /\ \A w \in Workers : WF_vars(WorkerEnds(w)) /\ WF_vars(Wake(w))
  /\ \A m \in Messages : WF_vars(Finish(m))
  /\ \A n \in Notes : WF_vars(Accept(n)) /\ WF_vars(CancelRequest(n))
  /\ \A i \in Invoices : WF_vars(Age(i))

FairSpec == Spec /\ Fairness

-----------------------------------------------------------------------------
(* Correctness.                                                            *)

\* Every variable holds a value of its type; one poll asks for a batch at most.
TypeOK ==
  /\ webhook \in BOOLEAN /\ stop \in BOOLEAN /\ up \in BOOLEAN
  /\ phase \in {"down", "booting", "announced", "started", "serving", "stopping",
                "cleanup", "closing", "aborting"}
  /\ open \subseteq Owned
  /\ task \in [Workers -> {"none", "run", "ask", "settle", "sleep", "cancelled", "done"}]
  /\ Cardinality(batch) <= BatchSize
  /\ batch \subseteq Invoices /\ paid \subseteq Invoices /\ stale \subseteq Invoices
  /\ msg \in [Messages -> {"unsent", "waiting", "handling", "done", "lost"}]
  /\ row \in [Invoices -> {"none", "pending", "settled", "expired"}]
  /\ faults \in 0..MaxFaults

\* "The workers are cancelled, the Telegram session and the Crypto Pay client are
\* closed and the pools are released", in this order: when the first of them is
\* closed after serving, no loop is alive, and whenever they are closed no
\* notification that needs them is being handled.
ClientsCloseLast ==
  /\ phase = "closing" => \A w \in Workers : task[w] = "done"
  /\ phase \in {"closing", "aborting"} => \A n \in Notes : msg[n] # "handling"

\* "A provider that retries a notification must find an idempotent endpoint":
\* Crypto Pay may repeat a notification because none is ever lost, whenever the
\* process stops or dies.
NotesAreKept == \A n \in Notes : msg[n] # "lost"

\* Behind webhooks every notification is handled in the end, across restarts and
\* outages.
NotesAreHandled ==
  \A n \in Notes : webhook /\ msg[n] = "waiting" ~> msg[n] = "done"

\* "So they stop being polled": no invoice stays in the batches for ever, although
\* the oldest come first and iterations fail.
InvoicesLeaveTheQueue == \A i \in Invoices : Pending(i) ~> ~Pending(i)

\* SIGTERM ends the process without SIGKILL, wherever in its life it arrives.
SignalEndsTheProcess == stop ~> phase = "down"
=============================================================================
