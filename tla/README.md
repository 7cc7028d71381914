# TgBot: specification and proofs

TLA+ models of the Telegram shop in this repository, the TLC runs that check
them and the TLAPS proofs about them. Paths are relative to `src/`; backend
paths without a prefix are under `backend/app/`.

## 1. Inventory

The bot sells one-off digital goods over two payment rails, Telegram Stars and
Crypto Pay (USDT). Two processes share PostgreSQL and Redis: `api` (FastAPI, two
workers, the admin panel's backend) and `bot` (aiogram webhooks, the Crypto Pay
webhook and two background loops).

| Component | State | Operations | Interacts with |
| --- | --- | --- | --- |
| Purchase ledger (`infrastructure/db/repositories/purchases.py`, `models.py`) | the `purchases` table, its unique indexes and CHECKs | create, mark_paid, mark_delivered, mark_refunded, expire_pending | every service, each through one transaction |
| Distributed locks (`infrastructure/cache/locks.py`) | Redis keys with a token and a TTL | lock (acquire, wait, release) | checkout, settlement, delivery, throttle |
| Checkout (`services/checkout.py`, `services/purchases.py`, `bot/handlers/payments.py`) | pending rows, provider invoices | pay button, pre-checkout | ledger, locks, catalogue, Telegram, Crypto Pay |
| Throttle (`bot/middlewares.py`) | one Redis key per buyer | enter, leave, drop | every message and button press |
| Settlement (`services/checkout.py`, `services/purchases.py`) | rows, payment locks | settle_payment, verify_payment, refund | webhooks, reconciliation, panel, delivery |
| Delivery (`services/delivery.py`) | rows, delivery locks, messages | deliver, redeliver, retry | ledger, locks, Telegram |
| Bot process (`bot/runner.py`, `bot/workers.py`, `bot/webhooks.py`, `core/resources.py`) | phase of its life, two loops, open clients, messages in hand | start, serve, reconcile, expire, stop, die, restart | settlement, Telegram, Crypto Pay, the container runtime |
| Product catalogue (`services/products.py`) | products | create, patch, delete | checkout, delivery |
| Admin sessions (`services/auth.py`, `infrastructure/cache/`) | revoked token ids, login counters | login, refresh, logout, bearer check | panel |
| Admin reports (`services/stats.py`, purchase search, `verify_payment`'s report) | none of their own | dashboard, pages of a search, verify | ledger, Crypto Pay, delivery |
| Admin panel (`frontend/src`) | tokens, lists, pending requests | refresh, search, verify, resend | API |
| Operations (`scripts/`) | backups, certificates | backup, restore, renew | everything |
| Users, configuration, logging, rendering | none that decides anything | read only, or a single write | |

What is hard in it: every `await` is a point where another task of either
process may run; locks expire under their holders; notifications are replayed,
lost or late; a message may be sent although its acknowledgement is lost; a
process may die anywhere; statements of one transaction have a snapshot each.
`PROJECT.json` lists each of these hazards at its line, with the properties that
would catch it going wrong, or a note saying why none does.

What makes each part correct:

- ledger: one paid copy per buyer and product, one purchase per charge, a refund
  is final, a recorded payment is never forgotten;
- locks: exclusive for work shorter than the TTL, nobody waits for ever, a late
  release does no harm;
- checkout: an owner is not billed, what can be paid is on record, presses that
  overlap produce one invoice, a Stars charge rests on current facts;
- settlement and delivery: no link without money, one delivery per payment, the
  stored link is the one received, a lost webhook is settled all the same;
- bot process: clients are closed last, no notification is lost in a stop or a
  crash, every notification and every invoice is dealt with in the end, SIGTERM
  ends the process;
- catalogue: always a price, one product per deep link, no purchase without its
  product, whatever requests overlap;
- sessions: guesses are limited and nobody is locked out for ever, revoked tokens
  are refused, a rotation does not log its own administrator out;
- reports: figures and lists of one dashboard agree, paging shows every row, a
  verification tells the truth.

## 2. Modules

| Module | Models | State and actions |
| --- | --- | --- |
| `PurchaseLedger` | the `purchases` table | `rows[i]` is the row of invoice `i`; one action per committed transaction. The abstract specification of everything that writes a purchase. |
| `LockService` | the contract of `domain/locks.py` | which keys are taken, which clients are inside a block, whose key has not expired; no tokens, lifetimes or Redis. The abstract specification of everything that locks. |
| `RedisLocks` | `RedisLockManager` | Redis keys with a countdown, callers that are out, waiting or holding; `Tick` passes time and expires keys. Shown to implement `LockService`. |
| `Settlement` | `settle_payment`, `verify_payment`, `_deliver`, the webhook, the loops' work | `job[w]` is where task `w` stands; one action per await. Instantiates `PurchaseLedger` and is shown to implement it, and to use locks as `LockService` allows. |
| `Checkout` | the pay button, `start_purchase`, pre-checkout, the throttle | `press[p]` is where a press stands; uses `PurchaseLedger` for rows, and confirms a payment in one step (Settlement is the detailed account of that step). Its two locks are used as `LockService` allows. |
| `AdminSession` | login, rate limiter, rotation, logout, bearer check | `req[r]` is where a request stands; one action per Redis round trip; `Tick` expires keys and tokens. |
| `ProductCatalog` | create, PATCH and delete of products, the insert of a press | `req[r]` is a READ COMMITTED transaction; one action per statement. |
| `BotProcess` | `main`, `run_webhook`, `run_polling`, both loops, the webhooks | `phase` is how far `main` is, `task[w]` and `msg[m]` where a loop and a message stand; kills, failed starts, outages and restarts. |
| `AdminReports` | the dashboard, purchase search, the report of `verify_payment` | `request` is the admin's request between two statements, while the writers of the table go on. |
| `*Proofs` | | the theorems (section 5) |
| `MC*` | | instances for TLC: symmetry sets and functions that a cfg cannot write |

Operators whose comment starts with "Deviation:" are not part of any
specification: each is a plausible bug in the definition that follows it, and
`PROJECT.json` names the property that finds it.

### PurchaseLedger

A row keeps what the properties tell apart: status, the copy (buyer and
product), the charge id, whether `paid_at` is set, the delivered URL, and whether
the row is older than the invoice lifetime. A transaction that raises is rolled
back by the unit of work, so it is no step. The partial index
`uq_purchases_user_product_paid` is `OnlyPaidCopy`, the charge index is
`OnlyCarrier`, the CHECKs are `PaidAtPresent` and `DeliveryComplete`.

### LockService and RedisLocks

`LockService` is what a service relies on when it writes `async with
locks.lock(key)`: a free key has one winner, a key stays taken until its owner
leaves or it expires, and a client that leaves after its key expired touches
nobody's. It has two sides. `RedisLocks` implements it (`ImplementsLockService`:
a caller whose token is still under the key is an owner), and the modules that use
locks take no other steps than it allows (`UsesLockService` of `Settlement`, and of
`Checkout` for each of its two locks). So the lock variables of these modules,
which know nothing of Redis, move as callers of `RedisLockManager` may. `locks` and
`settle_faults` check their part; for `Checkout` it is a theorem that no run repeats.

Time counts down in units. `age[p]` is how long `p` has been inside its block,
saturating at the TTL; `Protected(p)` means it is still within the TTL. A token
may be drawn again once nothing refers to it, which is what `uuid4` amounts to
and makes the number of calls unbounded.

### Settlement

A job walks `pay_lock → read → mark_paid → pay_unlock → deliver_lock → load →
send* → mark_delivered → deliver_unlock`. Two details carry most of the weight.
Where a task decides on an earlier read and where on the row itself:
`confirm_payment` finds the row and locks it in one session, but the first
statement's object is mapped to a dataclass and dropped, so the session's weak
identity map hands `mark_paid` the row as it is under `SELECT … FOR UPDATE`
(`ReadInvoice` only tells whether there is a row, `PaidRow` and `PayRefused` look at
it again); a delivery sends what its first transaction read (`view`) and writes in a
second one. And a lock is only a key: `LockExpires` removes it, always when
its holder is dead, and while the holder still works when an instance contains
the fault `"ttl"`. `Faults` also enables failing transactions (`"db"`; one under the
loop ends its iteration, because `run_once` goes on after an `AppError` only) and
sends whose acknowledgement is lost (`"ack_lost"`); `MaxCrashes` bounds process deaths.
`Tasks` selects the kinds of work of an instance.

### Checkout

One buyer and one product. A press that meets another update of the buyer is
throttled, one that runs walks through the reads, the provider call, the
checkout lock, the three checks, the insert and the message. The price is read
three times by the code (catalogue, provider call, row) and so it is here.
`seen` is a history variable: which facts held at a moment since a press or a
pre-checkout query began. An instance needs as many invoice ids per rail as
presses. The throttle key of a living handler expires only with the fault
`"ttl"`, that is, when the handler needs longer than `BOT_THROTTLE_SECONDS`.

### AdminSession

Requests run concurrently in one event loop and meet in Redis only. `hit` is two
round trips (INCR with PTTL, then PEXPIRE), and the password is judged after
them; `refresh` and `logout` check and revoke in two. A token pair is a slot with
the ticks its refresh token has left; a slot is used again once nothing remembers
its ids. `spent` and `guesses` are history variables. `RequestFails` is an
unreachable Redis at any await, `Restart` a deployment that ends every request and
may change `ADMIN_USERNAME`.

### ProductCatalog

A PATCH is a check (`Patch`, in its own unit of work), a second read (`Load`) and
the UPDATE; the UPDATE writes the columns whose value differs from the *loaded*
one, which is what SQLAlchemy's session sends. Nothing is locked before the
writing statement, so the constraints of the table decide every race. `overlapped`
is a history variable: another request committed since this one began.

### BotProcess

`phase` follows `main`: `down → booting → announced → started → serving →
stopping → cleanup → closing → down`, and `aborting` after a failed start. Behind
webhooks the site listens until `runner.cleanup()`; by polling there is no site
and no Crypto Pay route. A notification whose handler fails or is cut short is
not answered 200 and comes again (`Unhandled`); an update of Telegram has its
answer before the handler runs (aiogram's `SimpleRequestHandler` works in the
background) and is lost. Telegram's queue is dropped at every start
(`drop_pending_updates`). Invoices are the pending crypto purchases whose
notification never comes: only the loops look after them, in batches of the
oldest `reconciliation_batch_size`.

### AdminReports

PostgreSQL runs READ COMMITTED, so each statement of a report has its own
snapshot, also inside one transaction: `ReadFigure` is one statement of four,
followed by the two lists; `Count` and `ReadPage` are the two of a page, and a
search goes through all pages; `verify_payment` is the read, the provider call,
the settlement, and a second read for the report. `Write` is any writer of the
table between two of them, and `Midnight` moves the windows. A row that does not
count as revenue has day 0: no query looks at its date. The best sellers end at
`LIMIT` (`TopLimit`), and of products with equal sales any may be cut off. The id of
a purchase is its place in `created_at` order; that is the start of a transaction, so
`Create` may commit ids in another order.

## 3. Runs

Passing runs:

| Run | Shows | Bounds |
| --- | --- | --- |
| `ledger` | one owned copy, one purchase per charge, final refunds, remembered payments | 3 invoices, 2 copies, 2 charges, 2 links |
| `locks` | exclusion within the TTL, an overrun is noticed, every call of `lock()` returns, `LockService` is implemented | 3 callers, 2 keys, 4 tokens (all three callers and one orphan), TTL 3, windows 0 and 1 |
| `settle_calm` | mutual exclusion, one delivery, real charges | a Stars and a crypto invoice of one copy, 2 tasks and the loop, 2 attempts, no faults |
| `settle_faults` | one owned copy, no link without money, the stored link was received, implements the ledger, locks are used as `LockService` allows | the same without the loop's work, resends and housekeeping (the theorems cover them), 1 attempt, 2 links, failing transactions, lost acknowledgements, expiring locks |
| `settle_live` | a lost webhook is settled, nobody blocks for ever | 1 task and the loop, 2 crashes, fair |
| `presses` | owners are not billed, shown invoices are recorded, charges are justified | 2 presses, 2 ids per rail, 2 prices, any schedule |
| `window` | one invoice per overlap, nobody is throttled for ever | the same, 1 price, handlers fit in the window, 1 crash, fair |
| `sessions` | limited guesses, no verdict without an expiry, revoked tokens refused, logouts that end the token, a usable cookie | 2 requests, 1 limiter key, 3 token pairs, 2 administrator names, refresh TTL 2, access TTL 1, limit 1, window 1, 1 fault |
| `catalog` | always a price, unique slugs, no purchase without its product | 2 requests, 2 ids, 2 slugs, PATCHes of one field (`MaxNamed`), 1 price, a padded and a refused link |
| `process` | clients close last, notifications are kept and handled, invoices leave the queue, SIGTERM ends the process | 1 update, 1 notification, 2 invoices, batches of 1, 2 faults; both transports; fair |
| `reports` | nested windows, lists that match figures, complete paging, truthful outcomes | 3 purchases (2 crypto, 1 Stars) of 2 products, 4 days, week 2 and month 3 days, pages and both lists of 1, no filter or `pending` |

Why these bounds: two tasks and the loop give a winner, a loser and a latecomer
for each lock; two invoices of one copy are the smallest competition for the paid
copy; three ledger rows let a refund free a copy for either of two others. Three
token pairs are one in the browser, one being issued and one spent that must not
come back; two requests give every overlap the properties speak of, and the
theorems cover any number. Two PATCHes of one field each can remove both prices
between them. Two invoices for batches of one let an unpaid invoice stand before a
paid one. With three sales a list of one is too short twice, and four days move a
sale out of every window; a dashboard takes part in one midnight at most.

The run that finds a disagreement with what the repository says of itself
(`PROJECT.json`, "findings", quotes the line):

| Run | Shows |
| --- | --- |
| `dropped` | a `successful_payment` message that meets another update of the buyer is throttled, and Stars have no reconciliation: the payment is never recorded |

Further limits that the models show and the properties therefore exclude, each by
a named condition:

- a delivery that retries for longer than its 45 s lock no longer excludes a
  second one, and a replayed notification then sends a second message
  (`settle_calm` and the theorem `OneMessagePerPayment` assume that locks outlive
  their work);
- a send whose acknowledgement is lost, or a crash between the send and
  `mark_delivered`, repeats the message;
- housekeeping may expire a captured invoice before the loop has polled it, and
  `list_pending` never returns it again (section 4): `settle_live` leaves housekeeping
  out, and `process` counts an expired invoice as dealt with;
- two presses that are longer than the throttle window show two invoices, of which
  either can be paid (`OneInvoicePerOverlap` is checked with handlers that fit);
- the price of a crypto invoice is read before `create_invoice` and the row's
  afterwards: a PATCH in between makes the two differ (`ShownInvoicesAreRecorded`
  promises the amount for Stars only);
- the dashboard lists ten best sellers: when more products were sold in the month,
  they do not account for all of its sales (`ListsMatchFigures` says so);
- a refund between a delivery's load and its send does not stop the link.

### Fairness

Safety runs assume none. `Settlement` and `Checkout` assume that a task which has
begun goes on (handlers run on an event loop and every await returns or times
out) and that a dead task's key expires. The reconciliation loop polls on a fixed
interval for ever (`run_forever` survives every exception), so it is weakly fair
in listing; that Crypto Pay answers it and that a payment lock is free when it
comes are strongly fair, because the loop comes back again and again and neither
outages nor other holders last every time. Nothing is assumed of buyers, webhooks,
the admin or housekeeping. `RedisLocks` assumes that time passes and that a
waiting caller tries again; nothing makes a holder leave. `BotProcess` assumes
weak fairness of the event loop's tasks, of the container runtime (`restart:
always` in `docker-compose.prod.yml`, for PostgreSQL and Redis as well, so that an
outage ends), of Crypto Pay's retries while the process listens, and of time;
nothing of buyers, signals and failures, whose number per behaviour is
`MaxFaults`. An outage of unlimited repetitions would starve the loop, as it
would the real one.

`CHECK_DEADLOCK FALSE` appears where the world may fall silent: all rows
refunded, no further payment, no further press.

## 4. What the models say about the code

Observations on the way, none of which breaks a property above:

- `frontend/src/stores/products.ts:5-7` and `README.md:203` of the repository say
  that a superseded search is cancelled. `fetchPage` creates and aborts an
  `AbortController`, but its signal is never passed to `api.products.list` (nor in
  `stores/purchases.ts` to the search), so a slow answer to an older query can
  replace the rows of a newer one.
- `services/stats.py` reads "in one transaction", which under READ COMMITTED does
  not make the figures agree: a refund between two statements lets today's revenue
  exceed the week's (`WindowsNest` excludes refunds by name), and
  `products_active` may exceed `products_total`.
- `README.md:145` says that a payment whose webhook never arrives is settled by the
  reconciliation loop, and `bot/workers.py:8` that housekeeping expires invoices nobody
  paid. `expire_pending` does not ask: an invoice that is paid near the end of its
  lifetime, and that housekeeping meets before the loop does, becomes EXPIRED, which
  the loop does not list. A replay of the webhook or the panel's verify settles it.
  With `"housekeeping"` among the `Tasks` of `MCSettlement_live.cfg`, TLC shows
  `LostWebhookIsSettled` violated in this way.
- A verification may end as `delivery_failed` while the reported status is already
  `delivered`, when another task was faster.
- A PATCH equal to the loaded values sends no UPDATE, so it does not restore a
  value that another request changed in between.
- `site.start()` is outside the `try` of `run_webhook` (`runner.py:166-180`): when
  it raises, the clients are closed under running loops (`StartFails`). Nothing is
  lost by it.
- Updates of Telegram are lost when the process stops or dies under their handler,
  and at every start with `drop_pending_updates`. `bot/webhooks.py:11` expects
  providers to retry; aiogram has answered Telegram before the handler runs.
- aiohttp waits up to 60 s for requests in `runner.cleanup()`, longer than the
  container's `stop_grace_period` of 45 s: a hanging request ends in SIGKILL
  (`Kill` covers it).

## 5. Proofs

TLAPS proves the theorems for every value of the constants: any number of
invoices, tasks, requests, presses, messages and faults, any TTL, limit and batch
size. What they assume is named where the constants are declared: `NoneIsNull`
(NULL is no charge, link or copy), `LockSettings` (TTLs positive, windows natural,
placeholders distinct from keys and tokens), `ConfigurationIsValid` (at least one
attempt, Stars invoices are invoices), `CheckoutSettings`, `SettingsAreValid` (of
`AdminSession` and `BotProcess`: lifetimes, limits and batches are positive, the
access token does not outlive the refresh token), `ValidationIsTyped`
(`_validate_delivery_url` returns a link or refuses) and `InstanceIsValid` (of
`AdminReports`: purchases are numbered from 1, there are finitely many purchases and
products, a week is shorter than a month, page sizes and limits are positive).

Some theorems have a further hypothesis in their statement. Three stand where the
code's own promise stops: `LocksOutliveWork` (no key expires under a task of
`Settlement` that is still inside), `Calm` (in addition nothing crashes or fails) and
`HandlersFit` (no throttle key expires under its handler). Two only say that the
marks of the model differ from the values they stand beside: `TokensAreTokens` (a
task is not the mark of a free or an orphaned key) and `NullIsNoValue` (NULL is no
charge, link or copy, the ledger's own assumption).

The type invariant of every module is a theorem, so no run lists it.

**Ledger** (`PurchaseLedgerProofs`). `LedgerInv` is the conjunction of the
invariants and one strengthening, `AbsentIsUnpaid`: a row that does not exist has
no payment, which `Create` needs to keep a remembered payment remembered. Lemmas:
`Init` establishes it, each action keeps the types and the invariant, each step
keeps refunded rows and recorded payments. Theorems: `TypeCorrect`, `OnePaidCopy`,
`ChargesAreUnique`, `ChargesArePaid`, `ConstraintsHold`, `RefundFinality`,
`PaymentMemory`.

**Locks** (`RedisLocksProofs`). Exclusion is not inductive by itself. `LockInv`
adds that tokens tell calls apart, that a token is in Redis only under its own
call's key and only while that call holds, and `LifetimeIsShared`: while a key
carries a holder's token, remaining lifetime plus the holder's age is the TTL.
A tick takes one from both, so a holder within its TTL cannot lose the key, and
one past it cannot find its own token. One lemma per action; `Refuse` and `Crash`
share the lemma about leaving without touching Redis. Theorems: `TypeCorrect`,
`KeyIsOwned`, `MutualExclusion`, `OverrunsAreNoticed`. The same invariant carries the
refinement `LocksImplementTheContract`: that a token is in Redis for one call only
makes every compare-and-delete either the release of an owner or a step that frees
nothing, and a tick is an `Expire` of all the keys that end with it. `KeysHaveOneOwner`
is the contract's exclusion, carried back over the refinement.

**Settlement** (`SettlementProofs`). `Tasks`, `Faults` and `MaxCrashes` stay
arbitrary, so the theorems hold with every fault at once. `SettlementInv` has two
parts that need each other. `RowInv` says what a row rests on (a paid row on
captured money, a Stars payment on its charge, a stored link on a message);
`JobInv` says what a task may rely on between two awaits: its money was captured
before it came to the payment lock, the row it is about to pay exists, a row that
it saw grant access stays paid, the link it is about to record was sent. Nothing
in `RowInv` is ever taken back (`Grows`), so no other task spoils `JobInv`
(`OthersKeepJobs`), and each action needs a proof for its own task only. The locks
appear in neither part: what is proved here does not depend on them. Theorems:
`TypeCorrect`, `NeverTwoPaidCopies`, `NeverALinkWithoutMoney`,
`ChargeIsAlwaysReal`, `RecordedLinkWasAlwaysReceived`, and `NothingIsTakenBack`, the
action property `Grows` itself.

That the locks are used as `LockService` allows (`SettlementUsesTheContract`) needs
no more than the types and `JobInv`: an action enters a section with a free key
(`EnteringTakes`), leaves it and frees the key if it still has it (`LeavingFrees`),
or moves no section.

`mark_paid` decides on the row it has locked, so the refinement
`SettlementImplementsLedger` needs no Redis lock either: every step is one atomic
transaction of `PurchaseLedger` or changes no row, with every fault. Over it the
ledger's own theorems become the settlement's, in which no single step is a
transaction of the ledger by name: `RefundsStayRefunded`, `PaymentsAreRemembered` and
`ConstraintsAlwaysHold` take `LedgerInv` and the ledger's step lemmas from
`PurchaseLedgerProofs` (`Proved`), and `SameSteps` identifies the two instances.

**Settlement with its locks** (also `SettlementProofs`). Here no lock expires under
its holder (`LocksOutliveWork`); tasks may crash and fail in every other way.

- `HoldInv`: a task inside a locked section owns the section's key. Hence
  `LocksAlwaysExclude`.
- `OnceInv`, if in addition nothing crashes or fails (`Calm`): while a row whose
  message was sent is still PAID, the task that sent it is in the locked section
  and about to record the delivery (`SentOK`); so whoever loads a PAID row under
  the lock has a first message to send (`FirstSend`). Hence `OneMessagePerPayment`.

**Checkout** (`CheckoutProofs`). `CheckoutInv` says what a press may rely on
between two awaits (`PressOK`), that a press goes ahead only after a moment at
which the buyer did not own the product (`Unowned`), and the same of the three
reads of a pre-checkout query (`QueryOK`). These three need no lock:
`OwnersAreNeverBilled`, `ShownIsRecorded` and `CapturesAreJustified` hold on every
schedule. `OneInvoice` adds `ThrottleInv`, that a press in flight owns the buyer's
throttle key, under `HandlersFit`. `CheckoutUsesTheContract` maps the throttle and
the checkout lock to one `LockService` each; it holds on every schedule. A press holds
both and a crash gives up both at once, hence two instances; a crash outside
`start_purchase` must not orphan the checkout key, for which `CheckoutIsHeld` says that
the key carries a press only while that press is inside.

**Sessions** (`AdminSessionProofs`). The limiter's invariants rest on
`GuessesAreCounted`: attempts let through in a window are at most what the counter
says, so that an INCR whose answer is within the limit cannot be one too many, in
whatever order the answers come. The tokens' invariants rest on three: a pair that
was issued and not yet answered is private to its request
(`PrivatePairsAreUnspent`), the revocation key of a spent pair outlives the pair
(`RevocationIsKept`), and a logout about to be answered has done its work
(`LogoutsAreDone`). Theorems: `GuessingIsLimited`, `NoCounterIsLeftBehind`,
`VerdictsComeWithExpiry`, `TheCookieStaysUsable`, `RevokedTokensAreRefused`,
`LogoutsEndTokens`.

**Catalogue** (`ProductCatalogProofs`). The constraints of the table carry the
invariants of its rows; `InOrder` says what a request in the middle of its
transaction may rely on: the types of what it read always, and its truth only
until somebody commits. Theorems: `ProductsStayPurchasable`, `OneProductPerLink`,
`SoldProductsStay`, and two that no run repeats, `ErrorsComeFromOverlaps` (only a
race is answered 500) and `OmittedFieldsKeep` (a PATCH writes no column it does
not name).

**Bot process** (`BotProcessProofs`). `ProcessInv` ties the loops and the
notifications to the phase (`LoopsFollowPhase`, `HandledWhileUp`) and what a poll
has in hand to the provider's answer (`InHand`). That a poll never exceeds the
batch is a counting argument: the number of older pending invoices maps the batch
injectively into `0..BatchSize - 1` (`OlderGrows`, `BatchIsBounded`). Theorems:
`TypeCorrect`, `ClientsAreClosedLast`, `NotesAreNeverLost`, `OnlyPaidIsSettled`.

**Reports** (`AdminReportsProofs`). A report is a sequence of snapshots of a moving
table, so `IInv` says what each statement's result still means later. `FiguresHold`:
a figure counts sales of its window that are sales still, and a wider window that is
read later holds them all, unless something was refunded. `ListsHold`: the best
sellers sum up to no less than the month if all products sold are listed, the recent
list holds today's sales. `PagesHold`: of the rows that match throughout (`kept`),
those with fewer newer matches than the offset have been shown; this is what
survives from page to page. `VerificationHolds`: what `verify_payment` has learnt
from the provider and from its own settlement stays true until its second read.
Counting is by injections and disjoint unions of `FiniteSetTheorems` (`CountGrows`,
`Ranks`, `PagesAreLimited`), a sum over products is the size of a set of pairs, into
which each sale goes with its rank among the sales of its product (`SumOfProducts`);
nothing needs induction. Theorems: `ReportsAreTyped`, `DashboardWindowsNest`,
`DashboardListsMatch`, `PagerShowsAll`, `VerificationTellsTheTruth`.

Every invariant and every action property a run checks is also a theorem. Only
model-checked are the liveness properties (`CallsReturn`, `LostWebhookIsSettled`,
`NobodyBlocksForEver`, `NobodyIsThrottledForEver`, `NotesAreHandled`,
`InvoicesLeaveTheQueue`, `SignalEndsTheProcess`): fairness and `ENABLED` are out of
the prover's reach.

## 6. Not modelled

- HTTP, signatures, parsing, message texts, card layout, logging and
  configuration keep no state that decides anything else; settings appear as
  constants with their assumptions.
- The user upsert is a single statement whose result decides nothing.
- The admin panel's stores and views (`frontend/src`) hold what is on screen; the
  one promise about ordering they make is discussed in section 4.
- The scripts (`scripts/`) are run by hand, one at a time.
- The back-off delays of a delivery: attempts are counted, their total duration
  appears only as "longer or shorter than the lock".
- `/start` messages as throttled tasks of their own: `Redeliver` in Settlement is
  what a repeated `/start` of an owner does, without the throttle before it.
- Product text fields, which the code treats as it treats `delivery_url` without
  the validation; the average receipt and the formatting of amounts.
- An unknown invoice paid at Crypto Pay is an error that settles nothing
  (`ReadInvoice` finds no row).
- aiogram also closes the Bot's session when aiohttp shuts down and opens it again
  on demand; `Close` stands for the final one.

## 7. Possible extensions

The panel's lists (`PanelList`, composed with a network that reorders answers),
the throttle in front of a repeated `/start`, the duration of a delivery's retries
as a function checked against the lock's TTL, and the restore script with
interruptions.
