---------------------------- MODULE AdminReports ----------------------------
(***************************************************************************)
(* What the admin panel reads while the shop goes on selling.              *)
(*                                                                         *)
(* Three requests of the admin API read `purchases` in several steps:      *)
(*                                                                         *)
(*   GET  /stats/overview         one statement per figure of the dashboard*)
(*   GET  /purchases              a count and a page, page after page      *)
(*   POST /purchases/{id}/verify  a read, the provider, a settlement and a *)
(*                                second read                              *)
(*                                                                         *)
(* PostgreSQL runs READ COMMITTED, so each statement has its own snapshot, *)
(* also inside one transaction.  The writers of the table are the committed*)
(* transactions of the repository (PurchaseLedger); how tasks reach them   *)
(* under locks is Settlement.  Rows are numbered in the order of           *)
(* (created_at, id) and are never deleted.                                 *)
(***************************************************************************)
EXTENDS Naturals, FiniteSets

CONSTANTS
  Ids,              \* 1..n: the purchases an instance may record, oldest first
  RailOf,           \* RailOf[i]: the provider of purchase i
  Products,
  ProductOf,        \* ProductOf[i]: the product of purchase i
  Week, Month,      \* WEEK_DAYS and MONTH_DAYS
  MaxDay,           \* bound: days an instance lasts
  TopLimit,         \* DEFAULT_TOP_PRODUCTS
  RecentLimit,      \* DEFAULT_RECENT_PURCHASES
  PageSize,         \* limit of the panel's pages
  Filters           \* status filters the panel uses; {} is no filter

Rails == {"stars", "crypto"}
Statuses == {"absent", "pending", "paid", "delivered", "refunded", "expired"}

\* A week is shorter than a month, and the table of products is finite.
ASSUME InstanceIsValid ==
  /\ IsFiniteSet(Ids) /\ Ids = 1..Cardinality(Ids)
  /\ RailOf \in [Ids -> Rails]
  /\ ProductOf \in [Ids -> Products]
  /\ {Week, Month, MaxDay, TopLimit, RecentLimit, PageSize} \subseteq Nat \ {0}
  /\ 1 < Week /\ Week < Month
  /\ IsFiniteSet(Products)
  /\ Filters \subseteq SUBSET (Statuses \ {"absent"})

VARIABLES
  rows,     \* rows[i]: status of purchase i, and day of its paid_at while it
            \* counts as revenue (otherwise 0: no query looks at it)
  invoice,  \* Crypto Pay's state of a crypto invoice
  got,      \* purchases whose buyer was sent the link
  today,
  request   \* the admin's request, or the answer it gave

vars == <<rows, invoice, got, today, request>>

AccessGranting == {"paid", "delivered"}

Recorded == {i \in Ids : rows[i].status # "absent"}
Owned == {i \in Ids : rows[i].status \in AccessGranting}
CryptoIds == {i \in Ids : RailOf[i] = "crypto"}

-----------------------------------------------------------------------------
(* The writers.                                                            *)

Writes(i, status, day) == rows' = [rows EXCEPT ![i] = [status |-> status, day |-> day]]

\* create.  created_at is when the transaction began, so a purchase may appear
\* between others that were committed before it.
Create(i) ==
  /\ i \notin Recorded
  /\ Writes(i, "pending", 0)
  /\ UNCHANGED <<invoice, got, today>>

\* Crypto Pay is paid, or lets the invoice expire; neither is ever undone.
InvoiceEnds(i) ==
  /\ i \in Recorded \cap CryptoIds /\ invoice[i] = "active"
  /\ \E s \in {"paid", "expired"} : invoice' = [invoice EXCEPT ![i] = s]
  /\ UNCHANGED <<rows, got, today>>

HasMoney(i) == RailOf[i] = "stars" \/ invoice[i] = "paid"

\* Deviation: paid_at is left NULL when the caller passes none.
ConfirmWithoutDay(i) ==
  /\ rows[i].status \in {"pending", "expired"} /\ HasMoney(i)
  /\ Writes(i, "paid", 0)
  /\ UNCHANGED <<invoice, got, today>>

\* confirm_payment on a notification, or from the reconciliation loop.
Confirm(i) ==
  /\ rows[i].status \in {"pending", "expired"} /\ HasMoney(i)
  /\ Writes(i, "paid", today)
  /\ UNCHANGED <<invoice, got, today>>

\* Another task's deliver_purchase.
Deliver(i) ==
  /\ rows[i].status = "paid"
  /\ Writes(i, "delivered", rows[i].day)
  /\ got' = got \cup {i}
  /\ UNCHANGED <<invoice, today>>

Refund(i) ==
  /\ i \in Owned
  /\ Writes(i, "refunded", 0)
  /\ UNCHANGED <<invoice, got, today>>

\* expire_pending, for the rows that are old enough.
Expire(i) ==
  /\ rows[i].status = "pending"
  /\ Writes(i, "expired", 0)
  /\ UNCHANGED <<invoice, got, today>>

\* No request of the admin lasts longer than a day.
Midnight ==
  /\ today < MaxDay
  /\ request.kind = "overview" => request.day = today
  /\ today' = today + 1
  /\ UNCHANGED <<rows, invoice, got>>

Write ==
  \/ \E i \in Ids : Create(i) \/ InvoiceEnds(i) \/ Confirm(i)
                    \/ Deliver(i) \/ Refund(i) \/ Expire(i)
  \/ Midnight

Reads == UNCHANGED <<rows, invoice, got, today>>

NoRequest == [kind |-> "none", pc |-> "done"]

-----------------------------------------------------------------------------
(* GET /stats/overview                                                     *)

Periods == {"today", "week", "month", "all"}

\* StatsPeriod.start: day aligned, today included; nothing bounds "all".
StartOn(day, period) ==
  LET back == IF period = "today" THEN 0 ELSE IF period = "week" THEN Week - 1 ELSE Month - 1
  IN  IF period # "all" /\ back <= day THEN day - back ELSE 0

Start(period) == StartOn(today, period)

\* _window: what the shop holds money for, paid since the period's start.
Window(period) == {i \in Owned : rows[i].day >= Start(period)}

\* revenue: amounts are positive and never change, so that counting the sales of
\* a rail stands for adding their amounts.
Revenue(period) ==
  [r \in Rails |-> Cardinality({i \in Window(period) : RailOf[i] = r})]

\* Deviation: the largest window is read first.
FiguresFromTheLargest == <<"all", "month", "week", "today">>

\* The order in which overview's statements run.
Figures == <<"today", "week", "month", "all">>

ProductsSold(period) == {ProductOf[i] : i \in Window(period)}

SalesOf(p, period) == Cardinality({i \in Window(period) : ProductOf[i] = p})

\* ORDER BY purchases_count DESC, title LIMIT limit.  The admin may rename products
\* at any time, so of equal ones any may be cut off.
BestSellers(period) ==
  LET sold == ProductsSold(period)
  IN  {listed \in SUBSET sold :
         /\ Cardinality(listed) =
              IF Cardinality(sold) < TopLimit THEN Cardinality(sold) ELSE TopLimit
         /\ \A p \in listed, q \in sold \ listed : SalesOf(p, period) >= SalesOf(q, period)}

\* A row of the list for each; a product that is not listed counts nothing.
TopProductsOf(period) ==
  {[p \in Products |-> IF p \in listed THEN SalesOf(p, period) ELSE 0] :
     listed \in BestSellers(period)}

\* Deviation: best sellers of the week under the heading of the month.
TopProductsOfTheWeek == TopProductsOf("week")

\* top_products(MONTH), as the database may answer it.
TopProducts == TopProductsOf("month")

\* recent_purchases: paid_at DESC, created_at DESC.
SoldAfter(i) ==
  {j \in Owned : rows[j].day > rows[i].day \/ (rows[j].day = rows[i].day /\ j > i)}

RecentPurchases == {i \in Owned : Cardinality(SoldAfter(i)) < RecentLimit}

BeginOverview ==
  /\ request' = [kind |-> "overview", pc |-> "figures", day |-> today,
                 sold |-> [period \in Periods |-> [r \in Rails |-> 0]], read |-> 0,
                 top |-> [p \in Products |-> 0], fresh |-> 0, refunds |-> FALSE]
  /\ Reads

\* One statement of revenue().
ReadFigure ==
  LET n == request.read + 1
  IN  /\ request.kind = "overview" /\ request.pc = "figures"
      /\ request' = [request EXCEPT !.sold[Figures[n]] = Revenue(Figures[n]),
                                    !.read = n,
                                    !.pc = IF n = 4 THEN "top" ELSE @]
      /\ Reads

ReadTopProducts ==
  /\ request.kind = "overview" /\ request.pc = "top"
  /\ \E top \in TopProducts : request' = [request EXCEPT !.top = top, !.pc = "recent"]
  /\ Reads

\* Of the recent purchases the answer keeps how many were sold since the day the
\* overview began.
ReadRecent ==
  /\ request.kind = "overview" /\ request.pc = "recent"
  /\ request' = [request EXCEPT !.pc = "done",
       !.fresh = Cardinality({i \in RecentPurchases : rows[i].day >= request.day})]
  /\ Reads

-----------------------------------------------------------------------------
(* GET /purchases, from the first page to the last.                        *)

\* _conditions: the status filter.  A search term narrows the rows further, by names
\* and ids; it is left out, and so are the renames and the charge that mark_paid
\* stores, by which a row may start or stop matching a term.
Matching(table, f) ==
  {i \in Ids : table[i].status \in (IF f = {} THEN Statuses \ {"absent"} ELSE f)}

Matches(f) == Matching(rows, f)

\* ORDER BY created_at DESC, id DESC LIMIT limit OFFSET offset.
Page(f, offset) ==
  {i \in Matches(f) : LET before == Cardinality({j \in Matches(f) : j > i})
                      IN  offset <= before /\ before < offset + PageSize}

BeginSearch(f) ==
  /\ request' = [kind |-> "search", pc |-> "count", filter |-> f, offset |-> 0,
                 total |-> 0, seen |-> {}, kept |-> Matches(f), shifted |-> FALSE]
  /\ Reads

Count ==
  /\ request.kind = "search" /\ request.pc = "count"
  /\ request' = [request EXCEPT !.total = Cardinality(Matches(request.filter)),
                                !.pc = "page"]
  /\ Reads

\* Deviation: the slice is counted full, and reaching the total counts as past it.
HasMoreAfterAFullPage(items) == request.offset + PageSize + 1 < request.total

HasMore(items) == request.offset + Cardinality(items) < request.total

\* The page; the panel's pager goes on while there is more.
ReadPage ==
  LET items == Page(request.filter, request.offset)
  IN  /\ request.kind = "search" /\ request.pc = "page"
      /\ request' = [request EXCEPT
           !.seen = @ \cup items,
           !.offset = IF HasMore(items) THEN @ + PageSize ELSE @,
           !.pc = IF HasMore(items) THEN "count" ELSE "done"]
      /\ Reads

-----------------------------------------------------------------------------
(* POST /purchases/{id}/verify                                             *)

Verifying(pc) == request.kind = "verify" /\ request.pc = pc

Goes(pc) == request' = [request EXCEPT !.pc = pc]

\* _report; `status` is of the row the report is made from.
Reports(outcome, status) ==
  request' = [request EXCEPT !.pc = "done", !.outcome = outcome, !.after = status]

\* verify_payment reads the purchase and branches on its status.  A Stars
\* purchase that is not paid carries no charge id (PurchaseLedger's
\* ChargeMeansPaid), which leaves _verify_stars one outcome.
BeginVerify(i) ==
  LET status == rows[i].status
      check(pc, outcome) == [kind |-> "verify", pc |-> pc, id |-> i, before |-> status,
                             after |-> status, outcome |-> outcome, settled |-> FALSE]
  IN  /\ i \in Recorded
      /\ \/ status = "refunded" /\ request' = check("done", "refunded")
         \/ status = "delivered" /\ request' = check("done", "already_delivered")
         \/ status = "paid" /\ request' = check("deliver", "none")
         \/ /\ status \in {"pending", "expired"}
            /\ request' = IF RailOf[i] = "stars" THEN check("done", "no_provider_evidence")
                          ELSE check("ask", "none")
      /\ Reads

\* _call: every way in which a call can go wrong is the same error.
CallOutcomes == {"result", "error"}

\* fetch_states: the invoice's state, unless the answer does not list it.
Fetched(i) == {invoice[i], "unlisted"}

\* Deviation: an expired invoice is settled as well.
ConfirmsAnyEnd(state) == state \in {"paid", "expired"}

Confirms(state) == state = "paid"

\* _verify_crypto: settle what Crypto Pay says is paid, report anything else.
AskProvider ==
  /\ Verifying("ask")
  /\ \E call \in CallOutcomes, state \in Fetched(request.id) :
       \/ call = "error" /\ Reports("provider_unavailable", request.before)
       \/ call = "result" /\ Confirms(state) /\ Goes("confirm")
       \/ /\ call = "result" /\ ~Confirms(state)
          /\ Reports(IF state = "expired" THEN "expired_unpaid" ELSE "still_unpaid",
                     request.before)
  /\ Reads

\* settle_payment confirms first: a replay if another task was faster.
ConfirmVerified ==
  LET i == request.id
  IN  /\ Verifying("confirm")
      /\ rows[i].status # "refunded"
      /\ rows' = IF i \in Owned THEN rows
                 ELSE [rows EXCEPT ![i] = [status |-> "paid", day |-> today]]
      /\ request' = [request EXCEPT !.pc = "deliver", !.settled = TRUE]
      /\ UNCHANGED <<invoice, got, today>>

\* deliver_purchase reads the row again: nothing is sent twice.
LoadForDelivery ==
  LET status == rows[request.id].status
  IN  /\ Verifying("deliver")
      /\ \/ status = "delivered" /\ Goes("refresh_ok")
         \/ status = "paid" /\ Goes("send")
      /\ Reads

\* The message arrives, or every attempt fails.
Send ==
  /\ Verifying("send")
  /\ \/ Goes("mark") /\ got' = got \cup {request.id}
     \/ Goes("refresh_failed") /\ got' = got
  /\ UNCHANGED <<rows, invoice, today>>

\* mark_delivered leaves a delivered row alone.
MarkDelivered ==
  LET i == request.id
  IN  /\ Verifying("mark")
      /\ i \in Owned
      /\ Writes(i, "delivered", rows[i].day)
      /\ Goes("refresh_ok")
      /\ UNCHANGED <<invoice, got, today>>

\* The row is read again for the report.
ReportedStatus(i) == rows[i].status

ReportDelivery ==
  LET status == ReportedStatus(request.id)
  IN  /\ \/ Verifying("refresh_ok")
              /\ Reports(IF request.settled THEN "settled_and_delivered" ELSE "delivered_now",
                         status)
         \/ Verifying("refresh_failed") /\ Reports("delivery_failed", status)
      /\ Reads

\* LockBusyError, ConflictError (refunded meanwhile) or a failing transaction:
\* the response is an error and there is no report.
VerifyFails ==
  /\ request.kind = "verify" /\ request.pc \in {"ask", "confirm", "deliver", "mark"}
  /\ request' = NoRequest
  /\ Reads

-----------------------------------------------------------------------------
(* History of a request: what the writers did while it was under way.  An   *)
(* answer that was sent is forgotten with the next write.                   *)

Overlooks ==
  \/ request.pc = "done" /\ request' = NoRequest
  \/ /\ request.pc # "done" /\ request.kind = "overview"
     /\ request' = [request EXCEPT !.refunds = @ \/ Owned \ Owned' # {}]
  \/ /\ request.pc # "done" /\ request.kind = "search"
     /\ LET old == Matching(rows, request.filter)
            new == Matching(rows', request.filter)
        IN  request' = [request EXCEPT
              !.kept = @ \cap new,
              !.shifted = @ \/ old \ new # {} \/ (request.pc = "page" /\ new \ old # {})]
  \/ request.pc # "done" /\ request.kind = "verify" /\ request' = request

Begin ==
  /\ request.pc = "done"
  /\ \/ BeginOverview
     \/ \E f \in Filters : BeginSearch(f)
     \/ \E i \in Ids : BeginVerify(i)

Init ==
  /\ rows = [i \in Ids |-> [status |-> "absent", day |-> 0]]
  /\ invoice = [i \in Ids |-> "active"]
  /\ got = {}
  /\ today = 1
  /\ request = NoRequest

Next ==
  \/ Write /\ Overlooks
  \/ Begin
  \/ ReadFigure \/ ReadTopProducts \/ ReadRecent
  \/ Count \/ ReadPage
  \/ AskProvider \/ ConfirmVerified \/ LoadForDelivery \/ Send \/ MarkDelivered
  \/ ReportDelivery \/ VerifyFails

Spec == Init /\ [][Next]_vars

-----------------------------------------------------------------------------
(* Correctness.                                                            *)

Outcomes == {"none", "already_delivered", "delivered_now", "settled_and_delivered",
             "delivery_failed", "still_unpaid", "expired_unpaid",
             "no_provider_evidence", "refunded", "provider_unavailable"}

Counts == 0..Cardinality(Ids)

Overview ==
  [kind : {"overview"}, pc : {"figures", "top", "recent", "done"}, day : 1..MaxDay,
   sold : [Periods -> [Rails -> Counts]], read : 0..4, top : [Products -> Counts],
   fresh : 0..RecentLimit, refunds : BOOLEAN]

Search ==
  [kind : {"search"}, pc : {"count", "page", "done"}, filter : Filters, offset : Nat,
   total : Counts, seen : SUBSET Ids, kept : SUBSET Ids, shifted : BOOLEAN]

Verification ==
  [kind : {"verify"}, pc : {"ask", "confirm", "deliver", "send", "mark", "refresh_ok",
                            "refresh_failed", "done"},
   id : Ids, before : Statuses \ {"absent"}, after : Statuses \ {"absent"},
   outcome : Outcomes, settled : BOOLEAN]

\* Every variable holds a value of its type; what counts as revenue has a day, so
\* that no sale is missing from every window but the last.
TypeOK ==
  /\ rows \in [Ids -> [status : Statuses, day : 0..MaxDay]]
  /\ \A i \in Ids : rows[i].day > 0 <=> i \in Owned
  /\ invoice \in [Ids -> {"active", "paid", "expired"}]
  /\ got \subseteq Ids
  /\ today \in 1..MaxDay
  /\ request \in {NoRequest} \cup Overview \cup Search \cup Verification

Answered(kind) == request.kind = kind /\ request.pc = "done"

\* The sum of counts of purchases, as the number of their tallies.
SumOf(f) == Cardinality({tally \in (DOMAIN f) \X Ids : tally[2] <= f[tally[1]]})

\* The four revenue windows of the dashboard nest (today's sales are among the
\* week's, and so on) although each is a statement of its own and sales, and
\* even midnight, happen in between; only a refund may break that.
WindowsNest ==
  Answered("overview") /\ ~request.refunds =>
    LET sold == request.sold
    IN  \A r \in Rails : /\ sold["today"][r] <= sold["week"][r]
                         /\ sold["week"][r] <= sold["month"][r]
                         /\ sold["month"][r] <= sold["all"][r]

\* The lists of the dashboard account for its figures, unless money was refunded
\* between the statements: the best sellers of the month for every sale of the
\* month (while the day stays the same and no more products were sold than are
\* listed), and the latest sales, first of all, for those of today, as many as the
\* list has room for.
ListsMatchFigures ==
  Answered("overview") /\ ~request.refunds =>
    LET n == SumOf(request.sold["today"])
    IN  /\ today = request.day /\ Cardinality(ProductsSold("month")) <= TopLimit
             => SumOf(request.top) >= SumOf(request.sold["month"])
        /\ request.fresh >= (IF n < RecentLimit THEN n ELSE RecentLimit)

\* Going through the pages shows every purchase that matches all along, however
\* many purchases are made meanwhile, unless one stops matching or one appears
\* between the count and the page of the same request.
PagingShowsAll ==
  Answered("search") /\ ~request.shifted => request.kept \subseteq request.seen

\* The panel is told the truth: "whether the buyer has the link after this check"
\* (a resolved outcome means that the link was sent, and the reported status says
\* so), "payment confirmed" only with the money in, and "expired without payment"
\* only of an invoice that can no longer be paid.
OutcomesAreTrue ==
  Answered("verify") =>
    /\ request.outcome \in {"already_delivered", "delivered_now", "settled_and_delivered"}
         => request.id \in got /\ request.after \in {"delivered", "refunded"}
    /\ request.outcome \in {"delivered_now", "settled_and_delivered", "delivery_failed"}
         => HasMoney(request.id)
    /\ request.outcome = "expired_unpaid" => invoice[request.id] = "expired"
=============================================================================
