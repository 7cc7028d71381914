------------------------------ MODULE Checkout ------------------------------
(***************************************************************************)
(* From a pressed payment button to captured money, for one buyer and one  *)
(* product.                                                                *)
(*                                                                         *)
(* Every Telegram update of the buyer runs as a task of its own behind     *)
(* ThrottleMiddleware; a press walks through the awaits of                 *)
(* handle_pay_pressed, start_stars_checkout or start_crypto_checkout, and  *)
(* start_purchase.  A pre-checkout query is not throttled, a               *)
(* successful_payment message is.  What happens to a payment once it is    *)
(* confirmed (delivery, replays, locks on the payment) is Settlement;      *)
(* here confirming is one step of the ledger.                              *)
(***************************************************************************)
EXTENDS Naturals, FiniteSets

CONSTANTS
  StarsInvoices, CryptoInvoices,   \* ids the two rails may hand out
  Copy,                            \* the buyer and the product, one copy
  Prices,                          \* prices the admin may set
  None,                            \* SQL NULL, and the price of a closed rail
  Presses,                         \* presses of a payment button
  Faults,                          \* "ttl": a lock's lifetime ends under its holder
  MaxCrashes                       \* how many presses may die with their process

Invoices == StarsInvoices \cup CryptoInvoices

ASSUME CheckoutSettings ==
  /\ StarsInvoices \cap CryptoInvoices = {}
  /\ Presses \cap Invoices = {}
  /\ None \notin Invoices \cup Prices \cup {Copy}
  /\ Faults \subseteq {"ttl"}
  /\ MaxCrashes \in Nat

VARIABLES
  rows,       \* the purchases table
  amount,     \* amount[i]: the amount column of row i
  product,    \* what the catalogue says of the product now
  throttle,   \* Redis: the buyer's throttle key
  checkout,   \* Redis: the buyer-and-product checkout key
  press,      \* press[p]: what a press is doing
  billed,     \* billed[i]: the amount Crypto Pay was asked for, None: no invoice
  shown,      \* invoices the buyer can pay: <<invoice, amount>>
  query,      \* query[i]: the pre-checkout query of a Stars invoice
  update,     \* update[i]: its successful_payment message
  seen,       \* history: <<x, fact>>, fact held at a moment since x began
  crashes

vars == <<rows, amount, product, throttle, checkout, press, billed, shown, query,
          update, seen, crashes>>

ledger   == <<rows, amount>>
invoices == <<billed, shown>>
payments == <<query, update>>

\* Telegram's charge id of a Stars payment is named after its invoice.
Ledger == INSTANCE PurchaseLedger
            WITH Copies <- {Copy}, Charges <- StarsInvoices, Links <- {}

Rails == {"stars", "crypto"}
InvoicesOf(rail) == IF rail = "stars" THEN StarsInvoices ELSE CryptoInvoices

Free   == "free"
Orphan == "orphan"

Owned == \E i \in Invoices : Ledger!Owns(i)

Captured == {i \in StarsInvoices : update[i] # "none"}

NoPress == [pc |-> "idle", rail |-> "stars", price |-> None, inv |-> None,
            with |-> {}]

PressPcs == {"idle", "product", "owned", "invoice", "lock", "check_product",
             "check_owned", "create", "unlock", "show", "leave", "done"}

Press == [pc : PressPcs, rail : Rails,
          price : Prices \cup {None},      \* the price last read
          inv   : Invoices \cup {None},    \* the invoice this press produced
          with  : SUBSET Presses]          \* history: presses in flight with it

QueryPcs == {"none", "status", "product", "owned", "approved", "refused"}

Underway(p) == press[p].pc \notin {"idle", "done"}
Asking(i) == query[i] \in {"status", "product", "owned"}

-----------------------------------------------------------------------------
(* History: which facts held while a press or a query was under way.        *)

Facts == (IF Owned THEN {} ELSE {"unowned"})
         \cup (IF product.active THEN {"on_sale"} ELSE {})

Witnesses == {p \in Presses : Underway(p)} \cup {i \in StarsInvoices : Asking(i)}

\* Conjoined to every step; what begins anew forgets what it saw before.
Observe ==
  seen' = {s \in seen : s[1] \notin Witnesses' \ Witnesses} \cup (Witnesses \X Facts)'

Goes(p, r) == press' = [press EXCEPT ![p] = r]

OnlyThePressMoves == UNCHANGED <<ledger, product, throttle, checkout, invoices, payments, crashes>>

-----------------------------------------------------------------------------
(* The middleware.                                                         *)

\* Deviation: throttle_seconds = 0, the middleware lets everything pass.
EnterUnthrottled(x) == throttle' = throttle

\* One in-flight action per buyer: SET NX PX, tried once.
Enter(x) == throttle = Free /\ throttle' = x

Exit(x) == throttle' = IF throttle = x THEN Free ELSE throttle

\* handle_pay_pressed begins, unless the update is throttled.
BeginPress(p, rail) ==
  LET others == {q \in Presses : Underway(q)}
      first == [NoPress EXCEPT !.rail = rail, !.with = others]
  IN  /\ press[p].pc = "idle"
      /\ \/ /\ Enter(p)
            /\ Goes(p, [first EXCEPT !.pc = "product"])
         \/ /\ throttle # Free
            /\ UNCHANGED throttle
            /\ Goes(p, [first EXCEPT !.pc = "done"])
      /\ UNCHANGED <<ledger, product, checkout, invoices, payments, crashes>>

\* product_for_checkout: the product must be on sale.
ReadProduct(p) ==
  LET j == press[p]
  IN  /\ j.pc = "product"
      /\ Goes(p, IF ~product.active THEN [j EXCEPT !.pc = "leave"]
                 ELSE [j EXCEPT !.price = product.price[j.rail],
                                !.pc = IF j.rail = "stars" THEN "lock" ELSE "owned"])
      /\ OnlyThePressMoves

\* start_crypto_checkout: an owner never reaches the provider.
CheckOwned(p) ==
  /\ press[p].pc = "owned"
  /\ Goes(p, [press[p] EXCEPT !.pc = IF Owned THEN "leave" ELSE "invoice"])
  /\ OnlyThePressMoves

\* create_invoice: Crypto Pay assigns a new id, or refuses (a missing price is
\* sent as 0, which it refuses) or is unreachable.
CreateInvoice(p) ==
  LET j == press[p]
  IN  /\ j.pc = "invoice"
      /\ \/ /\ j.price # None
            /\ \E i \in CryptoInvoices :
                 /\ billed[i] = None
                 /\ billed' = [billed EXCEPT ![i] = j.price]
                 /\ Goes(p, [j EXCEPT !.inv = i, !.pc = "lock"])
         \/ /\ Goes(p, [j EXCEPT !.pc = "leave"])
            /\ UNCHANGED billed
      /\ UNCHANGED <<ledger, product, throttle, checkout, shown, payments, crashes>>

-----------------------------------------------------------------------------
(* start_purchase                                                          *)

\* The checkout lock is tried once: taken, or LockBusyError.
LockCheckout(p) ==
  /\ press[p].pc = "lock"
  /\ \/ /\ checkout = Free
        /\ checkout' = p
        /\ Goes(p, [press[p] EXCEPT !.pc = "check_product"])
     \/ /\ checkout # Free
        /\ Goes(p, [press[p] EXCEPT !.pc = "leave"])
        /\ UNCHANGED checkout
  /\ UNCHANGED <<ledger, product, throttle, invoices, payments, crashes>>

\* products.get: still on sale, and through this rail; its price is the amount.
CheckProduct(p) ==
  LET j == press[p]
      sold == product.active /\ product.price[j.rail] # None
  IN  /\ j.pc = "check_product"
      /\ Goes(p, IF sold THEN [j EXCEPT !.price = product.price[j.rail],
                                        !.pc = "check_owned"]
                 ELSE [j EXCEPT !.pc = "unlock", !.inv = None])
      /\ OnlyThePressMoves

\* Deviation: start_purchase does not ask whether the buyer owns the product.
CheckOwnershipNever(p) ==
  /\ press[p].pc = "check_owned"
  /\ Goes(p, [press[p] EXCEPT !.pc = "create"])
  /\ OnlyThePressMoves

\* find_access_granting: DuplicatePurchaseError for an owner.
CheckOwnership(p) ==
  /\ press[p].pc = "check_owned"
  /\ Goes(p, IF Owned THEN [press[p] EXCEPT !.pc = "unlock", !.inv = None]
             ELSE [press[p] EXCEPT !.pc = "create"])
  /\ OnlyThePressMoves

\* purchases.create and the commit.  A Stars purchase draws its payload here.
CreatePurchase(p) ==
  LET j == press[p]
  IN  /\ j.pc = "create"
      /\ \E i \in InvoicesOf(j.rail) :
           /\ j.rail = "crypto" => i = j.inv
           /\ Ledger!Create(i, Copy)
           /\ amount' = [amount EXCEPT ![i] = j.price]
           /\ Goes(p, [j EXCEPT !.inv = i, !.pc = "unlock"])
      /\ UNCHANGED <<product, throttle, checkout, invoices, payments, crashes>>

\* Leaving the lock; an exception goes on to the handler's except clauses.
UnlockCheckout(p) ==
  /\ press[p].pc = "unlock"
  /\ checkout' = IF checkout = p THEN Free ELSE checkout
  /\ Goes(p, [press[p] EXCEPT !.pc = IF press[p].inv # None THEN "show" ELSE "leave"])
  /\ UNCHANGED <<ledger, product, throttle, invoices, payments, crashes>>

\* Deviation: the Stars invoice is sent with the catalogue's price of the moment.
AmountAskedNow(i) == IF i \in StarsInvoices THEN product.price["stars"] ELSE billed[i]

\* What the buyer is asked to pay: Telegram gets the purchase's amount, the
\* Crypto Pay invoice carries the price it was created with.
AmountAsked(i) == IF i \in StarsInvoices THEN amount[i] ELSE billed[i]

\* send_invoice, or the message with the pay_url; Telegram may refuse either.
ShowInvoice(p) ==
  LET j == press[p]
  IN  /\ j.pc = "show"
      /\ \/ shown' = shown \cup {<<j.inv, AmountAsked(j.inv)>>}
         \/ UNCHANGED shown
      /\ Goes(p, [j EXCEPT !.pc = "leave"])
      /\ UNCHANGED <<ledger, product, throttle, checkout, billed, payments, crashes>>

\* The handler returns (an owner's link is sent again: Settlement's Redeliver).
LeavePress(p) ==
  /\ press[p].pc = "leave"
  /\ Exit(p)
  /\ Goes(p, [press[p] EXCEPT !.pc = "done"])
  /\ UNCHANGED <<ledger, product, checkout, invoices, payments, crashes>>

-----------------------------------------------------------------------------
(* Paying.                                                                 *)

\* The buyer pays a Stars invoice: Telegram asks first.
AskPreCheckout(i) ==
  /\ ~Asking(i) /\ update[i] = "none"
  /\ \E s \in shown : s[1] = i
  /\ query' = [query EXCEPT ![i] = "status"]
  /\ UNCHANGED <<ledger, product, throttle, checkout, press, invoices, update, crashes>>

\* Deviation: the answer is given without reading the product.
PassesOffSale(i) ==
  CASE query[i] = "status"  -> ~Ledger!Owns(i)
    [] query[i] = "product" -> TRUE
    [] query[i] = "owned"   -> ~Owned

\* The three reads of handle_pre_checkout: the purchase's status, the product,
\* the buyer's other purchases.
Passes(i) ==
  CASE query[i] = "status"  -> ~Ledger!Owns(i)
    [] query[i] = "product" -> product.active
    [] query[i] = "owned"   -> ~Owned

NextQuestion(pc) == CASE pc = "status"  -> "product"
                      [] pc = "product" -> "owned"
                      [] pc = "owned"   -> "approved"

AnswerPreCheckout(i) ==
  /\ Asking(i)
  /\ query' = [query EXCEPT ![i] = IF Passes(i) THEN NextQuestion(@) ELSE "refused"]
  /\ UNCHANGED <<ledger, product, throttle, checkout, press, invoices, update, crashes>>

\* Telegram captures an approved payment and sends successful_payment.
CaptureStars(i) ==
  /\ query[i] = "approved" /\ update[i] = "none"
  /\ update' = [update EXCEPT ![i] = "queued"]
  /\ UNCHANGED <<ledger, product, throttle, checkout, press, invoices, query, crashes>>

\* Confirming a payment: the ledger's MarkPaid, or a refusal that is reported.
Confirm(i, ch) ==
  IF rows[i].status \in {"pending", "expired"} /\ ~Owned THEN Ledger!MarkPaid(i, ch)
  ELSE UNCHANGED rows

\* The successful_payment message: throttled like any other message.
BeginUpdate(i) ==
  /\ update[i] = "queued"
  /\ \/ Enter(i) /\ update' = [update EXCEPT ![i] = "handling"]
     \/ /\ throttle # Free
        /\ update' = [update EXCEPT ![i] = "throttled"]
        /\ UNCHANGED throttle
  /\ UNCHANGED <<ledger, product, checkout, press, invoices, query, crashes>>

\* handle_successful_payment settles, then leaves the throttle.
HandleUpdate(i) ==
  /\ update[i] = "handling"
  /\ Confirm(i, i)
  /\ Exit(i)
  /\ update' = [update EXCEPT ![i] = "handled"]
  /\ UNCHANGED <<amount, product, checkout, press, invoices, query, crashes>>

\* Crypto Pay captures a payment; its webhook is not throttled.
SettleCrypto(i) ==
  /\ \E s \in shown : s[1] = i
  /\ Ledger!MarkPaid(i, None)
  /\ UNCHANGED <<amount, product, throttle, checkout, press, invoices, payments, crashes>>

\* handle_refunded_payment.
RefundStars(i) ==
  /\ rows[i].charge # None
  /\ Ledger!MarkRefunded(i)
  /\ UNCHANGED <<amount, product, throttle, checkout, press, invoices, payments, crashes>>

-----------------------------------------------------------------------------
(* The admin, and faults.                                                  *)

\* _ensure_still_purchasable: one rail keeps a price.
KeepsAPrice(price) == \E r \in Rails : price[r] # None

\* PATCH of a product: is_active or a price (a PATCH of several fields is
\* several of these steps without a reader in between).
UpdateProduct(new) ==
  /\ KeepsAPrice(new.price)
  /\ new # product
  /\ product' = new
  /\ UNCHANGED <<ledger, throttle, checkout, press, invoices, payments, crashes>>

\* Deviation: the throttle key is set without PX.
ThrottleExpiresNever == FALSE /\ UNCHANGED vars

ThrottleExpires ==
  /\ throttle = Orphan \/ (throttle # Free /\ "ttl" \in Faults)
  /\ throttle' = Free
  /\ UNCHANGED <<ledger, product, checkout, press, invoices, payments, crashes>>

CheckoutExpires ==
  /\ checkout = Orphan \/ (checkout # Free /\ "ttl" \in Faults)
  /\ checkout' = Free
  /\ UNCHANGED <<ledger, product, throttle, press, invoices, payments, crashes>>

\* The process dies under a press: its transaction rolls back, its locks stay.
Crash(p) ==
  /\ crashes < MaxCrashes
  /\ Underway(p)
  /\ crashes' = crashes + 1
  /\ Goes(p, [press[p] EXCEPT !.pc = "done"])
  /\ throttle' = IF throttle = p THEN Orphan ELSE throttle
  /\ checkout' = IF checkout = p THEN Orphan ELSE checkout
  /\ UNCHANGED <<ledger, product, invoices, payments>>

\* It dies under the payment message, which Telegram already got its answer for.
CrashUpdate(i) ==
  /\ crashes < MaxCrashes
  /\ update[i] = "handling"
  /\ crashes' = crashes + 1
  /\ update' = [update EXCEPT ![i] = "lost"]
  /\ throttle' = IF throttle = i THEN Orphan ELSE throttle
  /\ UNCHANGED <<ledger, product, checkout, press, invoices, query>>

-----------------------------------------------------------------------------
Init ==
  /\ Ledger!Init
  /\ amount = [i \in Invoices |-> None]
  /\ product \in [active : {TRUE}, price : [Rails -> Prices]]
  /\ throttle = Free /\ checkout = Free
  /\ press = [p \in Presses |-> NoPress]
  /\ billed = [i \in CryptoInvoices |-> None]
  /\ shown = {}
  /\ query = [i \in StarsInvoices |-> "none"]
  /\ update = [i \in StarsInvoices |-> "none"]
  /\ seen = {}
  /\ crashes = 0

PressStep(p) ==
  \/ ReadProduct(p) \/ CheckOwned(p) \/ CreateInvoice(p) \/ LockCheckout(p)
  \/ CheckProduct(p) \/ CheckOwnership(p) \/ CreatePurchase(p) \/ UnlockCheckout(p)
  \/ ShowInvoice(p) \/ LeavePress(p)

UpdateStep(i) == BeginUpdate(i) \/ HandleUpdate(i)

Buyer ==
  \/ \E p \in Presses, rail \in Rails : BeginPress(p, rail)
  \/ \E i \in StarsInvoices : AskPreCheckout(i) \/ CaptureStars(i) \/ RefundStars(i)
  \/ \E i \in CryptoInvoices : SettleCrypto(i)

Admin ==
  \/ UpdateProduct([product EXCEPT !.active = ~@])
  \/ \E r \in Rails, x \in Prices \cup {None} :
       UpdateProduct([product EXCEPT !.price[r] = x])

Next ==
  /\ \/ Buyer
     \/ Admin
     \/ \E p \in Presses : PressStep(p) \/ Crash(p)
     \/ \E i \in StarsInvoices : AnswerPreCheckout(i) \/ UpdateStep(i) \/ CrashUpdate(i)
     \/ ThrottleExpires
     \/ CheckoutExpires
  /\ Observe

Spec == Init /\ [][Next]_vars

(* Handlers run on the event loop and every await returns; a message that   *)
(* Telegram holds is delivered; an orphaned key expires.                    *)
Fairness ==
  /\ \A p \in Presses : WF_vars(PressStep(p) /\ Observe)
  /\ \A i \in StarsInvoices : WF_vars(UpdateStep(i) /\ Observe)
  /\ WF_vars(throttle = Orphan /\ ThrottleExpires /\ Observe)

FairSpec == Spec /\ Fairness

-----------------------------------------------------------------------------
(* The two locks, as the contract of LockService sees them.                 *)

\* Updates of the buyer that the middleware let through and that still run.
Handling == {p \in Presses : Underway(p)} \cup {i \in StarsInvoices : update[i] = "handling"}

\* Presses inside start_purchase's `async with`.
Starting == {p \in Presses : press[p].pc \in {"check_product", "check_owned", "create", "unlock"}}

ThrottleLock == INSTANCE LockService WITH
  Clients <- Presses \cup StarsInvoices,
  Keys    <- {"key"},
  NoKey   <- "none",
  taken   <- IF throttle = Free THEN {} ELSE {"key"},
  inside  <- [x \in Presses \cup StarsInvoices |-> IF x \in Handling THEN "key" ELSE "none"],
  owners  <- {x \in Handling : throttle = x}

CheckoutLock == INSTANCE LockService WITH
  Clients <- Presses,
  Keys    <- {"key"},
  NoKey   <- "none",
  taken   <- IF checkout = Free THEN {} ELSE {"key"},
  inside  <- [p \in Presses |-> IF p \in Starting THEN "key" ELSE "none"],
  owners  <- {p \in Starting : checkout = p}

\* Both locks are used as LockManager's contract allows: entered with a free key,
\* left once, whether the block ends well, in an exception or with its process.
UsesLockService == ThrottleLock!Spec /\ CheckoutLock!Spec

-----------------------------------------------------------------------------
(* Correctness.                                                            *)

\* Every variable holds a value of its type, and a row has an amount.
TypeOK ==
  /\ Ledger!TypeOK
  /\ amount \in [Invoices -> Prices \cup {None}]
  /\ \A i \in Invoices : (amount[i] = None) = (rows[i].status = "absent")
  /\ product \in [active : BOOLEAN, price : [Rails -> Prices \cup {None}]]
  /\ throttle \in Presses \cup StarsInvoices \cup {Free, Orphan}
  /\ checkout \in Presses \cup {Free, Orphan}
  /\ press \in [Presses -> Press]
  /\ billed \in [CryptoInvoices -> Prices \cup {None}]
  /\ shown \subseteq Invoices \X Prices
  /\ query \in [StarsInvoices -> QueryPcs]
  /\ update \in [StarsInvoices -> {"none", "queued", "handling", "handled",
                                   "throttled", "lost"}]
  /\ seen \subseteq (Presses \cup StarsInvoices) \X {"unowned", "on_sale"}
  /\ crashes \in 0..MaxCrashes

Shown(i) == \E s \in shown : s[1] = i

\* "Two payment buttons pressed at once: one invoice": of two presses in flight
\* together at most one ends with an invoice in front of the buyer.
OneInvoicePerOverlap ==
  \A p, q \in Presses :
    q \in press[p].with /\ press[p].inv # None /\ press[q].inv # None
      => ~(Shown(press[p].inv) /\ Shown(press[q].inv))

\* "A buyer who already owns the product never reaches the provider": a press
\* creates an invoice or a purchase only if the buyer did not own the product at
\* some moment of that press, whatever is paid or refunded meanwhile.
OwnersAreNotBilled ==
  \A p \in Presses : press[p].inv # None => <<p, "unowned">> \in seen

\* What a buyer can pay is always on record: money never arrives for an invoice
\* without a purchase, and a Stars invoice asks for the amount of its row, also
\* when the admin changes the price under a press.
ShownInvoicesAreRecorded ==
  \A s \in shown :
    /\ rows[s[1]].status # "absent"
    /\ s[1] \in StarsInvoices => s[2] = amount[s[1]]

\* Stars are captured only if, since the buyer last confirmed the payment, there
\* was a moment when the product was on sale and one when they did not own it:
\* the pre-checkout answer rests on no stale read of the card or the press.
ChargesAreJustified ==
  \A i \in Captured : {<<i, "unowned">>, <<i, "on_sale">>} \subseteq seen

\* "A crashed process cannot leave a user throttled forever": the throttle key
\* always becomes free again, and every press comes to an end.
NobodyIsThrottledForEver ==
  /\ (throttle = Orphan) ~> (throttle # Orphan)
  /\ \A p \in Presses : Underway(p) ~> ~Underway(p)

\* "Money already moved: wait for a busy lock instead of dropping the callback":
\* a captured Stars payment ends up in the ledger, or loses to another invoice
\* of the same copy.
StarsPaymentIsConfirmed ==
  \A i \in StarsInvoices :
    (update[i] = "queued") ~> (rows[i].paidAt \/ \E j \in Invoices \ {i} : rows[j].paidAt)
=============================================================================
