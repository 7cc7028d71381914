---------------------------- MODULE ProductCatalog ----------------------------
(***************************************************************************)
(* The product table under concurrent requests of the admin panel and      *)
(* presses of buyers.  A request is one READ COMMITTED transaction: each   *)
(* statement sees what is committed when it runs, nothing is locked before *)
(* the writing statement, and a write with its constraints and its commit  *)
(* is one step.  A request answered 404, 409 or 422 changes nothing and    *)
(* returns to "idle"; one that ends in an exception nobody translates      *)
(* (500) passes through "failed".                                          *)
(*                                                                         *)
(* title, description and photo_file_id are treated by the code as         *)
(* delivery_url is, less its validation, and have no field here.           *)
(***************************************************************************)
EXTENDS Naturals, FiniteSets

CONSTANTS
  Ids,       \* product ids: uuid4, never used twice
  Requests,  \* concurrent transactions
  Slugs,     \* slugs that match SLUG_PATTERN
  Raws,      \* delivery links as they are sent
  Links,     \* absolute http(s) links without surrounding blanks
  Clean,     \* Clean[raw]: what _validate_delivery_url makes of it, or None
  Prices,    \* admissible prices of one rail
  MaxNamed,  \* bound: fields that one PATCH names
  None       \* SQL NULL, no product

VARIABLES
  rows,    \* rows[p]: the row of product p, or None
  fresh,   \* ids that no product has had
  sold,    \* products that some purchase refers to (purchases are never deleted)
  req      \* req[r]: the transaction of request r

vars == <<rows, fresh, sold, req>>

Rails == {"price_stars", "price_usdt"}

Fields == {"slug", "delivery_url", "is_active"} \cup Rails

\* The CHECK price_present, and ProductDraft.__post_init__.
PricePresent(row) == row.price_stars # None \/ row.price_usdt # None

\* Deviation: the schema without the constraint price_present.
ChecksWithoutPrice(row) == TRUE

\* The CHECK constraints of the table; the domains below stand for the others.
Checks(row) == PricePresent(row)

Row == [slug : Slugs, delivery_url : Links, price_stars : Prices \cup {None},
        price_usdt : Prices \cup {None}, is_active : BOOLEAN]

ASSUME ValidationIsTyped ==
  /\ Clean \in [Raws -> Links \cup {None}]
  /\ None \notin Row
  /\ None \notin Ids \cup Slugs \cup Links \cup Prices \cup Raws

\* Values for some fields, each from its own set.
Values(set, of) ==
  {m \in [set -> UNION {of[f] : f \in set}] : \A f \in set : m[f] \in of[f]}

\* What a column may hold.
Column == [slug |-> Slugs, delivery_url |-> Links, is_active |-> BOOLEAN,
           price_stars |-> Prices \cup {None}, price_usdt |-> Prices \cup {None}]

\* What the panel may send for it: null clears a price and nothing else.
Sent == [Column EXCEPT !.delivery_url = Raws]

\* The body of POST /products.
Drafts == {d \in Values(Fields, Sent) : PricePresent(d)}

\* The bodies of PATCH /products/{id}, up to MaxNamed fields.
Patches == UNION {Values(set, Sent) :
                    set \in {some \in SUBSET Fields : Cardinality(some) \in 1..MaxNamed}}

\* _prepare_changes, create: a delivery link is stored without blanks.
Prepared(fields) ==
  [f \in DOMAIN fields |-> IF f = "delivery_url" THEN Clean[fields[f]] ELSE fields[f]]

\* InvalidDeliveryUrlError otherwise.
Valid(fields) == "delivery_url" \in DOMAIN fields => Clean[fields["delivery_url"]] # None

-----------------------------------------------------------------------------
(* Transactions.                                                           *)

Quiet == [pc |-> "idle", id |-> None, patch |-> [f \in {} |-> None], loaded |-> None,
          overlapped |-> FALSE]

Request == [pc : {"idle", "checked", "loaded", "found", "unsold", "buying", "failed"},
            id : Ids \cup {None},
            patch : UNION {Values(set, Column) : set \in SUBSET Fields},
            loaded : Row \cup {None},
            overlapped : BOOLEAN]

\* Request r reads the database and goes on with `next`.
Read(r, next) ==
  /\ req' = [req EXCEPT ![r] = next]
  /\ UNCHANGED <<rows, fresh, sold>>

\* Request r commits and is answered with `next`; whoever is in the middle of a
\* transaction has been overlapped (a history variable).
Committed(r, next) ==
  req' = [q \in Requests |->
            CASE q = r -> next
              [] q # r /\ req[q].pc = "idle" -> req[q]
              [] OTHER -> [req[q] EXCEPT !.overlapped = TRUE]]

\* The statement raises: nothing is stored (500).
Fails(r) == Read(r, [req[r] EXCEPT !.pc = "failed"])

Answered(r) == req[r].pc = "failed" /\ Read(r, Quiet)

\* Deviation: the schema without uq_products_slug.
SlugTakenNever(s, p) == FALSE

\* uq_products_slug: the slug belongs to another product.
SlugTaken(s, p) == \E q \in Ids \ {p} : rows[q] # None /\ rows[q].slug = s

-----------------------------------------------------------------------------
(* POST /products: one INSERT in a savepoint; a taken slug answers 409.    *)

Create(r, p, draft) ==
  /\ req[r].pc = "idle"
  /\ Valid(draft)
  /\ p \in fresh /\ ~SlugTaken(draft.slug, p) /\ Checks(draft)
  /\ rows' = [rows EXCEPT ![p] = Prepared(draft)]
  /\ fresh' = fresh \ {p}
  /\ Committed(r, Quiet)
  /\ UNCHANGED sold

\* GET /products, GET /products/{id} and PATCH with an empty body only read.
Get(r) == req[r].pc = "idle" /\ UNCHANGED vars

-----------------------------------------------------------------------------
(* PATCH /products/{id}.                                                   *)

\* _ensure_still_purchasable, on the row that was read.
StillPurchasable(row, patch) ==
  \E f \in Rails : (IF f \in DOMAIN patch THEN patch[f] ELSE row[f]) # None

\* Checked against the row that was read: 404 or 422 otherwise.
Patch(r, p, patch) ==
  /\ req[r].pc = "idle"
  /\ Valid(patch)
  /\ rows[p] # None /\ StillPurchasable(rows[p], patch)
  /\ Read(r, [Quiet EXCEPT !.pc = "checked", !.id = p, !.patch = Prepared(patch)])

\* The repository selects the row again (the session keeps no object alive).
Load(r) ==
  LET row == rows[req[r].id]
  IN  /\ req[r].pc = "checked"
      /\ Read(r, IF row = None THEN Quiet
                 ELSE [req[r] EXCEPT !.pc = "loaded", !.loaded = row])

\* The columns of the UPDATE: those the patch names with another value.
Sets(q) == {f \in DOMAIN q.patch : q.patch[f] # q.loaded[f]}

\* The row after an UPDATE of the columns `set`.
After(row, q, set) ==
  [f \in Fields |-> IF f \in set THEN q.patch[f] ELSE row[f]]

\* No UPDATE is sent when nothing differs; a row that is gone or a violated
\* CHECK is a 500, a taken slug a 409.
Update(r) ==
  LET q   == req[r]
      p   == q.id
      set == Sets(q)
      new == After(rows[p], q, set)
  IN  /\ q.pc = "loaded"
      /\ \/ /\ set = {} /\ rows[p] # None
            /\ Read(r, Quiet)
         \/ /\ rows[p] = None
            /\ Fails(r)
         \/ /\ set # {} /\ rows[p] # None /\ SlugTaken(new.slug, p)
            /\ Read(r, Quiet)
         \/ /\ set # {} /\ rows[p] # None /\ ~SlugTaken(new.slug, p) /\ ~Checks(new)
            /\ Fails(r)
         \/ /\ set # {} /\ rows[p] # None /\ ~SlugTaken(new.slug, p) /\ Checks(new)
            /\ rows' = [rows EXCEPT ![p] = new]
            /\ Committed(r, Quiet)
            /\ UNCHANGED <<fresh, sold>>

-----------------------------------------------------------------------------
(* DELETE /products/{id}.                                                  *)

Find(r, p) ==
  /\ req[r].pc = "idle" /\ rows[p] # None
  /\ Read(r, [Quiet EXCEPT !.pc = "found", !.id = p])

\* The purchases are counted; ConflictError when there are any.
Count(r) ==
  /\ req[r].pc = "found"
  /\ Read(r, IF req[r].id \in sold THEN Quiet ELSE [req[r] EXCEPT !.pc = "unsold"])

\* Deviation: purchases.product_id without its foreign key.
ReferencedNever(p) == FALSE

\* The foreign key of purchases, ON DELETE RESTRICT.
Referenced(p) == p \in sold

\* A row that is gone already is deleted once more without effect.
Delete(r) ==
  LET p == req[r].id
  IN  /\ req[r].pc = "unsold"
      /\ \/ /\ Referenced(p)
            /\ Fails(r)
         \/ /\ ~Referenced(p)
            /\ rows' = [rows EXCEPT ![p] = None]
            /\ Committed(r, Quiet)
            /\ UNCHANGED <<fresh, sold>>

-----------------------------------------------------------------------------
(* start_purchase, for a product whose card was opened before.             *)

Press(r, p, rail) ==
  /\ req[r].pc = "idle"
  /\ rows[p] # None /\ rows[p].is_active /\ rows[p][rail] # None
  /\ Read(r, [Quiet EXCEPT !.pc = "buying", !.id = p])

\* INSERT INTO purchases: the foreign key needs the product.
Buy(r) ==
  LET p == req[r].id
  IN  /\ req[r].pc = "buying"
      /\ \/ /\ rows[p] = None
            /\ Fails(r)
         \/ /\ rows[p] # None
            /\ sold' = sold \cup {p}
            /\ Committed(r, Quiet)
            /\ UNCHANGED <<rows, fresh>>

-----------------------------------------------------------------------------
Init ==
  /\ rows = [p \in Ids |-> None]
  /\ fresh = Ids
  /\ sold = {}
  /\ req = [r \in Requests |-> Quiet]

Begin(r, p) ==
  \/ \E draft \in Drafts : Create(r, p, draft)
  \/ \E patch \in Patches : Patch(r, p, patch)
  \/ \E rail \in Rails : Press(r, p, rail)
  \/ Find(r, p)

Next ==
  \E r \in Requests :
    \/ \E p \in Ids : Begin(r, p)
    \/ Get(r) \/ Load(r) \/ Update(r) \/ Count(r) \/ Delete(r) \/ Buy(r) \/ Answered(r)

Spec == Init /\ [][Next]_vars

-----------------------------------------------------------------------------
(* Correctness.                                                            *)

\* Every variable holds a value of its type: in particular a stored delivery
\* link is an absolute one, whichever request stored it.
TypeOK ==
  /\ rows \in [Ids -> Row \cup {None}]
  /\ fresh \subseteq Ids /\ sold \subseteq Ids
  /\ req \in [Requests -> Request]

\* "A product with no price at all could never be bought again": two PATCHes
\* that each keep the other rail's price never leave a product without both.
AlwaysPurchasable == \A p \in Ids : rows[p] # None => PricePresent(rows[p])

\* "Reachable through exactly one deep link": no two products share a slug,
\* whatever creations and renames overlap.
SlugsAreUnique ==
  \A p, q \in Ids :
    rows[p] # None /\ rows[q] # None /\ rows[p].slug = rows[q].slug => p = q

\* A product that was ever bought is never deleted, although delete counts the
\* purchases before a press inserts one.
NoPurchaseWithoutProduct == \A p \in sold : rows[p] # None

\* Only a race is answered 500: what the database rejects, the service has
\* refused with a reason before, unless another request committed in between.
ErrorsNeedOverlap == \A r \in Requests : req[r].pc = "failed" => req[r].overlapped

\* "Omitted fields keep their stored value", even when another request changed
\* them between this one's read and its write.
PatchTouchesOnlyItsFields ==
  [][\A r \in Requests :
       LET p == req[r].id
       IN  req[r].pc = "loaded" /\ rows'[p] # rows[p] =>
             \A f \in Fields \ DOMAIN req[r].patch :
               req'[r].pc = "idle" => rows'[p][f] = rows[p][f]]_vars
=============================================================================
