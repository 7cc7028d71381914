------------------------ MODULE ProductCatalogProofs ------------------------
(***************************************************************************)
(* Machine-checked proofs about ProductCatalog, for any number of requests,*)
(* products, slugs, links and prices, and PATCHes of any number of fields. *)
(*                                                                         *)
(* The constraints of the table carry the invariants of its rows.  InOrder *)
(* says what a request in the middle of its transaction may rely on: the   *)
(* types of what it read always, and that it is still so only as long as   *)
(* nobody committed since.                                                 *)
(***************************************************************************)
EXTENDS ProductCatalog, TLAPS

InOrder(q) ==
  /\ q.pc \in {"checked", "loaded", "found", "unsold", "buying"} => q.id \in Ids
  /\ q.pc = "loaded" => q.loaded \in Row
  /\ ~q.overlapped =>
       /\ q.pc = "checked" => rows[q.id] # None /\ StillPurchasable(rows[q.id], q.patch)
       /\ q.pc = "loaded" => rows[q.id] = q.loaded /\ StillPurchasable(q.loaded, q.patch)
       /\ q.pc = "unsold" => q.id \notin sold
       /\ q.pc = "buying" => rows[q.id] # None
       /\ q.pc # "failed"

RequestsInOrder == \A r \in Requests : InOrder(req[r])

\* The inductive invariant.
CatalogInv ==
  /\ TypeOK
  /\ AlwaysPurchasable
  /\ SlugsAreUnique
  /\ NoPurchaseWithoutProduct
  /\ RequestsInOrder

-----------------------------------------------------------------------------
(* Values.                                                                 *)

\* A request that does nothing is well formed.
LEMMA QuietIsARequest == Quiet \in Request
  <1>1. [f \in {} |-> None] \in Values({}, Column)
    BY DEF Values
  <1>2. [f \in {} |-> None] \in UNION {Values(set, Column) : set \in SUBSET Fields}
    BY <1>1
  <1> QED
    BY <1>2 DEF Quiet, Request

\* A body that passed the validation is stored as columns.
LEMMA PreparedIsTyped ==
  ASSUME NEW set \in SUBSET Fields, NEW m \in Values(set, Sent), Valid(m)
  PROVE  Prepared(m) \in Values(set, Column)
  <1>1. DOMAIN m = set /\ \A f \in set : m[f] \in Sent[f]
    BY DEF Values
  <1>2. ASSUME NEW f \in set
        PROVE  Prepared(m)[f] \in Column[f]
    <2>1. CASE f = "delivery_url"
      BY <1>1, <2>1, ValidationIsTyped DEF Prepared, Valid, Sent, Column
    <2>2. CASE f # "delivery_url"
      BY <1>1, <2>2 DEF Prepared, Sent, Column, Fields, Rails
    <2> QED
      BY <2>1, <2>2
  <1>3. Prepared(m) = [f \in set |-> Prepared(m)[f]]
    BY <1>1 DEF Prepared
  <1>4. \A f \in set : Prepared(m)[f] \in UNION {Column[g] : g \in set}
    BY <1>2
  <1> QED
    BY <1>2, <1>3, <1>4 DEF Values

\* Values for all columns are a row.
LEMMA ColumnsAreRows == Values(Fields, Column) \subseteq Row
  <1> SUFFICES ASSUME NEW m \in Values(Fields, Column)
               PROVE  m \in Row
    OBVIOUS
  <1>1. m = [f \in Fields |-> m[f]] /\ \A f \in Fields : m[f] \in Column[f]
    BY DEF Values
  <1> QED
    BY <1>1 DEF Row, Column, Fields, Rails

\* A draft without blanks in its link is a row with a price.
LEMMA DraftsAreRows ==
  ASSUME NEW draft \in Drafts, Valid(draft)
  PROVE  Prepared(draft) \in Row /\ PricePresent(Prepared(draft))
  <1>1. draft \in Values(Fields, Sent) /\ PricePresent(draft)
    BY DEF Drafts
  <1>2. DOMAIN draft = Fields
    BY <1>1 DEF Values
  <1>3. Prepared(draft) \in Row
    BY <1>1, PreparedIsTyped, ColumnsAreRows
  <1>4. PricePresent(Prepared(draft))
    BY <1>1, <1>2 DEF Prepared, PricePresent, Fields, Rails
  <1> QED
    BY <1>3, <1>4

\* A row some of whose columns are overwritten by a patch is a row.
LEMMA AfterIsARow ==
  ASSUME NEW row \in Row, NEW q \in Request, NEW set \in SUBSET DOMAIN q.patch
  PROVE  After(row, q, set) \in Row
  <1>1. PICK all \in SUBSET Fields : q.patch \in Values(all, Column)
    BY DEF Request
  <1>2. \A f \in set : f \in Fields /\ q.patch[f] \in Column[f]
    BY <1>1 DEF Values
  <1>3. \A f \in Fields : row[f] \in Column[f]
    BY DEF Row, Column, Fields, Rails
  <1>4. \A f \in Fields : After(row, q, set)[f] \in Column[f]
    BY <1>2, <1>3 DEF After
  <1>5. After(row, q, set) = [f \in Fields |-> After(row, q, set)[f]]
    BY DEF After
  <1> QED
    BY <1>4, <1>5 DEF Row, Column, Fields, Rails

-----------------------------------------------------------------------------
(* Steps.                                                                  *)

\* A statement that only reads leaves the table as it was.
LEMMA ReadKeepsCatalog ==
  ASSUME CatalogInv, NEW r \in Requests, NEW next \in Request, InOrder(next), Read(r, next)
  PROVE  CatalogInv'
  <1>1. UNCHANGED <<rows, fresh, sold>> /\ req \in [Requests -> Request]
    BY DEF Read, CatalogInv, TypeOK
  <1>2. req' \in [Requests -> Request] /\ \A q \in Requests : req'[q] \in {req[q], next}
    BY <1>1 DEF Read
  <1>3. \A q \in Requests : InOrder(req'[q])
    BY <1>2 DEF CatalogInv, RequestsInOrder
  <1>4. RequestsInOrder'
    BY <1>1, <1>3 DEF RequestsInOrder, InOrder, StillPurchasable
  <1> QED
    BY <1>1, <1>2, <1>4 DEF CatalogInv, TypeOK, AlwaysPurchasable, SlugsAreUnique,
                            NoPurchaseWithoutProduct, PricePresent

\* A commit overlaps every other transaction, which loses what it relied on.
LEMMA CommitLeavesOrder ==
  ASSUME CatalogInv, NEW r \in Requests, Committed(r, Quiet)
  PROVE  req' \in [Requests -> Request] /\ RequestsInOrder'
  <1>1. req \in [Requests -> Request]
    BY DEF CatalogInv, TypeOK
  <1>2. ASSUME NEW q \in Requests
        PROVE  req'[q] \in Request /\ InOrder(req[q])'
    <2>0. req[q] \in Request /\ InOrder(req[q])
      BY <1>1 DEF CatalogInv, RequestsInOrder
    <2>1. CASE q = r
      <3>1. req'[q] = Quiet
        BY <2>1 DEF Committed
      <3> QED
        BY <3>1, QuietIsARequest DEF InOrder, Quiet
    <2>2. CASE q # r /\ req[q].pc = "idle"
      <3>1. req'[q] = req[q]
        BY <2>2 DEF Committed
      <3> QED
        BY <2>0, <2>2, <3>1 DEF InOrder
    <2>3. CASE q # r /\ req[q].pc # "idle"
      <3>1. req'[q] = [req[q] EXCEPT !.overlapped = TRUE]
        BY <2>3 DEF Committed
      <3>2. /\ req'[q] \in Request /\ req'[q].overlapped
            /\ req'[q].pc = req[q].pc /\ req'[q].id = req[q].id
            /\ req'[q].loaded = req[q].loaded
        BY <2>0, <3>1 DEF Request
      <3> QED
        BY <2>0, <3>2 DEF InOrder
    <2> QED
      BY <2>1, <2>2, <2>3
  <1>3. req' = [q \in Requests |-> req'[q]]
    BY DEF Committed
  <1> QED
    BY <1>2, <1>3 DEF RequestsInOrder

\* A row is written under the constraints of the table.
LEMMA WriteKeepsCatalog ==
  ASSUME CatalogInv, NEW r \in Requests, Committed(r, Quiet),
         NEW p \in Ids, NEW row \in Row, PricePresent(row), ~SlugTaken(row.slug, p),
         rows' = [rows EXCEPT ![p] = row], fresh' \subseteq fresh, UNCHANGED sold
  PROVE  CatalogInv'
  <1>1. rows \in [Ids -> Row \cup {None}] /\ fresh \subseteq Ids /\ sold \subseteq Ids
    BY DEF CatalogInv, TypeOK
  <1>2. rows'[p] = row /\ row # None /\ \A q \in Ids \ {p} : rows'[q] = rows[q]
    BY <1>1, ValidationIsTyped
  <1>3. AlwaysPurchasable'
    BY <1>2 DEF CatalogInv, AlwaysPurchasable, PricePresent
  <1>4. SlugsAreUnique'
    BY <1>2 DEF CatalogInv, SlugsAreUnique, SlugTaken
  <1>5. NoPurchaseWithoutProduct'
    BY <1>1, <1>2 DEF CatalogInv, NoPurchaseWithoutProduct
  <1> QED
    BY <1>1, <1>3, <1>4, <1>5, CommitLeavesOrder DEF CatalogInv, TypeOK

\* What a transaction does next when it stops.
LEMMA QuietIsInOrder == Quiet \in Request /\ InOrder(Quiet)
  BY QuietIsARequest DEF InOrder, Quiet

\* A transaction that meets an error was overlapped.
LEMMA FailureKeepsCatalog ==
  ASSUME CatalogInv, NEW r \in Requests, req[r].overlapped, Fails(r)
  PROVE  CatalogInv'
  <1>1. req[r] \in Request
    BY DEF CatalogInv, TypeOK
  <1>2. [req[r] EXCEPT !.pc = "failed"] \in Request /\ InOrder([req[r] EXCEPT !.pc = "failed"])
    BY <1>1 DEF Request, InOrder
  <1> QED
    BY <1>2, ReadKeepsCatalog DEF Fails

\* The row an UPDATE in time writes has the price the service has checked.
LEMMA PatchedRowHasAPrice ==
  ASSUME NEW q \in Request, NEW row \in Row, q.loaded = row, StillPurchasable(row, q.patch)
  PROVE  PricePresent(After(row, q, Sets(q)))
  <1>1. PICK f \in Rails : (IF f \in DOMAIN q.patch THEN q.patch[f] ELSE row[f]) # None
    BY DEF StillPurchasable
  <1>2. After(row, q, Sets(q))[f] = IF f \in DOMAIN q.patch THEN q.patch[f] ELSE row[f]
    BY DEF After, Sets, Fields
  <1> QED
    BY <1>1, <1>2 DEF Rails, PricePresent

\* Creating a product keeps the catalogue.
LEMMA CreateKeepsCatalog ==
  ASSUME CatalogInv, NEW r \in Requests, NEW p \in Ids, NEW draft \in Drafts,
         Create(r, p, draft)
  PROVE  CatalogInv'
  <1>1. Prepared(draft) \in Row /\ PricePresent(Prepared(draft))
    BY DraftsAreRows DEF Create
  <1>2. Prepared(draft).slug = draft.slug
    BY DEF Prepared, Drafts, Values, Fields, Rails
  <1>3. ~SlugTaken(Prepared(draft).slug, p)
    BY <1>2 DEF Create
  <1> QED
    BY <1>1, <1>3, WriteKeepsCatalog DEF Create

\* The first read of a PATCH, a DELETE and a press.
LEMMA OpeningKeepsCatalog ==
  ASSUME CatalogInv, NEW r \in Requests, NEW p \in Ids,
         \/ \E patch \in Patches : Patch(r, p, patch)
         \/ \E rail \in Rails : Press(r, p, rail)
         \/ Find(r, p)
  PROVE  CatalogInv'
  <1>1. ASSUME NEW patch \in Patches, Patch(r, p, patch)
        PROVE  CatalogInv'
    <2> DEFINE next == [Quiet EXCEPT !.pc = "checked", !.id = p, !.patch = Prepared(patch)]
    <2>1. PICK set \in SUBSET Fields : patch \in Values(set, Sent)
      BY DEF Patches
    <2>2. Prepared(patch) \in Values(set, Column)
      BY <1>1, <2>1, PreparedIsTyped DEF Patch
    <2>3. next \in Request
      BY <2>2, QuietIsARequest DEF Request
    <2>4. DOMAIN Prepared(patch) = DOMAIN patch
          /\ \A f \in DOMAIN patch \cap Rails : Prepared(patch)[f] = patch[f]
      BY DEF Prepared, Rails
    <2>5. StillPurchasable(rows[p], Prepared(patch))
      BY <1>1, <2>4 DEF Patch, StillPurchasable
    <2>6. InOrder(next)
      BY <1>1, <2>5 DEF InOrder, Quiet, Patch
    <2> QED
      BY <1>1, <2>3, <2>6, ReadKeepsCatalog DEF Patch
  <1>2. ASSUME NEW rail \in Rails, Press(r, p, rail)
        PROVE  CatalogInv'
    <2>1. [Quiet EXCEPT !.pc = "buying", !.id = p] \in Request
      BY QuietIsARequest DEF Request
    <2>2. InOrder([Quiet EXCEPT !.pc = "buying", !.id = p])
      BY <1>2 DEF InOrder, Quiet, Press
    <2> QED
      BY <1>2, <2>1, <2>2, ReadKeepsCatalog DEF Press
  <1>3. CASE Find(r, p)
    <2>1. [Quiet EXCEPT !.pc = "found", !.id = p] \in Request
      BY QuietIsARequest DEF Request
    <2>2. InOrder([Quiet EXCEPT !.pc = "found", !.id = p])
      BY DEF InOrder, Quiet
    <2> QED
      BY <1>3, <2>1, <2>2, ReadKeepsCatalog DEF Find
  <1> QED
    BY <1>1, <1>2, <1>3

\* The reads in the middle of a PATCH and of a DELETE, and an answered error.
LEMMA ReadingKeepsCatalog ==
  ASSUME CatalogInv, NEW r \in Requests, Load(r) \/ Count(r) \/ Answered(r)
  PROVE  CatalogInv'
  <1>0. req[r] \in Request /\ InOrder(req[r]) /\ rows \in [Ids -> Row \cup {None}]
    BY DEF CatalogInv, TypeOK, RequestsInOrder
  <1>1. CASE Load(r)
    <2> DEFINE row  == rows[req[r].id]
               next == [req[r] EXCEPT !.pc = "loaded", !.loaded = row]
    <2>1. row \in Row \cup {None}
      BY <1>0, <1>1 DEF Load, InOrder
    <2>2. CASE row = None
      BY <1>1, <2>2, QuietIsInOrder, ReadKeepsCatalog DEF Load
    <2>3. CASE row # None
      <3>1. next \in Request
        BY <1>0, <2>1 DEF Request
      <3>2. /\ next.pc = "loaded" /\ next.loaded = row /\ next.id = req[r].id
            /\ next.overlapped = req[r].overlapped /\ next.patch = req[r].patch
        BY <1>0 DEF Request
      <3>3. InOrder(next)
        BY <1>0, <1>1, <2>1, <2>3, <3>2 DEF InOrder, Load
      <3> QED
        BY <1>1, <2>3, <3>1, <3>3, ReadKeepsCatalog DEF Load
    <2> QED
      BY <2>2, <2>3
  <1>2. CASE Count(r)
    <2>1. CASE req[r].id \in sold
      BY <1>2, <2>1, QuietIsInOrder, ReadKeepsCatalog DEF Count
    <2>2. CASE req[r].id \notin sold
      <3>1. [req[r] EXCEPT !.pc = "unsold"] \in Request
        BY <1>0 DEF Request
      <3>2. InOrder([req[r] EXCEPT !.pc = "unsold"])
        BY <1>0, <1>2, <2>2 DEF InOrder, Request, Count
      <3> QED
        BY <1>2, <2>2, <3>1, <3>2, ReadKeepsCatalog DEF Count
    <2> QED
      BY <2>1, <2>2
  <1>3. CASE Answered(r)
    BY <1>3, QuietIsInOrder, ReadKeepsCatalog DEF Answered
  <1> QED
    BY <1>1, <1>2, <1>3

\* The UPDATE of a PATCH.
LEMMA UpdateKeepsCatalog ==
  ASSUME CatalogInv, NEW r \in Requests, Update(r)
  PROVE  CatalogInv'
  <1> DEFINE q   == req[r]
             p   == q.id
             set == Sets(q)
             new == After(rows[p], q, set)
  <1>1. /\ q \in Request /\ InOrder(q) /\ q.pc = "loaded" /\ p \in Ids
        /\ rows \in [Ids -> Row \cup {None}]
    BY DEF CatalogInv, TypeOK, RequestsInOrder, InOrder, Update
  <1>2. CASE Read(r, Quiet)
    BY <1>2, QuietIsInOrder, ReadKeepsCatalog
  <1>3. ASSUME Fails(r), rows[p] = None \/ (rows[p] # None /\ ~Checks(new))
        PROVE  CatalogInv'
    <2>1. ASSUME ~q.overlapped
          PROVE  FALSE
      <3>1. rows[p] = q.loaded /\ q.loaded \in Row /\ StillPurchasable(q.loaded, q.patch)
        BY <1>1, <2>1 DEF InOrder
      <3>2. rows[p] # None /\ Checks(new)
        BY <1>1, <3>1, PatchedRowHasAPrice, ValidationIsTyped DEF Checks
      <3> QED
        BY <1>3, <3>2
    <2> QED
      BY <1>3, <2>1, FailureKeepsCatalog
  <1>4. ASSUME rows[p] # None, ~SlugTaken(new.slug, p), Checks(new), Committed(r, Quiet),
               rows' = [rows EXCEPT ![p] = new], UNCHANGED <<fresh, sold>>
        PROVE  CatalogInv'
    <2>1. new \in Row
      BY <1>1, <1>4, AfterIsARow DEF Sets
    <2> QED
      BY <1>1, <1>4, <2>1, WriteKeepsCatalog DEF Checks
  <1> QED
    BY <1>2, <1>3, <1>4 DEF Update

\* The DELETE: the foreign key keeps what was sold.
LEMMA DeleteKeepsCatalog ==
  ASSUME CatalogInv, NEW r \in Requests, Delete(r)
  PROVE  CatalogInv'
  <1> DEFINE p == req[r].id
  <1>1. /\ req[r] \in Request /\ InOrder(req[r]) /\ p \in Ids /\ sold \subseteq Ids
        /\ fresh \subseteq Ids /\ rows \in [Ids -> Row \cup {None}]
    BY DEF CatalogInv, TypeOK, RequestsInOrder, InOrder, Delete
  <1>2. CASE Referenced(p) /\ Fails(r)
    BY <1>1, <1>2, FailureKeepsCatalog DEF InOrder, Delete, Referenced
  <1>3. CASE /\ ~Referenced(p) /\ rows' = [rows EXCEPT ![p] = None]
             /\ Committed(r, Quiet) /\ UNCHANGED <<fresh, sold>>
    <2>1. \A q \in Ids : rows'[q] = None \/ rows'[q] = rows[q]
      BY <1>1, <1>3
    <2>2. \A q \in sold : rows'[q] = rows[q]
      BY <1>1, <1>3 DEF Referenced
    <2>3. AlwaysPurchasable' /\ SlugsAreUnique' /\ NoPurchaseWithoutProduct'
      BY <1>3, <2>1, <2>2 DEF CatalogInv, AlwaysPurchasable, SlugsAreUnique,
                              NoPurchaseWithoutProduct, PricePresent
    <2>4. rows' \in [Ids -> Row \cup {None}]
      BY <1>1, <1>3
    <2> QED
      BY <1>1, <1>3, <2>3, <2>4, CommitLeavesOrder DEF CatalogInv, TypeOK
  <1> QED
    BY <1>2, <1>3 DEF Delete

\* The INSERT of a purchase: the foreign key needs the product.
LEMMA BuyKeepsCatalog ==
  ASSUME CatalogInv, NEW r \in Requests, Buy(r)
  PROVE  CatalogInv'
  <1> DEFINE p == req[r].id
  <1>1. /\ req[r] \in Request /\ InOrder(req[r]) /\ p \in Ids /\ sold \subseteq Ids
        /\ fresh \subseteq Ids /\ rows \in [Ids -> Row \cup {None}]
    BY DEF CatalogInv, TypeOK, RequestsInOrder, InOrder, Buy
  <1>2. CASE rows[p] = None /\ Fails(r)
    BY <1>1, <1>2, FailureKeepsCatalog DEF InOrder, Buy
  <1>3. CASE /\ rows[p] # None /\ sold' = sold \cup {p}
             /\ Committed(r, Quiet) /\ UNCHANGED <<rows, fresh>>
    <2>1. AlwaysPurchasable' /\ SlugsAreUnique' /\ NoPurchaseWithoutProduct'
      BY <1>3 DEF CatalogInv, AlwaysPurchasable, SlugsAreUnique, NoPurchaseWithoutProduct,
                  PricePresent
    <2> QED
      BY <1>1, <1>3, <2>1, CommitLeavesOrder DEF CatalogInv, TypeOK
  <1> QED
    BY <1>2, <1>3 DEF Buy

\* CatalogInv is inductive.
LEMMA StepKeepsCatalog == CatalogInv /\ [Next]_vars => CatalogInv'
  <1> SUFFICES ASSUME CatalogInv, [Next]_vars
               PROVE  CatalogInv'
    OBVIOUS
  <1>1. ASSUME NEW r \in Requests, NEW p \in Ids, Begin(r, p)
        PROVE  CatalogInv'
    BY <1>1, CreateKeepsCatalog, OpeningKeepsCatalog DEF Begin
  <1>2. ASSUME NEW r \in Requests, Load(r) \/ Count(r) \/ Answered(r)
        PROVE  CatalogInv'
    BY <1>2, ReadingKeepsCatalog
  <1>3. ASSUME NEW r \in Requests, Update(r) \/ Delete(r) \/ Buy(r)
        PROVE  CatalogInv'
    BY <1>3, UpdateKeepsCatalog, DeleteKeepsCatalog, BuyKeepsCatalog
  <1>4. ASSUME UNCHANGED vars
        PROVE  CatalogInv'
    BY <1>4 DEF vars, CatalogInv, TypeOK, AlwaysPurchasable, SlugsAreUnique, PricePresent,
                NoPurchaseWithoutProduct, RequestsInOrder, InOrder, StillPurchasable
  <1> QED
    BY <1>1, <1>2, <1>3, <1>4 DEF Next, Get

-----------------------------------------------------------------------------
(* What the catalogue promises.                                            *)

\* Every behaviour keeps the invariant.
THEOREM CatalogInvariant == Spec => []CatalogInv
<1>1. Init => CatalogInv
  BY QuietIsInOrder
  DEF Init, CatalogInv, TypeOK, AlwaysPurchasable, SlugsAreUnique, NoPurchaseWithoutProduct,
      RequestsInOrder, InOrder, Quiet
<1>2. CatalogInv /\ [Next]_vars => CatalogInv'
  BY StepKeepsCatalog
<1> QED
  BY <1>1, <1>2, PTL DEF Spec

\* Every stored value is of its column's type; a stored link is an absolute one.
THEOREM TypeCorrect == Spec => []TypeOK
<1>1. CatalogInv => TypeOK
  BY DEF CatalogInv
<1> QED
  BY <1>1, CatalogInvariant, PTL

\* No mix of overlapping PATCHes leaves a product without a price.
THEOREM ProductsStayPurchasable == Spec => []AlwaysPurchasable
<1>1. CatalogInv => AlwaysPurchasable
  BY DEF CatalogInv
<1> QED
  BY <1>1, CatalogInvariant, PTL

\* No mix of creations and renames gives two products one deep link.
THEOREM OneProductPerLink == Spec => []SlugsAreUnique
<1>1. CatalogInv => SlugsAreUnique
  BY DEF CatalogInv
<1> QED
  BY <1>1, CatalogInvariant, PTL

\* A product that was bought stays, whatever deletions overlap the purchase.
THEOREM SoldProductsStay == Spec => []NoPurchaseWithoutProduct
<1>1. CatalogInv => NoPurchaseWithoutProduct
  BY DEF CatalogInv
<1> QED
  BY <1>1, CatalogInvariant, PTL

\* Only a request that another one overlapped is answered 500.
THEOREM ErrorsComeFromOverlaps == Spec => []ErrorsNeedOverlap
<1>1. CatalogInv => ErrorsNeedOverlap
  BY DEF CatalogInv, RequestsInOrder, InOrder, ErrorsNeedOverlap
<1> QED
  BY <1>1, CatalogInvariant, PTL

\* A PATCH writes no column that it does not name, however old its read is.
THEOREM OmittedFieldsKeep == Spec => PatchTouchesOnlyItsFields
<1> DEFINE Untouched(r) ==
      LET p == req[r].id
      IN  req[r].pc = "loaded" /\ rows'[p] # rows[p] =>
            \A f \in Fields \ DOMAIN req[r].patch :
              req'[r].pc = "idle" => rows'[p][f] = rows[p][f]
<1>1. ASSUME CatalogInv, [Next]_vars, NEW r \in Requests, req[r].pc = "loaded",
             req'[r].pc = "idle", rows' # rows
      PROVE  Update(r)
  <2>1. PICK q \in Requests : (\E p \in Ids, draft \in Drafts : Create(q, p, draft)) \/
                              Update(q) \/ Delete(q)
    <3>1. rows' # rows => ~UNCHANGED vars
      BY DEF vars
    <3> QED
      BY <1>1, <3>1 DEF Next, Begin, Get, Load, Count, Buy, Answered, Patch, Press, Find, Read,
                        Fails, vars
  <2>2. Committed(q, Quiet)
    BY <1>1, <2>1 DEF Create, Update, Delete, Read, Fails
  <2>3. q = r
    <3>1. ASSUME q # r
          PROVE  FALSE
      <4>1. req'[r] = [req[r] EXCEPT !.overlapped = TRUE]
        BY <1>1, <2>2, <3>1 DEF Committed
      <4>2. req'[r].pc = req[r].pc
        BY <1>1, <4>1 DEF CatalogInv, TypeOK, Request
      <4> QED
        BY <1>1, <4>2
    <3> QED
      BY <3>1
  <2> QED
    BY <1>1, <2>1, <2>3 DEF Create, Delete
<1>2. ASSUME CatalogInv, [Next]_vars, NEW r \in Requests
      PROVE  Untouched(r)
  <2> SUFFICES ASSUME req[r].pc = "loaded", rows'[req[r].id] # rows[req[r].id],
                      req'[r].pc = "idle",
                      NEW f \in Fields \ DOMAIN req[r].patch
               PROVE  rows'[req[r].id][f] = rows[req[r].id][f]
    OBVIOUS
  <2> DEFINE q == req[r]
             p == q.id
  <2>1. Update(r)
    BY <1>1, <1>2
  <2>2. p \in Ids /\ rows \in [Ids -> Row \cup {None}]
    BY <1>2 DEF CatalogInv, TypeOK, RequestsInOrder, InOrder
  <2>3. rows' = [rows EXCEPT ![p] = After(rows[p], q, Sets(q))]
    BY <2>1 DEF Update, Read, Fails
  <2>4. After(rows[p], q, Sets(q))[f] = rows[p][f]
    BY DEF After, Sets
  <2> QED
    BY <2>2, <2>3, <2>4
<1>3. CatalogInv /\ [Next]_vars => [\A r \in Requests : Untouched(r)]_vars
  BY <1>2
<1> QED
  BY <1>3, CatalogInvariant, PTL DEF Spec, PatchTouchesOnlyItsFields
=============================================================================
