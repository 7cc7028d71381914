------------------------- MODULE AdminReportsProofs -------------------------
(***************************************************************************)
(* Proofs about AdminReports: the answers of the admin API are consistent  *)
(* although each is put together from several statements while purchases   *)
(* are made, paid and refunded.                                            *)
(*                                                                         *)
(* The inductive invariant says of each request under way what its figures *)
(* so far are worth in the table as it is NOW: a figure is no more than    *)
(* what the table holds, a purchase behind the pager was shown, a          *)
(* settlement under way has its money.  The writers preserve that because  *)
(* of how a row may move (RowMoves), which is all the proofs use of them.  *)
(***************************************************************************)
EXTENDS AdminReports, FiniteSetTheorems, TLAPS

\* Money in a row was seen by the provider, and a delivered row's link was sent.
RowsAreTrue ==
  \A i \in Ids : /\ rows[i].status \in {"paid", "delivered", "refunded"} => HasMoney(i)
                 /\ rows[i].status = "delivered" => i \in got

\* The sales of a rail since a day.
SoldSince(day, r) == {i \in Owned : rows[i].day >= day /\ RailOf[i] = r}

\* A figure never exceeds what a statement would find that is run now and looks
\* back as far as the first day of the request did.
Counted(period) ==
  \A r \in Rails :
    request.sold[period][r] <= Cardinality(SoldSince(StartOn(request.day, period), r))

Nested(inner, outer) ==
  \A r \in Rails : request.sold[inner][r] <= request.sold[outer][r]

\* Every figure that was read is counted, and nests in the next one.
FiguresHold ==
  request.kind = "overview" =>
    /\ today \in {request.day, request.day + 1}
    /\ IF request.pc = "figures" THEN request.read < 4 ELSE request.read = 4
    /\ ~request.refunds =>
         /\ request.read >= 1 => Counted("today")
         /\ request.read >= 2 => Counted("week") /\ Nested("today", "week")
         /\ request.read >= 3 => Counted("month") /\ Nested("week", "month")
         /\ request.read >= 4 => Nested("month", "all")

\* No more products were sold in the month than the best sellers list.
AllListed == Cardinality(ProductsSold("month")) <= TopLimit

\* What the lists that were read are worth against the figures.
ListsHold ==
  request.kind = "overview" /\ ~request.refunds =>
    /\ request.pc \in {"recent", "done"} /\ today = request.day /\ AllListed =>
         SumOf(request.top) >= SumOf(request.sold["month"])
    /\ request.pc = "done" =>
         LET n == SumOf(request.sold["today"])
         IN  request.fresh >= (IF n < RecentLimit THEN n ELSE RecentLimit)

\* The purchases the pager passes before it comes to i.
Newer(f, i) == {j \in Matches(f) : j > i}

\* A purchase the pager has passed was shown; the count of a page is of the rows
\* that match when the page is read.
PagesHold ==
  request.kind = "search" =>
    /\ request.kept \subseteq Matches(request.filter)
    /\ ~request.shifted =>
         /\ \A i \in request.kept :
              Cardinality(Newer(request.filter, i)) < request.offset => i \in request.seen
         /\ request.pc = "page" => request.total = Cardinality(Matches(request.filter))
         /\ request.pc = "done" => request.kept \subseteq request.seen

\* A verification that goes on to deliver has the money, one that goes on to report
\* a success has sent the link.
VerificationHolds ==
  request.kind = "verify" =>
    /\ request.id \in Recorded
    /\ request.pc \in {"confirm", "deliver", "send", "mark", "refresh_ok", "refresh_failed"}
         => HasMoney(request.id)
    /\ request.pc \in {"mark", "refresh_ok"} => request.id \in got
    /\ request.pc = "refresh_ok" => rows[request.id].status \in {"delivered", "refunded"}

\* The inductive invariant.
IInv ==
  /\ TypeOK
  /\ RowsAreTrue
  /\ FiguresHold
  /\ ListsHold
  /\ PagesHold
  /\ VerificationHolds
  /\ OutcomesAreTrue
-----------------------------------------------------------------------------
(* Counting purchases.                                                     *)

\* The constants are numbers and the purchases are finitely many numbers.
LEMMA Numbers ==
  /\ IsFiniteSet(Ids) /\ Cardinality(Ids) \in Nat /\ Ids = 1..Cardinality(Ids)
  /\ Week \in Nat /\ Month \in Nat /\ MaxDay \in Nat /\ RecentLimit \in Nat /\ PageSize \in Nat
  /\ TopLimit \in Nat
  /\ 1 < Week /\ Week < Month /\ 0 < MaxDay /\ 0 < RecentLimit /\ 0 < PageSize
BY InstanceIsValid, FS_CardinalityType, SMT

\* A set of purchases is finite and its size is a count.
LEMMA CountsOf ==
  ASSUME NEW S \in SUBSET Ids
  PROVE  IsFiniteSet(S) /\ Cardinality(S) \in Counts /\ Cardinality(S) \in Nat
<1>1. IsFiniteSet(S) /\ Cardinality(S) <= Cardinality(Ids)
  BY Numbers, FS_Subset
<1>2. Cardinality(S) \in Nat
  BY <1>1, FS_CardinalityType
<1> QED BY <1>1, <1>2, Numbers, SMT DEF Counts

\* Fewer purchases, no larger count; a strict subset, a smaller one.
LEMMA CountGrows ==
  ASSUME NEW T \in SUBSET Ids, NEW S \in SUBSET T
  PROVE  /\ Cardinality(S) <= Cardinality(T)
         /\ S # T => Cardinality(S) < Cardinality(T)
<1>1. IsFiniteSet(T) /\ S \in SUBSET Ids
  BY CountsOf
<1>2. Cardinality(S) <= Cardinality(T) /\ (Cardinality(S) = Cardinality(T) => S = T)
  BY <1>1, FS_Subset
<1>3. Cardinality(S) \in Nat /\ Cardinality(T) \in Nat
  BY <1>1, CountsOf
<1> QED BY <1>2, <1>3, SMT

\* The rank of a purchase among those newer than it: every purchase has a rank of
\* its own, smaller than the number of purchases.
LEMMA Ranks ==
  ASSUME NEW S \in SUBSET Ids, NEW i \in S
  PROVE  /\ Cardinality({j \in S : j > i}) \in Nat
         /\ Cardinality({j \in S : j > i}) < Cardinality(S)
         /\ \A k \in S : Cardinality({j \in S : j > i}) = Cardinality({j \in S : j > k}) => i = k
<1> DEFINE after(k) == {j \in S : j > k}
<1>1. \A k \in S : k \in Nat
  BY Numbers, SMT
<1>2. \A k \in S : after(k) \in SUBSET S /\ k \notin after(k)
  BY <1>1, SMT
<1>3. \A k, l \in S : k < l => after(l) \in SUBSET after(k) /\ l \in after(k)
  BY <1>1, SMT
<1>4. \A k \in S : after(k) \in SUBSET Ids
  BY <1>2
<1>5. \A k, l \in S : k < l => Cardinality(after(l)) < Cardinality(after(k))
  <2> SUFFICES ASSUME NEW k \in S, NEW l \in S, k < l
               PROVE  Cardinality(after(l)) < Cardinality(after(k))
    OBVIOUS
  <2>1. after(l) \in SUBSET after(k) /\ after(l) # after(k) /\ after(k) \in SUBSET Ids
    BY <1>2, <1>3, <1>4, Zenon
  <2> HIDE DEF after
  <2> QED BY <2>1, CountGrows
<1>6. Cardinality(after(i)) < Cardinality(S)
  <2>1. after(i) \in SUBSET S /\ after(i) # S
    BY <1>2, Zenon
  <2> HIDE DEF after
  <2> QED BY <2>1, CountGrows
<1>7. \A k \in S : Cardinality(after(k)) \in Nat
  <2> HIDE DEF after
  <2> QED BY <1>4, CountsOf
<1>8. \A k \in S : Cardinality(after(i)) = Cardinality(after(k)) => i = k
  <2> HIDE DEF after
  <2> QED BY <1>1, <1>5, <1>7, SMT
<1> QED BY <1>6, <1>7, <1>8

\* A page holds at most as many rows as its limit.
LEMMA PagesAreLimited ==
  ASSUME NEW S \in SUBSET Ids, NEW offset \in Nat,
         NEW P, P = {i \in S : LET before == Cardinality({j \in S : j > i})
                               IN  offset <= before /\ before < offset + PageSize}
  PROVE  Cardinality(P) <= PageSize
<1> DEFINE rank == [i \in P |-> Cardinality({j \in S : j > i})]
           T == offset..(offset + PageSize - 1)
<1>1. P \subseteq S
  OBVIOUS
<1>2. \A i \in P : rank[i] \in T
  <2> SUFFICES ASSUME NEW i \in P PROVE rank[i] \in T
    OBVIOUS
  <2>1. i \in S /\ rank[i] = Cardinality({j \in S : j > i})
    OBVIOUS
  <2>2. rank[i] \in Nat
    BY <2>1, Ranks
  <2>3. offset <= rank[i] /\ rank[i] < offset + PageSize
    BY <2>1
  <2> HIDE DEF rank
  <2> QED BY <2>2, <2>3, Numbers, SMT
<1>3. \A i, k \in P : rank[i] = rank[k] => i = k
  <2> SUFFICES ASSUME NEW i \in P, NEW k \in P, rank[i] = rank[k] PROVE i = k
    OBVIOUS
  <2>1. i \in S /\ k \in S /\ Cardinality({j \in S : j > i}) = Cardinality({j \in S : j > k})
    OBVIOUS
  <2>2. \A l \in S : Cardinality({j \in S : j > i}) = Cardinality({j \in S : j > l}) => i = l
    BY <2>1, Ranks
  <2> QED BY <2>1, <2>2
<1>4. rank \in Injection(P, T)
  <2>1. rank \in [P -> T]
    BY <1>2
  <2> HIDE DEF rank, T
  <2> QED BY <1>3, <2>1 DEF Injection, IsInjective
<1>5. IsFiniteSet(T) /\ Cardinality(T) = PageSize
  <2>1. offset \in Int /\ offset + PageSize - 1 \in Int /\ ~(offset > offset + PageSize - 1)
        /\ (offset + PageSize - 1) - offset + 1 = PageSize
    BY Numbers, SMT
  <2> QED BY <2>1, FS_Interval
<1> HIDE DEF rank, T
<1> QED BY <1>4, <1>5, FS_Injection

-----------------------------------------------------------------------------
(* Sums.                                                                   *)

\* The tallies of a sum over the two rails.
LEMMA SumOfRails ==
  ASSUME NEW f \in [Rails -> Counts]
  PROVE  SumOf(f) = f["stars"] + f["crypto"]
<1> DEFINE A == {"stars"} \X (1..f["stars"])
           B == {"crypto"} \X (1..f["crypto"])
<1>1. {tally \in (DOMAIN f) \X Ids : tally[2] <= f[tally[1]]} = A \cup B
  <2>1. DOMAIN f = {"stars", "crypto"} /\ f["stars"] \in Counts /\ f["crypto"] \in Counts
    BY DEF Rails
  <2> QED BY <2>1, Numbers, SMT DEF Counts
<1>2. f["stars"] \in Nat /\ f["crypto"] \in Nat
  BY Numbers, SMT DEF Rails, Counts
<1>3. \A x, n : n \in Nat => IsFiniteSet({x} \X (1..n)) /\ Cardinality({x} \X (1..n)) = n
  <2> SUFFICES ASSUME NEW x, NEW n \in Nat
               PROVE  IsFiniteSet({x} \X (1..n)) /\ Cardinality({x} \X (1..n)) = n
    OBVIOUS
  <2>1. IsFiniteSet(1..n) /\ Cardinality(1..n) = n
    <3>1. 1 \in Int /\ n \in Int /\ (IF 1 > n THEN 0 ELSE n - 1 + 1) = n
      BY SMT
    <3> QED BY <3>1, FS_Interval
  <2>2. IsFiniteSet({x}) /\ Cardinality({x}) = 1
    BY FS_Singleton
  <2>3. /\ IsFiniteSet({x} \X (1..n))
        /\ Cardinality({x} \X (1..n)) = Cardinality({x}) * Cardinality(1..n)
    <3> DEFINE One == {x}
               Upto == 1..n
    <3>1. IsFiniteSet(One) /\ IsFiniteSet(Upto)
      BY <2>1, <2>2
    <3> HIDE DEF One, Upto
    <3>2. IsFiniteSet(One \X Upto) /\ Cardinality(One \X Upto) = Cardinality(One) * Cardinality(Upto)
      BY <3>1, FS_Product
    <3> QED BY <3>2 DEF One, Upto
  <2>4. Cardinality({x} \X (1..n)) = 1 * n
    BY <2>1, <2>2, <2>3
  <2> QED BY <2>3, <2>4, SMT
<1>4. IsFiniteSet(A) /\ Cardinality(A) = f["stars"] /\ IsFiniteSet(B) /\ Cardinality(B) = f["crypto"]
  BY <1>2, <1>3
<1>5. A \cap B = {}
  OBVIOUS
<1> HIDE DEF A, B
<1>6. Cardinality(A \cup B) = Cardinality(A) + Cardinality(B) - Cardinality({})
  BY <1>4, <1>5, FS_Union
<1>7. SumOf(f) = Cardinality(A \cup B)
  BY <1>1 DEF SumOf
<1> QED BY <1>2, <1>4, <1>6, <1>7, FS_EmptySet, SMT

\* The sales of a window, by product, account for every sale of the window.
LEMMA SumOfProducts ==
  ASSUME NEW W \in SUBSET Ids
  PROVE  /\ [p \in Products |-> Cardinality({i \in W : ProductOf[i] = p})] \in [Products -> Counts]
         /\ SumOf([p \in Products |-> Cardinality({i \in W : ProductOf[i] = p})]) >= Cardinality(W)
<1> DEFINE of(p) == {i \in W : ProductOf[i] = p}
           f == [p \in Products |-> Cardinality(of(p))]
           T == {tally \in (DOMAIN f) \X Ids : tally[2] <= f[tally[1]]}
           newer(i) == {j \in of(ProductOf[i]) : j > i}
           g == [i \in W |-> <<ProductOf[i], Cardinality(newer(i)) + 1>>]
<1>1. \A i \in Ids : ProductOf[i] \in Products
  BY InstanceIsValid
<1>2. \A p : of(p) \in SUBSET Ids
  OBVIOUS
<1>3. f \in [Products -> Counts]
  BY <1>2, CountsOf
<1>4. \A i \in W : /\ Cardinality(newer(i)) \in Nat
                   /\ Cardinality(newer(i)) < Cardinality(of(ProductOf[i]))
                   /\ \A k \in of(ProductOf[i]) :
                        Cardinality(newer(i)) = Cardinality({j \in of(ProductOf[i]) : j > k}) => i = k
  <2> SUFFICES ASSUME NEW i \in W
               PROVE  /\ Cardinality(newer(i)) \in Nat
                      /\ Cardinality(newer(i)) < Cardinality(of(ProductOf[i]))
                      /\ \A k \in of(ProductOf[i]) :
                           Cardinality(newer(i)) = Cardinality({j \in of(ProductOf[i]) : j > k}) => i = k
    OBVIOUS
  <2>1. i \in of(ProductOf[i])
    OBVIOUS
  <2> HIDE DEF of
  <2> QED BY <1>2, <2>1, Ranks
<1>5. \A i \in W : g[i] \in T
  <2> SUFFICES ASSUME NEW i \in W PROVE g[i] \in T
    OBVIOUS
  <2>1. ProductOf[i] \in Products /\ f[ProductOf[i]] = Cardinality(of(ProductOf[i]))
    BY <1>1
  <2>2. Cardinality(of(ProductOf[i])) \in Counts
    <3> HIDE DEF of
    <3> QED BY <1>2, CountsOf
  <2>3. Cardinality(newer(i)) + 1 \in Ids /\ Cardinality(newer(i)) + 1 <= Cardinality(of(ProductOf[i]))
    <3> HIDE DEF of, newer
    <3> QED BY <1>4, <2>2, Numbers, SMT DEF Counts
  <2> HIDE DEF of, newer
  <2> QED BY <2>1, <2>3
<1>6. \A i, k \in W : g[i] = g[k] => i = k
  <2> SUFFICES ASSUME NEW i \in W, NEW k \in W, g[i] = g[k] PROVE i = k
    OBVIOUS
  <2>1. ProductOf[i] = ProductOf[k] /\ Cardinality(newer(i)) + 1 = Cardinality(newer(k)) + 1
    <3> HIDE DEF newer
    <3> QED OBVIOUS
  <2>2. Cardinality(newer(i)) = Cardinality(newer(k))
    <3> HIDE DEF newer
    <3>1. Cardinality(newer(i)) \in Nat /\ Cardinality(newer(k)) \in Nat
      BY <1>4
    <3> QED BY <2>1, <3>1, SMT
  <2>3. k \in of(ProductOf[i]) /\ newer(k) = {j \in of(ProductOf[i]) : j > k}
    BY <2>1
  <2> HIDE DEF newer, of
  <2> QED BY <1>4, <2>2, <2>3
<1>7. g \in Injection(W, T)
  <2>1. g \in [W -> T]
    BY <1>5
  <2> HIDE DEF g, T
  <2> QED BY <1>6, <2>1 DEF Injection, IsInjective
<1>8. IsFiniteSet(T)
  <2>1. IsFiniteSet(Products \X Ids)
    BY Numbers, InstanceIsValid, FS_Product
  <2>2. T \in SUBSET (Products \X Ids)
    OBVIOUS
  <2> HIDE DEF T
  <2> QED BY <2>1, <2>2, FS_Subset
<1>9. Cardinality(W) <= Cardinality(T) /\ IsFiniteSet(W)
  <2> HIDE DEF g, T
  <2> QED BY <1>7, <1>8, FS_Injection
<1>10. Cardinality(T) \in Nat /\ Cardinality(W) \in Nat
  <2> HIDE DEF T
  <2> QED BY <1>8, <1>9, FS_CardinalityType
<1>11. SumOf(f) = Cardinality(T)
  BY DEF SumOf
<1>12. SumOf(f) >= Cardinality(W)
  <2> HIDE DEF f, T
  <2> QED BY <1>9, <1>10, <1>11, SMT
<1> QED BY <1>3, <1>12

\* The purchases of a window, and the products sold in it, are finitely many.
LEMMA SoldProducts ==
  ASSUME NEW period
  PROVE  /\ Window(period) \in SUBSET Ids
         /\ ProductsSold(period) \in SUBSET Products
         /\ IsFiniteSet(ProductsSold(period)) /\ Cardinality(ProductsSold(period)) \in Nat
<1>1. Window(period) \in SUBSET Ids
  BY DEF Window, Owned
<1>2. ProductsSold(period) \in SUBSET Products
  BY <1>1, InstanceIsValid DEF ProductsSold
<1>3. IsFiniteSet(ProductsSold(period))
  BY <1>2, InstanceIsValid, FS_Subset
<1> QED BY <1>1, <1>2, <1>3, FS_CardinalityType

\* A list of best sellers counts purchases, whatever it cuts off; if it cuts off
\* nothing, it accounts for every sale of the window.
LEMMA BestSellersCount ==
  ASSUME NEW top \in TopProducts
  PROVE  /\ top \in [Products -> Counts]
         /\ AllListed => SumOf(top) >= Cardinality(Window("month"))
<1> DEFINE sales(p) == Cardinality({i \in Window("month") : ProductOf[i] = p})
           sold == ProductsSold("month")
<1>1. PICK listed \in BestSellers("month") :
        top = [p \in Products |-> IF p \in listed THEN sales(p) ELSE 0]
  BY DEF TopProducts, TopProductsOf, SalesOf
<1>2. /\ Window("month") \in SUBSET Ids
      /\ sold \in SUBSET Products /\ IsFiniteSet(sold) /\ Cardinality(sold) \in Nat
  BY SoldProducts
<1>3. \A p : sales(p) \in Counts
  <2> SUFFICES ASSUME NEW p PROVE sales(p) \in Counts
    OBVIOUS
  <2>1. {i \in Window("month") : ProductOf[i] = p} \in SUBSET Ids
    BY <1>2
  <2> QED BY <2>1, CountsOf
<1>4. 0 \in Counts
  BY Numbers, SMT DEF Counts
<1>5. top \in [Products -> Counts]
  <2> HIDE DEF sales
  <2> QED BY <1>1, <1>3, <1>4
<1>6. ASSUME AllListed
      PROVE  SumOf(top) >= Cardinality(Window("month"))
  <2>1. /\ listed \in SUBSET sold
        /\ Cardinality(listed) = IF Cardinality(sold) < TopLimit THEN Cardinality(sold) ELSE TopLimit
    BY <1>1 DEF BestSellers
  <2>2. Cardinality(listed) = Cardinality(sold)
    <3> HIDE DEF sold
    <3>1. Cardinality(sold) <= TopLimit
      BY <1>6 DEF AllListed, sold
    <3> QED BY <1>2, <2>1, <3>1, Numbers, SMT
  <2>3. listed = sold
    <3> HIDE DEF sold
    <3> QED BY <1>2, <2>1, <2>2, FS_Subset
  <2>4. \A p : p \notin sold => sales(p) = 0
    <3> SUFFICES ASSUME NEW p, p \notin sold PROVE sales(p) = 0
      OBVIOUS
    <3>1. {i \in Window("month") : ProductOf[i] = p} = {}
      BY DEF ProductsSold
    <3> QED BY <3>1, FS_EmptySet
  <2>5. top = [p \in Products |-> sales(p)]
    <3> HIDE DEF sales, sold
    <3> QED BY <1>1, <2>3, <2>4
  <2> QED BY <1>2, <2>5, SumOfProducts
<1> QED BY <1>5, <1>6

-----------------------------------------------------------------------------
(* The days and the lists of the dashboard.                                *)

\* A period starts no earlier as days pass, and even on the next day each of the
\* longer periods starts no later than the shorter one does today.
LEMMA Starts ==
  ASSUME NEW day \in Nat, NEW now \in {day, day + 1}
  PROVE  /\ \A period \in Periods : StartOn(day, period) \in Nat
                                    /\ StartOn(day, period) <= StartOn(now, period)
         /\ StartOn(now, "week") <= StartOn(day, "today")
         /\ StartOn(now, "month") <= StartOn(day, "week")
         /\ StartOn(now, "all") <= StartOn(day, "month")
BY Numbers, SMT DEF StartOn, Periods

\* The sales of both rails are the sales.
LEMMA SoldOnBothRails ==
  ASSUME NEW day \in Nat
  PROVE  Cardinality({i \in Owned : rows[i].day >= day})
           = Cardinality(SoldSince(day, "stars")) + Cardinality(SoldSince(day, "crypto"))
<1> DEFINE A == SoldSince(day, "stars")
           B == SoldSince(day, "crypto")
<1>1. {i \in Owned : rows[i].day >= day} = A \cup B
  BY InstanceIsValid DEF SoldSince, Owned, Rails
<1>2. A \cap B = {} /\ A \in SUBSET Ids /\ B \in SUBSET Ids
  BY DEF SoldSince, Owned
<1> HIDE DEF A, B
<1>3. Cardinality(A \cup B) = Cardinality(A) + Cardinality(B) - Cardinality({})
  BY <1>2, CountsOf, FS_Union
<1>4. Cardinality(A) \in Nat /\ Cardinality(B) \in Nat /\ Cardinality({}) = 0
  BY <1>2, CountsOf, FS_EmptySet
<1>5. Cardinality(A \cup B) = Cardinality(A) + Cardinality(B)
  BY <1>3, <1>4, SMT
<1> QED BY <1>1, <1>5 DEF A, B

\* The recent purchases are at most as many as the limit; of the sales since a
\* day they show all, or as many as there is room for.
LEMMA RecentIsEnough ==
  ASSUME TypeOK, NEW day \in Nat
  PROVE  LET D == {i \in Owned : rows[i].day >= day}
             F == {i \in RecentPurchases : rows[i].day >= day}
         IN  /\ Cardinality(F) \in 0..RecentLimit
             /\ Cardinality(F) >= (IF Cardinality(D) < RecentLimit THEN Cardinality(D) ELSE RecentLimit)
<1> DEFINE D == {i \in Owned : rows[i].day >= day}
           F == {i \in RecentPurchases : rows[i].day >= day}
           rank == [i \in Owned |-> Cardinality(SoldAfter(i))]
<1>1. \A i \in Owned : i \in Nat /\ rows[i].day \in Nat
  BY Numbers, SMT DEF TypeOK, Owned
<1>2. \A i \in Owned : SoldAfter(i) \in SUBSET Ids /\ SoldAfter(i) \subseteq Owned
  BY DEF SoldAfter, Owned
<1>3. \A i, k \in Owned : k \in SoldAfter(i) =>
        SoldAfter(k) \in SUBSET SoldAfter(i) /\ k \notin SoldAfter(k)
  BY <1>1, SMT DEF SoldAfter
<1>4. \A i, k \in Owned : i = k \/ k \in SoldAfter(i) \/ i \in SoldAfter(k)
  BY <1>1, SMT DEF SoldAfter
<1>5. \A i \in Owned : rank[i] \in Nat
  BY <1>2, CountsOf
<1>6. \A i, k \in Owned : k \in SoldAfter(i) => rank[k] < rank[i]
  <2> SUFFICES ASSUME NEW i \in Owned, NEW k \in Owned, k \in SoldAfter(i)
               PROVE  Cardinality(SoldAfter(k)) < Cardinality(SoldAfter(i))
    OBVIOUS
  <2>1. SoldAfter(k) \in SUBSET SoldAfter(i) /\ SoldAfter(k) # SoldAfter(i) /\ SoldAfter(i) \in SUBSET Ids
    BY <1>2, <1>3, Zenon
  <2> QED BY <2>1, CountGrows
<1>7. \A i, k \in Owned : rank[i] = rank[k] => i = k
  <2> SUFFICES ASSUME NEW i \in Owned, NEW k \in Owned, rank[i] = rank[k] PROVE i = k
    OBVIOUS
  <2> HIDE DEF rank
  <2>1. ~(rank[k] < rank[i]) /\ ~(rank[i] < rank[k])
    BY <1>5, SMT
  <2> QED BY <1>4, <1>6, <2>1, Zenon
<1>8. F \subseteq Owned /\ D \subseteq Owned /\ F \subseteq D /\ F \in SUBSET Ids /\ D \in SUBSET Ids
  BY DEF RecentPurchases, Owned
<1>9. \A i \in D : i \in F <=> rank[i] < RecentLimit
  BY DEF RecentPurchases
<1>10. \A i \in D : SoldAfter(i) \subseteq D
  BY <1>1, SMT DEF SoldAfter
<1>11. Cardinality(F) \in Nat /\ Cardinality(D) \in Nat
  <2> HIDE DEF F, D
  <2> QED BY <1>8, CountsOf
<1>12. Cardinality(F) <= RecentLimit
  <2> DEFINE T == 0..(RecentLimit - 1)
             g == [i \in F |-> rank[i]]
  <2>1. g \in [F -> T]
    <3>1. \A i \in F : rank[i] \in T
      <4> HIDE DEF rank, F, D
      <4> QED BY <1>5, <1>8, <1>9, Numbers, SMT
    <3> HIDE DEF rank, F, T
    <3> QED BY <3>1
  <2>2. \A i, k \in F : g[i] = g[k] => i = k
    <3> HIDE DEF rank, F, D
    <3> QED BY <1>7, <1>8
  <2>3. g \in Injection(F, T)
    <3> HIDE DEF g, F, T
    <3> QED BY <2>1, <2>2 DEF Injection, IsInjective
  <2>4. IsFiniteSet(T) /\ Cardinality(T) = RecentLimit
    <3>1. 0 \in Int /\ RecentLimit - 1 \in Int /\ ~(0 > RecentLimit - 1)
          /\ (RecentLimit - 1) - 0 + 1 = RecentLimit
      BY Numbers, SMT
    <3> QED BY <3>1, FS_Interval
  <2> HIDE DEF g, F, T
  <2> QED BY <2>3, <2>4, FS_Injection
<1>13. CASE D \subseteq F
  <2>1. D = F
    BY <1>8, <1>13, Zenon
  <2> HIDE DEF D, F
  <2>2. Cardinality(F) >= (IF Cardinality(D) < RecentLimit THEN Cardinality(D) ELSE RecentLimit)
    BY <2>1, <1>11, Numbers, SMT
  <2> QED BY <2>2, <1>11, <1>12, Numbers, SMT DEF D, F
<1>14. CASE ~(D \subseteq F)
  <2> DEFINE missing == {rank[i] : i \in D \ F}
  <2>1. missing \subseteq Nat /\ missing # {}
    <3> HIDE DEF rank, F, D
    <3> QED BY <1>5, <1>8, <1>14
  <2>2. \E r \in missing : \A s \in missing : <<s, r>> \notin OpToRel(<, Nat)
    <3>1. IsWellFoundedOn(OpToRel(<, Nat), Nat)
      BY NatLessThanWellFounded
    <3> HIDE DEF missing
    <3> QED BY <2>1, <3>1, WFMin
  <2>3. PICK m \in D \ F : \A k \in D \ F : <<rank[k], rank[m]>> \notin OpToRel(<, Nat)
    <3> HIDE DEF rank, F, D
    <3> QED BY <2>2
  <2>4. \A k \in D \ F : ~(rank[k] < rank[m])
    <3> HIDE DEF rank, F, D
    <3> QED BY <2>3, <1>5, <1>8 DEF OpToRel
  <2>5. SoldAfter(m) \in SUBSET F
    <3> HIDE DEF rank, F, D
    <3> QED BY <2>4, <1>6, <1>8, <1>10
  <2>6. Cardinality(SoldAfter(m)) <= Cardinality(F)
    <3> HIDE DEF F
    <3> QED BY <2>5, <1>8, CountGrows
  <2>7. RecentLimit <= rank[m]
    <3> HIDE DEF rank, F, D
    <3> QED BY <1>5, <1>8, <1>9, Numbers, SMT
  <2>8. rank[m] = Cardinality(SoldAfter(m))
    BY <1>8
  <2>9. Cardinality(F) >= RecentLimit
    <3>1. rank[m] \in Nat
      <4> HIDE DEF rank, F, D
      <4> QED BY <1>5, <1>8
    <3> HIDE DEF rank, F
    <3> QED BY <2>6, <2>7, <2>8, <3>1, <1>11, Numbers, SMT
  <2> HIDE DEF D, F
  <2>10. Cardinality(F) >= (IF Cardinality(D) < RecentLimit THEN Cardinality(D) ELSE RecentLimit)
    BY <2>9, <1>11, Numbers, SMT
  <2> QED BY <2>10, <1>11, <1>12, Numbers, SMT DEF D, F
<1> QED BY <1>13, <1>14


-----------------------------------------------------------------------------
(* The table.                                                              *)

\* A row.
RowType == [status : Statuses, day : 0..MaxDay]

\* What one step may do to a row.
RowMoves(i) ==
  \/ rows'[i] = rows[i]
  \/ rows[i].status = "absent" /\ rows'[i] = [status |-> "pending", day |-> 0]
  \/ /\ rows[i].status \in {"pending", "expired"} /\ HasMoney(i)
     /\ rows'[i] = [status |-> "paid", day |-> today]
  \/ /\ rows[i].status \in AccessGranting /\ i \in got'
     /\ rows'[i] = [status |-> "delivered", day |-> rows[i].day]
  \/ rows[i].status \in AccessGranting /\ rows'[i] = [status |-> "refunded", day |-> 0]
  \/ rows[i].status = "pending" /\ rows'[i] = [status |-> "expired", day |-> 0]

\* What one step may do to everything but the request.
Moves ==
  /\ \A i \in Ids : RowMoves(i)
  /\ \A i \in Ids : invoice[i] # "active" => invoice'[i] = invoice[i]
  /\ got \subseteq got'
  /\ today' \in {today, today + 1}

\* The types of everything but the request.
TableTypeOK ==
  /\ rows \in [Ids -> RowType]
  /\ invoice \in [Ids -> {"active", "paid", "expired"}]
  /\ got \subseteq Ids
  /\ today \in 1..MaxDay

\* An update of one row.
LEMMA WritesOneRow ==
  ASSUME TableTypeOK, NEW i \in Ids, NEW status \in Statuses, NEW day \in 0..MaxDay,
         Writes(i, status, day)
  PROVE  /\ rows' \in [Ids -> RowType]
         /\ rows'[i] = [status |-> status, day |-> day]
         /\ \A j \in Ids \ {i} : rows'[j] = rows[j]
<1>1. [status |-> status, day |-> day] \in RowType
  BY DEF RowType
<1>2. rows' = [rows EXCEPT ![i] = [status |-> status, day |-> day]]
  BY DEF Writes
<1> QED BY <1>1, <1>2 DEF TableTypeOK

\* Every step of the writers, and of a verification, is such a move.
LEMMA TableMoves ==
  ASSUME TypeOK, VerificationHolds, Next
  PROVE  Moves /\ TableTypeOK'
<1> USE DEF Moves, RowMoves
<1>1. TableTypeOK /\ Statuses = {"absent", "pending", "paid", "delivered", "refunded", "expired"}
  BY DEF TypeOK, TableTypeOK, RowType, Statuses
<1>2. /\ today \in 0..MaxDay /\ 0 \in 0..MaxDay /\ today \in Nat
      /\ \A i \in Ids : rows[i].day \in 0..MaxDay /\ rows[i].status \in Statuses
  BY <1>1, Numbers, SMT DEF TableTypeOK, RowType
<1>3. \A i \in Ids : i \in Owned <=> rows[i].status \in AccessGranting
  BY DEF Owned
<1>4. \A i \in Ids : i \notin Recorded <=> rows[i].status = "absent"
  BY DEF Recorded
<1>5. ASSUME Reads PROVE Moves /\ TableTypeOK'
  BY <1>1, <1>5 DEF Reads, TableTypeOK
<1>6. ASSUME NEW i \in Ids, Create(i) PROVE Moves /\ TableTypeOK'
  <2>1. Writes(i, "pending", 0) /\ rows[i].status = "absent" /\ UNCHANGED <<invoice, got, today>>
    BY <1>4, <1>6 DEF Create
  <2>2. /\ rows' \in [Ids -> RowType] /\ rows'[i] = [status |-> "pending", day |-> 0]
        /\ \A j \in Ids \ {i} : rows'[j] = rows[j]
    BY <1>1, <1>2, <2>1, WritesOneRow
  <2> QED BY <1>1, <2>1, <2>2 DEF TableTypeOK
<1>7. ASSUME NEW i \in Ids, InvoiceEnds(i) PROVE Moves /\ TableTypeOK'
  BY <1>1, <1>7 DEF InvoiceEnds, TableTypeOK
<1>8. ASSUME NEW i \in Ids, Confirm(i) PROVE Moves /\ TableTypeOK'
  <2>1. /\ Writes(i, "paid", today) /\ rows[i].status \in {"pending", "expired"} /\ HasMoney(i)
        /\ UNCHANGED <<invoice, got, today>>
    BY <1>8 DEF Confirm
  <2>2. /\ rows' \in [Ids -> RowType] /\ rows'[i] = [status |-> "paid", day |-> today]
        /\ \A j \in Ids \ {i} : rows'[j] = rows[j]
    BY <1>1, <1>2, <2>1, WritesOneRow
  <2> QED BY <1>1, <2>1, <2>2 DEF TableTypeOK
<1>9. ASSUME NEW i \in Ids, Deliver(i) PROVE Moves /\ TableTypeOK'
  <2>1. /\ Writes(i, "delivered", rows[i].day) /\ rows[i].status \in AccessGranting
        /\ got' = got \cup {i} /\ UNCHANGED <<invoice, today>>
    BY <1>9 DEF Deliver, AccessGranting
  <2>2. /\ rows' \in [Ids -> RowType] /\ rows'[i] = [status |-> "delivered", day |-> rows[i].day]
        /\ \A j \in Ids \ {i} : rows'[j] = rows[j]
    BY <1>1, <1>2, <2>1, WritesOneRow
  <2> QED BY <1>1, <2>1, <2>2 DEF TableTypeOK
<1>10. ASSUME NEW i \in Ids, Refund(i) PROVE Moves /\ TableTypeOK'
  <2>1. /\ Writes(i, "refunded", 0) /\ rows[i].status \in AccessGranting
        /\ UNCHANGED <<invoice, got, today>>
    BY <1>3, <1>10 DEF Refund
  <2>2. /\ rows' \in [Ids -> RowType] /\ rows'[i] = [status |-> "refunded", day |-> 0]
        /\ \A j \in Ids \ {i} : rows'[j] = rows[j]
    BY <1>1, <1>2, <2>1, WritesOneRow
  <2> QED BY <1>1, <2>1, <2>2 DEF TableTypeOK
<1>11. ASSUME NEW i \in Ids, Expire(i) PROVE Moves /\ TableTypeOK'
  <2>1. /\ Writes(i, "expired", 0) /\ rows[i].status = "pending"
        /\ UNCHANGED <<invoice, got, today>>
    BY <1>11 DEF Expire
  <2>2. /\ rows' \in [Ids -> RowType] /\ rows'[i] = [status |-> "expired", day |-> 0]
        /\ \A j \in Ids \ {i} : rows'[j] = rows[j]
    BY <1>1, <1>2, <2>1, WritesOneRow
  <2> QED BY <1>1, <2>1, <2>2 DEF TableTypeOK
<1>12. CASE Midnight
  <2>1. today' \in 1..MaxDay
    BY <1>2, <1>12, Numbers, SMT DEF Midnight
  <2> QED BY <1>1, <1>12, <2>1 DEF Midnight, TableTypeOK
<1>13. CASE Write
  BY <1>6, <1>7, <1>8, <1>9, <1>10, <1>11, <1>12, <1>13 DEF Write
<1>14. request.kind = "verify" => request.id \in Ids
  BY DEF VerificationHolds, Recorded
<1>15. CASE ConfirmVerified
  <2>1. /\ request.id \in Ids /\ HasMoney(request.id) /\ rows[request.id].status # "refunded"
        /\ request.id \in Recorded /\ UNCHANGED <<invoice, got, today>>
    BY <1>14, <1>15 DEF ConfirmVerified, Verifying, VerificationHolds
  <2>2. CASE request.id \in Owned
    BY <1>1, <1>15, <2>1, <2>2 DEF ConfirmVerified, TableTypeOK
  <2>3. CASE request.id \notin Owned
    <3>1. rows[request.id].status \in {"pending", "expired"}
      BY <1>1, <1>2, <2>1, <2>3 DEF Owned, Recorded, AccessGranting
    <3>2. Writes(request.id, "paid", today)
      BY <1>15, <2>3 DEF ConfirmVerified, Writes
    <3>3. /\ rows' \in [Ids -> RowType] /\ rows'[request.id] = [status |-> "paid", day |-> today]
          /\ \A j \in Ids \ {request.id} : rows'[j] = rows[j]
      BY <1>1, <1>2, <2>1, <3>2, WritesOneRow
    <3> QED BY <1>1, <2>1, <3>1, <3>3 DEF TableTypeOK
  <2> QED BY <2>2, <2>3
<1>16. CASE Send
  BY <1>1, <1>14, <1>16 DEF Send, Verifying, TableTypeOK
<1>17. CASE MarkDelivered
  <2>1. /\ request.id \in Ids /\ request.id \in got /\ rows[request.id].status \in AccessGranting
        /\ Writes(request.id, "delivered", rows[request.id].day) /\ UNCHANGED <<invoice, got, today>>
    BY <1>3, <1>14, <1>17 DEF MarkDelivered, Verifying, VerificationHolds
  <2>2. /\ rows' \in [Ids -> RowType]
        /\ rows'[request.id] = [status |-> "delivered", day |-> rows[request.id].day]
        /\ \A j \in Ids \ {request.id} : rows'[j] = rows[j]
    BY <1>1, <1>2, <2>1, WritesOneRow
  <2> QED BY <1>1, <2>1, <2>2 DEF TableTypeOK
<1> QED
  BY <1>5, <1>13, <1>15, <1>16, <1>17
  DEF Next, Begin, BeginOverview, BeginSearch, BeginVerify, ReadFigure, ReadTopProducts, ReadRecent,
      Count, ReadPage, AskProvider, LoadForDelivery, ReportDelivery, VerifyFails


-----------------------------------------------------------------------------
(* The requests.                                                           *)

\* The kind of a request tells its type.
LEMMA RequestKinds ==
  ASSUME TypeOK
  PROVE  /\ request.kind \in {"none", "overview", "search", "verify"}
         /\ request.kind = "none" => request = NoRequest
         /\ request.kind = "overview" => request \in Overview
         /\ request.kind = "search" => request \in Search
         /\ request.kind = "verify" => request \in Verification
BY DEF TypeOK, NoRequest, Overview, Search, Verification

\* Each figure that is read is a count of every rail.
LEMMA FiguresAreCounts ==
  ASSUME TypeOK, NEW period
  PROVE  /\ Revenue(period) \in [Rails -> Counts]
         /\ \A r \in Rails : Revenue(period)[r] = Cardinality(SoldSince(Start(period), r))
         /\ \A day, r : SoldSince(day, r) \in SUBSET Ids
<1>1. \A day, r : SoldSince(day, r) \in SUBSET Ids
  BY DEF SoldSince, Owned
<1>2. \A r \in Rails : {i \in Window(period) : RailOf[i] = r} = SoldSince(Start(period), r)
  BY DEF SoldSince, Window
<1>3. \A r \in Rails : Revenue(period)[r] = Cardinality(SoldSince(Start(period), r))
  BY <1>2 DEF Revenue
<1>4. \A r \in Rails : Cardinality(SoldSince(Start(period), r)) \in Counts
  BY <1>1, CountsOf
<1> QED BY <1>1, <1>3, <1>4 DEF Revenue

\* What one statement of the dashboard leaves of the request.
LEMMA FigureIsKept ==
  ASSUME TypeOK, FiguresHold, ReadFigure
  PROVE  /\ request \in Overview /\ request.pc = "figures" /\ request.read \in 0..3
         /\ request' \in Overview /\ Reads
         /\ request'.read = request.read + 1
         /\ request'.pc = IF request.read = 3 THEN "top" ELSE "figures"
         /\ request'.day = request.day /\ request'.refunds = request.refunds
         /\ Figures[request.read + 1] \in Periods
         /\ request'.sold[Figures[request.read + 1]] = Revenue(Figures[request.read + 1])
         /\ \A period \in Periods \ {Figures[request.read + 1]} :
              request'.sold[period] = request.sold[period]
<1> DEFINE n == request.read + 1
<1>1. /\ request \in Overview /\ request.pc = "figures" /\ request.read \in 0..3
      /\ request' = [request EXCEPT !.sold[Figures[n]] = Revenue(Figures[n]), !.read = n,
                                    !.pc = IF n = 4 THEN "top" ELSE @]
      /\ Reads
  <2>1. request \in Overview /\ request.pc = "figures" /\ request.read < 4
    BY RequestKinds DEF ReadFigure, FiguresHold
  <2>2. request.read \in 0..3
    BY <2>1, SMT DEF Overview
  <2> QED BY <2>1, <2>2 DEF ReadFigure
<1>2. Figures[n] \in Periods /\ n \in 1..4 /\ (n = 4 <=> request.read = 3)
  <2>1. Figures = <<"today", "week", "month", "all">>
    BY DEF Figures
  <2>2. n = 1 \/ n = 2 \/ n = 3 \/ n = 4
    BY <1>1, SMT
  <2>3. Figures[1] \in Periods /\ Figures[2] \in Periods /\ Figures[3] \in Periods /\ Figures[4] \in Periods
    BY <2>1 DEF Periods
  <2>4. Figures[n] \in Periods
    <3> HIDE DEF n
    <3> QED BY <2>2, <2>3
  <2> QED BY <2>4, <1>1, SMT
<1>3. Revenue(Figures[n]) \in [Rails -> Counts]
  BY FiguresAreCounts
<1> HIDE DEF n
<1>4. PICK p \in Periods : p = Figures[n]
  BY <1>2
<1>5. PICK v \in [Rails -> Counts] : v = Revenue(Figures[n])
  BY <1>3
<1>6. request' = [request EXCEPT !.sold[p] = v, !.read = n, !.pc = IF n = 4 THEN "top" ELSE @]
  BY <1>1, <1>4, <1>5
<1>7. [request.sold EXCEPT ![p] = v] \in [Periods -> [Rails -> Counts]]
  BY <1>1, <1>4, <1>5 DEF Overview
<1>8. request' = [request EXCEPT !.sold = [request.sold EXCEPT ![p] = v], !.read = n,
                                 !.pc = IF n = 4 THEN "top" ELSE @]
  BY <1>6, <1>1 DEF Overview
<1>9. n \in 0..4
  BY <1>2, SMT
<1>10. request' \in Overview
  BY <1>1, <1>7, <1>8, <1>9 DEF Overview
<1>11. /\ request'.read = n /\ request'.pc = (IF n = 4 THEN "top" ELSE "figures")
       /\ request'.day = request.day /\ request'.refunds = request.refunds
       /\ request'.sold = [request.sold EXCEPT ![p] = v]
  BY <1>1, <1>8 DEF Overview
<1>12. request.sold \in [Periods -> [Rails -> Counts]]
  BY <1>1 DEF Overview
<1> QED BY <1>1, <1>2, <1>4, <1>5, <1>10, <1>11, <1>12 DEF n


\* Rows that match a filter are purchases.
LEMMA MatchesArePurchases ==
  /\ \A table, f : Matching(table, f) \in SUBSET Ids
  /\ \A f : Matches(f) \in SUBSET Ids
  /\ \A f, offset : Page(f, offset) \in SUBSET Matches(f)
BY DEF Matching, Matches, Page

\* Every step leaves a request, or an answer, of its type.
LEMMA RequestTyped ==
  ASSUME TypeOK, FiguresHold, VerificationHolds, Next
  PROVE  request' \in {NoRequest} \cup Overview \cup Search \cup Verification
<1> USE RequestKinds
<1>1. CASE Write /\ Overlooks
  <2>1. CASE request.kind = "overview" /\ request' = [request EXCEPT !.refunds = @ \/ Owned \ Owned' # {}]
    <3>1. (request.refunds \/ Owned \ Owned' # {}) \in BOOLEAN
      BY <2>1 DEF Overview
    <3> QED BY <2>1, <3>1 DEF Overview
  <2>2. CASE /\ request.kind = "search"
             /\ LET old == Matching(rows, request.filter)
                    new == Matching(rows', request.filter)
                IN  request' = [request EXCEPT
                      !.kept = @ \cap new,
                      !.shifted = @ \/ old \ new # {} \/ (request.pc = "page" /\ new \ old # {})]
    <3> DEFINE old == Matching(rows, request.filter)
               new == Matching(rows', request.filter)
    <3>1. (request.shifted \/ old \ new # {} \/ (request.pc = "page" /\ new \ old # {})) \in BOOLEAN
      BY <2>2 DEF Search
    <3>2. request.kept \cap new \in SUBSET Ids
      BY <2>2 DEF Search
    <3>3. request' = [request EXCEPT !.kept = @ \cap new,
                        !.shifted = @ \/ old \ new # {} \/ (request.pc = "page" /\ new \ old # {})]
      BY <2>2
    <3> HIDE DEF old, new
    <3> QED BY <2>2, <3>1, <3>2, <3>3 DEF Search
  <2>3. CASE request' = NoRequest
    BY <2>3
  <2>4. CASE request' = request
    BY <2>4 DEF TypeOK
  <2> QED BY <1>1, <2>1, <2>2, <2>3, <2>4 DEF Overlooks
<1>2. CASE Begin
  <2>1. CASE BeginOverview
    <3>1. 0 \in Counts /\ 0 \in 0..4 /\ 0 \in 0..RecentLimit
      BY Numbers, SMT DEF Counts
    <3>2. [period \in Periods |-> [r \in Rails |-> 0]] \in [Periods -> [Rails -> Counts]]
      BY <3>1
    <3>3. [p \in Products |-> 0] \in [Products -> Counts]
      BY <3>1
    <3> QED BY <2>1, <3>1, <3>2, <3>3 DEF BeginOverview, Overview, TypeOK
  <2>2. ASSUME NEW f \in Filters, BeginSearch(f)
        PROVE  request' \in Search
    <3>1. 0 \in Counts /\ 0 \in Nat
      BY Numbers, SMT DEF Counts
    <3> QED BY <2>2, <3>1, MatchesArePurchases DEF BeginSearch, Search
  <2>3. ASSUME NEW i \in Ids, BeginVerify(i)
        PROVE  request' \in Verification
    <3>1. PICK status \in Statuses \ {"absent"} : status = rows[i].status
      BY <2>3 DEF BeginVerify, Recorded, TypeOK
    <3>2. PICK pc \in {"ask", "deliver", "done"},
               outcome \in {"none", "refunded", "already_delivered", "no_provider_evidence"} :
            request' = [kind |-> "verify", pc |-> pc, id |-> i, before |-> status,
                        after |-> status, outcome |-> outcome, settled |-> FALSE]
      BY <2>3, <3>1 DEF BeginVerify
    <3>3. outcome \in Outcomes
      BY DEF Outcomes
    <3> QED BY <3>2, <3>3 DEF Verification
  <2> QED BY <1>2, <2>1, <2>2, <2>3 DEF Begin
<1>3. CASE ReadFigure
  BY <1>3, FigureIsKept
<1>4. CASE ReadTopProducts
  <2>1. PICK top \in TopProducts :
          request \in Overview /\ request' = [request EXCEPT !.top = top, !.pc = "recent"]
    BY <1>4 DEF ReadTopProducts
  <2>2. top \in [Products -> Counts]
    BY BestSellersCount
  <2> QED BY <2>1, <2>2 DEF Overview
<1>5. CASE ReadRecent
  <2>1. request \in Overview /\ request' = [request EXCEPT !.pc = "done",
          !.fresh = Cardinality({i \in RecentPurchases : rows[i].day >= request.day})]
    BY <1>5 DEF ReadRecent
  <2>2. request.day \in Nat
    BY <2>1, Numbers, SMT DEF Overview
  <2>3. Cardinality({i \in RecentPurchases : rows[i].day >= request.day}) \in 0..RecentLimit
    BY <2>2, RecentIsEnough
  <2> QED BY <2>1, <2>3 DEF Overview
<1>6. CASE Count
  <2>1. request \in Search /\ request' = [request EXCEPT
          !.total = Cardinality(Matches(request.filter)), !.pc = "page"]
    BY <1>6 DEF Count
  <2>2. Cardinality(Matches(request.filter)) \in Counts
    BY MatchesArePurchases, CountsOf
  <2> QED BY <2>1, <2>2 DEF Search
<1>7. CASE ReadPage
  <2> DEFINE items == Page(request.filter, request.offset)
  <2>1. request \in Search /\ request' = [request EXCEPT
          !.seen = @ \cup items,
          !.offset = IF HasMore(items) THEN @ + PageSize ELSE @,
          !.pc = IF HasMore(items) THEN "count" ELSE "done"]
    BY <1>7 DEF ReadPage
  <2>2. items \in SUBSET Ids
    BY MatchesArePurchases
  <2>3. request.offset \in Nat /\ request.offset + PageSize \in Nat
    BY <2>1, Numbers, SMT DEF Search
  <2> HIDE DEF items
  <2> QED BY <2>1, <2>2, <2>3 DEF Search
<1>8. ASSUME request \in Verification,
             NEW pc \in {"ask", "confirm", "deliver", "send", "mark", "refresh_ok", "refresh_failed"},
             Goes(pc)
      PROVE  request' \in Verification
  BY <1>8 DEF Goes, Verification
<1>9. ASSUME request \in Verification, NEW outcome \in Outcomes, NEW status \in Statuses \ {"absent"},
             Reports(outcome, status)
      PROVE  request' \in Verification
  BY <1>9 DEF Reports, Verification
<1>10. CASE AskProvider
  <2>1. request \in Verification /\ request.before \in Statuses \ {"absent"}
    BY <1>10 DEF AskProvider, Verifying, Verification
  <2>2. "provider_unavailable" \in Outcomes /\ "expired_unpaid" \in Outcomes /\ "still_unpaid" \in Outcomes
    BY DEF Outcomes
  <2>3. \/ Goes("confirm")
        \/ \E outcome \in Outcomes : Reports(outcome, request.before)
    BY <1>10, <2>2 DEF AskProvider
  <2> QED BY <1>8, <1>9, <2>1, <2>3
<1>11. CASE ConfirmVerified
  BY <1>11 DEF ConfirmVerified, Verifying, Verification
<1>12. CASE LoadForDelivery
  BY <1>8, <1>12 DEF LoadForDelivery, Verifying
<1>13. CASE Send
  BY <1>8, <1>13 DEF Send, Verifying
<1>14. CASE MarkDelivered
  BY <1>8, <1>14 DEF MarkDelivered, Verifying
<1>15. CASE ReportDelivery
  <2>1. request \in Verification /\ rows[request.id].status \in Statuses \ {"absent"}
    BY <1>15 DEF ReportDelivery, Verifying, VerificationHolds, Recorded, TypeOK
  <2>2. {"settled_and_delivered", "delivered_now", "delivery_failed"} \subseteq Outcomes
    BY DEF Outcomes
  <2>3. \E outcome \in Outcomes : Reports(outcome, rows[request.id].status)
    BY <1>15, <2>2 DEF ReportDelivery, ReportedStatus
  <2> QED BY <1>9, <2>1, <2>3
<1>16. CASE VerifyFails
  BY <1>16 DEF VerifyFails
<1> QED
  BY <1>1, <1>2, <1>3, <1>4, <1>5, <1>6, <1>7, <1>10, <1>11, <1>12, <1>13, <1>14, <1>15, <1>16 DEF Next


\* No step breaks the type invariant: a row counts as revenue exactly while it has
\* a day.
LEMMA TypeKept ==
  ASSUME TypeOK, FiguresHold, VerificationHolds, [Next]_vars
  PROVE  TypeOK'
<1>1. CASE Next
  <2>1. Moves /\ TableTypeOK' /\ request' \in {NoRequest} \cup Overview \cup Search \cup Verification
    BY <1>1, TableMoves, RequestTyped
  <2>2. \A i \in Ids : rows'[i].day > 0 <=> i \in Owned'
    <3> SUFFICES ASSUME NEW i \in Ids PROVE rows'[i].day > 0 <=> rows'[i].status \in AccessGranting
      BY DEF Owned
    <3>1. /\ rows[i].day \in Nat /\ today > 0
          /\ rows[i].day > 0 <=> rows[i].status \in AccessGranting
      BY Numbers, SMT DEF TypeOK, Owned
    <3>2. RowMoves(i)
      BY <2>1 DEF Moves
    <3> QED BY <3>1, <3>2, SMT DEF RowMoves, AccessGranting
  <2> QED BY <2>1, <2>2 DEF TypeOK, TableTypeOK, RowType
<1>2. CASE UNCHANGED vars
  BY <1>2 DEF vars, TypeOK, Owned
<1> QED BY <1>1, <1>2

-----------------------------------------------------------------------------
(* The table tells the truth.                                              *)

\* Neither provider takes back that it was paid.
LEMMA MoneyStays ==
  ASSUME Moves, NEW i \in Ids, HasMoney(i)
  PROVE  HasMoney(i)'
BY DEF Moves, HasMoney

\* A row is only settled with the money in, and only delivered with the link sent.
LEMMA RowsStayTrue ==
  ASSUME TypeOK, RowsAreTrue, Moves
  PROVE  RowsAreTrue'
<1> SUFFICES ASSUME NEW i \in Ids
             PROVE  /\ rows'[i].status \in {"paid", "delivered", "refunded"} => HasMoney(i)'
                    /\ rows'[i].status = "delivered" => i \in got'
  BY DEF RowsAreTrue
<1>1. /\ rows[i].status \in {"paid", "delivered", "refunded"} => HasMoney(i)
      /\ rows[i].status = "delivered" => i \in got
  BY DEF RowsAreTrue
<1>2. RowMoves(i) /\ got \subseteq got' /\ (HasMoney(i) => HasMoney(i)')
  BY MoneyStays DEF Moves
<1>3. i \in Owned => rows[i].status \in {"paid", "delivered", "refunded"}
  BY DEF Owned, AccessGranting
<1> QED BY <1>1, <1>2, <1>3 DEF RowMoves, AccessGranting

-----------------------------------------------------------------------------
(* The figures of the dashboard.                                           *)

\* While nothing is refunded, a sale stays a sale of its day.
LEMMA SalesStay ==
  ASSUME TypeOK, TypeOK', Moves, Owned \ Owned' = {}, NEW i \in Owned
  PROVE  i \in Owned' /\ rows'[i].day = rows[i].day
<1>1. i \in Ids /\ i \in Owned' /\ rows[i].status \in AccessGranting /\ rows'[i].status \in AccessGranting
  BY DEF Owned
<1>2. RowMoves(i)
  BY <1>1 DEF Moves
<1> QED BY <1>1, <1>2 DEF RowMoves, AccessGranting

\* So on the same day no product leaves the month's list of those that were sold.
LEMMA ProductsStaySold ==
  ASSUME TypeOK, TypeOK', Moves, Owned \ Owned' = {}, today' = today, AllListed'
  PROVE  AllListed
<1>1. Window("month") \subseteq Window("month")'
  BY SalesStay DEF Window, Start
<1>2. ProductsSold("month") \in SUBSET (ProductsSold("month")')
  BY <1>1 DEF ProductsSold
<1>3. IsFiniteSet(ProductsSold("month")') /\ Cardinality(ProductsSold("month")') \in Nat
  <2>1. Window("month")' \in SUBSET Ids
    BY DEF Window, Owned
  <2>2. ProductsSold("month")' \in SUBSET Products
    BY <2>1, InstanceIsValid DEF ProductsSold
  <2>3. IsFiniteSet(ProductsSold("month")')
    BY <2>2, InstanceIsValid, FS_Subset
  <2> QED BY <2>3, FS_CardinalityType
<1>4. Cardinality(ProductsSold("month")) <= Cardinality(ProductsSold("month")')
  BY <1>2, <1>3, FS_Subset
<1>5. Cardinality(ProductsSold("month")) \in Nat
  BY SoldProducts
<1> QED BY <1>3, <1>4, <1>5, Numbers, SMT DEF AllListed

\* And the sales since a day only grow.
LEMMA SalesGrow ==
  ASSUME TypeOK, TypeOK', Moves, Owned \ Owned' = {}, NEW day, NEW r
  PROVE  Cardinality(SoldSince(day, r)) <= Cardinality(SoldSince(day, r)')
<1>1. \A i \in Owned : i \in Owned' /\ rows'[i].day = rows[i].day
  BY SalesStay
<1>2. SoldSince(day, r) \in SUBSET (SoldSince(day, r)')
  BY <1>1 DEF SoldSince
<1>3. SoldSince(day, r)' \in SUBSET Ids
  BY DEF SoldSince, Owned
<1> QED BY <1>2, <1>3, CountGrows

\* More days, no fewer sales.
LEMMA SoldSinceEarlier ==
  ASSUME TypeOK, NEW d \in Nat, NEW e \in Nat, d <= e, NEW r
  PROVE  Cardinality(SoldSince(e, r)) <= Cardinality(SoldSince(d, r))
<1>1. \A i \in Owned : rows[i].day \in Nat
  BY Numbers, SMT DEF TypeOK, Owned
<1>2. SoldSince(e, r) \in SUBSET SoldSince(d, r) /\ SoldSince(d, r) \in SUBSET Ids
  BY <1>1, SMT DEF SoldSince, Owned
<1> QED BY <1>2, CountGrows

\* Nothing but a midnight moves the day, and not two of them during an overview.
LEMMA DaysPass ==
  ASSUME TypeOK, Write, request.kind = "overview"
  PROVE  today' = today \/ (today = request.day /\ today' = request.day + 1)
BY DEF Write, Create, InvoiceEnds, Confirm, Deliver, Refund, Expire, Midnight

\* What the writers leave of a search.
LEMMA SearchGoesOn ==
  ASSUME TypeOK, Overlooks, request.kind = "search"
  PROVE  \/ request' = NoRequest
         \/ /\ request \in Search /\ request.pc # "done" /\ request'.kind = "search"
            /\ request'.kept = request.kept \cap Matching(rows', request.filter)
            /\ ~request'.shifted =>
                 /\ ~request.shifted /\ Matching(rows, request.filter) \subseteq Matching(rows', request.filter)
                 /\ request.pc = "page" =>
                      Matching(rows', request.filter) \subseteq Matching(rows, request.filter)
            /\ request'.pc = request.pc /\ request'.filter = request.filter
            /\ request'.offset = request.offset /\ request'.total = request.total
            /\ request'.seen = request.seen
<1>1. CASE request' = NoRequest
  BY <1>1
<1>2. CASE request' # NoRequest
  <2> DEFINE old == Matching(rows, request.filter)
             new == Matching(rows', request.filter)
             shifted == request.shifted \/ old \ new # {} \/ (request.pc = "page" /\ new \ old # {})
  <2>1. /\ request.pc # "done" /\ request \in Search
        /\ request' = [request EXCEPT !.kept = @ \cap new, !.shifted = shifted]
    BY <1>2, RequestKinds DEF Overlooks
  <2>2. PICK b : b = shifted
    OBVIOUS
  <2>3. request' = [request EXCEPT !.kept = @ \cap new, !.shifted = b]
    BY <2>1, <2>2
  <2>4. /\ request'.kept = request.kept \cap new /\ request'.shifted = b
        /\ request'.kind = request.kind /\ request'.pc = request.pc /\ request'.filter = request.filter
        /\ request'.offset = request.offset /\ request'.total = request.total
        /\ request'.seen = request.seen
    <3> HIDE DEF new, shifted
    <3> QED BY <2>1, <2>3 DEF Search
  <2>5. ~shifted => /\ ~request.shifted /\ old \subseteq new
                    /\ request.pc = "page" => new \subseteq old
    <3> HIDE DEF old, new
    <3> QED BY Zenon
  <2>6. ~request'.shifted => ~shifted
    BY <2>2, <2>4, Zenon
  <2> QED BY <2>1, <2>4, <2>5, <2>6
<1> QED BY <1>1, <1>2

\* What a step of a verification leaves of it.
LEMMA VerificationGoesOn ==
  ASSUME TypeOK,
         \/ AskProvider \/ ConfirmVerified \/ LoadForDelivery \/ Send \/ MarkDelivered
         \/ ReportDelivery \/ VerifyFails
  PROVE  /\ request.kind = "verify" /\ request \in Verification
         /\ \/ request' = NoRequest /\ request'.kind = "none"
            \/ request'.kind = "verify" /\ request'.id = request.id
<1>1. request.kind = "verify" /\ request \in Verification
  BY RequestKinds
  DEF AskProvider, ConfirmVerified, LoadForDelivery, Send, MarkDelivered, ReportDelivery, VerifyFails,
      Verifying
<1>2. ASSUME NEW pc, Goes(pc) PROVE request'.kind = "verify" /\ request'.id = request.id
  BY <1>1, <1>2 DEF Goes, Verification
<1>3. ASSUME NEW outcome, NEW status, Reports(outcome, status)
      PROVE  request'.kind = "verify" /\ request'.id = request.id
  BY <1>1, <1>3 DEF Reports, Verification
<1>4. CASE AskProvider
  BY <1>1, <1>2, <1>3, <1>4 DEF AskProvider
<1>5. CASE ConfirmVerified
  BY <1>1, <1>5 DEF ConfirmVerified, Verification
<1>6. CASE LoadForDelivery \/ Send \/ MarkDelivered
  BY <1>1, <1>2, <1>6 DEF LoadForDelivery, Send, MarkDelivered
<1>7. CASE ReportDelivery
  BY <1>1, <1>3, <1>7 DEF ReportDelivery
<1>8. CASE VerifyFails
  BY <1>1, <1>8 DEF VerifyFails, NoRequest
<1> QED BY <1>1, <1>4, <1>5, <1>6, <1>7, <1>8

\* The figures that were counted stay within what is sold, and a new one encloses
\* the one before.
LEMMA FiguresKept ==
  ASSUME TypeOK, RowsAreTrue, FiguresHold, VerificationHolds, [Next]_vars
  PROVE  FiguresHold'
<1>1. TypeOK'
  BY TypeKept
<1>2. CASE UNCHANGED vars
  BY <1>2 DEF vars, FiguresHold, Counted, Nested, SoldSince, Owned
<1>3. ASSUME Write, Overlooks, request.kind = "overview", request.pc # "done"
      PROVE  FiguresHold'
  <2>1. Moves
    BY <1>3, TableMoves DEF Next
  <2>2. request \in Overview /\ request' = [request EXCEPT !.refunds = @ \/ Owned \ Owned' # {}]
    BY <1>3, RequestKinds DEF Overlooks
  <2>3. /\ request'.pc = request.pc /\ request'.read = request.read /\ request'.sold = request.sold
        /\ request'.day = request.day /\ request'.kind = request.kind
        /\ request'.refunds = (request.refunds \/ Owned \ Owned' # {})
        /\ request.day \in Nat /\ request.read \in 0..4
        /\ request.sold \in [Periods -> [Rails -> Counts]]
    BY <2>2, Numbers DEF Overview
  <2>4. today' \in {request'.day, request'.day + 1}
    BY <1>3, <2>3, DaysPass DEF FiguresHold
  <2>5. ASSUME ~request'.refunds, NEW period \in Periods, Counted(period)
        PROVE  Counted(period)'
    <3>1. PICK day : day = StartOn(request.day, period)
      OBVIOUS
    <3>7. StartOn(request.day, period)' = day
      BY <2>3, <3>1 DEF StartOn
    <3> SUFFICES ASSUME NEW r \in Rails
                 PROVE  request'.sold[period][r] <= Cardinality(SoldSince(day, r)')
      BY <3>7 DEF Counted, SoldSince
    <3>2. Owned \ Owned' = {}
      BY <2>3, <2>5
    <3>3. Cardinality(SoldSince(day, r)) <= Cardinality(SoldSince(day, r)')
      BY <1>1, <2>1, <3>2, SalesGrow
    <3>4. Cardinality(SoldSince(day, r)) \in Nat /\ Cardinality(SoldSince(day, r)') \in Nat
      BY CountsOf DEF SoldSince, Owned
    <3>5. request.sold[period][r] \in Nat
      BY <2>3, Numbers, SMT DEF Counts
    <3>6. request.sold[period][r] <= Cardinality(SoldSince(day, r))
      BY <2>5, <3>1 DEF Counted
    <3> QED BY <2>3, <3>3, <3>4, <3>5, <3>6, SMT
  <2>6. \A inner, outer : Nested(inner, outer) => Nested(inner, outer)'
    BY <2>3 DEF Nested
  <2>7. {"today", "week", "month", "all"} = Periods
    BY DEF Periods
  <2> QED BY <1>3, <2>3, <2>4, <2>5, <2>6, <2>7 DEF FiguresHold
<1>4. CASE Write /\ Overlooks
  <2>1. CASE request.kind = "overview" /\ request.pc # "done"
    BY <1>3, <1>4, <2>1
  <2>2. CASE request' = NoRequest
    BY <2>2 DEF FiguresHold, NoRequest
  <2>3. CASE request.kind = "search"
    BY <1>4, <2>3, SearchGoesOn DEF FiguresHold, NoRequest
  <2>4. CASE request.kind = "verify"
    BY <1>4, <2>4, RequestKinds DEF Overlooks, FiguresHold, NoRequest
  <2> QED BY <1>4, <2>1, <2>2, <2>3, <2>4 DEF Overlooks
<1>5. CASE Begin
  BY <1>5, Numbers DEF Begin, BeginOverview, BeginSearch, BeginVerify, FiguresHold, Reads
<1>6. CASE ReadFigure
  <2>p. PICK p : p = Figures[request.read + 1]
    OBVIOUS
  <2>d. PICK day : day = request.day
    OBVIOUS
  <2>1. /\ request \in Overview /\ request.pc = "figures" /\ request.read \in 0..3
        /\ request' \in Overview /\ Reads
        /\ request'.read = request.read + 1
        /\ request'.pc = IF request.read = 3 THEN "top" ELSE "figures"
        /\ request'.day = request.day /\ request'.refunds = request.refunds
        /\ p \in Periods /\ request'.sold[p] = Revenue(p)
        /\ \A period \in Periods \ {p} : request'.sold[period] = request.sold[period]
    BY <2>p, <1>6, FigureIsKept
  <2>2. /\ day \in Nat /\ today \in {day, day + 1} /\ today' = today /\ request'.day = day
        /\ request.kind = "overview"
    BY <2>1, <2>d, Numbers DEF Overview, FiguresHold, Reads
  <2>3. /\ \A d, r : SoldSince(d, r)' = SoldSince(d, r)
        /\ \A period : Counted(period)' <=>
             \A r \in Rails :
               request'.sold[period][r] <= Cardinality(SoldSince(StartOn(day, period), r))
    BY <2>1, <2>2 DEF SoldSince, Owned, Reads, Counted, StartOn
  <2>4. \A r \in Rails : request'.sold[p][r] = Cardinality(SoldSince(StartOn(today, p), r))
    BY <2>1, FiguresAreCounts DEF Start
  <2>5. Counted(p)'
    <3> SUFFICES ASSUME NEW r \in Rails
                 PROVE  Cardinality(SoldSince(StartOn(today, p), r))
                          <= Cardinality(SoldSince(StartOn(day, p), r))
      BY <2>3, <2>4
    <3>1. StartOn(day, p) \in Nat /\ StartOn(today, p) \in Nat /\ StartOn(day, p) <= StartOn(today, p)
      <4>1. StartOn(day, p) \in Nat /\ StartOn(day, p) <= StartOn(today, p)
        BY <2>1, <2>2, Starts
      <4>2. today \in Nat /\ today \in {today, today + 1}
        BY <2>2, SMT
      <4>3. StartOn(today, p) \in Nat
        BY <2>1, <4>2, Starts
      <4> QED BY <4>1, <4>3
    <3> QED BY <3>1, SoldSinceEarlier
  <2>6. ASSUME NEW inner \in Periods \ {p}, Counted(inner), StartOn(today, p) <= StartOn(day, inner)
        PROVE  Nested(inner, p)'
    <3> SUFFICES ASSUME NEW r \in Rails
                 PROVE  request'.sold[inner][r] <= request'.sold[p][r]
      BY DEF Nested
    <3>1. StartOn(day, inner) \in Nat /\ StartOn(today, p) \in Nat
      <4>1. StartOn(day, inner) \in Nat
        BY <2>2, Starts
      <4>2. today \in Nat /\ today \in {today, today + 1}
        BY <2>2, SMT
      <4>3. StartOn(today, p) \in Nat
        BY <2>1, <4>2, Starts
      <4> QED BY <4>1, <4>3
    <3>2. Cardinality(SoldSince(StartOn(day, inner), r)) <= Cardinality(SoldSince(StartOn(today, p), r))
      BY <2>6, <3>1, SoldSinceEarlier
    <3>3. request.sold[inner][r] <= Cardinality(SoldSince(StartOn(day, inner), r))
      BY <2>6, <2>d DEF Counted
    <3>4. /\ Cardinality(SoldSince(StartOn(day, inner), r)) \in Nat
          /\ Cardinality(SoldSince(StartOn(today, p), r)) \in Nat
      BY CountsOf DEF SoldSince, Owned
    <3>5. request.sold[inner][r] \in Nat
      BY <2>1, Numbers, SMT DEF Overview, Counts
    <3> QED BY <2>1, <2>4, <3>2, <3>3, <3>4, <3>5, SMT
  <2>7. \A period \in Periods \ {p} : Counted(period) => Counted(period)'
    BY <2>1, <2>3, <2>d DEF Counted
  <2>8. \A inner, outer \in Periods \ {p} : Nested(inner, outer) => Nested(inner, outer)'
    BY <2>1 DEF Nested
  <2>9. /\ StartOn(today, "week") <= StartOn(day, "today")
        /\ StartOn(today, "month") <= StartOn(day, "week")
        /\ StartOn(today, "all") <= StartOn(day, "month")
    BY <2>2, Starts
  <2>10. /\ request.read = 0 => p = "today"
         /\ request.read = 1 => p = "week"
         /\ request.read = 2 => p = "month"
         /\ request.read = 3 => p = "all"
    BY <2>p DEF Figures
  <2>11. Periods = {"today", "week", "month", "all"}
    BY DEF Periods
  <2>12. ~request.refunds =>
           /\ request.read >= 1 => Counted("today")
           /\ request.read >= 2 => Counted("week") /\ Nested("today", "week")
           /\ request.read >= 3 => Counted("month") /\ Nested("week", "month")
    BY <2>2 DEF FiguresHold
  <2>13. ~request'.refunds =>
           /\ request'.read >= 1 => Counted("today")'
           /\ request'.read >= 2 => Counted("week")' /\ Nested("today", "week")'
           /\ request'.read >= 3 => Counted("month")' /\ Nested("week", "month")'
           /\ request'.read >= 4 => Nested("month", "all")'
    <3> SUFFICES ASSUME ~request.refunds
                 PROVE  /\ request.read >= 0 => Counted("today")'
                        /\ request.read >= 1 => Counted("week")' /\ Nested("today", "week")'
                        /\ request.read >= 2 => Counted("month")' /\ Nested("week", "month")'
                        /\ request.read >= 3 => Nested("month", "all")'
      BY <2>1, SMT
    <3>1. CASE request.read = 0
      BY <3>1, <2>5, <2>10, SMT
    <3>2. CASE request.read = 1
      <4>1. p = "week" /\ Counted("today")
        BY <3>2, <2>10, <2>12, SMT
      <4>2. Counted("today")' /\ Counted("week")' /\ Nested("today", "week")'
        BY <4>1, <2>5, <2>6, <2>7, <2>9, <2>11, Zenon
      <4> QED BY <3>2, <4>2, SMT
    <3>3. CASE request.read = 2
      <4>1. p = "month" /\ Counted("today") /\ Counted("week") /\ Nested("today", "week")
        BY <3>3, <2>10, <2>12, SMT
      <4>2. Counted("today")' /\ Counted("week")' /\ Nested("today", "week")'
        BY <4>1, <2>7, <2>8, <2>11
      <4>3. Counted("month")' /\ Nested("week", "month")'
        BY <4>1, <2>5, <2>6, <2>9, <2>11, Zenon
      <4> QED BY <3>3, <4>2, <4>3, SMT
    <3>4. CASE request.read = 3
      <4>1. /\ p = "all" /\ Counted("today") /\ Counted("week") /\ Nested("today", "week")
            /\ Counted("month") /\ Nested("week", "month")
        BY <3>4, <2>10, <2>12, SMT
      <4>2. /\ Counted("today")' /\ Counted("week")' /\ Nested("today", "week")'
            /\ Counted("month")' /\ Nested("week", "month")'
        BY <4>1, <2>7, <2>8, <2>11
      <4>3. Nested("month", "all")'
        BY <4>1, <2>6, <2>9, <2>11, Zenon
      <4> QED BY <4>2, <4>3
    <3> QED BY <3>1, <3>2, <3>3, <3>4, <2>1, SMT
  <2>14. IF request'.pc = "figures" THEN request'.read < 4 ELSE request'.read = 4
    BY <2>1, SMT
  <2> QED BY <2>2, <2>13, <2>14 DEF FiguresHold
<1>7. CASE ReadTopProducts \/ ReadRecent
  <2>1. /\ request \in Overview /\ request.pc # "figures" /\ Reads
        /\ \/ \E top \in TopProducts : request' = [request EXCEPT !.top = top, !.pc = "recent"]
           \/ request' = [request EXCEPT !.pc = "done",
                !.fresh = Cardinality({i \in RecentPurchases : rows[i].day >= request.day})]
    BY <1>7, RequestKinds DEF ReadTopProducts, ReadRecent
  <2>2. /\ request'.kind = request.kind /\ request'.day = request.day /\ request'.read = request.read
        /\ request'.sold = request.sold /\ request'.refunds = request.refunds
        /\ request'.pc # "figures" /\ request.kind = "overview"
    BY <2>1 DEF Overview
  <2>3. /\ \A period : Counted(period) => Counted(period)'
        /\ \A inner, outer : Nested(inner, outer) => Nested(inner, outer)'
    BY <2>1, <2>2 DEF Reads, Counted, Nested, SoldSince, Owned, StartOn
  <2> QED BY <2>1, <2>2, <2>3 DEF FiguresHold, Reads
<1>8. CASE Count \/ ReadPage
  BY <1>8, RequestKinds DEF Count, ReadPage, Search, FiguresHold
<1>9. CASE \/ AskProvider \/ ConfirmVerified \/ LoadForDelivery \/ Send \/ MarkDelivered
           \/ ReportDelivery \/ VerifyFails
  <2>1. request'.kind \in {"verify", "none"}
    BY <1>9, VerificationGoesOn
  <2> QED BY <2>1 DEF FiguresHold
<1> QED BY <1>2, <1>4, <1>5, <1>6, <1>7, <1>8, <1>9 DEF Next

-----------------------------------------------------------------------------
(* The lists of the dashboard.                                             *)

\* The figures of a period are no more than the sales since its start.
LEMMA FiguresAreSales ==
  ASSUME TypeOK, NEW period \in Periods, NEW day \in Nat,
         request \in Overview, Counted(period), StartOn(request.day, period) = day
  PROVE  /\ SumOf(request.sold[period]) \in Nat
         /\ SumOf(request.sold[period]) <= Cardinality({i \in Owned : rows[i].day >= day})
<1>1. request.sold[period] \in [Rails -> Counts]
  BY DEF Overview
<1>2. SumOf(request.sold[period]) = request.sold[period]["stars"] + request.sold[period]["crypto"]
  BY <1>1, SumOfRails
<1>3. "stars" \in Rails /\ "crypto" \in Rails
  BY DEF Rails
<1>4. request.sold[period]["stars"] \in Nat /\ request.sold[period]["crypto"] \in Nat
  BY <1>1, <1>3, Numbers, SMT DEF Counts
<1>5. /\ request.sold[period]["stars"] <= Cardinality(SoldSince(day, "stars"))
      /\ request.sold[period]["crypto"] <= Cardinality(SoldSince(day, "crypto"))
  BY <1>3 DEF Counted
<1>6. Cardinality(SoldSince(day, "stars")) \in Nat /\ Cardinality(SoldSince(day, "crypto")) \in Nat
  BY CountsOf DEF SoldSince, Owned
<1>7. Cardinality({i \in Owned : rows[i].day >= day})
        = Cardinality(SoldSince(day, "stars")) + Cardinality(SoldSince(day, "crypto"))
  BY SoldOnBothRails
<1> QED BY <1>2, <1>4, <1>5, <1>6, <1>7, SMT

\* The best sellers are read when every figure was, the recent sales after them.
LEMMA ListsKept ==
  ASSUME TypeOK, RowsAreTrue, FiguresHold, ListsHold, VerificationHolds, [Next]_vars
  PROVE  ListsHold'
<1> DEFINE Same == rows' = rows /\ today' = today
<1>0. Same => AllListed' = AllListed
  BY DEF AllListed, ProductsSold, Window, Owned, Start
<1>1. CASE UNCHANGED vars
  BY <1>0, <1>1 DEF vars, ListsHold
<1>2. CASE Write /\ Overlooks /\ request.kind = "overview" /\ request.pc # "done"
  <2>1. PICK b : b = (request.refunds \/ Owned \ Owned' # {})
    OBVIOUS
  <2>2. request \in Overview /\ request' = [request EXCEPT !.refunds = b]
    BY <1>2, <2>1, RequestKinds DEF Overlooks
  <2>3. /\ request'.pc = request.pc /\ request'.sold = request.sold /\ request'.top = request.top
        /\ request'.day = request.day /\ request'.kind = request.kind /\ request'.refunds = b
        /\ request'.fresh = request.fresh /\ request.day \in Nat
    BY <2>2, Numbers DEF Overview
  <2>4. ~request'.refunds => ~request.refunds
    BY <2>1, <2>3
  <2>5. today' = request.day => today = request.day /\ today' = today
    BY <1>2, <2>3, DaysPass, SMT DEF FiguresHold
  <2>6. ~request'.refunds /\ today' = request.day /\ AllListed' => AllListed
    <3>1. Next
      BY <1>2 DEF Next
    <3>2. Moves /\ TypeOK'
      BY <3>1, TableMoves, TypeKept
    <3> QED BY <2>1, <2>3, <2>5, <3>2, ProductsStaySold
  <2> QED BY <1>2, <2>3, <2>4, <2>5, <2>6 DEF ListsHold, SumOf
<1>3. CASE Write /\ Overlooks
  <2>1. CASE request.kind = "overview" /\ request.pc # "done"
    BY <1>2, <1>3, <2>1
  <2>2. CASE request' = NoRequest
    BY <2>2 DEF ListsHold, NoRequest
  <2>3. CASE request.kind = "search"
    BY <1>3, <2>3, SearchGoesOn DEF ListsHold, NoRequest
  <2>4. CASE request.kind = "verify"
    BY <1>3, <2>4 DEF Overlooks, ListsHold, NoRequest
  <2> QED BY <1>3, <2>1, <2>2, <2>3, <2>4 DEF Overlooks
<1>4. CASE Begin
  BY <1>4 DEF Begin, BeginOverview, BeginSearch, BeginVerify, ListsHold
<1>5. CASE ReadFigure
  <2>1. request'.pc \in {"top", "figures"}
    BY <1>5, FigureIsKept
  <2> QED BY <2>1 DEF ListsHold
<1>6. CASE ReadTopProducts
  <2>1. PICK top \in TopProducts :
        /\ request \in Overview /\ request.kind = "overview" /\ request.pc = "top"
        /\ request' = [request EXCEPT !.top = top, !.pc = "recent"]
        /\ Same
    BY <1>6, RequestKinds DEF ReadTopProducts, Reads
  <2>2. /\ request'.top = top /\ request'.pc = "recent" /\ request'.sold = request.sold
        /\ request'.day = request.day /\ request'.refunds = request.refunds /\ request.day \in Nat
    BY <2>1, Numbers DEF Overview
  <2>3. ASSUME ~request.refunds, today = request.day, AllListed
        PROVE  SumOf(top) >= SumOf(request.sold["month"])
    <3>1. "month" \in Periods
      BY DEF Periods
    <3>2. Counted("month")
      BY <2>1, <2>3 DEF FiguresHold
    <3>3. PICK start \in Nat : start = Start("month")
      <4>1. today \in Nat /\ today \in {today, today + 1}
        BY <2>2, <2>3
      <4>2. StartOn(today, "month") \in Nat
        BY <3>1, <4>1, Starts
      <4> QED BY <4>2 DEF Start
    <3>4. StartOn(request.day, "month") = start
      BY <2>3, <3>3 DEF Start
    <3>5. /\ SumOf(request.sold["month"]) \in Nat
          /\ SumOf(request.sold["month"]) <= Cardinality({i \in Owned : rows[i].day >= start})
      BY <2>1, <3>1, <3>2, <3>4, FiguresAreSales
    <3>6. Window("month") = {i \in Owned : rows[i].day >= start} /\ Window("month") \in SUBSET Ids
      BY <3>3 DEF Window, Owned
    <3>7. SumOf(top) >= Cardinality(Window("month")) /\ top \in [Products -> Counts]
      BY <2>3, BestSellersCount
    <3>8. Cardinality(Window("month")) \in Nat
      BY <3>6, CountsOf
    <3>9. SumOf(top) \in Nat
      <4> DEFINE T == {tally \in (DOMAIN top) \X Ids : tally[2] <= top[tally[1]]}
      <4>1. IsFiniteSet(Products \X Ids)
        BY Numbers, InstanceIsValid, FS_Product
      <4>2. T \in SUBSET (Products \X Ids)
        BY <3>7
      <4>3. IsFiniteSet(T)
        <5> HIDE DEF T
        <5> QED BY <4>1, <4>2, FS_Subset
      <4> QED BY <4>3, FS_CardinalityType DEF SumOf
    <3>10. SumOf(request.sold["month"]) <= Cardinality(Window("month"))
      BY <3>5, <3>6
    <3> QED BY <3>5, <3>7, <3>8, <3>9, <3>10, SMT
  <2> QED BY <1>0, <2>1, <2>2, <2>3 DEF ListsHold, SumOf
<1>7. CASE ReadRecent
  <2> DEFINE D == {i \in Owned : rows[i].day >= request.day}
             F == {i \in RecentPurchases : rows[i].day >= request.day}
  <2>1. /\ request \in Overview /\ request.kind = "overview" /\ request.pc = "recent"
        /\ request' = [request EXCEPT !.pc = "done", !.fresh = Cardinality(F)]
        /\ Same
    BY <1>7, RequestKinds DEF ReadRecent, Reads
  <2>2. /\ request'.top = request.top /\ request'.pc = "done" /\ request'.sold = request.sold
        /\ request'.day = request.day /\ request'.refunds = request.refunds
        /\ request'.fresh = Cardinality(F) /\ request.day \in Nat
    BY <2>1, Numbers DEF Overview
  <2>3. ASSUME ~request.refunds
        PROVE  LET n == SumOf(request.sold["today"])
               IN  Cardinality(F) >= (IF n < RecentLimit THEN n ELSE RecentLimit)
    <3>1. Counted("today") /\ "today" \in Periods
      BY <2>1, <2>3, SMT DEF FiguresHold, Periods
    <3>2. StartOn(request.day, "today") = request.day
      BY <2>2, SMT DEF StartOn
    <3>3. SumOf(request.sold["today"]) \in Nat /\ SumOf(request.sold["today"]) <= Cardinality(D)
      BY <2>1, <2>2, <3>1, <3>2, FiguresAreSales
    <3>4. /\ Cardinality(F) \in 0..RecentLimit
          /\ Cardinality(F) >= (IF Cardinality(D) < RecentLimit THEN Cardinality(D) ELSE RecentLimit)
      BY <2>2, RecentIsEnough
    <3>5. Cardinality(D) \in Nat
      BY CountsOf DEF Owned
    <3> HIDE DEF D, F
    <3> QED BY <3>3, <3>4, <3>5, Numbers, SMT
  <2> HIDE DEF F
  <2> QED BY <1>0, <2>1, <2>2, <2>3 DEF ListsHold, SumOf
<1>8. CASE Count \/ ReadPage
  BY <1>8, RequestKinds DEF Count, ReadPage, Search, ListsHold
<1>9. CASE \/ AskProvider \/ ConfirmVerified \/ LoadForDelivery \/ Send \/ MarkDelivered
           \/ ReportDelivery \/ VerifyFails
  BY <1>9, VerificationGoesOn DEF ListsHold
<1> QED BY <1>1, <1>3, <1>4, <1>5, <1>6, <1>7, <1>8, <1>9 DEF Next

-----------------------------------------------------------------------------
(* The pages of a search.                                                  *)

\* Rows that are added never make an older one older.
LEMMA RanksGrow ==
  ASSUME NEW S \in SUBSET Ids, NEW T \in SUBSET Ids, S \subseteq T, NEW i
  PROVE  /\ Cardinality({j \in S : j > i}) \in Nat /\ Cardinality({j \in T : j > i}) \in Nat
         /\ Cardinality({j \in S : j > i}) <= Cardinality({j \in T : j > i})
<1>1. /\ {j \in S : j > i} \in SUBSET {j \in T : j > i} /\ {j \in T : j > i} \in SUBSET Ids
      /\ {j \in S : j > i} \in SUBSET Ids
  OBVIOUS
<1> QED BY <1>1, CountGrows, CountsOf

\* What is kept was shown, or is still ahead of the pager.
LEMMA PagesKept ==
  ASSUME TypeOK, RowsAreTrue, FiguresHold, PagesHold, VerificationHolds, [Next]_vars
  PROVE  PagesHold'
<1> USE DEF Newer
<1>1. CASE UNCHANGED vars
  BY <1>1 DEF vars, PagesHold, Matches, Matching
<1>2. CASE Write /\ Overlooks
  <2>1. CASE request.kind = "search" /\ request' # NoRequest
    <3> DEFINE f == request.filter
    <3>0. PICK old \in SUBSET Ids, new \in SUBSET Ids :
            old = Matching(rows, request.filter) /\ new = Matching(rows', request.filter)
      BY MatchesArePurchases
    <3>1. /\ request \in Search /\ request.pc # "done" /\ request'.kind = "search"
          /\ request'.kept = request.kept \cap new
          /\ ~request'.shifted => /\ ~request.shifted /\ old \subseteq new
                                  /\ request.pc = "page" => new \subseteq old
          /\ request'.pc = request.pc /\ request'.filter = request.filter
          /\ request'.offset = request.offset /\ request'.total = request.total
          /\ request'.seen = request.seen
      BY <1>2, <2>1, <3>0, SearchGoesOn
    <3>2. Matches(request.filter) = old /\ Matches(request.filter)' = new
      BY <3>0, <3>1 DEF Matches
    <3>3. request'.kept \subseteq Matches(request.filter)'
      BY <3>1, <3>2
    <3>4. request.offset \in Nat
      BY <3>1 DEF Search
    <3>5. ASSUME ~request'.shifted, NEW i \in request'.kept,
                 Cardinality({j \in new : j > i}) < request.offset
          PROVE  i \in request.seen
      <4>1. /\ Cardinality({j \in old : j > i}) \in Nat /\ Cardinality({j \in new : j > i}) \in Nat
            /\ Cardinality({j \in old : j > i}) <= Cardinality({j \in new : j > i})
        BY <3>1, <3>5, RanksGrow
      <4>2. Cardinality({j \in old : j > i}) < request.offset
        BY <3>4, <3>5, <4>1, SMT
      <4>3. i \in request.kept /\ ~request.shifted
        BY <3>1, <3>5
      <4> QED BY <2>1, <3>2, <4>2, <4>3 DEF PagesHold
    <3>6. ASSUME ~request'.shifted, request'.pc = "page"
          PROVE  request'.total = Cardinality(new)
      <4>1. old = new /\ ~request.shifted /\ request.pc = "page"
        BY <3>1, <3>6
      <4>2. request.total = Cardinality(old)
        BY <2>1, <3>2, <4>1 DEF PagesHold
      <4> QED BY <3>1, <4>1, <4>2
    <3>7. /\ \A i \in request'.kept : ~request'.shifted /\ Cardinality({j \in Matches(request.filter)' : j > i}) < request'.offset
               => i \in request'.seen
      BY <3>1, <3>2, <3>5
    <3>8. ~request'.shifted /\ request'.pc = "page" => request'.total = Cardinality(Matches(request.filter)')
      BY <3>2, <3>6
    <3> QED BY <3>1, <3>3, <3>7, <3>8 DEF PagesHold
  <2>2. CASE request' = NoRequest
    BY <2>2 DEF PagesHold, NoRequest
  <2>3. CASE request.kind = "overview" /\ request.pc # "done"
    <3>1. PICK b : b = (request.refunds \/ Owned \ Owned' # {})
      OBVIOUS
    <3>2. request \in Overview /\ request' = [request EXCEPT !.refunds = b]
      BY <1>2, <2>3, <3>1, RequestKinds DEF Overlooks
    <3>3. request'.kind = "overview"
      BY <3>2 DEF Overview
    <3> QED BY <3>3 DEF PagesHold
  <2>4. CASE request.kind = "verify"
    BY <1>2, <2>4 DEF Overlooks, PagesHold, NoRequest
  <2> QED BY <1>2, <2>1, <2>2, <2>3, <2>4 DEF Overlooks
<1>3. CASE Begin
  <2>1. ASSUME NEW f \in Filters, BeginSearch(f)
        PROVE  PagesHold'
    <3>1. /\ request'.kind = "search" /\ request'.pc = "count" /\ request'.filter = f
          /\ request'.offset = 0 /\ request'.kept = Matches(f) /\ rows' = rows
      BY <2>1 DEF BeginSearch, Reads
    <3>2. Matches(request.filter)' = Matches(f)
      BY <3>1 DEF Matches, Matching
    <3>3. \A i : Cardinality({j \in Matches(f) : j > i}) \in Nat
      BY MatchesArePurchases, RanksGrow
    <3>4. \A i : ~(Cardinality({j \in Matches(request.filter)' : j > i}) < request'.offset)
      BY <3>1, <3>2, <3>3, SMT
    <3> QED BY <3>1, <3>2, <3>4 DEF PagesHold
  <2> QED BY <1>3, <2>1 DEF Begin, BeginOverview, BeginVerify, PagesHold
<1>4. CASE ReadFigure
  <2>1. request'.kind = "overview"
    BY <1>4, FigureIsKept DEF Overview
  <2> QED BY <2>1 DEF PagesHold
<1>5. CASE ReadTopProducts \/ ReadRecent
  <2>1. request'.kind = "overview"
    BY <1>5, RequestKinds DEF ReadTopProducts, ReadRecent, Overview
  <2> QED BY <2>1 DEF PagesHold
<1>6. CASE Count
  <2>1. /\ request \in Search /\ request.kind = "search" /\ rows' = rows
        /\ request' = [request EXCEPT !.total = Cardinality(Matches(request.filter)), !.pc = "page"]
    BY <1>6, RequestKinds DEF Count, Reads
  <2>2. /\ request'.kind = "search" /\ request'.pc = "page" /\ request'.filter = request.filter
        /\ request'.offset = request.offset /\ request'.kept = request.kept
        /\ request'.seen = request.seen /\ request'.shifted = request.shifted
        /\ request'.total = Cardinality(Matches(request.filter))
    BY <2>1 DEF Search
  <2>3. Matches(request.filter)' = Matches(request.filter)
    BY <2>1, <2>2 DEF Matches
  <2> QED BY <2>1, <2>2, <2>3 DEF PagesHold
<1>7. CASE ReadPage
  <2>0. PICK M \in SUBSET Ids : M = Matches(request.filter)
    BY MatchesArePurchases
  <2>1. PICK items \in SUBSET M : items = Page(request.filter, request.offset)
    BY <2>0, MatchesArePurchases
  <2>2. /\ request \in Search /\ request.kind = "search" /\ request.pc = "page" /\ rows' = rows
        /\ request' = [request EXCEPT
             !.seen = @ \cup items,
             !.offset = IF HasMore(items) THEN @ + PageSize ELSE @,
             !.pc = IF HasMore(items) THEN "count" ELSE "done"]
    BY <1>7, <2>1, RequestKinds DEF ReadPage, Reads
  <2>3. PICK more : more = (request.offset + Cardinality(items) < request.total)
    OBVIOUS
  <2>4. /\ request'.kind = "search" /\ request'.filter = request.filter
        /\ request'.pc = IF more THEN "count" ELSE "done"
        /\ request'.offset = IF more THEN request.offset + PageSize ELSE request.offset
        /\ request'.seen = request.seen \cup items
        /\ request'.kept = request.kept /\ request'.shifted = request.shifted
        /\ request.offset \in Nat
    BY <2>2, <2>3 DEF Search, HasMore
  <2>5. Matches(request.filter)' = M
    BY <2>0, <2>2, <2>4 DEF Matches
  <2>6. items = {i \in M : LET before == Cardinality({j \in M : j > i})
                           IN  request.offset <= before /\ before < request.offset + PageSize}
    BY <2>0, <2>1 DEF Page
  <2>7. ASSUME ~request.shifted, NEW i \in request.kept,
               Cardinality({j \in M : j > i}) < request.offset + PageSize
        PROVE  i \in request.seen \cup items
    <3>1. i \in M /\ (Cardinality({j \in M : j > i}) < request.offset => i \in request.seen)
      BY <2>0, <2>2, <2>7 DEF PagesHold
    <3>2. Cardinality({j \in M : j > i}) \in Nat
      BY RanksGrow
    <3>3. request.offset <= Cardinality({j \in M : j > i}) => i \in items
      BY <2>6, <2>7, <3>1
    <3> QED BY <2>4, <3>1, <3>2, <3>3, SMT
  <2>8. ASSUME ~request.shifted, ~more, NEW i \in request.kept
        PROVE  i \in request.seen \cup items
    <3>1. i \in M /\ request.total = Cardinality(M)
      BY <2>0, <2>2, <2>8 DEF PagesHold
    <3>2. Cardinality({j \in M : j > i}) \in Nat /\ Cardinality({j \in M : j > i}) < Cardinality(M)
      BY <3>1, Ranks
    <3>3. Cardinality(items) <= PageSize
      BY <2>4, <2>6, PagesAreLimited
    <3>4. Cardinality(items) \in Nat /\ Cardinality(M) \in Nat
      BY CountsOf
    <3>5. ~(request.offset + Cardinality(items) < Cardinality(M))
      BY <2>3, <2>8, <3>1
    <3>6. Cardinality({j \in M : j > i}) < request.offset + PageSize
      BY <2>4, <3>2, <3>3, <3>4, <3>5, Numbers, SMT
    <3> QED BY <2>7, <2>8, <3>6
  <2>9. ASSUME ~request.shifted, NEW i \in request.kept,
               Cardinality({j \in M : j > i}) < request'.offset
        PROVE  i \in request'.seen
    <3>1. Cardinality({j \in M : j > i}) \in Nat
      BY RanksGrow
    <3>2. Cardinality({j \in M : j > i}) < request.offset + PageSize
      BY <2>4, <2>9, <3>1, Numbers, SMT
    <3> QED BY <2>4, <2>7, <2>9, <3>2
  <2>10. request.kept \subseteq M
    BY <2>0, <2>2 DEF PagesHold
  <2>11. ~request.shifted /\ request'.pc = "done" => request'.kept \subseteq request'.seen
    BY <2>4, <2>8
  <2>12. request'.pc # "page"
    BY <2>4
  <2> QED BY <2>4, <2>5, <2>9, <2>10, <2>11, <2>12 DEF PagesHold
<1>8. CASE \/ AskProvider \/ ConfirmVerified \/ LoadForDelivery \/ Send \/ MarkDelivered
           \/ ReportDelivery \/ VerifyFails
  BY <1>8, VerificationGoesOn DEF PagesHold
<1> QED BY <1>1, <1>2, <1>3, <1>4, <1>5, <1>6, <1>7, <1>8 DEF Next

-----------------------------------------------------------------------------
(* The verification of a purchase.                                         *)

\* A settlement only follows money that is in, and a resolved outcome the link.
LEMMA VerificationKept ==
  ASSUME TypeOK, RowsAreTrue, FiguresHold, VerificationHolds, OutcomesAreTrue, [Next]_vars
  PROVE  VerificationHolds' /\ OutcomesAreTrue'
<1> USE DEF VerificationHolds, OutcomesAreTrue, Answered
<1>1. CASE UNCHANGED vars
  BY <1>1 DEF vars, Recorded, HasMoney
<1>2. ASSUME request'.kind # "verify" PROVE VerificationHolds' /\ OutcomesAreTrue'
  BY <1>2
<1>3. ASSUME Next PROVE Moves /\ TypeOK'
  BY <1>3, TableMoves, TypeKept
<1>4. CASE Write /\ Overlooks
  <2>1. CASE request.kind = "verify" /\ request' # NoRequest
    <3>1. Moves /\ request' = request /\ request.pc # "done" /\ request.id \in Ids
      BY <1>3, <1>4, <2>1 DEF Overlooks, Next, Recorded
    <3>2. RowMoves(request.id) /\ got \subseteq got' /\ (HasMoney(request.id) => HasMoney(request.id)')
      <4>1. PICK i \in Ids : i = request.id
        BY <3>1
      <4>2. RowMoves(i) /\ got \subseteq got' /\ (HasMoney(i) => HasMoney(i)')
        BY <3>1, MoneyStays DEF Moves
      <4> QED BY <3>1, <4>1, <4>2 DEF HasMoney
    <3>3. request.id \in Recorded'
      BY <2>1, <3>1, <3>2 DEF RowMoves, Recorded
    <3>4. request.pc = "refresh_ok" => rows'[request.id].status \in {"delivered", "refunded"}
      BY <2>1, <3>1, <3>2 DEF RowMoves
    <3> QED BY <2>1, <3>1, <3>2, <3>3, <3>4
  <2>2. CASE request' = NoRequest
    BY <1>2, <2>2 DEF NoRequest
  <2>3. CASE request.kind = "overview" /\ request.pc # "done"
    <3>1. PICK b : b = (request.refunds \/ Owned \ Owned' # {})
      OBVIOUS
    <3>2. request \in Overview /\ request' = [request EXCEPT !.refunds = b]
      BY <1>4, <2>3, <3>1, RequestKinds DEF Overlooks
    <3> QED BY <1>2, <3>2 DEF Overview
  <2>4. CASE request.kind = "search"
    BY <1>2, <1>4, <2>2, <2>4, SearchGoesOn
  <2> QED BY <1>4, <2>1, <2>2, <2>3, <2>4 DEF Overlooks
<1>5. CASE Begin
  <2>1. ASSUME NEW i \in Ids, BeginVerify(i)
        PROVE  VerificationHolds' /\ OutcomesAreTrue'
    <3>1. /\ i \in Recorded /\ rows' = rows /\ got' = got /\ invoice' = invoice
          /\ rows[i].status \in {"paid", "delivered", "refunded"} => HasMoney(i)
          /\ rows[i].status = "delivered" => i \in got
      BY <2>1 DEF BeginVerify, Reads, RowsAreTrue
    <3>2. /\ request'.kind = "verify" /\ request'.id = i /\ request'.after = rows[i].status
          /\ \/ request'.pc = "done" /\ request'.outcome = "refunded"
             \/ /\ request'.pc = "done" /\ request'.outcome = "already_delivered"
                /\ rows[i].status = "delivered"
             \/ request'.pc = "deliver" /\ rows[i].status = "paid"
             \/ request'.pc = "done" /\ request'.outcome = "no_provider_evidence"
             \/ request'.pc = "ask"
      BY <2>1 DEF BeginVerify
    <3> QED BY <3>1, <3>2 DEF Recorded, HasMoney
  <2> QED BY <1>2, <1>5, <2>1 DEF Begin, BeginOverview, BeginSearch
<1>6. CASE ReadFigure
  BY <1>2, <1>6, FigureIsKept DEF Overview
<1>7. CASE ReadTopProducts \/ ReadRecent
  BY <1>2, <1>7, RequestKinds DEF ReadTopProducts, ReadRecent, Overview
<1>8. CASE Count \/ ReadPage
  BY <1>2, <1>8, RequestKinds DEF Count, ReadPage, Search
<1>9. ASSUME request \in Verification, NEW pc, Goes(pc)
      PROVE  request'.kind = "verify" /\ request'.id = request.id /\ request'.pc = pc
  BY <1>9 DEF Goes, Verification
<1>10. ASSUME request \in Verification, NEW outcome, NEW status, Reports(outcome, status)
       PROVE  /\ request'.kind = "verify" /\ request'.id = request.id /\ request'.pc = "done"
              /\ request'.outcome = outcome /\ request'.after = status
  BY <1>10 DEF Reports, Verification
<1>11. CASE AskProvider
  <2>1. request \in Verification /\ request.id \in Recorded /\ Reads
    BY <1>11, RequestKinds DEF AskProvider, Verifying
  <2>2. \/ Reports("provider_unavailable", request.before)
        \/ Goes("confirm") /\ invoice[request.id] = "paid"
        \/ Reports("expired_unpaid", request.before) /\ invoice[request.id] = "expired"
        \/ Reports("still_unpaid", request.before)
    BY <1>11 DEF AskProvider, Confirms, Fetched
  <2>3. CASE Goes("confirm") /\ invoice[request.id] = "paid"
    BY <1>9, <2>1, <2>3 DEF Reads, Recorded, HasMoney
  <2>4. CASE Reports("expired_unpaid", request.before) /\ invoice[request.id] = "expired"
    BY <1>10, <2>1, <2>4 DEF Reads, Recorded, HasMoney
  <2>5. ASSUME NEW outcome \in {"provider_unavailable", "still_unpaid"}, Reports(outcome, request.before)
        PROVE  VerificationHolds' /\ OutcomesAreTrue'
    BY <1>10, <2>1, <2>5 DEF Reads, Recorded, HasMoney
  <2> QED BY <2>2, <2>3, <2>4, <2>5
<1>12. CASE ConfirmVerified
  <2>1. /\ request \in Verification /\ request.id \in Ids /\ request.id \in Recorded
        /\ HasMoney(request.id) /\ UNCHANGED <<invoice, got, today>> /\ Moves
        /\ request' = [request EXCEPT !.pc = "deliver", !.settled = TRUE]
    BY <1>3, <1>12, RequestKinds DEF ConfirmVerified, Verifying, Recorded, Next
  <2>2. request'.kind = "verify" /\ request'.id = request.id /\ request'.pc = "deliver"
    BY <2>1 DEF Verification
  <2>3. request.id \in Recorded'
    <3>1. PICK i \in Ids : i = request.id
      BY <2>1
    <3>2. rows[i].status # "absent" /\ RowMoves(i)
      BY <2>1, <3>1 DEF Moves, Recorded
    <3>3. rows'[i].status # "absent"
      BY <3>2 DEF RowMoves
    <3> QED BY <3>1, <3>3 DEF Recorded
  <2> QED BY <2>1, <2>2, <2>3 DEF HasMoney
<1>13. CASE LoadForDelivery
  <2>1. /\ request \in Verification /\ request.id \in Ids /\ request.id \in Recorded /\ Reads
        /\ HasMoney(request.id)
        /\ \/ rows[request.id].status = "delivered" /\ Goes("refresh_ok")
           \/ Goes("send")
    BY <1>13, RequestKinds DEF LoadForDelivery, Verifying, Recorded
  <2>2. rows[request.id].status = "delivered" => request.id \in got
    BY <2>1 DEF RowsAreTrue
  <2> QED BY <1>9, <2>1, <2>2 DEF Reads, HasMoney, Recorded
<1>14. CASE Send
  <2>1. /\ request \in Verification /\ request.id \in Recorded /\ HasMoney(request.id)
        /\ UNCHANGED <<rows, invoice, today>>
        /\ \/ Goes("mark") /\ got' = got \cup {request.id}
           \/ Goes("refresh_failed") /\ got' = got
    BY <1>14, RequestKinds DEF Send, Verifying
  <2> QED BY <1>9, <2>1 DEF HasMoney, Recorded
<1>15. CASE MarkDelivered
  <2>1. /\ request \in Verification /\ request.id \in Ids /\ HasMoney(request.id) /\ request.id \in got
        /\ Writes(request.id, "delivered", rows[request.id].day) /\ Goes("refresh_ok")
        /\ UNCHANGED <<invoice, got, today>>
    BY <1>15, RequestKinds DEF MarkDelivered, Verifying, Recorded
  <2>2. rows'[request.id].status = "delivered"
    BY <2>1 DEF Writes, TypeOK
  <2>3. request.id \in Recorded'
    BY <2>1, <2>2 DEF Recorded
  <2> QED BY <1>9, <2>1, <2>2, <2>3 DEF HasMoney
<1>16. CASE ReportDelivery
  <2>1. request \in Verification /\ request.id \in Recorded /\ Reads /\ HasMoney(request.id)
    BY <1>16, RequestKinds DEF ReportDelivery, Verifying
  <2>2. \/ /\ \E outcome \in {"settled_and_delivered", "delivered_now"} :
                Reports(outcome, rows[request.id].status)
           /\ request.id \in got /\ rows[request.id].status \in {"delivered", "refunded"}
        \/ Reports("delivery_failed", rows[request.id].status)
    BY <1>16 DEF ReportDelivery, ReportedStatus, Verifying
  <2>3. ASSUME NEW outcome \in {"settled_and_delivered", "delivered_now"},
               Reports(outcome, rows[request.id].status),
               request.id \in got, rows[request.id].status \in {"delivered", "refunded"}
        PROVE  VerificationHolds' /\ OutcomesAreTrue'
    BY <1>10, <2>1, <2>3 DEF Reads, Recorded, HasMoney
  <2>4. CASE Reports("delivery_failed", rows[request.id].status)
    BY <1>10, <2>1, <2>4 DEF Reads, Recorded, HasMoney
  <2> QED BY <2>2, <2>3, <2>4
<1>17. CASE VerifyFails
  BY <1>2, <1>17 DEF VerifyFails, NoRequest
<1> QED
  BY <1>1, <1>4, <1>5, <1>6, <1>7, <1>8, <1>11, <1>12, <1>13, <1>14, <1>15, <1>16, <1>17 DEF Next

-----------------------------------------------------------------------------
(* The theorems.                                                           *)

\* The inductive invariant: it holds at the start and no step breaks it.
LEMMA Inductive == Spec => []IInv
<1>1. Init => IInv
  <2> SUFFICES ASSUME Init PROVE IInv
    OBVIOUS
  <2>1. /\ request = NoRequest /\ request.kind = "none" /\ got = {} /\ today = 1
        /\ rows = [i \in Ids |-> [status |-> "absent", day |-> 0]]
        /\ invoice = [i \in Ids |-> "active"]
    BY DEF Init, NoRequest
  <2>2. [status |-> "absent", day |-> 0] \in [status : Statuses, day : 0..MaxDay] /\ 1 \in 1..MaxDay
    BY Numbers, SMT DEF Statuses
  <2>3. \A i \in Ids : rows[i].status = "absent" /\ rows[i].day = 0 /\ i \notin Owned
    BY <2>1 DEF Owned, AccessGranting
  <2>4. TypeOK
    BY <2>1, <2>2, <2>3, SMT DEF TypeOK
  <2> QED
    BY <2>1, <2>3, <2>4
    DEF IInv, RowsAreTrue, FiguresHold, ListsHold, PagesHold, VerificationHolds, OutcomesAreTrue, Answered
<1>2. IInv /\ [Next]_vars => IInv'
  <2> SUFFICES ASSUME IInv, [Next]_vars PROVE IInv'
    OBVIOUS
  <2>1. TypeOK' /\ FiguresHold' /\ ListsHold' /\ PagesHold' /\ VerificationHolds' /\ OutcomesAreTrue'
    BY TypeKept, FiguresKept, ListsKept, PagesKept, VerificationKept DEF IInv
  <2>2. RowsAreTrue'
    <3>1. CASE Next
      BY <3>1, TableMoves, RowsStayTrue DEF IInv
    <3>2. CASE UNCHANGED vars
      BY <3>2 DEF vars, IInv, RowsAreTrue, HasMoney
    <3> QED BY <3>1, <3>2
  <2> QED BY <2>1, <2>2 DEF IInv
<1> QED BY <1>1, <1>2, PTL DEF Spec

\* Every variable keeps its type, and a purchase has a day exactly while it counts
\* as revenue, whatever confirmations, refunds and verifications overlap.
THEOREM ReportsAreTyped == Spec => []TypeOK
BY Inductive, PTL DEF IInv

\* The revenue windows of the dashboard nest although each is a statement of its
\* own: a longer period starts no later than the shorter one that was read before
\* it, even across a midnight, and only a refund takes a sale away.
THEOREM DashboardWindowsNest == Spec => []WindowsNest
<1>1. IInv => WindowsNest
  <2> SUFFICES ASSUME IInv, Answered("overview"), ~request.refunds PROVE WindowsNest
    BY DEF WindowsNest
  <2>1. Nested("today", "week") /\ Nested("week", "month") /\ Nested("month", "all")
    BY SMT DEF IInv, FiguresHold, Answered
  <2> QED BY <2>1 DEF WindowsNest, Nested
<1> QED BY <1>1, Inductive, PTL

\* The recent purchases account for today's figures, as many as the list has room
\* for, and the best sellers for the month's as long as no more products were sold
\* in the month than the list has room for (TopLimit); beyond that the list leaves
\* sales out and nothing is claimed.
THEOREM DashboardListsMatch == Spec => []ListsMatchFigures
<1>1. IInv => ListsMatchFigures
  BY DEF IInv, ListsHold, ListsMatchFigures, Answered, AllListed
<1> QED BY <1>1, Inductive, PTL

\* Going through the pages shows every purchase that matches all along, for every
\* page size and filter, while purchases are added in front.
THEOREM PagerShowsAll == Spec => []PagingShowsAll
<1>1. IInv => PagingShowsAll
  BY DEF IInv, PagesHold, PagingShowsAll, Answered
<1> QED BY <1>1, Inductive, PTL

\* A verification reports a link that was sent, money that is in and an invoice
\* that is over only when they are.
THEOREM VerificationTellsTheTruth == Spec => []OutcomesAreTrue
BY Inductive, PTL DEF IInv

=============================================================================
