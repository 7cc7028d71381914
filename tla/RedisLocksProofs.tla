-------------------------- MODULE RedisLocksProofs --------------------------
(***************************************************************************)
(* Work shorter than a lock's lifetime is mutually exclusive, for any      *)
(* number of callers, keys, lifetimes and waiting windows.                 *)
(*                                                                         *)
(* ExclusiveWithinTtl is not inductive: it says nothing about what Redis   *)
(* holds.  LockInv adds that tokens tell the calls apart, that a key which *)
(* carries a holder's token has exactly the lifetime the holder has not    *)
(* used up, and that nobody else's release can reach it.  The same facts   *)
(* make the lock manager implement LockService, the contract that the      *)
(* services rely on.                                                       *)
(***************************************************************************)
EXTENDS RedisLocks, TLAPS

\* A call has a key and a token exactly while it is inside lock().
CallsHaveKeys ==
  \A p \in Procs :
    /\ pc[p] # "out" => key[p] \in Keys /\ token[p] \in Tokens
    /\ pc[p] = "out" => token[p] = Nobody

TokensDiffer ==
  \A p, q \in Procs : token[p] # Nobody /\ token[p] = token[q] => p = q

\* A token reaches Redis only through its own call's Acquire, under its key.
TokenOnlyUnderItsKey ==
  \A p \in Procs, k \in Keys :
    pc[p] # "out" /\ store[k] = token[p] => pc[p] = "holding" /\ k = key[p]

KeysHaveLifetime == \A k \in Keys : store[k] # Nobody => left[k] > 0

\* A holder's key and its work run on the same clock.
LifetimeIsShared ==
  \A p \in Procs :
    /\ pc[p] = "waiting" => age[p] = 0
    /\ pc[p] = "out" => age[p] = 0
    /\ pc[p] = "holding" => age[p] <= Ttl[key[p]]
    /\ pc[p] = "holding" /\ store[key[p]] = token[p]
         => left[key[p]] + age[p] = Ttl[key[p]]

LockInv ==
  /\ TypeOK
  /\ CallsHaveKeys
  /\ TokensDiffer
  /\ TokenOnlyUnderItsKey
  /\ KeysHaveLifetime
  /\ LifetimeIsShared
  /\ ProtectedOwnsKey

-----------------------------------------------------------------------------
\* Nobody is inside lock() at the start.
LEMMA InitEstablishesLockInv == Init => LockInv
BY LockSettings
   DEF Init, LockInv, TypeOK, CallsHaveKeys, TokensDiffer, TokenOnlyUnderItsKey,
       KeysHaveLifetime, LifetimeIsShared, ProtectedOwnsKey, Protected

\* Entering lock() draws a token that nothing refers to.
LEMMA CallKeepsLockInv ==
  ASSUME LockInv, NEW p \in Procs, NEW k \in Keys, NEW t \in Tokens, Call(p, k, t)
  PROVE  LockInv'
<1> USE LockSettings DEF LockInv, Call, Fresh, TypeOK
<1>1. TypeOK'
  OBVIOUS
<1>2. CallsHaveKeys'
  BY DEF CallsHaveKeys
<1>3. TokensDiffer'
  BY DEF TokensDiffer
<1>4. TokenOnlyUnderItsKey'
  BY DEF TokenOnlyUnderItsKey, CallsHaveKeys
<1>5. KeysHaveLifetime'
  BY DEF KeysHaveLifetime
<1>6. LifetimeIsShared'
  BY DEF LifetimeIsShared, CallsHaveKeys
<1>7. ProtectedOwnsKey'
  BY DEF ProtectedOwnsKey, Protected, CallsHaveKeys
<1> QED
  BY <1>1, <1>2, <1>3, <1>4, <1>5, <1>6, <1>7

\* SET NX finds no key, so no protected holder loses one.
LEMMA AcquireKeepsLockInv ==
  ASSUME LockInv, NEW p \in Procs, Acquire(p)
  PROVE  LockInv'
<1> USE LockSettings DEF LockInv, Acquire, TypeOK, CallsHaveKeys
<1>0. key[p] \in Keys /\ Ttl[key[p]] \in Nat /\ Ttl[key[p]] > 0
  <2>1. key[p] \in Keys
    OBVIOUS
  <2>2. Ttl[key[p]] \in Nat \ {0}
    BY <2>1
  <2> QED
    BY <2>1, <2>2
<1>1. TypeOK'
  OBVIOUS
<1>2. CallsHaveKeys'
  OBVIOUS
<1>3. TokensDiffer'
  BY DEF TokensDiffer
<1>4. TokenOnlyUnderItsKey'
  BY DEF TokenOnlyUnderItsKey, TokensDiffer
<1>5. KeysHaveLifetime'
  BY <1>0 DEF KeysHaveLifetime
<1>6. LifetimeIsShared'
  <2>1. ASSUME NEW q \in Procs, pc'[q] = "holding", store'[key'[q]] = token'[q], q # p
        PROVE  left'[key'[q]] + age'[q] = Ttl[key'[q]]
    <3>1. key[q] # key[p]
      BY <2>1 DEF TokensDiffer
    <3> QED
      BY <2>1, <3>1 DEF LifetimeIsShared
  <2>2. age'[p] = 0 /\ left'[key'[p]] = Ttl[key'[p]]
    BY <1>0 DEF LifetimeIsShared
  <2>3. left'[key'[p]] + age'[p] = Ttl[key'[p]] /\ age'[p] <= Ttl[key'[p]]
    BY <1>0, <2>2
  <2>4. pc'[p] = "holding"
    OBVIOUS
  <2>5. \A q \in Procs \ {p} : pc'[q] = pc[q] /\ age'[q] = age[q] /\ key'[q] = key[q]
    OBVIOUS
  <2> QED
    BY <2>1, <2>3, <2>4, <2>5 DEF LifetimeIsShared
<1>7. ProtectedOwnsKey'
  BY DEF ProtectedOwnsKey, Protected
<1> QED
  BY <1>1, <1>2, <1>3, <1>4, <1>5, <1>6, <1>7

\* A call that ends without touching Redis only forgets its variables.
LEMMA LeavingKeepsLockInv ==
  ASSUME LockInv, NEW p \in Procs, Leave(p), UNCHANGED <<store, left>>
  PROVE  LockInv'
<1> USE LockSettings DEF LockInv, Leave, TypeOK, CallsHaveKeys
<1>1. TypeOK'
  OBVIOUS
<1>2. CallsHaveKeys'
  OBVIOUS
<1>3. TokensDiffer'
  BY DEF TokensDiffer
<1>4. TokenOnlyUnderItsKey'
  BY DEF TokenOnlyUnderItsKey
<1>5. KeysHaveLifetime'
  BY DEF KeysHaveLifetime
<1>6. LifetimeIsShared'
  BY DEF LifetimeIsShared
<1>7. ProtectedOwnsKey'
  BY DEF ProtectedOwnsKey, Protected
<1> QED
  BY <1>1, <1>2, <1>3, <1>4, <1>5, <1>6, <1>7

\* The release script deletes a key only while it carries the caller's token,
\* which no other caller has.
LEMMA ReleaseKeepsLockInv ==
  ASSUME LockInv, NEW p \in Procs, Release(p)
  PROVE  LockInv'
<1>1. CASE store[key[p]] # token[p]
  BY <1>1, LeavingKeepsLockInv DEF Release
<1>2. CASE store[key[p]] = token[p]
  <2> USE <1>2, LockSettings DEF LockInv, Release, Leave, TypeOK, CallsHaveKeys
  <2>1. TypeOK'
    OBVIOUS
  <2>2. CallsHaveKeys'
    OBVIOUS
  <2>3. TokensDiffer'
    BY DEF TokensDiffer
  <2>4. TokenOnlyUnderItsKey'
    BY DEF TokenOnlyUnderItsKey
  <2>5. KeysHaveLifetime'
    BY DEF KeysHaveLifetime
  <2>6. \A q \in Procs \ {p} :
          pc[q] = "holding" /\ store[key[q]] = token[q] => key[q] # key[p]
    BY DEF TokensDiffer
  <2>7. LifetimeIsShared'
    BY <2>6 DEF LifetimeIsShared
  <2>8. ProtectedOwnsKey'
    BY <2>6 DEF ProtectedOwnsKey, Protected
  <2> QED
    BY <2>1, <2>2, <2>3, <2>4, <2>5, <2>7, <2>8
<1> QED
  BY <1>1, <1>2

\* Time takes the same amount from a key and from its holder's protection.
LEMMA TickKeepsLockInv ==
  ASSUME LockInv, Tick
  PROVE  LockInv'
<1> USE LockSettings DEF LockInv, Tick, TypeOK, CallsHaveKeys, Expires, Lower
<1>1. TypeOK'
  OBVIOUS
<1>2. CallsHaveKeys'
  OBVIOUS
<1>3. TokensDiffer'
  BY DEF TokensDiffer
<1>4. TokenOnlyUnderItsKey'
  BY DEF TokenOnlyUnderItsKey
<1>5. KeysHaveLifetime'
  BY DEF KeysHaveLifetime
<1>6. LifetimeIsShared'
  <2>1. ASSUME NEW p \in Procs, pc[p] = "holding", store'[key[p]] = token[p]
        PROVE  left'[key[p]] + age'[p] = Ttl[key[p]]
    <3>1. store[key[p]] = token[p] /\ left[key[p]] > 1
      BY <2>1
    <3>2. left[key[p]] + age[p] = Ttl[key[p]]
      BY <2>1, <3>1 DEF LifetimeIsShared
    <3> QED
      BY <2>1, <3>1, <3>2
  <2>2. \A p \in Procs : pc[p] = "holding" => age'[p] <= Ttl[key[p]]
    BY DEF LifetimeIsShared
  <2>3. \A p \in Procs : pc[p] # "holding" => age'[p] = age[p]
    OBVIOUS
  <2> QED
    BY <2>1, <2>2, <2>3 DEF LifetimeIsShared
<1>7. ProtectedOwnsKey'
  <2> SUFFICES ASSUME NEW p \in Procs, Protected(p)'
               PROVE  store'[key[p]] = token[p]
    BY DEF ProtectedOwnsKey
  <2>1. Protected(p) /\ age[p] + 1 < Ttl[key[p]]
    BY DEF Protected
  <2>2. left[key[p]] + age[p] = Ttl[key[p]]
    BY <2>1 DEF Protected, ProtectedOwnsKey, LifetimeIsShared
  <2>3. key[p] \in Keys
    BY <2>1 DEF Protected
  <2>4. left[key[p]] > 1
    BY <2>1, <2>2, <2>3
  <2> QED
    BY <2>1, <2>3, <2>4 DEF Protected, ProtectedOwnsKey
<1> QED
  BY <1>1, <1>2, <1>3, <1>4, <1>5, <1>6, <1>7

\* LockInv is inductive.
LEMMA StepKeepsLockInv == LockInv /\ [Next]_vars => LockInv'
<1> SUFFICES ASSUME LockInv, [Next]_vars PROVE LockInv'
  OBVIOUS
<1>1. ASSUME NEW p \in Procs, NEW k \in Keys, NEW t \in Tokens, Call(p, k, t)
      PROVE  LockInv'
  BY <1>1, CallKeepsLockInv
<1>2. ASSUME NEW p \in Procs, Acquire(p) PROVE LockInv'
  BY <1>2, AcquireKeepsLockInv
<1>3. ASSUME NEW p \in Procs, Refuse(p) PROVE LockInv'
  BY <1>3, LeavingKeepsLockInv DEF Refuse
<1>4. ASSUME NEW p \in Procs, Release(p) PROVE LockInv'
  BY <1>4, ReleaseKeepsLockInv
<1>5. ASSUME NEW p \in Procs, Crash(p) PROVE LockInv'
  BY <1>5, LeavingKeepsLockInv DEF Crash
<1>6. CASE Tick
  BY <1>6, TickKeepsLockInv
<1>7. CASE UNCHANGED vars
  BY <1>7 DEF vars, LockInv, TypeOK, CallsHaveKeys, TokensDiffer, TokenOnlyUnderItsKey,
              KeysHaveLifetime, LifetimeIsShared, ProtectedOwnsKey, Protected
<1> QED
  BY <1>1, <1>2, <1>3, <1>4, <1>5, <1>6, <1>7 DEF Next

\* Every behaviour keeps LockInv, and with it each of its parts: the key of a
\* caller within its lifetime is its own (ProtectedOwnsKey).
THEOREM LockInvariant == Spec => []LockInv
<1>1. Init => LockInv
  BY InitEstablishesLockInv
<1>2. LockInv /\ [Next]_vars => LockInv'
  BY StepKeepsLockInv
<1> QED
  BY <1>1, <1>2, PTL DEF Spec

\* Every variable keeps its type, whatever crashes and however late a release is.
THEOREM TypeCorrect == Spec => []TypeOK
<1>1. LockInv => TypeOK
  BY DEF LockInv
<1> QED
  BY <1>1, LockInvariant, PTL

\* The key a caller works under is its own until its TTL ends.
THEOREM KeyIsOwned == Spec => []ProtectedOwnsKey
<1>1. LockInv => ProtectedOwnsKey
  BY DEF LockInv
<1> QED
  BY <1>1, LockInvariant, PTL

\* Two callers inside the block of one key are never both within the TTL.
THEOREM MutualExclusion == Spec => []ExclusiveWithinTtl
<1>1. LockInv => ExclusiveWithinTtl
  BY LockSettings DEF LockInv, ExclusiveWithinTtl, ProtectedOwnsKey, Protected,
                      TokensDiffer, CallsHaveKeys
<1> QED
  BY <1>1, LockInvariant, PTL

\* A holder past its TTL never finds its own token: the overrun is logged.
THEOREM OverrunsAreNoticed == Spec => []OverrunIsNoticed
<1>1. LockInv => OverrunIsNoticed
  <2> SUFFICES ASSUME LockInv, NEW p \in Procs, pc[p] = "holding", ~Protected(p),
                      store[key[p]] = token[p]
               PROVE  FALSE
    BY DEF OverrunIsNoticed
  <2>1. key[p] \in Keys /\ token[p] # Nobody
    BY LockSettings DEF LockInv, CallsHaveKeys
  <2>2. left[key[p]] > 0 /\ left[key[p]] + age[p] = Ttl[key[p]] /\ age[p] <= Ttl[key[p]]
    BY <2>1 DEF LockInv, KeysHaveLifetime, LifetimeIsShared
  <2>3. left[key[p]] \in Nat /\ age[p] \in Nat /\ Ttl[key[p]] \in Nat
    BY <2>1, LockSettings DEF LockInv, TypeOK
  <2> QED
    BY <2>2, <2>3 DEF Protected
<1> QED
  BY <1>1, LockInvariant, PTL

-----------------------------------------------------------------------------
(* The contract of LockManager.                                            *)

\* The contract's view of a state.
Taken  == {k \in Keys : store[k] # Nobody}
Within == [p \in Procs |-> IF pc[p] = "holding" THEN key[p] ELSE NoKey]
Owners == {p \in Procs : pc[p] = "holding" /\ store[key[p]] = token[p]}

\* Somebody inside the block works under a key.
LEMMA HoldersAreWithin ==
  ASSUME LockInv, NEW p \in Procs
  PROVE  (Within[p] # NoKey) <=> (pc[p] = "holding")
BY LockSettings DEF LockInv, CallsHaveKeys, Within

\* Nobody is inside a block at the start, and no key is taken.
LEMMA InitImplements == Init => Contract!Init
BY DEF Init, Contract!Init

\* A step of a call outside the block touches neither keys nor blocks.
LEMMA OutsideStutters ==
  ASSUME LockInv, NEW p \in Procs, UNCHANGED store,
         pc[p] # "holding", pc'[p] # "holding",
         \A q \in Procs \ {p} : pc'[q] = pc[q] /\ key'[q] = key[q] /\ token'[q] = token[q]
  PROVE  UNCHANGED <<Taken, Within, Owners>>
<1>1. Taken' = Taken
  BY DEF Taken
<1>2. Within' = Within
  BY DEF Within
<1>3. Owners' = Owners
  BY DEF Owners
<1> QED
  BY <1>1, <1>2, <1>3

\* SET NX takes a free key, and its caller is its owner.
LEMMA AcquireImplements ==
  ASSUME LockInv, NEW p \in Procs, Acquire(p), NEW k \in Keys, key[p] = k
  PROVE  Contract!Acquire(p, k)
<1>k. key[p] \in Keys /\ token[p] \in Tokens /\ token[p] # Nobody /\ NoKey \notin Keys
  BY LockSettings DEF LockInv, CallsHaveKeys, Acquire
<1>a. /\ pc[p] = "waiting" /\ pc' = [pc EXCEPT ![p] = "holding"]
      /\ store[key[p]] = Nobody /\ store' = [store EXCEPT ![key[p]] = token[p]]
      /\ token' = token /\ key' = key
  BY DEF Acquire
<1>t. pc \in [Procs -> {"out", "waiting", "holding"}] /\ store \in [Keys -> Tokens \cup {Nobody}]
  BY DEF LockInv, TypeOK
<1>1. Within[p] = NoKey /\ key[p] \notin Taken
  BY <1>a DEF Within, Taken
<1>2. Taken' = Taken \cup {key[p]}
  BY <1>k, <1>a, <1>t DEF Taken
<1>3. Within' = [Within EXCEPT ![p] = key[p]]
  BY <1>a, <1>t DEF Within
<1>4. Owners' = Owners \cup {p}
  <2>1. ASSUME NEW q \in Procs, q # p
        PROVE  q \in Owners' <=> q \in Owners
    <3>1. token[q] # token[p]
      BY <2>1, <1>k DEF LockInv, TokensDiffer
    <3>2. pc[q] = "holding" => key[q] \in Keys /\ token[q] # Nobody
      BY LockSettings DEF LockInv, CallsHaveKeys
    <3> QED
      BY <2>1, <3>1, <3>2, <1>a, <1>t DEF Owners
  <2>2. p \in Owners'
    BY <1>k, <1>a, <1>t DEF Owners
  <2> QED
    BY <2>1, <2>2 DEF Owners
<1> QED
  BY <1>1, <1>2, <1>3, <1>4 DEF Contract!Acquire, Taken, Within, Owners

\* Leaving a block, by release or by dying: p is inside nothing and owns nothing.
LEMMA LeavingABlock ==
  ASSUME LockInv, NEW p \in Procs, pc[p] = "holding", Leave(p),
         \A q \in Procs \ {p} :
           pc[q] = "holding" => (store'[key[q]] = token[q] <=> store[key[q]] = token[q])
  PROVE  /\ Within[p] # NoKey
         /\ Within' = [Within EXCEPT ![p] = NoKey]
         /\ Owners' = Owners \ {p}
<1>a. /\ pc' = [pc EXCEPT ![p] = "out"] /\ key' = [key EXCEPT ![p] = NoKey]
      /\ token' = [token EXCEPT ![p] = Nobody]
  BY DEF Leave
<1>t. /\ pc \in [Procs -> {"out", "waiting", "holding"}]
      /\ key \in [Procs -> Keys \cup {NoKey}] /\ token \in [Procs -> Tokens \cup {Nobody}]
  BY DEF LockInv, TypeOK
<1>1. Within[p] # NoKey
  BY HoldersAreWithin
<1>2. Within' = [Within EXCEPT ![p] = NoKey]
  BY <1>a, <1>t DEF Within
<1>3. Owners' = Owners \ {p}
  BY <1>a, <1>t DEF Owners
<1> QED
  BY <1>1, <1>2, <1>3

\* The script frees the key of an owner and leaves everybody else's alone.
LEMMA ReleaseImplements ==
  ASSUME LockInv, NEW p \in Procs, Release(p)
  PROVE  Contract!Release(p)
<1>k. key[p] \in Keys /\ token[p] \in Tokens /\ token[p] # Nobody
  BY LockSettings DEF LockInv, CallsHaveKeys, Release
<1>p. pc[p] = "holding" /\ Leave(p)
  BY DEF Release
<1>t. store \in [Keys -> Tokens \cup {Nobody}]
  BY DEF LockInv, TypeOK
<1>w. Within[p] = key[p]
  BY <1>p DEF Within
<1>1. CASE store[key[p]] = token[p]
  <2>1. store' = [store EXCEPT ![key[p]] = Nobody]
    BY <1>1 DEF Release
  <2>2. Taken' = Taken \ {key[p]}
    BY <1>k, <1>t, <2>1 DEF Taken
  <2>3. ASSUME NEW q \in Procs \ {p}, pc[q] = "holding"
        PROVE  store'[key[q]] = token[q] <=> store[key[q]] = token[q]
    <3>1. token[q] # token[p] /\ token[q] # Nobody /\ key[q] \in Keys
      BY <1>k, <2>3, LockSettings DEF LockInv, TokensDiffer, CallsHaveKeys
    <3> QED
      BY <1>1, <1>t, <2>1, <3>1
  <2>4. p \in Owners
    BY <1>1, <1>p DEF Owners
  <2>5. Within[p] # NoKey /\ Within' = [Within EXCEPT ![p] = NoKey] /\ Owners' = Owners \ {p}
    BY <1>p, <2>3, LeavingABlock
  <2>6. Taken' = IF p \in Owners THEN Taken \ {Within[p]} ELSE Taken
    BY <1>w, <2>2, <2>4
  <2> QED
    BY <2>5, <2>6 DEF Contract!Release, Taken, Within, Owners
<1>2. CASE store[key[p]] # token[p]
  <2>1. store' = store
    BY <1>2 DEF Release
  <2>2. Taken' = Taken /\ p \notin Owners
    BY <1>2, <2>1 DEF Taken, Owners
  <2>3. Within[p] # NoKey /\ Within' = [Within EXCEPT ![p] = NoKey] /\ Owners' = Owners \ {p}
    BY <1>p, <2>1, LeavingABlock
  <2>4. Taken' = IF p \in Owners THEN Taken \ {Within[p]} ELSE Taken
    BY <2>2
  <2> QED
    BY <2>3, <2>4 DEF Contract!Release, Taken, Within, Owners
<1> QED
  BY <1>1, <1>2

\* A process that dies leaves its key behind, or was not inside.
LEMMA CrashImplements ==
  ASSUME LockInv, NEW p \in Procs, Crash(p)
  PROVE  Contract!Die(p) \/ UNCHANGED <<Taken, Within, Owners>>
<1>1. Leave(p) /\ store' = store /\ pc[p] # "out"
  BY DEF Crash
<1>2. CASE pc[p] = "holding"
  <2>1. Within[p] # NoKey /\ Within' = [Within EXCEPT ![p] = NoKey] /\ Owners' = Owners \ {p}
    BY <1>1, <1>2, LeavingABlock
  <2>2. Taken' = Taken
    BY <1>1 DEF Taken
  <2> QED
    BY <2>1, <2>2 DEF Contract!Die, Taken, Within, Owners
<1>3. CASE pc[p] # "holding"
  BY <1>1, <1>3, OutsideStutters DEF Leave, LockInv, TypeOK
<1> QED
  BY <1>2, <1>3

\* Time only takes keys away, whoever is inside their blocks.
LEMMA TickImplements ==
  ASSUME LockInv, Tick
  PROVE  Contract!Expire
<1>a. /\ store' = [k \in Keys |-> IF Expires(k) THEN Nobody ELSE store[k]]
      /\ pc' = pc /\ token' = token /\ key' = key
  BY DEF Tick
<1>1. Taken' \in SUBSET Taken
  BY <1>a DEF Taken
<1>2. Within' = Within
  BY <1>a DEF Within
<1>3. Owners' = {p \in Owners : Within[p] \in Taken'}
  <2>1. ASSUME NEW p \in Procs, pc[p] = "holding"
        PROVE  p \in Owners' <=> p \in Owners /\ Within[p] \in Taken'
    <3>1. key[p] \in Keys /\ token[p] # Nobody /\ Within[p] = key[p]
      BY <2>1, LockSettings DEF LockInv, CallsHaveKeys, Within
    <3> QED
      BY <1>a, <2>1, <3>1 DEF Owners, Taken
  <2> QED
    BY <1>a, <2>1 DEF Owners
<1> QED
  BY <1>1, <1>2, <1>3 DEF Contract!Expire, Taken, Within, Owners

\* Every step of the lock manager is a step of the contract, or none of its business.
LEMMA StepImplements ==
  LockInv /\ [Next]_vars => [Contract!Next]_<<Taken, Within, Owners>>
<1> SUFFICES ASSUME LockInv, [Next]_vars
             PROVE  Contract!Next \/ UNCHANGED <<Taken, Within, Owners>>
  OBVIOUS
<1>t. /\ pc \in [Procs -> {"out", "waiting", "holding"}]
      /\ key \in [Procs -> Keys \cup {NoKey}] /\ token \in [Procs -> Tokens \cup {Nobody}]
  BY DEF LockInv, TypeOK
<1>1. ASSUME NEW p \in Procs, NEW k \in Keys, NEW t \in Tokens, Call(p, k, t)
      PROVE  UNCHANGED <<Taken, Within, Owners>>
  BY <1>1, <1>t, OutsideStutters DEF Call
<1>2. ASSUME NEW p \in Procs, Refuse(p)
      PROVE  UNCHANGED <<Taken, Within, Owners>>
  BY <1>2, <1>t, OutsideStutters DEF Refuse, Leave
<1>3. ASSUME NEW p \in Procs, Acquire(p)
      PROVE  Contract!Next
  <2>1. PICK k \in Keys : key[p] = k
    BY <1>3 DEF Acquire, LockInv, CallsHaveKeys
  <2>2. Contract!Acquire(p, k)
    BY <1>3, <2>1, AcquireImplements
  <2> QED
    BY <2>2 DEF Contract!Next
<1>4. ASSUME NEW p \in Procs, Release(p)
      PROVE  Contract!Next
  BY <1>4, ReleaseImplements DEF Contract!Next
<1>5. ASSUME NEW p \in Procs, Crash(p)
      PROVE  Contract!Next \/ UNCHANGED <<Taken, Within, Owners>>
  BY <1>5, CrashImplements DEF Contract!Next
<1>6. CASE Tick
  BY <1>6, TickImplements DEF Contract!Next
<1>7. CASE UNCHANGED vars
  BY <1>7 DEF vars, Taken, Within, Owners
<1> QED
  BY <1>1, <1>2, <1>3, <1>4, <1>5, <1>6, <1>7 DEF Next

\* Tokens, lifetimes and the release script implement the contract of LockManager,
\* for any number of callers and keys: acquisition is atomic, a block is left once,
\* and a late release never frees somebody else's key.
THEOREM LocksImplementTheContract == Spec => ImplementsLockService
<1>1. LockInv /\ [Next]_vars => [Contract!Next]_Contract!vars
  BY StepImplements DEF Contract!vars, Taken, Within, Owners
<1> QED
  BY <1>1, InitImplements, LockInvariant, PTL DEF Spec, ImplementsLockService, Contract!Spec

\* A key never has two owners, and an owner's key is taken: the promise the contract
\* makes to the callers whose key has not expired.
THEOREM KeysHaveOneOwner == Spec => []Contract!OwnersAreAlone
<1>1. LockInv => Contract!OwnersAreAlone
  <2> SUFFICES ASSUME LockInv PROVE Contract!OwnersAreAlone
    OBVIOUS
  <2>1. \A p \in Owners : pc[p] = "holding" /\ key[p] \in Keys /\ token[p] # Nobody
                          /\ Within[p] = key[p] /\ store[key[p]] = token[p] /\ p \in Procs
    BY LockSettings DEF Owners, Within, LockInv, CallsHaveKeys
  <2>2. \A p \in Owners : Within[p] \in Taken
    BY <2>1 DEF Taken
  <2>3. \A p, q \in Owners : Within[p] = Within[q] => p = q
    BY <2>1 DEF LockInv, TokensDiffer
  <2> QED
    BY <2>2, <2>3 DEF Contract!OwnersAreAlone, Taken, Within, Owners
<1> QED
  BY <1>1, LockInvariant, PTL
=============================================================================
