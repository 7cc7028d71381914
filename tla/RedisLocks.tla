----------------------------- MODULE RedisLocks -----------------------------
(***************************************************************************)
(* RedisLockManager: locks with a mandatory lifetime.                      *)
(*                                                                         *)
(* A call of lock(key) draws a fresh token (uuid4) and tries               *)
(* SET key token NX PX ttl, again every 50 ms until its waiting window has *)
(* passed; leaving the block runs the compare-and-delete script.  Redis    *)
(* removes a key when its lifetime ends, whatever its holder is doing.     *)
(*                                                                         *)
(* Time is discrete and counted down: left[k] is the remaining PX of a     *)
(* key, patience[p] what is left of a caller's window, age[p] how long a   *)
(* caller has been inside the block (saturating at the key's TTL).         *)
(***************************************************************************)
EXTENDS Naturals

CONSTANTS
  Procs,      \* concurrent callers
  Keys,       \* lock keys (domain/locks.py)
  NoKey,      \* what a process outside lock() works on
  Ttl,        \* Ttl[k]: ttl_seconds used with key k
  Wait,       \* Wait[k]: wait_seconds used with key k; 0 tries once
  Tokens,     \* uuid4 tokens; one that nothing refers to may be drawn again
  Nobody      \* the token of a missing key, and of a process outside lock()

ASSUME LockSettings ==
  /\ NoKey \notin Keys
  /\ Ttl \in [Keys -> Nat \ {0}]
  /\ Wait \in [Keys -> Nat]
  /\ Nobody \notin Tokens

VARIABLES
  store,      \* store[k]: the token under key k, Nobody when the key is missing
  left,       \* left[k]: its remaining lifetime
  pc,         \* pc[p]: "out", "waiting" in _acquire, or "holding"
  token,      \* token[p]: the token of p's call
  key,        \* key[p]: the key of that call
  patience,   \* patience[p]: deadline - monotonic()
  age         \* age[p]: time since p acquired

vars == <<store, left, pc, token, key, patience, age>>

Init ==
  /\ store = [k \in Keys |-> Nobody]
  /\ left = [k \in Keys |-> 0]
  /\ pc = [p \in Procs |-> "out"]
  /\ token = [p \in Procs |-> Nobody]
  /\ key = [p \in Procs |-> NoKey]
  /\ patience = [p \in Procs |-> 0]
  /\ age = [p \in Procs |-> 0]

\* Deviation: a token that is not drawn at random may be in use already.
AnyToken(t) == TRUE

\* uuid4(): no key and no other call carries this token.
Fresh(t) ==
  /\ \A k \in Keys : store[k] # t
  /\ \A p \in Procs : token[p] # t

\* lock(key) is entered: a fresh token, deadline = now + wait.
Call(p, k, t) ==
  /\ pc[p] = "out"
  /\ Fresh(t)
  /\ token' = [token EXCEPT ![p] = t]
  /\ key' = [key EXCEPT ![p] = k]
  /\ patience' = [patience EXCEPT ![p] = Wait[k]]
  /\ pc' = [pc EXCEPT ![p] = "waiting"]
  /\ UNCHANGED <<store, left, age>>

\* SET NX PX creates the key.
Acquire(p) ==
  /\ pc[p] = "waiting"
  /\ store[key[p]] = Nobody
  /\ store' = [store EXCEPT ![key[p]] = token[p]]
  /\ left' = [left EXCEPT ![key[p]] = Ttl[key[p]]]
  /\ patience' = [patience EXCEPT ![p] = 0]
  /\ pc' = [pc EXCEPT ![p] = "holding"]
  /\ UNCHANGED <<token, key, age>>

\* The call is over: its local variables are gone.
Leave(p) ==
  /\ pc' = [pc EXCEPT ![p] = "out"]
  /\ token' = [token EXCEPT ![p] = Nobody]
  /\ key' = [key EXCEPT ![p] = NoKey]
  /\ patience' = [patience EXCEPT ![p] = 0]
  /\ age' = [age EXCEPT ![p] = 0]

\* Deviation: a busy lock is waited for, whatever the deadline.
RefuseNever(p) == FALSE /\ Leave(p) /\ UNCHANGED <<store, left>>

\* SET NX failed and the deadline has passed: LockBusyError.  Before the
\* deadline a failed attempt only sleeps, which changes nothing here.
Refuse(p) ==
  /\ pc[p] = "waiting"
  /\ store[key[p]] # Nobody
  /\ patience[p] = 0
  /\ Leave(p)
  /\ UNCHANGED <<store, left>>

\* Deviation: release deletes the key whatever it holds.
ReleaseBlindly(p) ==
  /\ pc[p] = "holding"
  /\ store' = [store EXCEPT ![key[p]] = Nobody]
  /\ left' = [left EXCEPT ![key[p]] = 0]
  /\ Leave(p)

\* The release script: delete the key only when it still holds our token.
Release(p) ==
  /\ pc[p] = "holding"
  /\ IF store[key[p]] = token[p]
     THEN /\ store' = [store EXCEPT ![key[p]] = Nobody]
          /\ left' = [left EXCEPT ![key[p]] = 0]
     ELSE UNCHANGED <<store, left>>
  /\ Leave(p)

\* The process dies inside lock(): nothing is released.
Crash(p) ==
  /\ pc[p] # "out"
  /\ Leave(p)
  /\ UNCHANGED <<store, left>>

Lower(n) == IF n = 0 THEN 0 ELSE n - 1

\* PX: the lifetime of the key ends with this unit of time.
Expires(k) == left[k] <= 1

\* One unit of time passes; Redis drops the keys whose lifetime ends.
Tick ==
  /\ left' = [k \in Keys |-> IF Expires(k) THEN 0 ELSE Lower(left[k])]
  /\ store' = [k \in Keys |-> IF Expires(k) THEN Nobody ELSE store[k]]
  /\ patience' = [p \in Procs |-> Lower(patience[p])]
  /\ age' = [p \in Procs |-> IF pc[p] = "holding" /\ age[p] < Ttl[key[p]]
                             THEN age[p] + 1 ELSE age[p]]
  /\ UNCHANGED <<pc, token, key>>

Next ==
  \/ \E p \in Procs, k \in Keys, t \in Tokens : Call(p, k, t)
  \/ \E p \in Procs : Acquire(p) \/ Refuse(p) \/ Release(p) \/ Crash(p)
  \/ Tick

Spec == Init /\ [][Next]_vars

(* Time passes, and a caller inside _acquire keeps trying; nothing makes a   *)
(* holder leave its block.                                                   *)
Fairness ==
  /\ WF_vars(Tick)
  /\ \A p \in Procs : WF_vars(Acquire(p) \/ Refuse(p))

FairSpec == Spec /\ Fairness

-----------------------------------------------------------------------------
\* Every variable holds a value of its type.
TypeOK ==
  /\ store \in [Keys -> Tokens \cup {Nobody}]
  /\ left \in [Keys -> Nat]
  /\ pc \in [Procs -> {"out", "waiting", "holding"}]
  /\ token \in [Procs -> Tokens \cup {Nobody}]
  /\ key \in [Procs -> Keys \cup {NoKey}]
  /\ patience \in [Procs -> Nat]
  /\ age \in [Procs -> Nat]

\* p is inside the block and its lock's lifetime has not ended.
Protected(p) == pc[p] = "holding" /\ age[p] < Ttl[key[p]]

\* Two callers inside the block of one key: at most one of them is still within
\* its lock's lifetime.  Work shorter than the TTL is mutually exclusive, also
\* after crashes, late releases and holders that overran.
ExclusiveWithinTtl ==
  \A p, q \in Procs :
    Protected(p) /\ Protected(q) /\ key[p] = key[q] => p = q

\* The key of a caller within its lifetime is its own: no late release of an
\* earlier holder has freed it and nobody else can take it.
ProtectedOwnsKey ==
  \A p \in Procs : Protected(p) => store[key[p]] = token[p]

\* "lock_expired_before_release" is logged exactly when the work overran: a
\* holder past the TTL never finds its own token under the key.
OverrunIsNoticed ==
  \A p \in Procs :
    pc[p] = "holding" /\ ~Protected(p) => store[key[p]] # token[p]

\* What the callers see of Redis: a key is taken while a token is stored under it,
\* and a caller inside the block owns its key while that token is its own.
Contract == INSTANCE LockService WITH
  Clients <- Procs,
  taken   <- {k \in Keys : store[k] # Nobody},
  inside  <- [p \in Procs |-> IF pc[p] = "holding" THEN key[p] ELSE NoKey],
  owners  <- {p \in Procs : pc[p] = "holding" /\ store[key[p]] = token[p]}

\* Tokens, lifetimes and the release script give the contract of LockManager: "NX
\* makes acquisition atomic", and a holder whose lock expired "can never delete a
\* lock that now belongs to somebody else".
ImplementsLockService == Contract!Spec

\* Every call of lock() comes back, with the lock or with LockBusyError.
CallsReturn ==
  \A p \in Procs : (pc[p] = "waiting") ~> (pc[p] # "waiting")
=============================================================================
