----------------------------- MODULE LockService -----------------------------
(***************************************************************************)
(* What the services rely on when they write `async with locks.lock(key)`: *)
(* the contract of domain/locks.py, without tokens, lifetimes or Redis.    *)
(*                                                                         *)
(* A key that is taken keeps everybody else out until its owner leaves the *)
(* block or the key expires.  A key may expire at any moment, under a      *)
(* client that is still inside the block (which is then no owner any more, *)
(* and whose leaving touches nobody) or after a client that died inside.   *)
(*                                                                         *)
(* RedisLocks implements this contract; Settlement and Checkout use locks  *)
(* as it allows and in no other way.                                       *)
(***************************************************************************)
CONSTANTS
  Clients,    \* calls that may be inside a block
  Keys,
  NoKey       \* where a client outside every block is

VARIABLES
  taken,      \* the keys nobody can take
  inside,     \* inside[p]: the key whose block p is in
  owners      \* the clients whose key has not expired since they took it

vars == <<taken, inside, owners>>

Init ==
  /\ taken = {}
  /\ inside = [p \in Clients |-> NoKey]
  /\ owners = {}

\* The block is entered: exactly one client wins a free key.
Acquire(p, k) ==
  /\ inside[p] = NoKey
  /\ k \notin taken
  /\ taken' = taken \cup {k}
  /\ inside' = [inside EXCEPT ![p] = k]
  /\ owners' = owners \cup {p}

\* The block is left; "a holder whose TTL already expired can never delete a
\* lock that now belongs to somebody else".
Release(p) ==
  /\ inside[p] # NoKey
  /\ taken' = IF p \in owners THEN taken \ {inside[p]} ELSE taken
  /\ inside' = [inside EXCEPT ![p] = NoKey]
  /\ owners' = owners \ {p}

\* The client dies inside the block: its key stays until it expires.
Die(p) ==
  /\ inside[p] # NoKey
  /\ inside' = [inside EXCEPT ![p] = NoKey]
  /\ owners' = owners \ {p}
  /\ UNCHANGED taken

\* Keys expire, whoever is inside their blocks.
Expire ==
  /\ taken' \in SUBSET taken
  /\ owners' = {p \in owners : inside[p] \in taken'}
  /\ UNCHANGED inside

Next ==
  \/ \E p \in Clients : (\E k \in Keys : Acquire(p, k)) \/ Release(p) \/ Die(p)
  \/ Expire

Spec == Init /\ [][Next]_vars

\* A key has one owner: mutual exclusion for those whose key has not expired.
OwnersAreAlone ==
  /\ \A p \in owners : inside[p] \in taken
  /\ \A p, q \in owners : inside[p] = inside[q] => p = q
=============================================================================
