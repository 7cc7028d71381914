------------------------- MODULE AdminSessionProofs -------------------------
(***************************************************************************)
(* Machine-checked proofs about AdminSession, for any number of requests,  *)
(* clients and token pairs and any lifetimes, limits and windows.          *)
(*                                                                         *)
(* The invariants of the limiter rest on one relation, GuessesAreCounted;  *)
(* those of the tokens on three: a pair that was issued and not yet        *)
(* answered is private to its request, the revocation key of a spent pair  *)
(* outlives the pair, and a logout about to be answered has done its work. *)
(***************************************************************************)
EXTENDS AdminSession, TLAPS

\* What a request knows at each of its awaits.
Shape(q) ==
  /\ q.pc \in {"hit", "window", "reset"} => q.kind = "login" /\ q.client \in Clients
  /\ q.pc \in {"idle", "hit", "window"} => q.pair = None
  /\ q.pc = "issue" => \/ q.kind = "refresh"
                       \/ q.kind = "login" /\ q.client \in Clients /\ q.pair = None
  /\ q.pc = "check" => q.pair \in Pairs /\ q.kind # "login" /\ Expects(q.kind, q.type)
  /\ q.pc = "revoke" => q.pair \in Pairs /\ q.kind \in {"refresh", "logout"}

RequestsAreShaped == \A r \in Requests : Shape(req[r])

\* The pair q is about to hand out, which nobody else has seen.
Private(q) == q.pair # None /\ (q.kind = "login" \/ (q.kind = "refresh" /\ q.pc = "answer"))

PrivatePairsAreUnspent ==
  \A r \in Requests :
    Private(req[r]) =>
      req[r].pair \notin spent /\ \A x \in Requests \ {r} : req[x].pair # req[r].pair

RevocationIsKept ==
  \A p \in Pairs :
    /\ p \in spent => pairs[p].revoked >= pairs[p].left
    /\ pairs[p].revoked > 0 => p \in spent

\* What makes the token of a logout useless.
Useless(p) == p \in spent \cup {None} \/ pairs[p].left = 0 \/ pairs[p].sub # admin

LogoutsAreDone ==
  \A r \in Requests : req[r].kind = "logout" /\ req[r].pc = "answer" => Useless(req[r].pair)

GuessesAreCounted == \A c \in Clients : guesses[c] <= counter[c].n

\* The inductive invariant.
SessionInv ==
  /\ TypeOK
  /\ RequestsAreShaped
  /\ GuessesAreCounted
  /\ GuessesAreLimited
  /\ CountersExpire
  /\ PrivatePairsAreUnspent
  /\ RevocationIsKept
  /\ LogoutsAreDone
  /\ CookieIsUsable

-----------------------------------------------------------------------------
(* Requests.                                                               *)

\* Request r goes on as q; the others do not move.
Moves(r, q) ==
  /\ q \in Request /\ Shape(q)
  /\ req' = [req EXCEPT ![r] = q]

\* A request that does nothing is well formed.
LEMMA QuietIsShaped == Quiet \in Request /\ Shape(Quiet)
BY DEF Quiet, Request, Shape, Kinds, TokenTypes

\* A step of one request leaves every request with its type and shape.
LEMMA MovesKeepsShapes ==
  ASSUME TypeOK, RequestsAreShaped, NEW r \in Requests, NEW q, Moves(r, q)
  PROVE  /\ req' \in [Requests -> Request] /\ RequestsAreShaped'
         /\ req'[r] = q /\ \A x \in Requests \ {r} : req'[x] = req[x]
<1>1. req'[r] = q /\ \A x \in Requests \ {r} : req'[x] = req[x]
  BY DEF TypeOK, Moves
<1>2. req' \in [Requests -> Request]
  BY DEF TypeOK, Moves
<1>3. RequestsAreShaped'
  BY <1>1 DEF RequestsAreShaped, Moves, Shape
<1> QED
  BY <1>1, <1>2, <1>3

\* How each step moves its request.
LEMMA BeginLoginMoves ==
  ASSUME TypeOK, RequestsAreShaped, NEW r \in Requests, NEW c \in Clients,
         NEW good \in BOOLEAN, BeginLogin(r, c, good)
  PROVE  Moves(r, [Quiet EXCEPT !.pc = "hit", !.client = c, !.good = good])
BY DEF BeginLogin, Moves, Quiet, Request, Shape, Kinds, TokenTypes

\* Past the limiter a login goes on without a pair, or ends.
LEMMA JudgedMoves ==
  ASSUME TypeOK, RequestsAreShaped, NEW r \in Requests, NEW good \in BOOLEAN,
         req[r].pc \in {"hit", "window"}, req' = Judged(r, good)
  PROVE  \E q : /\ Moves(r, q) /\ q.pc \in {"issue", "idle"} /\ q.pair = None
                /\ q.kind = "login"
<1>1. req[r] \in Request /\ Shape(req[r])
  BY DEF TypeOK, RequestsAreShaped
<1>2. CASE good
  <2> DEFINE q == [req[r] EXCEPT !.pc = "issue", !.good = FALSE]
  <2>1. q \in Request /\ Shape(q)
    BY <1>1 DEF Request, Shape
  <2>2. req' = [req EXCEPT ![r] = q]
    BY <1>2 DEF Judged, TypeOK
  <2>3. q.pc = "issue" /\ q.pair = None /\ q.kind = "login"
    BY <1>1 DEF Request, Shape
  <2> QED
    BY <2>1, <2>2, <2>3 DEF Moves
<1>3. CASE ~good
  <2>1. Moves(r, Quiet)
    BY <1>3, QuietIsShaped DEF Judged, Moves
  <2> QED
    BY <2>1 DEF Quiet
<1> QED
  BY <1>2, <1>3

-----------------------------------------------------------------------------
(* Steps.                                                                  *)

\* A request that goes on without touching the shared state.
LEMMA QuietStepKeepsSessionInv ==
  ASSUME SessionInv, NEW r \in Requests, NEW q, Moves(r, q),
         UNCHANGED <<pairs, spent, counter, guesses, cookie, admin, faults>>,
         req[r].pc \in {"idle", "check"},
         ~Private(q),
         \A x \in Requests \ {r} : Private(req[x]) => req[x].pair # q.pair,
         q.kind = "logout" /\ q.pc = "answer" => Useless(q.pair)
  PROVE  SessionInv'
<1>1. /\ req' \in [Requests -> Request] /\ RequestsAreShaped'
      /\ req'[r] = q /\ \A x \in Requests \ {r} : req'[x] = req[x]
  BY MovesKeepsShapes DEF SessionInv
<1>2. TypeOK'
  BY <1>1 DEF SessionInv, TypeOK
<1>3. GuessesAreCounted' /\ GuessesAreLimited' /\ RevocationIsKept'
  BY DEF SessionInv, GuessesAreCounted, GuessesAreLimited, RevocationIsKept
<1>4. CountersExpire'
  BY <1>1 DEF SessionInv, CountersExpire
<1>5. PrivatePairsAreUnspent'
  BY <1>1 DEF SessionInv, PrivatePairsAreUnspent, Private
<1>6. LogoutsAreDone'
  BY <1>1 DEF SessionInv, LogoutsAreDone, Useless
<1>7. CookieIsUsable'
  BY <1>1 DEF SessionInv, CookieIsUsable
<1> QED
  BY <1>1, <1>2, <1>3, <1>4, <1>5, <1>6, <1>7 DEF SessionInv

\* The steps that leave Redis and the browser alone.
LEMMA BeginLoginKeepsSessionInv ==
  ASSUME SessionInv, NEW r \in Requests, NEW c \in Clients, NEW good \in BOOLEAN,
         BeginLogin(r, c, good)
  PROVE  SessionInv'
<1> DEFINE q == [Quiet EXCEPT !.pc = "hit", !.client = c, !.good = good]
<1>1. Moves(r, q)
  BY BeginLoginMoves DEF SessionInv
<1>2. q.kind = "login" /\ q.pair = None
  BY DEF Quiet
<1>3. \A x \in Requests \ {r} : Private(req[x]) => req[x].pair # q.pair
  BY <1>2 DEF Private
<1> HIDE DEF q
<1> QED
  BY <1>1, <1>2, <1>3, QuietStepKeepsSessionInv DEF BeginLogin, Private

\* A presented token is known, so it is nobody's private pair.
LEMMA PresentKeepsSessionInv ==
  ASSUME SessionInv, NEW r \in Requests, NEW kind \in Kinds \ {"login"}, NEW p \in Pairs,
         NEW type \in TokenTypes, Present(r, kind, p, type)
  PROVE  SessionInv'
<1>1. CASE Expects(kind, type) /\
           req' = [req EXCEPT ![r] = [Quiet EXCEPT !.pc = "check", !.kind = kind,
                                                   !.pair = p, !.type = type]]
  <2> DEFINE q == [Quiet EXCEPT !.pc = "check", !.kind = kind, !.pair = p, !.type = type]
  <2>1. q.pc = "check" /\ q.kind = kind /\ q.pair = p /\ q.type = type
    BY DEF Quiet
  <2>2. q \in Request /\ Shape(q)
    BY <1>1, <2>1, Zenon DEF Quiet, Request, Shape, Kinds
  <2>3. \A x \in Requests \ {r} : Private(req[x]) => req[x].pair # p
    BY DEF Present, Known, Private
  <2>4. Moves(r, q)
    BY <1>1, <2>2 DEF Moves
  <2> HIDE DEF q
  <2> QED
    BY <2>1, <2>3, <2>4, QuietStepKeepsSessionInv DEF Present, Private
<1>2. CASE /\ kind = "logout"
           /\ req' = [req EXCEPT ![r] = [Quiet EXCEPT !.pc = "answer", !.kind = kind]]
  <2> DEFINE q == [Quiet EXCEPT !.pc = "answer", !.kind = kind]
  <2>1. q.pc = "answer" /\ q.kind = "logout" /\ q.pair = None
    BY <1>2 DEF Quiet
  <2>2. q \in Request /\ Shape(q)
    BY <2>1 DEF Quiet, Request, Shape, Kinds, TokenTypes
  <2>3. \A x \in Requests \ {r} : Private(req[x]) => req[x].pair # q.pair
    BY <2>1 DEF Private
  <2>4. Moves(r, q)
    BY <1>2, <2>2 DEF Moves
  <2>5. Useless(q.pair)
    BY <2>1 DEF Useless
  <2> HIDE DEF q
  <2> QED
    BY <2>1, <2>3, <2>4, <2>5, QuietStepKeepsSessionInv DEF Present, Private
<1> QED
  BY <1>1, <1>2 DEF Present

\* What becomes of a request whose token was judged.
LEMMA AfterCheckOutcomes ==
  ASSUME NEW kind \in {"refresh", "logout", "call"}, NEW ok \in BOOLEAN,
         AfterCheck(kind, ok) # "idle"
  PROVE  \/ AfterCheck(kind, ok) = "revoke" /\ ok /\ kind \in {"refresh", "logout"}
         \/ AfterCheck(kind, ok) = "answer" /\ ok /\ kind = "call"
         \/ AfterCheck(kind, ok) = "answer" /\ ~ok /\ kind = "logout"
BY DEF AfterCheck

\* A logout answered without a revocation found its token useless already.
LEMMA CheckKeepsSessionInv ==
  ASSUME SessionInv, NEW r \in Requests, Check(r)
  PROVE  SessionInv'
<1> DEFINE ok == ~IsRevoked(req[r].pair, req[r].type) /\ pairs[req[r].pair].sub = admin
           pc == AfterCheck(req[r].kind, ok)
           q  == [req[r] EXCEPT !.pc = pc]
<1>1. /\ req[r] \in Request /\ Shape(req[r]) /\ req[r].pc = "check"
      /\ req[r].pair \in Pairs /\ req[r].kind \in {"refresh", "logout", "call"}
  BY DEF SessionInv, TypeOK, RequestsAreShaped, Check, Shape, Request, Kinds
<1>2. CASE pc = "idle"
  <2>1. Moves(r, Quiet)
    BY <1>2, QuietIsShaped DEF Check, Moves
  <2>2. \A x \in Requests \ {r} : Private(req[x]) => req[x].pair # Quiet.pair
    BY DEF Private, Quiet
  <2> QED
    BY <1>1, <2>1, <2>2, QuietStepKeepsSessionInv DEF Check, Private, Quiet
<1>3. CASE pc # "idle"
  <2>1. \/ pc = "revoke" /\ req[r].kind \in {"refresh", "logout"}
        \/ pc = "answer" /\ req[r].kind = "call"
        \/ pc = "answer" /\ req[r].kind = "logout" /\ ~ok
    <3>1. ok \in BOOLEAN
      OBVIOUS
    <3> HIDE DEF ok
    <3> QED
      BY <1>1, <1>3, <3>1, AfterCheckOutcomes
  <2>2. q.pc = pc /\ q.kind = req[r].kind /\ q.pair = req[r].pair /\ q.type = req[r].type
    BY <1>1 DEF Request
  <2>3. q \in Request
    BY <1>1, <2>1 DEF Request
  <2>4. Shape(q)
    BY <1>1, <2>1, <2>2 DEF Shape
  <2>5. Moves(r, q)
    BY <1>3, <2>3, <2>4 DEF Check, Moves
  <2>6. ~Private(q)
    BY <1>1, <2>1, <2>2 DEF Private
  <2>7. \A x \in Requests \ {r} : Private(req[x]) => req[x].pair # q.pair
    BY <2>2 DEF SessionInv, PrivatePairsAreUnspent
  <2>8. q.kind = "logout" /\ q.pc = "answer" => Useless(q.pair)
    <3> SUFFICES ASSUME req[r].kind = "logout", pc = "answer"
                 PROVE  Useless(req[r].pair)
      BY <2>2
    <3>1. IsRevoked(req[r].pair, req[r].type) \/ pairs[req[r].pair].sub # admin
      BY <2>1
    <3> QED
      BY <1>1, <3>1 DEF IsRevoked, Useless, SessionInv, RevocationIsKept
  <2> HIDE DEF q
  <2> QED
    BY <1>1, <2>5, <2>6, <2>7, <2>8, QuietStepKeepsSessionInv DEF Check
<1> QED
  BY <1>2, <1>3

\* A login request that changes the limiter only.
LEMMA LimiterStepKeepsSessionInv ==
  ASSUME SessionInv, NEW r \in Requests, NEW q, Moves(r, q),
         UNCHANGED <<pairs, spent, cookie, admin, faults>>,
         req[r].kind = "login", q.kind = "login", q.pair = req[r].pair,
         counter' \in [Clients -> Counter], guesses' \in [Clients -> Nat],
         GuessesAreCounted', GuessesAreLimited', CountersExpire'
  PROVE  SessionInv'
<1>1. /\ req' \in [Requests -> Request] /\ RequestsAreShaped'
      /\ req'[r] = q /\ \A x \in Requests \ {r} : req'[x] = req[x]
  BY MovesKeepsShapes DEF SessionInv
<1>2. TypeOK'
  BY <1>1 DEF SessionInv, TypeOK
<1>3. RevocationIsKept'
  BY DEF SessionInv, RevocationIsKept
<1>4. PrivatePairsAreUnspent'
  BY <1>1 DEF SessionInv, PrivatePairsAreUnspent, Private
<1>5. LogoutsAreDone'
  BY <1>1 DEF SessionInv, LogoutsAreDone, Useless
<1>6. CookieIsUsable'
  BY <1>1 DEF SessionInv, CookieIsUsable
<1> QED
  BY <1>1, <1>2, <1>3, <1>4, <1>5, <1>6 DEF SessionInv

\* A counter's type, opened once.
LEMMA CounterIsTyped ==
  ASSUME TypeOK, NEW c \in Clients
  PROVE  /\ counter[c].n \in 0..(Limit + 1) /\ counter[c].ttl \in 1..NoTtl
         /\ counter[c] = [n |-> counter[c].n, ttl |-> counter[c].ttl]
         /\ counter[c].n = 0 => counter[c].ttl = NoTtl
         /\ guesses[c] \in Nat
BY SettingsAreValid DEF TypeOK, Counter, NoCounter, NoTtl

\* MULTI INCR, PTTL: the counter runs ahead of the guesses it lets through.
LEMMA HitKeepsSessionInv ==
  ASSUME SessionInv, NEW r \in Requests, Hit(r)
  PROVE  SessionInv'
<1> DEFINE c == req[r].client
           n == counter[c].n + 1
           good == req[r].good /\ Allowed(n)
<1>1. /\ req[r] \in Request /\ Shape(req[r]) /\ req[r].pc = "hit" /\ c \in Clients
      /\ req[r].kind = "login" /\ req[r].pair = None
  BY DEF SessionInv, TypeOK, RequestsAreShaped, Hit, Shape
<1>2. /\ counter[c].n \in 0..(Limit + 1) /\ counter[c].ttl \in 1..NoTtl
      /\ counter[c] = [n |-> counter[c].n, ttl |-> counter[c].ttl]
      /\ guesses[c] \in Nat
  BY <1>1, CounterIsTyped DEF SessionInv
<1>3. PICK m \in 1..(Limit + 1) : m = IF counter[c].n > Limit THEN counter[c].n ELSE n
  BY <1>2, SettingsAreValid
<1>4. counter' = [counter EXCEPT ![c] = [n |-> m, ttl |-> counter[c].ttl]]
  <2>1. counter' = [counter EXCEPT ![c] = [counter[c] EXCEPT !.n = m]]
    BY <1>3 DEF Hit
  <2>2. [counter[c] EXCEPT !.n = m] = [n |-> m, ttl |-> counter[c].ttl]
    BY <1>2
  <2> QED
    BY <2>1, <2>2
<1>5. /\ counter'[c] = [n |-> m, ttl |-> counter[c].ttl]
      /\ \A d \in Clients \ {c} : counter'[d] = counter[d]
  BY <1>1, <1>4 DEF SessionInv, TypeOK
<1>6. counter' \in [Clients -> Counter]
  <2>1. [n |-> m, ttl |-> counter[c].ttl] \in Counter
    BY <1>2 DEF Counter
  <2> QED
    BY <1>4, <2>1 DEF SessionInv, TypeOK
<1>7. /\ guesses' \in [Clients -> Nat]
      /\ guesses'[c] = IF Allowed(n) THEN guesses[c] + 1 ELSE guesses[c]
      /\ \A d \in Clients \ {c} : guesses'[d] = guesses[d]
  BY <1>1, <1>2 DEF Hit, SessionInv, TypeOK
<1>8. GuessesAreCounted'
  BY <1>1, <1>2, <1>3, <1>5, <1>7, SettingsAreValid
     DEF SessionInv, GuessesAreCounted, Allowed
<1>9. GuessesAreLimited'
  BY <1>1, <1>2, <1>7, SettingsAreValid
     DEF SessionInv, GuessesAreCounted, GuessesAreLimited, Allowed
<1>10. good \in BOOLEAN
  BY <1>1 DEF Request, Allowed
<1>11. CASE NeedsWindow(c)
  <2> DEFINE q == [req[r] EXCEPT !.pc = "window", !.good = good]
  <2>1. q.pc = "window" /\ q.client = c /\ q.kind = "login" /\ q.pair = None
    BY <1>1 DEF Request
  <2>2. q \in Request /\ Shape(q)
    <3> HIDE DEF good
    <3> QED
      BY <1>1, <1>10 DEF Request, Shape
  <2>3. Moves(r, q)
    BY <1>11, <2>2 DEF Hit, Moves, SessionInv, TypeOK
  <2>4. req'[r] = q /\ \A x \in Requests \ {r} : req'[x] = req[x]
    BY <2>3, MovesKeepsShapes DEF SessionInv
  <2>5. CountersExpire'
    <3>1. faults' = faults
      BY DEF Hit
    <3>2. ASSUME NEW d \in Clients \ {c}, NEW x \in Requests,
                 req[x].pc = "window" /\ req[x].client = d
          PROVE  req'[x].pc = "window" /\ req'[x].client = d
      BY <1>1, <2>4, <3>2
    <3> HIDE DEF q
    <3> QED
      BY <1>5, <2>1, <2>4, <3>1, <3>2 DEF SessionInv, CountersExpire
  <2> HIDE DEF q
  <2> QED
    BY <1>1, <1>6, <1>7, <1>8, <1>9, <2>1, <2>3, <2>5, LimiterStepKeepsSessionInv DEF Hit
<1>12. CASE ~NeedsWindow(c)
  <2>1. req' = Judged(r, good)
    BY <1>12 DEF Hit
  <2>2. PICK q : Moves(r, q) /\ q.pair = None /\ q.kind = "login"
    <3> HIDE DEF good
    <3> QED
      BY <1>1, <1>10, <2>1, JudgedMoves DEF SessionInv
  <2>3. \A x \in Requests \ {r} : req'[x] = req[x]
    BY <2>2, MovesKeepsShapes DEF SessionInv
  <2>4. CountersExpire'
    BY <1>1, <1>5, <1>12, <2>3 DEF Hit, NeedsWindow, SessionInv, CountersExpire
  <2> QED
    BY <1>1, <1>6, <1>7, <1>8, <1>9, <2>2, <2>4, LimiterStepKeepsSessionInv DEF Hit
<1> QED
  BY <1>11, <1>12

\* PEXPIRE: a counter with attempts has its expiry from here on.
LEMMA SetWindowKeepsSessionInv ==
  ASSUME SessionInv, NEW r \in Requests, SetWindow(r)
  PROVE  SessionInv'
<1> DEFINE c == req[r].client
<1>1. /\ req[r] \in Request /\ req[r].pc = "window" /\ c \in Clients
      /\ req[r].kind = "login" /\ req[r].pair = None /\ req[r].good \in BOOLEAN
  BY DEF SessionInv, TypeOK, RequestsAreShaped, SetWindow, Shape, Request
<1>2. /\ counter[c].n \in 0..(Limit + 1) /\ counter[c].ttl \in 1..NoTtl
      /\ counter[c] = [n |-> counter[c].n, ttl |-> counter[c].ttl]
      /\ counter[c].n = 0 => counter[c].ttl = NoTtl
  BY <1>1, CounterIsTyped DEF SessionInv
<1>3. PICK q : Moves(r, q) /\ q.pair = None /\ q.kind = "login"
  BY <1>1, JudgedMoves DEF SetWindow, SessionInv
<1>4. \A x \in Requests \ {r} : req'[x] = req[x]
  BY <1>3, MovesKeepsShapes DEF SessionInv
<1>5. PICK t \in 1..NoTtl : /\ t = IF counter[c].n > 0 THEN Window ELSE counter[c].ttl
                            /\ counter[c].n > 0 => t # NoTtl
  BY <1>2, SettingsAreValid DEF NoTtl
<1>6. counter' = [counter EXCEPT ![c] = [n |-> counter[c].n, ttl |-> t]]
  <2>1. counter' = [counter EXCEPT ![c] = [counter[c] EXCEPT !.ttl = t]]
    BY <1>5 DEF SetWindow, WindowOpened
  <2>2. [counter[c] EXCEPT !.ttl = t] = [n |-> counter[c].n, ttl |-> t]
    BY <1>2
  <2> QED
    BY <2>1, <2>2
<1>7. /\ counter'[c] = [n |-> counter[c].n, ttl |-> t]
      /\ \A d \in Clients \ {c} : counter'[d] = counter[d]
  BY <1>1, <1>6 DEF SessionInv, TypeOK
<1>8. counter' \in [Clients -> Counter]
  <2>1. [n |-> counter[c].n, ttl |-> t] \in Counter
    BY <1>2, <1>5 DEF Counter, NoCounter
  <2> QED
    BY <1>6, <2>1 DEF SessionInv, TypeOK
<1>9. GuessesAreCounted' /\ GuessesAreLimited'
  BY <1>7 DEF SetWindow, SessionInv, GuessesAreCounted, GuessesAreLimited
<1>10. CountersExpire'
  BY <1>1, <1>4, <1>5, <1>7 DEF SetWindow, SessionInv, CountersExpire
<1> QED
  BY <1>1, <1>3, <1>8, <1>9, <1>10, LimiterStepKeepsSessionInv
     DEF SetWindow, SessionInv, TypeOK

\* DEL: the counter and its guesses are forgotten together.
LEMMA ResetKeepsSessionInv ==
  ASSUME SessionInv, NEW r \in Requests, Reset(r)
  PROVE  SessionInv'
<1> DEFINE c == req[r].client
           q == [req[r] EXCEPT !.pc = "answer"]
<1>1. /\ req[r] \in Request /\ Shape(req[r]) /\ req[r].pc = "reset" /\ c \in Clients
      /\ req[r].kind = "login"
  BY DEF SessionInv, TypeOK, RequestsAreShaped, Reset, Shape
<1>2. q \in Request /\ Shape(q) /\ q.kind = "login" /\ q.pair = req[r].pair
  BY <1>1 DEF Request, Shape
<1>3. Moves(r, q)
  BY <1>2 DEF Reset, Moves, SessionInv, TypeOK
<1>4. req'[r] = q /\ \A x \in Requests \ {r} : req'[x] = req[x]
  BY <1>3, MovesKeepsShapes DEF SessionInv
<1>5. /\ counter'[c] = NoCounter /\ guesses'[c] = 0
      /\ \A d \in Clients \ {c} : counter'[d] = counter[d] /\ guesses'[d] = guesses[d]
  BY <1>1 DEF Reset, SessionInv, TypeOK
<1>6. counter' \in [Clients -> Counter] /\ guesses' \in [Clients -> Nat]
  BY <1>1 DEF Reset, SessionInv, TypeOK, Counter
<1>7. GuessesAreCounted' /\ GuessesAreLimited'
  BY <1>5, SettingsAreValid DEF SessionInv, GuessesAreCounted, GuessesAreLimited, NoCounter
<1>8. CountersExpire'
  BY <1>1, <1>4, <1>5 DEF Reset, SessionInv, CountersExpire, NoCounter
<1> HIDE DEF q
<1> QED
  BY <1>1, <1>2, <1>3, <1>6, <1>7, <1>8, LimiterStepKeepsSessionInv DEF Reset

\* A fresh pair belongs to its request alone.
LEMMA IssuePairKeepsSessionInv ==
  ASSUME SessionInv, NEW r \in Requests, IssuePair(r)
  PROVE  SessionInv'
<1>1. /\ req[r] \in Request /\ Shape(req[r]) /\ req[r].pc = "issue"
      /\ req[r].kind \in {"login", "refresh"}
  BY DEF SessionInv, TypeOK, RequestsAreShaped, IssuePair, Shape
<1>2. PICK p \in FreePairs :
        /\ pairs' = [pairs EXCEPT ![p] = [left |-> RefreshTtl, sub |-> admin, revoked |-> 0]]
        /\ spent' = spent \ {p}
        /\ req' = [req EXCEPT ![r].pair = p,
                              ![r].pc = IF req[r].kind = "login" THEN "reset" ELSE "answer"]
        /\ UNCHANGED <<counter, guesses, cookie, admin, faults>>
  BY DEF IssuePair
<1>3. p \in Pairs /\ p # None /\ cookie # p /\ \A x \in Requests : req[x].pair # p
  BY SettingsAreValid DEF FreePairs, Unremembered
<1> DEFINE q == [req[r] EXCEPT !.pair = p,
                               !.pc = IF req[r].kind = "login" THEN "reset" ELSE "answer"]
<1>4. /\ q.pair = p /\ q.kind = req[r].kind
      /\ q.pc = IF req[r].kind = "login" THEN "reset" ELSE "answer"
  BY <1>1 DEF Request
<1>5. q \in Request /\ Shape(q)
  BY <1>1, <1>3 DEF Request, Shape
<1>6. Moves(r, q)
  BY <1>2, <1>5 DEF Moves, SessionInv, TypeOK
<1>7. /\ req' \in [Requests -> Request] /\ RequestsAreShaped'
      /\ req'[r] = q /\ \A x \in Requests \ {r} : req'[x] = req[x]
  BY <1>6, MovesKeepsShapes DEF SessionInv
<1> HIDE DEF q
<1>8. /\ pairs'[p] = [left |-> RefreshTtl, sub |-> admin, revoked |-> 0]
      /\ \A o \in Pairs \ {p} : pairs'[o] = pairs[o]
  BY <1>2, <1>3 DEF SessionInv, TypeOK
<1>9. TypeOK'
  <2>1. [left |-> RefreshTtl, sub |-> admin, revoked |-> 0]
          \in [left : 0..RefreshTtl, sub : Names \cup {None}, revoked : 0..RefreshTtl]
    BY SettingsAreValid DEF SessionInv, TypeOK
  <2>2. pairs' \in [Pairs -> [left : 0..RefreshTtl, sub : Names \cup {None},
                             revoked : 0..RefreshTtl]]
    BY <1>2, <2>1 DEF SessionInv, TypeOK
  <2> QED
    BY <1>2, <1>7, <2>2 DEF SessionInv, TypeOK
<1>10. GuessesAreCounted' /\ GuessesAreLimited'
  BY <1>2 DEF SessionInv, GuessesAreCounted, GuessesAreLimited
<1>11. CountersExpire'
  BY <1>1, <1>2, <1>7 DEF SessionInv, CountersExpire
<1>12. PrivatePairsAreUnspent'
  BY <1>2, <1>3, <1>4, <1>7 DEF SessionInv, PrivatePairsAreUnspent, Private
<1>13. RevocationIsKept'
  BY <1>2, <1>8 DEF SessionInv, RevocationIsKept
<1>14. LogoutsAreDone'
  <2> SUFFICES ASSUME NEW x \in Requests, req'[x].kind = "logout", req'[x].pc = "answer"
               PROVE  \/ req'[x].pair \in spent' \cup {None}
                      \/ pairs'[req'[x].pair].left = 0
                      \/ pairs'[req'[x].pair].sub # admin'
    BY DEF LogoutsAreDone, Useless
  <2>1. x # r
    BY <1>1, <1>4, <1>7
  <2>2. req'[x] = req[x] /\ Useless(req[x].pair) /\ req[x].pair # p
    BY <1>3, <1>7, <2>1 DEF SessionInv, LogoutsAreDone
  <2>3. req[x].pair \in Pairs \cup {None}
    BY DEF SessionInv, TypeOK, Request
  <2>4. CASE req[x].pair = None
    BY <2>2, <2>4
  <2>5. CASE req[x].pair \in Pairs \ {p}
    <3>1. pairs'[req[x].pair] = pairs[req[x].pair] /\ admin' = admin
      BY <1>2, <1>8, <2>5
    <3>2. req[x].pair \in spent => req[x].pair \in spent'
      BY <1>2, <2>5
    <3>3. req[x].pair # None
      BY <2>5, SettingsAreValid
    <3> QED
      BY <2>2, <3>1, <3>2, <3>3 DEF Useless
  <2> QED
    BY <2>2, <2>3, <2>4, <2>5
<1>15. CookieIsUsable'
  <2> SUFFICES ASSUME cookie' \in spent', pairs'[cookie'].left > 0, ~(faults' > 0)
               PROVE  \E x \in Requests : /\ req'[x].kind \in {"refresh", "logout"}
                                          /\ req'[x].pc \in {"issue", "answer"}
    BY DEF CookieIsUsable
  <2>1. cookie \in spent /\ pairs[cookie].left > 0 /\ ~(faults > 0)
    BY <1>2, <1>3, <1>8 DEF SessionInv, TypeOK
  <2>2. PICK x \in Requests : req[x].kind \in {"refresh", "logout"} /\ req[x].pc \in {"issue", "answer"}
    BY <2>1 DEF SessionInv, CookieIsUsable
  <2>3. CASE x = r
    BY <1>4, <1>7, <2>2, <2>3
  <2>4. CASE x # r
    BY <1>7, <2>2, <2>4
  <2> QED
    BY <2>3, <2>4
<1> QED
  BY <1>7, <1>9, <1>10, <1>11, <1>12, <1>13, <1>14, <1>15 DEF SessionInv

\* The revocation key is set for the full life of a refresh token.
LEMMA RevokeKeepsSessionInv ==
  ASSUME SessionInv, NEW r \in Requests, Revoke(r)
  PROVE  SessionInv'
<1> DEFINE p == req[r].pair
           q == [req[r] EXCEPT !.pc = IF req[r].kind = "refresh" THEN "issue" ELSE "answer"]
<1>1. /\ req[r] \in Request /\ Shape(req[r]) /\ req[r].pc = "revoke"
      /\ p \in Pairs /\ req[r].kind \in {"refresh", "logout"}
  BY DEF SessionInv, TypeOK, RequestsAreShaped, Revoke, Shape
<1>2. /\ q.pair = p /\ q.kind = req[r].kind
      /\ q.pc = IF req[r].kind = "refresh" THEN "issue" ELSE "answer"
  BY <1>1 DEF Request
<1>3. q \in Request /\ Shape(q)
  BY <1>1 DEF Request, Shape
<1>4. Moves(r, q)
  BY <1>3 DEF Revoke, Moves, SessionInv, TypeOK
<1>5. /\ req' \in [Requests -> Request] /\ RequestsAreShaped'
      /\ req'[r] = q /\ \A x \in Requests \ {r} : req'[x] = req[x]
  BY <1>4, MovesKeepsShapes DEF SessionInv
<1>6. /\ spent' = spent \cup {p} /\ pairs' = RevokedFor(p)
      /\ UNCHANGED <<counter, guesses, cookie, admin, faults>>
  BY DEF Revoke
<1>7. /\ pairs' \in [Pairs -> [left : 0..RefreshTtl, sub : Names \cup {None},
                               revoked : 0..RefreshTtl]]
      /\ pairs'[p].revoked = RefreshTtl
      /\ \A o \in Pairs : pairs'[o].left = pairs[o].left /\ pairs'[o].sub = pairs[o].sub
      /\ \A o \in Pairs \ {p} : pairs'[o] = pairs[o]
  BY <1>1, <1>6, SettingsAreValid DEF RevokedFor, SessionInv, TypeOK
<1> HIDE DEF q, p
<1>8. TypeOK'
  BY <1>1, <1>5, <1>6, <1>7 DEF SessionInv, TypeOK
<1>9. GuessesAreCounted' /\ GuessesAreLimited'
  BY <1>6 DEF SessionInv, GuessesAreCounted, GuessesAreLimited
<1>10. CountersExpire'
  BY <1>1, <1>5, <1>6 DEF SessionInv, CountersExpire
<1>11. PrivatePairsAreUnspent'
  <2>1. ~Private(q)
    BY <1>1, <1>2 DEF Private
  <2>2. \A x \in Requests \ {r} : Private(req[x]) => req[x].pair # p
    BY DEF p, SessionInv, PrivatePairsAreUnspent
  <2> QED
    BY <1>2, <1>5, <1>6, <2>1, <2>2 DEF SessionInv, PrivatePairsAreUnspent
<1>12. RevocationIsKept'
  BY <1>1, <1>6, <1>7, SettingsAreValid DEF SessionInv, TypeOK, RevocationIsKept
<1>13. LogoutsAreDone'
  <2> SUFFICES ASSUME NEW x \in Requests, req'[x].kind = "logout", req'[x].pc = "answer"
               PROVE  \/ req'[x].pair \in spent' \cup {None}
                      \/ pairs'[req'[x].pair].left = 0
                      \/ pairs'[req'[x].pair].sub # admin'
    BY DEF LogoutsAreDone, Useless
  <2>1. CASE x = r
    BY <1>2, <1>5, <1>6, <2>1
  <2>2. CASE x # r
    <3>1. req'[x] = req[x] /\ Useless(req[x].pair) /\ req[x].pair \in Pairs \cup {None}
      BY <1>5, <2>2 DEF SessionInv, LogoutsAreDone, TypeOK, Request
    <3> QED
      BY <1>6, <1>7, <3>1 DEF Useless
  <2> QED
    BY <2>1, <2>2
<1>14. CookieIsUsable'
  <2>1. CASE cookie = p
    BY <1>1, <1>2, <1>5, <2>1 DEF CookieIsUsable
  <2>2. CASE cookie # p
    <3> SUFFICES ASSUME cookie' \in spent', pairs'[cookie'].left > 0, ~(faults' > 0)
                 PROVE  \E x \in Requests : /\ req'[x].kind \in {"refresh", "logout"}
                                            /\ req'[x].pc \in {"issue", "answer"}
      BY DEF CookieIsUsable
    <3>1. cookie \in spent /\ pairs[cookie].left > 0 /\ ~(faults > 0)
      BY <1>6, <1>7, <2>2 DEF SessionInv, TypeOK
    <3>2. PICK x \in Requests : req[x].kind \in {"refresh", "logout"} /\ req[x].pc \in {"issue", "answer"}
      BY <3>1 DEF SessionInv, CookieIsUsable
    <3> QED
      BY <1>1, <1>5, <3>2
  <2> QED
    BY <2>1, <2>2
<1> QED
  BY <1>5, <1>8, <1>9, <1>10, <1>11, <1>12, <1>13, <1>14 DEF SessionInv

\* What the answer leaves in the browser.
LEMMA CookieAfterOutcomes ==
  ASSUME NEW q \in Request
  PROVE  \/ q.kind \in {"login", "refresh"} /\ CookieAfter(q) = q.pair
         \/ q.kind = "logout" /\ CookieAfter(q) = None
         \/ q.kind = "call" /\ CookieAfter(q) = cookie
<1>1. q.kind \in {"login", "refresh"} \/ q.kind = "logout" \/ q.kind = "call"
  BY DEF Request, Kinds
<1>2. CASE q.kind \in {"login", "refresh"}
  BY <1>2 DEF CookieAfter
<1>3. CASE q.kind = "logout"
  BY <1>3 DEF CookieAfter
<1>4. CASE q.kind = "call"
  BY <1>4 DEF CookieAfter
<1> QED
  BY <1>1, <1>2, <1>3, <1>4

\* The browser is left with an unspent token, or none.
LEMMA AnswerKeepsSessionInv ==
  ASSUME SessionInv, NEW r \in Requests, Answer(r)
  PROVE  SessionInv'
<1>1. /\ req[r] \in Request /\ req[r].pc = "answer"
      /\ cookie' = CookieAfter(req[r])
      /\ UNCHANGED <<pairs, spent, counter, guesses, admin, faults>>
  BY DEF SessionInv, TypeOK, Answer
<1>2. /\ req' \in [Requests -> Request] /\ RequestsAreShaped'
      /\ req'[r] = Quiet /\ \A x \in Requests \ {r} : req'[x] = req[x]
  BY QuietIsShaped, MovesKeepsShapes DEF Answer, Moves, SessionInv
<1>3. Quiet.pc = "idle" /\ Quiet.kind = "login" /\ Quiet.pair = None
  BY DEF Quiet
<1>4. cookie' \in Pairs \cup {None}
  BY <1>1, CookieAfterOutcomes DEF SessionInv, TypeOK, Request
<1>5. TypeOK'
  BY <1>1, <1>2, <1>4 DEF SessionInv, TypeOK
<1>6. GuessesAreCounted' /\ GuessesAreLimited' /\ RevocationIsKept'
  BY <1>1 DEF SessionInv, GuessesAreCounted, GuessesAreLimited, RevocationIsKept
<1>7. CountersExpire'
  BY <1>1, <1>2 DEF SessionInv, CountersExpire
<1>8. PrivatePairsAreUnspent'
  BY <1>1, <1>2, <1>3 DEF SessionInv, PrivatePairsAreUnspent, Private
<1>9. LogoutsAreDone'
  BY <1>1, <1>2, <1>3 DEF SessionInv, LogoutsAreDone, Useless
<1>10. CookieIsUsable'
  <2>1. CASE req[r].kind = "call"
    <3>1. cookie' = cookie
      BY <1>1, <2>1, CookieAfterOutcomes
    <3> QED
      BY <1>1, <1>2, <2>1, <3>1 DEF SessionInv, CookieIsUsable
  <2>2. CASE req[r].kind # "call"
    <3>1. cookie' = None \/ (cookie' = req[r].pair /\ req[r].kind \in {"login", "refresh"})
      BY <1>1, <2>2, CookieAfterOutcomes
    <3>2. cookie' \notin spent
      BY <1>1, <3>1, SettingsAreValid
         DEF SessionInv, TypeOK, PrivatePairsAreUnspent, Private
    <3> QED
      BY <1>1, <3>2 DEF CookieIsUsable
  <2> QED
    BY <2>1, <2>2
<1> QED
  BY <1>2, <1>5, <1>6, <1>7, <1>8, <1>9, <1>10 DEF SessionInv

\* How one tick changes a counter and the guesses it counts.
LEMMA TickAgesCounters ==
  ASSUME TypeOK, NEW c \in Clients, Tick
  PROVE  /\ counter'[c] \in Counter /\ guesses'[c] \in Nat
         /\ \/ counter'[c] = NoCounter /\ guesses'[c] = 0
            \/ /\ counter'[c].n = counter[c].n /\ guesses'[c] = guesses[c]
               /\ counter'[c].ttl = NoTtl => counter[c].ttl = NoTtl
<1>1. /\ counter[c].n \in 0..(Limit + 1) /\ counter[c].ttl \in 1..NoTtl
      /\ counter[c] = [n |-> counter[c].n, ttl |-> counter[c].ttl]
      /\ counter[c].n = 0 => counter[c].ttl = NoTtl
      /\ guesses[c] \in Nat /\ counter[c] \in Counter
  BY CounterIsTyped DEF TypeOK
<1>2. guesses'[c] = IF counter[c].ttl = 1 THEN 0 ELSE guesses[c]
  BY DEF Tick
<1>6. NoTtl # 1
  BY SettingsAreValid DEF NoTtl
<1>3. CASE counter[c].ttl = 1
  <2>1. counter'[c] = NoCounter
    BY <1>3, <1>6, Zenon DEF Tick
  <2> QED
    BY <1>2, <1>3, <2>1 DEF Counter
<1>4. CASE counter[c].ttl = NoTtl
  <2>1. counter'[c] = counter[c]
    BY <1>4, <1>6, Zenon DEF Tick
  <2> QED
    BY <1>1, <1>2, <1>4, <1>6, <2>1
<1>5. CASE counter[c].ttl # 1 /\ counter[c].ttl # NoTtl
  <2>1. counter'[c] = [counter[c] EXCEPT !.ttl = counter[c].ttl - 1]
    BY <1>5, Zenon DEF Tick
  <2>2. PICK t \in 1..NoTtl : t = counter[c].ttl - 1 /\ t # NoTtl
    BY <1>1, <1>5, SettingsAreValid DEF NoTtl
  <2>3. counter'[c] = [n |-> counter[c].n, ttl |-> t]
    BY <1>1, <2>1, <2>2
  <2>4. [n |-> counter[c].n, ttl |-> t] \in Counter
    BY <1>1, <1>5, <2>2 DEF Counter
  <2> QED
    BY <1>1, <1>2, <1>5, <2>2, <2>3, <2>4
<1> QED
  BY <1>3, <1>4, <1>5

\* How one tick changes a token pair.
LEMMA TickAgesPairs ==
  ASSUME SessionInv, NEW p \in Pairs, Tick
  PROVE  /\ pairs'[p] \in [left : 0..RefreshTtl, sub : Names \cup {None}, revoked : 0..RefreshTtl]
         /\ \/ pairs'[p] = NoPair /\ p \notin spent' /\ Unremembered(p)
            \/ /\ pairs'[p].left = Less(pairs[p].left) /\ pairs'[p].sub = pairs[p].sub
               /\ pairs'[p].revoked = Less(pairs[p].revoked)
               /\ p \in spent' <=> p \in spent
<1> DEFINE gone == Aged(p).left = 0 /\ Unremembered(p)
<1>1. /\ pairs[p] \in [left : 0..RefreshTtl, sub : Names \cup {None}, revoked : 0..RefreshTtl]
      /\ pairs[p].left \in Nat /\ pairs[p].revoked \in Nat
  BY SettingsAreValid DEF SessionInv, TypeOK
<1>2. CASE gone
  <2>1. pairs'[p] = NoPair /\ p \notin spent'
    BY <1>2 DEF Tick
  <2> QED
    BY <1>2, <2>1, SettingsAreValid DEF NoPair
<1>3. CASE ~gone
  <2>1. pairs'[p] = Aged(p) /\ (p \in spent' <=> p \in spent)
    BY <1>3 DEF Tick
  <2>2. Less(pairs[p].left) \in 0..RefreshTtl /\ Less(pairs[p].revoked) \in 0..RefreshTtl
    BY <1>1, SettingsAreValid DEF Less
  <2>3. Aged(p) \in [left : 0..RefreshTtl, sub : Names \cup {None}, revoked : 0..RefreshTtl]
    BY <1>1, <2>2 DEF Aged
  <2>4. /\ Aged(p).left = Less(pairs[p].left) /\ Aged(p).sub = pairs[p].sub
        /\ Aged(p).revoked = Less(pairs[p].revoked)
    BY <1>1 DEF Aged
  <2> QED
    BY <2>1, <2>3, <2>4
<1> QED
  BY <1>2, <1>3

\* Tokens, revocations and counters age together.
LEMMA TickKeepsSessionInv ==
  ASSUME SessionInv, Tick
  PROVE  SessionInv'
<1>1. UNCHANGED <<req, cookie, admin, faults>> /\ spent' \subseteq spent
  BY DEF Tick
<1>2. TypeOK'
  <2>1. counter' \in [Clients -> Counter] /\ guesses' \in [Clients -> Nat]
    <3>1. \A c \in Clients : counter'[c] \in Counter /\ guesses'[c] \in Nat
      BY TickAgesCounters DEF SessionInv
    <3>2. counter' = [c \in Clients |-> counter'[c]] /\ guesses' = [c \in Clients |-> guesses'[c]]
      BY DEF Tick
    <3> QED
      BY <3>1, <3>2
  <2>2. pairs' \in [Pairs -> [left : 0..RefreshTtl, sub : Names \cup {None}, revoked : 0..RefreshTtl]]
    <3>1. pairs' = [p \in Pairs |-> pairs'[p]]
      BY DEF Tick
    <3> QED
      BY <3>1, TickAgesPairs
  <2> QED
    BY <1>1, <2>1, <2>2 DEF SessionInv, TypeOK
<1>3. RequestsAreShaped'
  BY <1>1 DEF SessionInv, RequestsAreShaped
<1>4. GuessesAreCounted' /\ GuessesAreLimited' /\ CountersExpire'
  <2> SUFFICES ASSUME NEW c \in Clients
               PROVE  /\ guesses'[c] <= counter'[c].n /\ guesses'[c] <= Limit
                      /\ counter'[c].n > 0 /\ counter'[c].ttl = NoTtl =>
                           \/ faults' > 0
                           \/ \E r \in Requests : req'[r].pc = "window" /\ req'[r].client = c
    BY DEF GuessesAreCounted, GuessesAreLimited, CountersExpire
  <2>1. CASE counter'[c] = NoCounter /\ guesses'[c] = 0
    BY <2>1, SettingsAreValid DEF NoCounter
  <2>2. CASE /\ counter'[c].n = counter[c].n /\ guesses'[c] = guesses[c]
             /\ counter'[c].ttl = NoTtl => counter[c].ttl = NoTtl
    BY <1>1, <2>2 DEF SessionInv, GuessesAreCounted, GuessesAreLimited, CountersExpire
  <2> QED
    BY <2>1, <2>2, TickAgesCounters DEF SessionInv
<1>5. PrivatePairsAreUnspent'
  BY <1>1 DEF SessionInv, PrivatePairsAreUnspent, Private
<1>6. \A p \in Pairs : /\ pairs[p].left \in Nat /\ pairs[p].revoked \in Nat
                       /\ pairs'[p].left \in Nat /\ pairs'[p].revoked \in Nat
  BY <1>2, SettingsAreValid DEF SessionInv, TypeOK
<1>7. RevocationIsKept'
  <2> SUFFICES ASSUME NEW p \in Pairs
               PROVE  /\ p \in spent' => pairs'[p].revoked >= pairs'[p].left
                      /\ pairs'[p].revoked > 0 => p \in spent'
    BY DEF RevocationIsKept
  <2>1. CASE pairs'[p] = NoPair /\ p \notin spent'
    BY <2>1 DEF NoPair
  <2>2. CASE /\ pairs'[p].left = Less(pairs[p].left) /\ pairs'[p].revoked = Less(pairs[p].revoked)
             /\ p \in spent' <=> p \in spent
    BY <1>6, <2>2 DEF Less, SessionInv, RevocationIsKept
  <2> QED
    BY <2>1, <2>2, TickAgesPairs
<1>8. LogoutsAreDone'
  <2> SUFFICES ASSUME NEW x \in Requests, req[x].kind = "logout", req[x].pc = "answer",
                      req[x].pair # None
               PROVE  \/ req[x].pair \in spent'
                      \/ pairs'[req[x].pair].left = 0
                      \/ pairs'[req[x].pair].sub # admin
    BY <1>1 DEF LogoutsAreDone, Useless
  <2>1. Useless(req[x].pair) /\ req[x].pair \in Pairs
    BY DEF SessionInv, LogoutsAreDone, TypeOK, Request
  <2>2. ~Unremembered(req[x].pair)
    BY DEF Unremembered
  <2> QED
    BY <1>6, <2>1, <2>2, TickAgesPairs DEF Useless, Less
<1>9. CookieIsUsable'
  <2> SUFFICES ASSUME cookie \in spent', pairs'[cookie].left > 0
               PROVE  cookie \in spent /\ pairs[cookie].left > 0
    BY <1>1 DEF SessionInv, CookieIsUsable
  <2>1. cookie \in Pairs /\ cookie \in spent
    BY <1>1 DEF SessionInv, TypeOK
  <2> QED
    BY <1>6, <2>1, TickAgesPairs DEF Less, NoPair
<1> QED
  BY <1>2, <1>3, <1>4, <1>5, <1>7, <1>8, <1>9 DEF SessionInv

\* A dropped cookie is no token at all.
LEMMA CookieExpiresKeepsSessionInv ==
  ASSUME SessionInv, CookieExpires
  PROVE  SessionInv'
<1>1. cookie' = None /\ UNCHANGED <<pairs, spent, counter, guesses, req, admin, faults>>
  BY DEF CookieExpires
<1>2. TypeOK' /\ CookieIsUsable'
  BY <1>1, SettingsAreValid DEF SessionInv, TypeOK, CookieIsUsable
<1> QED
  BY <1>1, <1>2 DEF SessionInv, RequestsAreShaped, GuessesAreCounted, GuessesAreLimited,
     CountersExpire, PrivatePairsAreUnspent, RevocationIsKept, LogoutsAreDone, Useless

\* A failure leaves requests either as they were or quiet.
LEMMA FailuresKeepSessionInv ==
  ASSUME SessionInv,
         \/ \E r \in Requests : RequestFails(r)
         \/ \E name \in Names : Restart(name)
  PROVE  SessionInv'
<1>1. /\ faults' \in 1..MaxFaults /\ UNCHANGED <<pairs, spent, counter, guesses, cookie>>
      /\ admin' \in Names
  BY SettingsAreValid DEF RequestFails, Restart, SessionInv, TypeOK
<1>2. /\ req' \in [Requests -> Request]
      /\ \A x \in Requests : req'[x] = Quiet \/ (req'[x] = req[x] /\ admin' = admin)
  BY QuietIsShaped DEF RequestFails, Restart, SessionInv, TypeOK
<1>3. Quiet.pc = "idle" /\ Quiet.kind = "login" /\ Quiet.pair = None
  BY DEF Quiet
<1>4. TypeOK'
  BY <1>1, <1>2 DEF SessionInv, TypeOK
<1>5. RequestsAreShaped'
  BY <1>2, QuietIsShaped DEF SessionInv, RequestsAreShaped, Shape
<1>6. /\ GuessesAreCounted' /\ GuessesAreLimited' /\ RevocationIsKept'
      /\ CountersExpire' /\ CookieIsUsable'
  BY <1>1 DEF SessionInv, GuessesAreCounted, GuessesAreLimited, RevocationIsKept,
     CountersExpire, CookieIsUsable
<1>7. PrivatePairsAreUnspent'
  BY <1>1, <1>2, <1>3 DEF SessionInv, PrivatePairsAreUnspent, Private
<1>8. LogoutsAreDone'
  BY <1>1, <1>2, <1>3 DEF SessionInv, LogoutsAreDone, Useless
<1> QED
  BY <1>4, <1>5, <1>6, <1>7, <1>8 DEF SessionInv

\* Nobody has logged in yet.
LEMMA InitEstablishesSessionInv == Init => SessionInv
<1> SUFFICES ASSUME Init
             PROVE  SessionInv
  OBVIOUS
<1>1. Quiet.pc = "idle" /\ Quiet.kind = "login" /\ Quiet.pair = None
  BY DEF Quiet
<1>2. NoPair \in [left : 0..RefreshTtl, sub : Names \cup {None}, revoked : 0..RefreshTtl]
  BY SettingsAreValid DEF NoPair
<1>3. TypeOK
  BY <1>2, QuietIsShaped, SettingsAreValid DEF Init, TypeOK, Counter
<1>4. GuessesAreCounted /\ GuessesAreLimited /\ CountersExpire
  BY SettingsAreValid
     DEF Init, GuessesAreCounted, GuessesAreLimited, CountersExpire, NoCounter
<1>5. RequestsAreShaped /\ PrivatePairsAreUnspent /\ LogoutsAreDone
  BY <1>1, QuietIsShaped
     DEF Init, RequestsAreShaped, PrivatePairsAreUnspent, Private, LogoutsAreDone
<1>6. RevocationIsKept /\ CookieIsUsable
  BY SettingsAreValid DEF Init, RevocationIsKept, CookieIsUsable, NoPair
<1> QED
  BY <1>3, <1>4, <1>5, <1>6 DEF SessionInv

\* Every step keeps the invariant.
LEMMA StepKeepsSessionInv == SessionInv /\ [Next]_vars => SessionInv'
<1> SUFFICES ASSUME SessionInv, [Next]_vars
             PROVE  SessionInv'
  OBVIOUS
<1>1. ASSUME NEW r \in Requests, Begin(r)
      PROVE  SessionInv'
  BY <1>1, BeginLoginKeepsSessionInv, PresentKeepsSessionInv DEF Begin
<1>2. ASSUME NEW r \in Requests, Step(r)
      PROVE  SessionInv'
  BY <1>2, HitKeepsSessionInv, SetWindowKeepsSessionInv, IssuePairKeepsSessionInv,
     ResetKeepsSessionInv, CheckKeepsSessionInv, RevokeKeepsSessionInv,
     AnswerKeepsSessionInv DEF Step
<1>3. CASE \/ \E r \in Requests : RequestFails(r)
           \/ \E name \in Names : Restart(name)
  BY <1>3, FailuresKeepSessionInv
<1>4. CASE Tick \/ CookieExpires
  BY <1>4, TickKeepsSessionInv, CookieExpiresKeepsSessionInv
<1>5. CASE UNCHANGED vars
  BY <1>5 DEF vars, SessionInv, TypeOK, RequestsAreShaped, GuessesAreCounted,
     GuessesAreLimited, CountersExpire, PrivatePairsAreUnspent, RevocationIsKept,
     LogoutsAreDone, Useless, CookieIsUsable
<1> QED
  BY <1>1, <1>2, <1>3, <1>4, <1>5 DEF Next

\* The invariant holds in every reachable state.
LEMMA SessionInvHolds == Spec => []SessionInv
<1> QED
  BY InitEstablishesSessionInv, StepKeepsSessionInv, PTL DEF Spec

\* Only a request's own steps, its failure and a restart move it.
LEMMA RequestsMoveThemselves ==
  ASSUME TypeOK, Next, NEW r \in Requests, req'[r] # req[r]
  PROVE  Begin(r) \/ Step(r) \/ RequestFails(r) \/ \E name \in Names : Restart(name)
<1>1. ASSUME NEW x \in Requests \ {r}, Begin(x) \/ Step(x) \/ RequestFails(x)
      PROVE  req'[r] = req[r]
  <2>1. CASE Begin(x)
    BY <2>1 DEF Begin, BeginLogin, Present, TypeOK
  <2>2. CASE Hit(x) \/ SetWindow(x)
    BY <2>2 DEF Hit, SetWindow, Judged, TypeOK
  <2>3. CASE IssuePair(x) \/ Reset(x) \/ Check(x)
    BY <2>3 DEF IssuePair, Reset, Check, TypeOK
  <2>4. CASE Revoke(x) \/ Answer(x) \/ RequestFails(x)
    BY <2>4 DEF Revoke, Answer, RequestFails, TypeOK
  <2> QED
    BY <1>1, <2>1, <2>2, <2>3, <2>4 DEF Step
<1>2. Tick \/ CookieExpires => req'[r] = req[r]
  BY DEF Tick, CookieExpires
<1> QED
  BY <1>1, <1>2 DEF Next

-----------------------------------------------------------------------------
(* Theorems.                                                               *)

\* Every variable keeps its type; a delayed PEXPIRE of the rate limiter never
\* brings back a counter without attempts.
THEOREM TypeCorrect == Spec => []TypeOK
<1>1. SessionInv => TypeOK
  BY DEF SessionInv
<1> QED
  BY <1>1, SessionInvHolds, PTL

\* RedisRateLimiter lets at most login_rate_limit attempts of a window through
\* to the password, however many requests overlap.
THEOREM GuessingIsLimited == Spec => []GuessesAreLimited
<1>1. SessionInv => GuessesAreLimited
  BY DEF SessionInv
<1> QED
  BY <1>1, SessionInvHolds, PTL

\* RedisRateLimiter.hit: without a failure, a counter that has no expiry is
\* about to get one from the request that found it so.
THEOREM NoCounterIsLeftBehind == Spec => []CountersExpire
<1>1. SessionInv => CountersExpire
  BY DEF SessionInv
<1> QED
  BY <1>1, SessionInvHolds, PTL

\* Rotations and logouts that overlap never leave the browser with a spent
\* token once they are answered, as long as no request fails.
THEOREM TheCookieStaysUsable == Spec => []CookieIsUsable
<1>1. SessionInv => CookieIsUsable
  BY DEF SessionInv
<1> QED
  BY <1>1, SessionInvHolds, PTL

\* A verdict on a login is never given while the counter behind it would stay
\* for ever: hit has set its expiry, or found one, before it answers.
THEOREM VerdictsComeWithExpiry == Spec => NoVerdictWithoutExpiry
<1>1. ASSUME SessionInv, Next, NEW r \in Requests,
             req[r].pc \in {"hit", "window"}, req'[r].pc \in {"issue", "idle"}, faults' = faults
      PROVE  counter'[req[r].client].n = 0 \/ counter'[req[r].client].ttl # NoTtl
  <2> DEFINE c == req[r].client
  <2>1. req[r] \in Request /\ c \in Clients
    BY <1>1 DEF SessionInv, TypeOK, RequestsAreShaped, Shape
  <2>2. ~RequestFails(r) /\ ~\E name \in Names : Restart(name)
    BY <1>1 DEF RequestFails, Restart, SessionInv, TypeOK
  <2>3. ~Begin(r)
    BY <1>1 DEF Begin, BeginLogin, Present
  <2>4. Step(r)
    BY <1>1, <2>2, <2>3, RequestsMoveThemselves DEF SessionInv
  <2>5. Hit(r) \/ SetWindow(r)
    BY <1>1, <2>4 DEF Step, IssuePair, Reset, Check, Revoke, Answer
  <2>6. counter[c] = [n |-> counter[c].n, ttl |-> counter[c].ttl] /\ counter[c].n \in Nat
    <3>1. counter[c].n \in 0..(Limit + 1) /\ counter[c] = [n |-> counter[c].n, ttl |-> counter[c].ttl]
      BY <1>1, <2>1, CounterIsTyped DEF SessionInv
    <3> QED
      BY <3>1, SettingsAreValid
  <2>7. CASE Hit(r)
    <3>1. ~NeedsWindow(c)
      <4>1. PICK good : NeedsWindow(c) =>
                   req' = [req EXCEPT ![r] = [req[r] EXCEPT !.pc = "window", !.good = good]]
        BY <1>1, <2>7, Zenon DEF Hit
      <4>2. [req[r] EXCEPT !.pc = "window", !.good = good].pc = "window"
        BY <2>1 DEF Request
      <4> QED
        BY <1>1, <4>1, <4>2 DEF SessionInv, TypeOK
    <3>2. counter'[c].ttl = counter[c].ttl
      BY <2>1, <2>6, <2>7 DEF Hit, SessionInv, TypeOK
    <3> QED
      BY <3>1, <3>2 DEF NeedsWindow
  <2>8. CASE SetWindow(r)
    <3>1. /\ counter'[c].n = counter[c].n
          /\ counter[c].n > 0 => counter'[c].ttl = Window
      <4>1. counter' = [counter EXCEPT ![c].ttl = IF counter[c].n > 0 THEN Window ELSE @]
        BY <2>8 DEF SetWindow, WindowOpened
      <4>2. counter'[c] = [n   |-> counter[c].n,
                           ttl |-> IF counter[c].n > 0 THEN Window ELSE counter[c].ttl]
        BY <1>1, <2>1, <2>6, <4>1 DEF SessionInv, TypeOK
      <4> QED
        BY <4>2
    <3> QED
      BY <2>6, <3>1, SettingsAreValid DEF NoTtl
  <2> QED
    BY <2>5, <2>7, <2>8
<1>2. SessionInv /\ [Next]_vars =>
        [\A r \in Requests :
           req[r].pc \in {"hit", "window"} /\ req'[r].pc \in {"issue", "idle"} /\ faults' = faults
             => LET k == counter'[req[r].client] IN k.n = 0 \/ k.ttl # NoTtl]_vars
  BY <1>1
<1> QED
  BY <1>2, SessionInvHolds, PTL DEF Spec, NoVerdictWithoutExpiry

\* authenticate never accepts a token that was rotated or logged out before its
\* check, nor one token in the place of the other.
THEOREM RevokedTokensAreRefused == Spec => AcceptsOnlyLiveTokens
<1>1. ASSUME SessionInv, Next, NEW r \in Requests, req[r].pc = "check",
             req'[r].pc = "revoke" \/ (req[r].kind = "call" /\ req'[r].pc = "answer")
      PROVE  /\ req[r].type = IF req[r].kind = "call" THEN "access" ELSE "refresh"
             /\ req[r].type = "refresh" /\ pairs[req[r].pair].left > 0 =>
                  req[r].pair \notin spent
  <2>1. /\ req[r] \in Request /\ req[r].pair \in Pairs
        /\ req[r].kind \in {"refresh", "logout", "call"} /\ Expects(req[r].kind, req[r].type)
    BY <1>1 DEF SessionInv, TypeOK, RequestsAreShaped, Shape, Request, Kinds
  <2>2. ~RequestFails(r) /\ ~\E name \in Names : Restart(name)
    BY <1>1 DEF RequestFails, Restart, SessionInv, TypeOK, Quiet
  <2>3. ~Begin(r)
    BY <1>1 DEF Begin, BeginLogin, Present
  <2>4. Check(r)
    <3>1. Step(r)
      BY <1>1, <2>2, <2>3, RequestsMoveThemselves DEF SessionInv
    <3> QED
      BY <1>1, <3>1 DEF Step, Hit, SetWindow, IssuePair, Reset, Revoke, Answer
  <2> DEFINE ok == ~IsRevoked(req[r].pair, req[r].type) /\ pairs[req[r].pair].sub = admin
  <2>5. req'[r].pc = AfterCheck(req[r].kind, ok)
    <3> DEFINE pc == AfterCheck(req[r].kind, ok)
    <3>1. req' = [req EXCEPT ![r] = IF pc = "idle" THEN Quiet ELSE [req[r] EXCEPT !.pc = pc]]
      BY <2>4 DEF Check
    <3> HIDE DEF pc
    <3>2. [req[r] EXCEPT !.pc = pc].pc = pc /\ Quiet.pc = "idle"
      BY <2>1 DEF Request, Quiet
    <3> QED
      BY <1>1, <3>1, <3>2 DEF SessionInv, TypeOK, pc
  <2>6. ok
    <3>1. ok \in BOOLEAN
      OBVIOUS
    <3> HIDE DEF ok
    <3>2. req'[r].pc # "idle"
      BY <1>1
    <3> QED
      BY <1>1, <2>1, <2>5, <3>1, <3>2, AfterCheckOutcomes
  <2>7. req[r].type = "refresh" => ~(pairs[req[r].pair].revoked > 0)
    BY <2>6 DEF IsRevoked
  <2>8. /\ pairs[req[r].pair].left \in Nat /\ pairs[req[r].pair].revoked \in Nat
        /\ req[r].pair \in spent => pairs[req[r].pair].revoked >= pairs[req[r].pair].left
    BY <1>1, <2>1, SettingsAreValid DEF SessionInv, TypeOK, RevocationIsKept
  <2> QED
    BY <2>1, <2>7, <2>8 DEF Expects
<1>2. SessionInv /\ [Next]_vars =>
        [\A r \in Requests :
           LET q == req[r]
           IN  /\ q.pc = "check" /\ (req'[r].pc = "revoke" \/ (q.kind = "call" /\ req'[r].pc = "answer"))
               => /\ q.type = IF q.kind = "call" THEN "access" ELSE "refresh"
                  /\ q.type = "refresh" /\ pairs[q.pair].left > 0 => q.pair \notin spent]_vars
  BY <1>1
<1> QED
  BY <1>2, SessionInvHolds, PTL DEF Spec, AcceptsOnlyLiveTokens

\* A logout that is answered has put its token out of use, whatever overtook it.
THEOREM LogoutsEndTokens == Spec => LogoutEndsTheToken
<1>1. SessionInv =>
        [\A r \in Requests :
           LET q == req[r]
           IN  q.kind = "logout" /\ q.pc = "answer" /\ req'[r].pc = "idle" =>
                 \/ q.pair \in spent \cup {None}
                 \/ pairs[q.pair].left = 0 \/ pairs[q.pair].sub # admin]_vars
  BY DEF SessionInv, LogoutsAreDone, Useless
<1> QED
  BY <1>1, SessionInvHolds, PTL DEF Spec, LogoutEndsTheToken
=============================================================================
