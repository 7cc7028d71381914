---------------------------- MODULE AdminSession ----------------------------
(***************************************************************************)
(* The administrator's session: login behind a rate limiter, rotation of   *)
(* refresh tokens, logout, and the bearer check of every panel request.    *)
(*                                                                         *)
(* Requests run concurrently in one event loop and meet in Redis only:     *)
(* each action below is what a request does up to its next await.  A token *)
(* pair is one slot; both of its tokens are issued at the same moment, so  *)
(* `left` (ticks until the refresh token expires) dates both.  Slots are   *)
(* used again once nothing remembers them: a jti is fresh.                 *)
(***************************************************************************)
EXTENDS Naturals

CONSTANTS
  Requests,    \* concurrent HTTP requests
  Clients,     \* rate-limiter keys: client address and lower-cased username
  Pairs,       \* slots for token pairs (a bound on the pairs alive at once)
  Names,       \* administrator usernames of successive deployments
  None,        \* no cookie, no pair
  RefreshTtl,  \* refresh_token_ttl_days, in ticks
  AccessTtl,   \* access_token_ttl_minutes, in ticks
  Limit,       \* login_rate_limit
  Window,      \* login_rate_window_seconds, in ticks
  MaxFaults    \* requests and processes that may fail

ASSUME SettingsAreValid ==
  /\ RefreshTtl \in Nat \ {0} /\ AccessTtl \in 1..RefreshTtl
  /\ Limit \in Nat \ {0} /\ Window \in Nat \ {0} /\ MaxFaults \in Nat
  /\ None \notin Pairs /\ Names # {}

VARIABLES
  pairs,     \* pairs[p]: lifetime left, subject, and TTL of the revocation key
  spent,     \* pairs whose refresh token was revoked (a history variable)
  counter,   \* counter[c]: the Redis counter under limiter key c and its TTL
  guesses,   \* attempts let through in the current window (a history variable)
  req,       \* req[r]: what request r is doing
  cookie,    \* the refresh token in the administrator's browser
  admin,     \* ADMIN_USERNAME of the running process
  faults

vars == <<pairs, spent, counter, guesses, req, cookie, admin, faults>>

TokenTypes == {"access", "refresh"}

Kinds == {"login", "refresh", "logout", "call"}

NoTtl == Window + 1    \* PTTL < 0: no key, or a key without an expiry

Quiet == [pc |-> "idle", kind |-> "login", client |-> None, good |-> FALSE,
          pair |-> None, type |-> "refresh"]

NoPair == [left |-> 0, sub |-> None, revoked |-> 0]

Request == [pc     : {"idle", "hit", "window", "issue", "reset", "check", "revoke", "answer"},
            kind   : Kinds,
            client : Clients \cup {None},
            good   : BOOLEAN,            \* right credentials, not refused so far
            pair   : Pairs \cup {None},  \* the token presented, or being returned
            type   : TokenTypes]

NoCounter == [n |-> 0, ttl |-> NoTtl]

\* A key that exists counts at least one attempt; counts above the limit are one.
Counter == {NoCounter} \cup [n : 1..(Limit + 1), ttl : 1..NoTtl]

-----------------------------------------------------------------------------
(* Tokens.                                                                 *)

\* _decode: the signature is ours and the token has not expired.
Decodes(p, type) ==
  pairs[p].left > (IF type = "refresh" THEN 0 ELSE RefreshTtl - AccessTtl)

\* The type each endpoint expects.
Expects(kind, type) == type = IF kind = "call" THEN "access" ELSE "refresh"

\* is_revoked: EXISTS on the jti.  Only refresh tokens are ever put on the list.
IsRevoked(p, type) == type = "refresh" /\ pairs[p].revoked > 0

Unremembered(p) == cookie # p /\ \A r \in Requests : req[r].pair # p

\* Slots of expired tokens that no request or browser holds.
FreePairs ==
  {p \in Pairs : pairs[p].left = 0 /\ Unremembered(p)}

\* _issue_pair and _encode: two fresh jti, both dated now, in any free slot.
IssuePair(r) ==
  \E p \in FreePairs :
    /\ req[r].pc = "issue"
    /\ pairs' = [pairs EXCEPT ![p] = [left |-> RefreshTtl, sub |-> admin, revoked |-> 0]]
    /\ spent' = spent \ {p}
    /\ req' = [req EXCEPT ![r].pair = p,
                          ![r].pc = IF req[r].kind = "login" THEN "reset" ELSE "answer"]
    /\ UNCHANGED <<counter, guesses, cookie, admin, faults>>

\* Deviation: a refresh token's jti is remembered for an access token's life.
RevokedForAccessLife(p) == [pairs EXCEPT ![p].revoked = AccessTtl]

\* _revoke: SET px, remembered for the full life of a refresh token.
RevokedFor(p) == [pairs EXCEPT ![p].revoked = RefreshTtl]

-----------------------------------------------------------------------------
(* POST /auth/login behind RedisRateLimiter.                               *)

BeginLogin(r, c, good) ==
  /\ req[r].pc = "idle"
  /\ req' = [req EXCEPT ![r] = [Quiet EXCEPT !.pc = "hit", !.client = c, !.good = good]]
  /\ UNCHANGED <<pairs, spent, counter, guesses, cookie, admin, faults>>

\* Deviation: one attempt too many.
AllowedOneMore(n) == n <= Limit + 1

Allowed(n) == n <= Limit

\* Past the limiter AuthService.login compares without awaiting: 429 and 401 end
\* the request, right credentials lead to a pair.
Judged(r, good) ==
  IF good THEN [req EXCEPT ![r].pc = "issue", ![r].good = FALSE]
  ELSE [req EXCEPT ![r] = Quiet]

\* Deviation: only an attempt that creates the key gives it an expiry.
NeedsWindowWhenNew(c) == counter[c].n = 0

\* PTTL < 0: the first hit of a window, or a key left without an expiry.
NeedsWindow(c) == counter[c].ttl = NoTtl

\* hit: MULTI INCR, PTTL.
Hit(r) ==
  LET c == req[r].client
      n == counter[c].n + 1
      good == req[r].good /\ Allowed(n)
  IN  /\ req[r].pc = "hit"
      /\ counter' = [counter EXCEPT ![c].n = IF @ > Limit THEN @ ELSE n]
      /\ guesses' = [guesses EXCEPT ![c] = IF Allowed(n) THEN @ + 1 ELSE @]
      /\ req' = IF NeedsWindow(c)
                THEN [req EXCEPT ![r].pc = "window", ![r].good = good]
                ELSE Judged(r, good)
      /\ UNCHANGED <<pairs, spent, cookie, admin, faults>>

\* PEXPIRE: without a key it has no effect.
WindowOpened(c) == [counter EXCEPT ![c].ttl = IF counter[c].n > 0 THEN Window ELSE @]

SetWindow(r) ==
  /\ req[r].pc = "window"
  /\ counter' = WindowOpened(req[r].client)
  /\ req' = Judged(r, req[r].good)
  /\ UNCHANGED <<pairs, spent, guesses, cookie, admin, faults>>

\* reset: DEL, after a successful login.
Reset(r) ==
  LET c == req[r].client
  IN  /\ req[r].pc = "reset"
      /\ counter' = [counter EXCEPT ![c] = NoCounter]
      /\ guesses' = [guesses EXCEPT ![c] = 0]
      /\ req' = [req EXCEPT ![r].pc = "answer"]
      /\ UNCHANGED <<pairs, spent, cookie, admin, faults>>

-----------------------------------------------------------------------------
(* POST /auth/refresh, POST /auth/logout and the bearer check.             *)

\* Nobody holds a token before the answer that carries it has arrived.
Known(p) ==
  \A r \in Requests :
    req[r].pair = p => ~(req[r].kind = "login" \/ (req[r].kind = "refresh" /\ req[r].pc = "answer"))

\* A token is presented, in the cookie, the body or the header.  One that does
\* not decode or is of the other type ends the request (401), except that a
\* logout answers 204 and deletes the cookie all the same.
Present(r, kind, p, type) ==
  LET fine == Decodes(p, type) /\ Expects(kind, type)
  IN  /\ req[r].pc = "idle" /\ Known(p)
      /\ \/ /\ fine
            /\ req' = [req EXCEPT ![r] = [Quiet EXCEPT !.pc = "check", !.kind = kind,
                                                       !.pair = p, !.type = type]]
         \/ /\ ~fine /\ kind = "logout"
            /\ req' = [req EXCEPT ![r] = [Quiet EXCEPT !.pc = "answer", !.kind = kind]]
      /\ UNCHANGED <<pairs, spent, counter, guesses, cookie, admin, faults>>

\* Deviation: a logout only clears the cookie.
AfterCheckWithoutLogout(kind, accepted) ==
  CASE accepted /\ kind = "refresh" -> "revoke"
    [] kind \in {"logout", "call"} -> "answer"
    [] OTHER -> "idle"

\* What follows authenticate: a stale logout is answered like any other, the
\* other endpoints answer 401.
AfterCheck(kind, accepted) ==
  IF accepted /\ kind \in {"refresh", "logout"} THEN "revoke"
  ELSE IF accepted \/ kind = "logout" THEN "answer"
  ELSE "idle"

\* authenticate, past its await: the revocation list, then the subject.
Check(r) ==
  LET q == req[r]
      pc == AfterCheck(q.kind, ~IsRevoked(q.pair, q.type) /\ pairs[q.pair].sub = admin)
  IN  /\ q.pc = "check"
      /\ req' = [req EXCEPT ![r] = IF pc = "idle" THEN Quiet ELSE [q EXCEPT !.pc = pc]]
      /\ UNCHANGED <<pairs, spent, counter, guesses, cookie, admin, faults>>

Revoke(r) ==
  /\ req[r].pc = "revoke"
  /\ pairs' = RevokedFor(req[r].pair)
  /\ spent' = spent \cup {req[r].pair}
  /\ req' = [req EXCEPT ![r].pc = IF req[r].kind = "refresh" THEN "issue" ELSE "answer"]
  /\ UNCHANGED <<counter, guesses, cookie, admin, faults>>

\* Deviation: a rotation returns the pair without setting the cookie.
CookieAfterWithoutRotation(q) ==
  CASE q.kind = "login"  -> q.pair
    [] q.kind = "logout" -> None
    [] OTHER -> cookie

\* set_cookie, delete_cookie.
CookieAfter(q) ==
  CASE q.kind \in {"login", "refresh"} -> q.pair
    [] q.kind = "logout" -> None
    [] OTHER -> cookie

\* The answer reaches the browser.
Answer(r) ==
  /\ req[r].pc = "answer"
  /\ cookie' = CookieAfter(req[r])
  /\ req' = [req EXCEPT ![r] = Quiet]
  /\ UNCHANGED <<pairs, spent, counter, guesses, admin, faults>>

-----------------------------------------------------------------------------
(* Time and faults.                                                        *)

Less(n) == IF n = 0 THEN 0 ELSE n - 1

Aged(p) == [pairs[p] EXCEPT !.left = Less(@), !.revoked = Less(@)]

\* One tick: tokens age, Redis drops the keys whose time has come.  What is
\* known of a token that nothing remembers is forgotten with it.
Tick ==
  LET closed(c)  == counter[c].ttl = 1
      forgotten == {p \in Pairs : Aged(p).left = 0 /\ Unremembered(p)}
  IN  /\ pairs' = [p \in Pairs |-> IF p \in forgotten THEN NoPair ELSE Aged(p)]
      /\ spent' = spent \ forgotten
      /\ counter' = [c \in Clients |->
                       CASE closed(c) -> NoCounter
                         [] counter[c].ttl = NoTtl -> counter[c]
                         [] OTHER -> [counter[c] EXCEPT !.ttl = @ - 1]]
      /\ guesses' = [c \in Clients |-> IF closed(c) THEN 0 ELSE guesses[c]]
      /\ UNCHANGED <<req, cookie, admin, faults>>

\* max_age: the browser drops a cookie whose token has expired.
CookieExpires ==
  /\ cookie # None /\ pairs[cookie].left = 0
  /\ cookie' = None
  /\ UNCHANGED <<pairs, spent, counter, guesses, req, admin, faults>>

\* A Redis call raises (500), or the answer is lost.
RequestFails(r) ==
  /\ faults < MaxFaults /\ faults' = faults + 1
  /\ req[r].pc # "idle"
  /\ req' = [req EXCEPT ![r] = Quiet]
  /\ UNCHANGED <<pairs, spent, counter, guesses, cookie, admin>>

\* The API process is restarted, perhaps with another ADMIN_USERNAME.
Restart(name) ==
  /\ faults < MaxFaults /\ faults' = faults + 1
  /\ req' = [r \in Requests |-> Quiet]
  /\ admin' = name
  /\ UNCHANGED <<pairs, spent, counter, guesses, cookie>>

-----------------------------------------------------------------------------
Init ==
  /\ admin \in Names
  /\ pairs = [p \in Pairs |-> NoPair]
  /\ spent = {}
  /\ counter = [c \in Clients |-> NoCounter]
  /\ guesses = [c \in Clients |-> 0]
  /\ req = [r \in Requests |-> Quiet]
  /\ cookie = None
  /\ faults = 0

Begin(r) ==
  \/ \E c \in Clients, good \in BOOLEAN : BeginLogin(r, c, good)
  \/ \E kind \in Kinds \ {"login"}, p \in Pairs, type \in TokenTypes : Present(r, kind, p, type)

Step(r) ==
  \/ Hit(r) \/ SetWindow(r) \/ IssuePair(r) \/ Reset(r)
  \/ Check(r) \/ Revoke(r) \/ Answer(r)

Next ==
  \/ \E r \in Requests : Begin(r) \/ Step(r) \/ RequestFails(r)
  \/ Tick \/ CookieExpires
  \/ \E name \in Names : Restart(name)

Spec == Init /\ [][Next]_vars

-----------------------------------------------------------------------------
(* Correctness.                                                            *)

\* Every variable holds a value of its type; in particular a counter without
\* attempts is no key at all: a delayed PEXPIRE does not bring one back.
TypeOK ==
  /\ pairs \in [Pairs -> [left : 0..RefreshTtl, sub : Names \cup {None}, revoked : 0..RefreshTtl]]
  /\ spent \subseteq Pairs
  /\ counter \in [Clients -> Counter]
  /\ guesses \in [Clients -> Nat]
  /\ req \in [Requests -> Request]
  /\ cookie \in Pairs \cup {None}
  /\ admin \in Names
  /\ faults \in 0..MaxFaults

\* Whatever other requests do between the awaits of authenticate, a token that
\* was rotated or logged out before its check is not accepted for the rest of
\* its life (the revocation key outlives the token), and no token is accepted
\* in the place of one of the other type.
AcceptsOnlyLiveTokens ==
  [][\A r \in Requests :
       LET q == req[r]
       IN  /\ q.pc = "check" /\ (req'[r].pc = "revoke" \/ (q.kind = "call" /\ req'[r].pc = "answer"))
           => /\ q.type = IF q.kind = "call" THEN "access" ELSE "refresh"
              /\ q.type = "refresh" /\ pairs[q.pair].left > 0 => q.pair \notin spent]_vars

\* A rotation never logs its own administrator out: with several refreshes and
\* logouts under way and their answers in any order, the browser is left with a
\* spent token only while some rotation or logout is still to be answered.
CookieIsUsable ==
  cookie \in spent /\ pairs[cookie].left > 0 =>
    \/ faults > 0
    \/ \E r \in Requests : req[r].kind \in {"refresh", "logout"} /\ req[r].pc \in {"issue", "answer"}

\* When a logout is answered its token is of no use any more, even if a refresh
\* of the same token or a change of administrator overtook it.
LogoutEndsTheToken ==
  [][\A r \in Requests :
       LET q == req[r]
       IN  q.kind = "logout" /\ q.pc = "answer" /\ req'[r].pc = "idle" =>
             \/ q.pair \in spent \cup {None}
             \/ pairs[q.pair].left = 0 \/ pairs[q.pair].sub # admin]_vars

\* "Used to slow down credential guessing": of all attempts counted in one
\* window, however they overlap, the limiter lets at most Limit through to the
\* password.
GuessesAreLimited == \A c \in Clients : guesses[c] <= Limit

\* "a burst can never leave a key behind": a counter without an expiry has a
\* request under way that will give it one, unless a request or process failed.
CountersExpire ==
  \A c \in Clients :
    counter[c].n > 0 /\ counter[c].ttl = NoTtl =>
      \/ faults > 0
      \/ \E r \in Requests : req[r].pc = "window" /\ req[r].client = c

\* Nobody is locked out for ever: no attempt is answered while the key that
\* counts it would never expire.  The attempt after one that failed between INCR
\* and PEXPIRE repairs the key before its own verdict.
NoVerdictWithoutExpiry ==
  [][\A r \in Requests :
       req[r].pc \in {"hit", "window"} /\ req'[r].pc \in {"issue", "idle"} /\ faults' = faults
         => LET k == counter'[req[r].client] IN k.n = 0 \/ k.ttl # NoTtl]_vars
=============================================================================
