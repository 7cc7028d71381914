SPECIFICATION Spec
CONSTANTS
  Requests = {r1, r2}
  Clients = {c1}
  Pairs = {p1, p2, p3}
  Names = {a1, a2}
  None = None
  RefreshTtl = 2
  AccessTtl = 1
  Limit = 1
  Window = 1
  MaxFaults = 1
SYMMETRY Alike
INVARIANTS
  CookieIsUsable
  GuessesAreLimited
PROPERTIES
  AcceptsOnlyLiveTokens
  LogoutEndsTheToken
  NoVerdictWithoutExpiry
