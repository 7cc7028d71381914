\* Every handler fits in the throttle window; a crash leaves its key behind.
CONSTANTS
  StarsInvoices = {s1, s2}
  CryptoInvoices = {k1, k2}
  Copy = Copy
  Prices = {a}
  None = None
  Presses = {p1, p2}
  Faults = {}
  MaxCrashes = 1

SPECIFICATION FairSpec

INVARIANTS
  OneInvoicePerOverlap

PROPERTIES
  NobodyIsThrottledForEver
