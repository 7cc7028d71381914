\* A payment message that meets another press is dropped.
CONSTANTS
  StarsInvoices = {s1, s2}
  CryptoInvoices = {k1, k2}
  Copy = Copy
  Prices = {a}
  None = None
  Presses = {p1, p2}
  Faults = {}
  MaxCrashes = 0

SPECIFICATION FairSpec

PROPERTIES
  StarsPaymentIsConfirmed
