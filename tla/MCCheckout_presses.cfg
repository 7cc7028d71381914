\* Presses, payments and price changes that overlap, on any schedule.
CONSTANTS
  StarsInvoices = {s1, s2}
  CryptoInvoices = {k1, k2}
  Copy = Copy
  Prices = {a, b}
  None = None
  Presses = {p1, p2}
  Faults = {"ttl"}
  MaxCrashes = 0

SPECIFICATION Spec
SYMMETRY PressSymmetry

INVARIANTS
  OwnersAreNotBilled
  ShownInvoicesAreRecorded
  ChargesAreJustified
