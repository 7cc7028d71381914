\* Failing transactions, lost acknowledgements, locks that expire under a holder.
CONSTANTS
  Invoices = {star, usdt}
  Copies = {c1}
  Charges = {x1}
  Links = {u1, u2}
  None = None
  StarsInvoices = {star}
  Workers = {w1, w2, loop}
  Reconciler = loop
  MaxAttempts = 1
  Tasks = {"notify", "verify", "refund", "rotate"}
  Faults = {"db", "ack_lost", "ttl"}
  MaxCrashes = 0

SPECIFICATION Spec
SYMMETRY TaskSymmetry

INVARIANTS
  OneOwnedCopy
  NoLinkWithoutMoney
  RecordedLinkWasReceived

PROPERTIES
  ImplementsLedger
  UsesLockService

\* The buyer, the providers and the admin may all fall silent.
CHECK_DEADLOCK FALSE
