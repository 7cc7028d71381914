\* No faults: replays, races, refunds and housekeeping.
CONSTANTS
  Invoices = {star, usdt}
  Copies = {c1}
  Charges = {x1}
  Links = {u1}
  None = None
  StarsInvoices = {star}
  Workers = {w1, w2, loop}
  Reconciler = loop
  MaxAttempts = 2
  Tasks = {"notify", "reconcile", "verify", "redeliver", "refund", "housekeeping"}
  Faults = {}
  MaxCrashes = 0

SPECIFICATION Spec
SYMMETRY TaskSymmetry

INVARIANTS
  LocksExclude
  DeliversOnce
  ChargeIsReal

\* The buyer, the providers and the admin may all fall silent.
CHECK_DEADLOCK FALSE
