CONSTANTS
  Invoices = {i1, i2, i3}
  Copies = {c1, c2}
  Charges = {x1, x2}
  Links = {u1, u2}
  None = None

SPECIFICATION Spec

INVARIANTS
  OneOwnedCopy
  ChargeRecordedOnce

PROPERTIES
  RefundIsFinal
  PaymentIsNeverForgotten

\* Every purchase may be settled and every buyer silent.
CHECK_DEADLOCK FALSE
