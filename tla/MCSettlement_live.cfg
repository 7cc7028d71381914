\* The loop settles lost webhooks when housekeeping never overtakes it.
CONSTANTS
  Invoices = {star, usdt}
  Copies = {c1}
  Charges = {x1}
  Links = {u1}
  None = None
  StarsInvoices = {star}
  Workers = {w1, loop}
  Reconciler = loop
  MaxAttempts = 1
  Tasks = {"notify", "reconcile", "verify"}
  Faults = {}
  MaxCrashes = 2

SPECIFICATION FairSpec

PROPERTIES
  LostWebhookIsSettled
  NobodyBlocksForEver

\* The buyer, the providers and the admin may all fall silent.
CHECK_DEADLOCK FALSE
