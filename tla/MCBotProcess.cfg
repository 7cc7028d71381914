SPECIFICATION FairSpec
CONSTANTS
  Updates = {u1}
  Notes = {n1}
  NInvoices = 2
  BatchSize = 1
  MaxFaults = 2
INVARIANTS
  ClientsCloseLast
  NotesAreKept
PROPERTIES
  NotesAreHandled
  InvoicesLeaveTheQueue
  SignalEndsTheProcess
