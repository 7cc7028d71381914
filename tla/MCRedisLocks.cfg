\* Overrunning holders, crashes and late releases; nobody waits for ever.
CONSTANTS
  Procs = {p1, p2, p3}
  Keys <- MCKeys
  NoKey = NoKey
  Ttl <- MCTtl
  Wait <- MCWait
  Tokens = {t1, t2, t3, t4}
  Nobody = Nobody

SPECIFICATION FairSpec

INVARIANTS
  ExclusiveWithinTtl
  OverrunIsNoticed

PROPERTIES
  CallsReturn
  ImplementsLockService
