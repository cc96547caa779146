SPECIFICATION FairSpec
CONSTANTS
  Sessions = {s1, s2}
  Requests = {r1, r2, r3}
  NoSession = NoSession
  MaxAge = 1
  MaxTime = 1
  MaxStores = 2
INVARIANTS
  NoCloseUnderTrace
  ClosedOnce
  NoLeak
PROPERTIES
  NeverRevived
  ImplementsPool
  RetiredEventuallyClosed
