CONSTANTS
  Threads = {t1, t2, t3}
  NoTid = NoTid
SPECIFICATION Spec
INVARIANTS MutualExclusion UnlockAssertion NoStrandedWaiter
PROPERTY ImplementsMutex
