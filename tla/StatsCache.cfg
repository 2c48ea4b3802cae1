SPECIFICATION FairSpec
CONSTANTS
  Callers = {c1, c2, c3}
  None = None
  Failed = Failed
  TTL = 1
  MaxTime = 2
  MaxChanges = 1
  MaxFaults = 1
INVARIANTS TypeOK RefreshedWhenExpired WaitersAreLed
PROPERTIES ImplementsPublicStats EveryCallReturns
