SPECIFICATION Spec
CONSTANTS
  Callers = {c1, c2, c3}
  None = None
  Failed = Failed
  TTL = 1
  MaxTime = 2
  MaxChanges = 2
  MaxFaults = 1
SYMMETRY CallerSymmetry
INVARIANTS TypeOK RefreshedWhenExpired WaitersAreLed
PROPERTIES ImplementsPublicStats
