SPECIFICATION FairSpec
CONSTANTS
  e1 = e1  e2 = e2  e3 = e3  t1 = t1  t2 = t2  c1 = c1
  None = None
  Enforcers = {e1, e2}
  Provisioners = {t1}
  Syncs = {}
  MaxApps = 2
  MaxChanges = 3
  MaxKeys = 1
  MaxEvents = 0
  MaxFaults = 0
CHECK_DEADLOCK FALSE
INVARIANTS TypeOK DriftAccounted
PROPERTIES Converges EntitledGetsIn
