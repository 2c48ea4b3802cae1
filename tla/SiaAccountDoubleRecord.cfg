SPECIFICATION Spec
CONSTANTS
  e1 = e1  e2 = e2  e3 = e3  t1 = t1  t2 = t2  c1 = c1
  None = None
  Enforcers = {e1}
  Provisioners = {t1}
  Syncs = {c1}
  MaxApps = 1
  MaxChanges = 1
  MaxKeys = 1
  MaxEvents = 1
  MaxFaults = 1
CHECK_DEADLOCK FALSE
INVARIANT RecordedOnce
