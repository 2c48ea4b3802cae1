SPECIFICATION Spec
CONSTANTS
  e1 = e1  e2 = e2  e3 = e3  t1 = t1  t2 = t2  c1 = c1
  None = None
  Enforcers = {e1}
  Provisioners = {t1, t2}
  Syncs = {}
  MaxApps = 1
  MaxChanges = 2
  MaxKeys = 2
  MaxEvents = 0
  MaxFaults = 0
CHECK_DEADLOCK FALSE
INVARIANT QuotaReadStaysCurrent
