SPECIFICATION Spec
CONSTANTS
  p1 = p1  p2 = p2  p3 = p3  g1 = g1  g2 = g2  q1 = q1  q2 = q2  s1 = s1  s2 = s2  s3 = s3
  None = None
  Gone = Gone
  Pinners = {p1, p2}
  Pages = {}
  Prunes = {}
  Slabs = {s1}
  Limit <- SmallLimit
  MaxTraffic = 0
  MaxSurplus = 0
  MaxFaults = 0
CHECK_DEADLOCK FALSE
INVARIANT NothingOrphaned
