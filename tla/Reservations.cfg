SPECIFICATION Spec
CONSTANTS
  p1 = p1  p2 = p2  p3 = p3  g1 = g1  g2 = g2  q1 = q1  q2 = q2  s1 = s1  s2 = s2  s3 = s3
  None = None
  Gone = Gone
  Pinners = {p1, p2, p3}
  Pages = {g1, g2}
  Prunes = {q1, q2}
  Slabs = {s1, s2, s3}
  Limit <- SmallLimit
  MaxTraffic = 1
  MaxSurplus = 1
  MaxFaults = 1
SYMMETRY RequestSymmetry
CHECK_DEADLOCK FALSE
INVARIANTS TypeOK ReservationsAccounted PinsWithinLimit
PROPERTY ImplementsAllowance
