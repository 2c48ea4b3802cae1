SPECIFICATION Spec
CONSTANTS
  u1 = u1  u2 = u2  a1 = a1  a2 = a2
  s1 = s1  s2 = s2  o1 = o1  r1 = r1  r2 = r2
  None = None
  Users = {u1, u2}
  AppAccounts = {a1, a2}
  UserOf <- Two
  Requests = {r1, r2}
  Slabs = {s1}
  Objects = {}
  Ops = {"pinSlab", "prune"}
  MaxRequests = 3
  MaxFaults = 0
SYMMETRY RequestSymmetry
CHECK_DEADLOCK FALSE
PROPERTY PruneSparesLiveRows
