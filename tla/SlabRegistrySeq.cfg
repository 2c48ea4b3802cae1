SPECIFICATION Spec
CONSTANTS
  u1 = u1  u2 = u2  a1 = a1  a2 = a2
  s1 = s1  s2 = s2  o1 = o1  r1 = r1  r2 = r2
  None = None
  Users = {u1, u2}
  AppAccounts = {a1, a2}
  UserOf <- Two
  Requests = {r1}
  Slabs = {s1, s2}
  Objects = {o1}
  Ops = {"pinSlab", "pinObject", "unpinSlab", "unpinObject", "prune",
         "disconnect", "pruneAccount"}
  MaxRequests = 5
  MaxFaults = 0
SYMMETRY SlabSymmetry
CHECK_DEADLOCK FALSE
INVARIANT UsageMatchesPins
