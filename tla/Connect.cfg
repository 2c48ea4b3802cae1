SPECIFICATION FairSpec
CONSTANTS
  u1 = u1  u2 = u2  r1 = r1  r2 = r2  k1 = k1
  d1 = d1  d2 = d2
  None = None
  Users = {u1, u2}
  Requests = {r1, r2}
  AppKeys = {k1}
  Removals = {d1, d2}
  KeyOf <- SharedKey
  MaxFaults = 2
CHECK_DEADLOCK FALSE
INVARIANTS TypeOK ActsForApprover ServedAsRegistered
PROPERTIES ImplementsDelegation AuthRowsExpire
