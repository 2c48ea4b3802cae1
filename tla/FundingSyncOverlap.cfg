SPECIFICATION Spec
CONSTANTS
  u1 = u1  u2 = u2  k1 = k1  k2 = k2
  None = None
  Users = {u1, u2}
  Keys = {k1, k2}
  UserOf <- OneKeyEach
  Loads <- AllOrNothing
  Workers = {w1, w2}
  Writers = {v1}
  PageSize = 2
  MaxEvents = 2
  MaxChanges = 1
  MaxFaults = 1
SYMMETRY ActorSymmetry
INVARIANTS
  TypeOK
  RepeatsAccounted
  PassedIsSettled
