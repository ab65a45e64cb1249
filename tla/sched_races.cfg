SPECIFICATION Spec
CONSTANTS
  None = None
  Tasks = {"t1"}
  Profiles = {"p1"}
  ProfileOf <- OneProfile
  Workers = {w1, w2}
  Calls = {c1, c2}
  Ops = {"create", "start", "stop"}
  Faults = {"lost"}
  NumADs = 1
  MaxCrashes = 0
SYMMETRY SlotSymmetry
INVARIANT TypeOK
INVARIANT NoAbandonedTask
INVARIANT CreatingHasFlow
INVARIANT RegisteredIsLive
INVARIANT NoLostInstance
