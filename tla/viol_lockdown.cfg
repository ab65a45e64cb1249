SPECIFICATION Spec
CONSTANTS
  None = None
  Tasks = {"t1"}
  Profiles = {"p1"}
  ProfileOf <- OneProfile
  Workers = {w1, w2}
  Calls = {c1, c2}
  Ops = {"create", "panic"}
  Faults = {}
  NumADs = 1
  MaxCrashes = 0
SYMMETRY SlotSymmetry
PROPERTY LockdownStopsAll
