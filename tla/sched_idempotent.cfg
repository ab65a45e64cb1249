SPECIFICATION Spec
CONSTANTS
  None = None
  Tasks = {"t1"}
  Profiles = {"p1"}
  ProfileOf <- OneProfile
  Workers = {w1, w2}
  Calls = {c1}
  Ops = {"create", "start"}
  Faults = {"lost", "refused", "timeout", "expiry", "redis"}
  NumADs = 2
  MaxCrashes = 2
SYMMETRY SlotSymmetry
INVARIANT AtMostOneInstance
CHECK_DEADLOCK FALSE
