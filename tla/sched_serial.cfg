SPECIFICATION Spec
CONSTANTS
  None = None
  Tasks = {"t1"}
  Profiles = {"p1"}
  ProfileOf <- OneProfile
  Workers = {w1, w2}
  Calls = {c1}
  Ops = {"create", "start", "stop", "delete", "panic", "pause", "deleteProfile"}
  Faults = {"lost", "refused", "list", "timeout", "panic", "expiry", "redis", "dberr"}
  NumADs = 2
  MaxCrashes = 1
SYMMETRY SlotSymmetry
INVARIANT Stoppable
