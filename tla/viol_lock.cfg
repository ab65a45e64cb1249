SPECIFICATION Spec
CONSTANTS
  None = None
  Tasks = {"t1", "t2", "t3"}
  Profiles = {"p1", "p2"}
  ProfileOf <- TaskProfile
  Workers = {w1, w2}
  Calls = {c1, c2}
  Ops = {"create", "start"}
  Faults = {}
  NumADs = 1
  MaxCrashes = 0
SYMMETRY SlotSymmetry
INVARIANT OneAccountAtATime
