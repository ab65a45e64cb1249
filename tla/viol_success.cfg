SPECIFICATION Spec
CONSTANTS
  None = None
  Tasks = {"t1"}
  Profiles = {"p1"}
  ProfileOf <- OneProfile
  Workers = {w1, w2}
  Calls = {c1}
  Ops = {"start", "stop"}
  Faults = {}
  NumADs = 1
  MaxCrashes = 0
SYMMETRY SlotSymmetry
PROPERTY SuccessIsFinal
