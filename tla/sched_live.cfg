SPECIFICATION FairSpec
CONSTANTS
  None = None
  Tasks = {"t1"}
  Profiles = {"p1"}
  ProfileOf <- OneProfile
  Workers = {w1, w2}
  Calls = {c1}
  Ops = {"create", "start", "stop", "pause"}
  Faults = {"lost", "timeout"}
  NumADs = 2
  MaxCrashes = 1
PROPERTY StoppedWorkerExits
PROPERTY CreateSettles
