SPECIFICATION MCSpec
CONSTANTS
  Workers = {w1, w2}
  MaxAttempts = 2
  MaxCalls = 3
  MaxLookups = 2
  Rotations = {w1, w2}
  Attaches = {w1, w2}
  Tasks = {w1, w2}
  Wishes = {1}
  FreeLine = 1
  PaygLine = 2
  DiskLine = 2
  Limits = {2, 3}
  Hint = 2
SYMMETRY CallSymmetry
INVARIANT CloudStateOK
INVARIANT NoSecondInstance
PROPERTY KeepsPromise
INVARIANT NoSilentDegradation
INVARIANT SubnetReachable
INVARIANT NoSilentLoss
INVARIANT AllowanceKept
INVARIANT OneIpv6
CHECK_DEADLOCK FALSE
