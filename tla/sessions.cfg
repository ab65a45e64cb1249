SPECIFICATION MCSpec
CONSTANTS
  MaxTokens = 3
  Requests = {q1, q2}
  Idle = 3
  AbsoluteMax = 4
  RenewAfter = 1
  LockdownStep = 2
  LastTime = 4
  MaxBumps = 2
  Tries = {q1, q2}
  TempTokens = {t1}
  Codes = {c1}
  Immune = FALSE
  BanAfter = 2
  LongBanAfter = 3
  TokenMaxFails = 2
  IpBanAfter = 3
  Window = 1
  BanFor = 1
  CodeBanFor = 2
  LongBanFor = 3
  LastTick = 3
  MaxFails = 4
SYMMETRY LoginSymmetry
INVARIANT LoginStateOK
INVARIANT AbsoluteCap
INVARIANT ActiveStaysIn
INVARIANT BumpRevokes
PROPERTY NoRevival
INVARIANT OverLimitBanned
INVARIANT LongBanStands
INVARIANT CodeOnce
INVARIANT WornOutTokenEnds
CHECK_DEADLOCK FALSE
