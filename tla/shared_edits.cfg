SPECIFICATION MCSpec
CONSTANTS
  Edits = {e1, e2}
  UserKeys = {"ssh", "web"}
  Console = {"ssh"}
  ListCap = 4
  Asks = {e1, e2, e3}
  AllowAll = {"v4", "v6"}
  Requests = {e1, e2}
  Clients = {c1}
  OneKey = pem1
  AnotherKey = pem2
  Tenancy = t1
  OneUser = u1
  AnotherUser = u2
  Pems <- MCPems
  Owners <- MCOwners
  LastSuffix = 3
  LastId = 2
  LastKey = 1
  Sockets = {e1, e2, e3}
  MaxLogSockets = 2
SYMMETRY EditSymmetry
INVARIANT SharedStateOK
INVARIANT NoLostEdit
INVARIANT MinimalAgrees
INVARIANT NoOrphanGroup
INVARIANT NoDuplicateRule
INVARIANT KeyMatchesFingerprint
INVARIANT NameOwnerStable
INVARIANT DefaultKeyExists
INVARIANT NoSlotLeak
CHECK_DEADLOCK FALSE
