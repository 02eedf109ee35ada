\* An id is given out again when the last account is deleted and the process restarts.
SPECIFICATION Spec
CONSTANTS
  Cred = {1, 2}
  Req = {}
  Scope <- OneScope
  Model <- OneScope
  ModelOf <- Itself
  Serves <- ServesAll
  Priority <- MCPriority
  Invert = FALSE
  InitLive = {1, 2}
  Broken = {}
  Unexplained = {}
  MaxFailures = 2
  MaxRounds = 1
  MaxU32 = 3
  MaxHeals = 3
  RpmEnabled = FALSE
  QuotaRecovery = TRUE
  Restarts = TRUE
  r1 = r1
  r2 = r2
  opus = opus
  haiku = haiku
  None = None
INVARIANTS IdsNeverReused
\* every account may be deleted and the ids of the instance used up
CHECK_DEADLOCK FALSE
