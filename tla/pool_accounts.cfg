\* Two accounts are added, deleted, disabled, swept and audited, and no request runs.
SPECIFICATION Spec
CONSTANTS
  Cred = {1, 2}
  Req = {}
  Scope = {}
  Model = {}
  ModelOf <- Itself
  Serves <- ServesAll
  Priority <- MCPriority
  Invert = TRUE
  InitLive = {1}
  Broken = {1}
  Unexplained = {1}
  MaxFailures = 1
  MaxRounds = 0
  MaxU32 = 1
  MaxHeals = 0
  RpmEnabled = FALSE
  QuotaRecovery = TRUE
  Restarts = FALSE
  r1 = r1
  r2 = r2
  opus = opus
  haiku = haiku
  None = None
INVARIANTS RestartLosesNothing IdsNeverReused
\* every account may be deleted and the ids of the instance used up
CHECK_DEADLOCK FALSE
