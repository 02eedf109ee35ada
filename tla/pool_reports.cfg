\* Two requests for two models race each other, reloads and the operators on one credential.
SPECIFICATION Spec
CONSTANTS
  Cred = {1}
  Req <- MCReq
  Scope <- TwoScopes
  Model <- TwoScopes
  ModelOf <- Itself
  Serves <- ServesAll
  Priority <- MCPriority
  Invert = FALSE
  InitLive = {1}
  Broken = {}
  Unexplained = {}
  MaxFailures = 3
  MaxRounds = 2
  MaxU32 = 3
  MaxHeals = 3
  RpmEnabled = FALSE
  QuotaRecovery = FALSE
  Restarts = FALSE
  r1 = r1
  r2 = r2
  opus = opus
  haiku = haiku
  None = None
SYMMETRY Symmetry
INVARIANTS TypeOK EnabledMeansHealthy StreakOnlyWhileHealable SelfHealBounded BannedStaysDisabled
PROPERTIES LateReportsKeepReason
\* every account may be deleted and the ids of the instance used up
CHECK_DEADLOCK FALSE
