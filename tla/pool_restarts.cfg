\* One credential, at first without its api key or its reason, when the process may crash between any two steps.
SPECIFICATION Spec
CONSTANTS
  Cred = {1}
  Req <- MCReq
  Scope <- OneScope
  Model <- OneScope
  ModelOf <- Itself
  Serves <- ServesAll
  Priority <- MCPriority
  Invert = FALSE
  InitLive = {1}
  Broken = {1}
  Unexplained = {1}
  MaxFailures = 2
  MaxRounds = 2
  MaxU32 = 3
  MaxHeals = 3
  RpmEnabled = TRUE
  QuotaRecovery = TRUE
  Restarts = TRUE
  r1 = r1
  r2 = r2
  opus = opus
  haiku = haiku
  None = None
SYMMETRY Symmetry
INVARIANTS EnabledMeansHealthy SelfHealBounded RestartLosesNothing
\* every account may be deleted and the ids of the instance used up
CHECK_DEADLOCK FALSE
