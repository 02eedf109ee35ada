\* A quota sweep overtaken by a suspension hands it to quota recovery.
SPECIFICATION Spec
CONSTANTS
  Cred = {1, 2}
  Req <- MCReq
  Scope <- OneScope
  Model <- OneScope
  ModelOf <- Itself
  Serves <- ServesAll
  Priority <- MCPriority
  Invert = FALSE
  InitLive = {1, 2}
  Broken = {}
  Unexplained = {}
  MaxFailures = 2
  MaxRounds = 1
  MaxU32 = 3
  MaxHeals = 3
  RpmEnabled = FALSE
  QuotaRecovery = TRUE
  Restarts = FALSE
  r1 = r1
  r2 = r2
  opus = opus
  haiku = haiku
  None = None
SYMMETRY Symmetry
INVARIANTS BannedStaysDisabled
\* every account may be deleted and the ids of the instance used up
CHECK_DEADLOCK FALSE
