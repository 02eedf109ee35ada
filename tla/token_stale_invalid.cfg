\* A late invalid_grant disables the credential that has just logged in again.
SPECIFICATION Spec
CONSTANTS
  Task <- TwoTasks
  MaxLogin = 1
  MaxRotation = 2
  IdeRotates = FALSE
  LosesReplies = TRUE
  Revokes = TRUE
  Crashes = FALSE
  None = None
  t1 = t1
  t2 = t2
  t3 = t3
SYMMETRY Symmetry
INVARIANTS InvalidMeansRejected
