\* Three tasks refresh, query, reload and log in; replies are lost or discarded, and logins overtake each other.
SPECIFICATION Spec
CONSTANTS
  Task <- ThreeTasks
  MaxLogin = 2
  MaxRotation = 1
  IdeRotates = FALSE
  LosesReplies = TRUE
  Revokes = FALSE
  Crashes = FALSE
  None = None
  t1 = t1
  t2 = t2
  t3 = t3
SYMMETRY Symmetry
INVARIANTS TypeOK RefreshesHeldToken TokenNeverLost FileCatchesUp
PROPERTIES RefreshKeepsLogin ImplementsVault
