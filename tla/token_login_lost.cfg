\* The reload that follows a failed refresh takes a completed login back.
SPECIFICATION Spec
CONSTANTS
  Task <- TwoTasks
  MaxLogin = 1
  MaxRotation = 2
  IdeRotates = FALSE
  LosesReplies = TRUE
  Revokes = TRUE
  Crashes = FALSE
  None = None
  t1 = t1
  t2 = t2
  t3 = t3
PROPERTIES LoginNotLost
