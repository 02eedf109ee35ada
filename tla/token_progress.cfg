\* Two tasks contend for both locks; replies are lost, tokens revoked, another client rotates them, the process crashes.
SPECIFICATION FairSpec
CONSTANTS
  Task <- TwoTasks
  MaxLogin = 1
  MaxRotation = 1
  IdeRotates = TRUE
  LosesReplies = TRUE
  Revokes = TRUE
  Crashes = TRUE
  None = None
  t1 = t1
  t2 = t2
  t3 = t3
PROPERTIES TasksEnd
