\* Two tasks look up the lists of two credentials with one permit between them.
SPECIFICATION FairSpec
CONSTANTS
  Cred = {1, 2}
  Task <- TwoTasks
  MaxFetches = 1
  MaxChanges = 0
  None = None
  t1 = t1
  t2 = t2
  t3 = t3
PROPERTIES TasksEnd
