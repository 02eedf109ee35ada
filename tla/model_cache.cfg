\* Three tasks share one credential: lookups, one change, one proxy change and a deletion interleave.
SPECIFICATION Spec
CONSTANTS
  Cred = {1}
  Task <- ThreeTasks
  MaxFetches = 2
  MaxChanges = 1
  None = None
  t1 = t1
  t2 = t2
  t3 = t3
SYMMETRY Symmetry
INVARIANTS TypeOK CacheIsCurrent AnswersAreCurrent SingleFlight
