SPECIFICATION FairSpec
CONSTANTS
  t1 = t1
  t2 = t2
  t3 = t3
  None = None
  Tasks = {t1, t2, t3}
  MaxAttempts = 3
  Duration = 1
INVARIANTS
  TypeOK
  SettledRunIsQuiet
  WindowFixed
PROPERTIES
  SessionEnds
CHECK_DEADLOCK FALSE
