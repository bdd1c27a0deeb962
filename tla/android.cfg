SPECIFICATION FairSpec
CONSTANTS
  interactive = interactive
  isolated = isolated
  swipe = swipe
  finalize = finalize
  None = None
  Runs = {interactive, isolated}
  Interactive = interactive
  RealWorld = {interactive}
  MaxAttempts <- Attempts
  Commands = {swipe, finalize}
  Finalize = finalize
  Duration = 1
  Extension = 1
  Limit = 1
INVARIANTS
  TypeOK
  ReportedRunIsQuiet
  CommandsExecutedOnce
PROPERTIES
  SessionEnds
CHECK_DEADLOCK FALSE
