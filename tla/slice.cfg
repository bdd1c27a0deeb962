SPECIFICATION Spec
CONSTANTS
  MaxAttempts <- SliceBudget
  ExecutorTypes <- StageType
  WorkerTypes = {}
INVARIANTS
  JobsConsistent
  RetryBudget
  RunFollowsStages
PROPERTIES
  SettledStaysSettled
CHECK_DEADLOCK FALSE
