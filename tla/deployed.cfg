SPECIFICATION FairSpec
CONSTANTS
  MaxAttempts <- DeployedBudget
  ExecutorTypes <- Analyses
  WorkerTypes <- AdaptersAndReports
INVARIANTS
  TypeOK
  LeaseDiscipline
  OneCompletion
  RunFollowsStages
PROPERTIES
  TerminalStays
  StagesAreJobs
  RunsProgress
CHECK_DEADLOCK FALSE
