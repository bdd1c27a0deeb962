SPECIFICATION FairSpec
CONSTANTS
  MaxAttempts <- LivenessBudget
  ExecutorTypes <- Analyses
  WorkerTypes <- AdaptersAndReports
PROPERTY CancellationEnds
CHECK_DEADLOCK FALSE
