\* Shutdown under weak fairness of the threads.
SPECIFICATION FairSpec
CONSTANTS
  NumThreads = 2
  FailAfterNErrors = 3
  ReportRunawaysAsErrors = FALSE
  BinaryLogEnabled = FALSE
  NumCpus = 2
  NumShards = 1
  SequentialMode = FALSE
  WatchdogEnabled = TRUE
  MaxFastFailures = 2
  DriverKinds = {"error"}
  MaxIterations = 2
PROPERTIES
  SessionSettles
