\* Fail after N errors, as a comment says?
SPECIFICATION Spec
CONSTANTS
  NumThreads = 2
  FailAfterNErrors = 2
  ReportRunawaysAsErrors = FALSE
  BinaryLogEnabled = FALSE
  NumCpus = 3
  NumShards = 1
  SequentialMode = FALSE
  WatchdogEnabled = FALSE
  MaxFastFailures = 2
  DriverKinds = {"success", "error"}
  MaxIterations = 2
INVARIANTS
  FailsAfterNErrors
