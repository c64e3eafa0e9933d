\* Two workers, two runs each; the second failure uses up the error budget.
SPECIFICATION Spec
CONSTANTS
  NumThreads = 2
  FailAfterNErrors = 2
  ReportRunawaysAsErrors = FALSE
  BinaryLogEnabled = FALSE
  NumCpus = 3
  NumShards = 1
  SequentialMode = FALSE
  WatchdogEnabled = TRUE
  MaxFastFailures = 2
  DriverKinds = {"success", "mismatch"}
  MaxIterations = 2
INVARIANTS
  TypeOK
  ResultsConserved
  CollectorInStep
  CleanExit
  CpuExclusive
  ErrorBudgetStops
PROPERTIES
  RefinesAccounting
