\* Two threads with two calls each, one of them tracing two snaps; two snaps and
\* every call of the driver.
SPECIFICATION Spec
CONSTANTS
  Threads = {t1, t2}
  Traced = {t1}
  Parent = Parent
  MaxCalls = 2
  MaxToggles = 4
  MaxStops = 2
  s1 = s1
  s2 = s2
  kNone = kNone
  Corpus <- TwoSnaps
  CorpusIterations = 3
  NumAttempts = 2
  MaxPagesToAdd = 2
  SkipEndStateCheck = FALSE
  Snippets <- SomeSnippets
  TracerTypes = {"native", "unicorn", "unicorn_aarch64"}
  Limits = {3, 6}
  MaxOverrun = 2
  Fuel = 12
  SomeDisks <- TheDisks
  SomeFlags <- TheFlags
  HardwareConcurrency = 2
  kChunkBytes = 3
  kMb = 4
  RunnerUsageMb = 2
  MaxIoFaults = 1
  Boards = {"b1", "b2"}
  LocalBoard = "b2"
  LogKinds = {"sdc", "runaway"}
  BoardKinds = {"sdc", "mismatch"}
  CorpusFiles = 2
  MaxLogged = 2
  MaxLost = 1
INVARIANTS
  OwnChild
  TracerInStep
  ResultIsGenuine
  TimersInPlace
  TracesAreRight
  StartsWithWholeCorpus
  ReportsAreTrue
PROPERTY EveryCallReturns
