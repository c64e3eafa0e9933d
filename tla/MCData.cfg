\* Three addresses and one permission to give for the memory state; up to two entries in
\* each list of a snapshot; sweeps of up to three runs; batches of two inputs of up to
\* three instructions; a session of one worker, three shards and three runs.
SPECIFICATION DataSpec
CONSTANTS
  NumThreads = 1
  FailAfterNErrors = 3
  ReportRunawaysAsErrors = FALSE
  BinaryLogEnabled = TRUE
  NumCpus = 1
  NumShards = 3
  SequentialMode = TRUE
  WatchdogEnabled = TRUE
  MaxFastFailures = 3
  MaxIterations = 3
  DriverKinds = {"success", "error", "mismatch"}
  Rwx = {"r", "w", "x"}
  Limit = 3
  GivenPerms = {"w"}
  Unknown = Unknown
  Snapshots <- SomeSnapshots
  Patterns <- SomePatterns
  kMinSkipOverBytes = 1
  PageSize = 2
  kMaxAddress = 5
  StackSize = 1
  Mappings <- SomeMappings
  Bytes <- SomeBytes
  Registers <- SomeRegisters
  EndStates <- SomeEndStates
  Platforms = {"p1"}
  MaxMappings = 2
  MaxBytes = 2
  MaxEndStates = 2
  Scripts <- AllScripts
  MAX_JOBS = 2
  MaxItems = 3
  MaxEntries = 2
  Injections = 1
  MaxTrouble = 1
  ProxyTypes = {"unicorn_aarch64", "unicorn_x86_64", "pmu"}
  NumInstructionIDs = 2
  NumRegBits = 3
  Aliased = {1}
  RegisterStates <- SomeRegisterStates
  InitialRegisters = {{}}
  Layouts <- SomeLayouts
  PageBytes = 2
  ByteBits = 2
  kMaxDataPages = 4
  Dirty <- SomeDirty
  NumFeatures = 22
  kMaxCount = 255
  Means <- SomeMeans
  Libraries <- SomeLibraries
  MaxInstructions = 3
  MaxInputs = 2
  NumRegs = 3
  Width = 2
  HalfWidth = 1
  Codes <- SomeCodes
  Templates <- SomeTemplates
  HighPower <- SomeHighPower
  MaxCount = 5
  PerturbedBit = 1
  EntropyOf <- SomeEntropy
  BigDifference = 2
  BigRise = 1
  Probes = 2
  score_threshold = 3000
  Starts <- SomeStarts
  Iterations = 2
  Files <- SomeFiles
  Slots <- SomeSlots
  MaxVariants = {0, 1, 2, 4}
INVARIANTS
  MemoryIsRight
  SnapshotConsistent
  FormsAreSame
  SweepIsSound
  ProxiesAreRight
  OperandsAreSound
  LogProtocol
PROPERTIES
  RefinesAddressSpace
  SequentialCoverage
CHECK_DEADLOCK FALSE
