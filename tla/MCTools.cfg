\* Each part with the bounds of its own constants.
SPECIFICATION Spec
CONSTANTS
  MaxLen = 12
  MaxSpans = 7
  Senders = {p1, p2}
  Receivers = {r1, r2}
  HeaderSize = 2
  EntrySizes = {0, 1}
  Capacity = 2
  MaxSends = 2
  MaxErrors = 1
  Inputs <- SomeInputs
  Schedules <- SomeSchedules
  MaxX86Nop = 3
  ArmInsn = 2
  max_successes = 100
  max_consecutive_failures = 2
  max_iterations = 100
  Settings <- SomeSettings
  Contents = {"c1", "c2", "c3"}
  Loads = {"c2"}
  SeedList <- SomeSeeds
  Mutators <- SomeMutators
  Tagging = {"fs001_loadpath"}
  Suffixed = {"operand"}
  Scores = {0, 1}
  PerGenMutations = 1
  TopK = 1
  ValidateTopK = 1
  MaxListed = 2
  MaxFinal = 2
  MaxKills = 1
  Hashes = {"h1", "h2", "h3"}
  Unhashed = "none"
  Reports <- SomeReports
  Found = {"h1", "h2"}
  ReplayN = 2
  BufferSize = 8
  Offsets = 16
  FirstOffset = 13
  EventHeaderSize = 2
  IpSize = 1
  NrSize = 1
  ValueSize = 2
  NumValues = {0, 1, 2}
  kMaxNumValues = 1
  MaxRecords = 4
  Events = {"e1", "e2", "e3"}
  ScheduledEvents <- SomeEventGroups
  measurements_per_event = 2
  Executions <- SomeExecutions
  MaxFailures = 2
  Rwx = {"r", "w", "x"}
  FixInputs <- SomeFixInputs
  MadeOf <- SomeMade
  KeyOf <- SomeKeys
  num_workers = 2
  num_groups = 2
  num_partitioning_iterations = 2
  kByteRunAlignmentSize = 2
  kMinRepeatingByteRunSize = 4
  ReservedMemoryMappings = {0, 1, 2, 3, 4, 5, 6, 7}
  ExitSequence <- SomeExit
  StackNeeded = 2
  kAny = "any"
  kPageSize = 8
  Word = 2
  SizeOf <- Sizes
  FpAlign = 4
  Shards <- SomeShards
  GenOptions <- SomeOptions
  Bases = {8, 16}
  Memory <- SomeMemory
  MaxPlays = 3
  FaultyAt = {24, 25, 36}
  Pages = {p, q, foreign, reserved}
  Reserved = {reserved}
  Foreign = {foreign}
  FinalStates = {e1, e2}
  NoStack = {e2}
  Programs <- SmallPrograms
  max_pages_to_add = 2
  RunnerPageLimit = 20
  num_verify_attempts = 2
  Operations <- SomeOperations
  CorpusInputs <- SomeCorpusInputs
  Encodable <- SomeEncodable
  minimum_instructions = 1
  max_len = 6
  MaxRepeats = 2
  kInvalid = 99
  kNumLevels = 4
  kTableSize = 2
  kTranslationGranule = 2
  PageTableAddrs = {0, 8}
  Calls <- SomeCalls
  MaxMappings = 3
  ImageInputs <- SomeImages
INVARIANTS
  PartitionIsEven
  OutputIsSound
  VaultIsFaithful
  SeedsReproduced
  MeasurementIsSound
  ShardsAreSound
  CorpusIsSound
  PagesAreUsable
  MadeIsReproduced
  VerdictIsRight
  MutantsAreSound
  TranslationIsRight
PROPERTIES
  ChannelIsFaithful
  RingIsRead
  ToolsEnd
CHECK_DEADLOCK FALSE
