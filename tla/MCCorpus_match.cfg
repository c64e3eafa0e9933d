SPECIFICATION CorpusSpec
CONSTANTS
  Rwx = {"r", "w", "x"}
  kByteRunAlignmentSize = 2
  kMinRepeatingByteRunSize = 4
  ReservedMemoryMappings = {0, 1, 2, 3, 4, 5, 6, 7}
  ExitSequence <- SomeExit
  StackNeeded = 2
  kAny = "any"
  kPageSize = 8
  Word = 2
  SizeOf <- Sizes
  FpAlign = 4
  Shards <- SomeShards
  GenOptions <- SomeOptions
  Bases = {8, 16}
  Memory <- SomeMemory
  MaxPlays = 3
  FaultyAt = {24, 25, 36}
INVARIANT MatchRulesOutDamage
CHECK_DEADLOCK FALSE
