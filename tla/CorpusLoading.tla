---------------------------- MODULE CorpusLoading ----------------------------
(***************************************************************************)
(* The orchestrator before its workers run (silifuzz_orchestrator_main.cc, *)
(* corpus_util.cc, orchestrator_util.cc): the list of shards is read and   *)
(* cut down to what fits in memory, loader threads decompress the shards   *)
(* side by side, each into a sealed file in memory, the headers are        *)
(* compared with the contents, and each worker gets its CPUs.              *)
(*                                                                         *)
(* A file in xz is a sequence of tokens: a data token stands for a few     *)
(* bytes, "end" ends the stream, "bad" cannot be decoded.  Bytes are below *)
(* 10 and a checksum is the number they make, in the first of the two      *)
(* places it has.                                                          *)
(***************************************************************************)
EXTENDS SpanUtil, Integers, SequencesExt, FiniteSets, FiniteSetsExt

CONSTANTS SomeDisks,           \* what files there may be
          SomeFlags,           \* command lines
          HardwareConcurrency,
          kChunkBytes,         \* the 1 MB a loader reads or writes at once
          kMb,
          RunnerUsageMb,       \* kSingleRunnerMemoryUsageMb
          MaxIoFaults

ASSUME LoadingAssumption ==
  {HardwareConcurrency, kChunkBytes, kMb, RunnerUsageMb} \subseteq Nat \ {0}

VARIABLES disk,        \* the list of shards, the files by path, the metadata
          flags,
          loading_pc,  \* of the main thread
          resources,   \* OrchestratorResources: the shards' paths and the runners
          loaders,     \* the thread that loads, 0 the main thread
          shards,      \* StatusOr<InMemoryShard> by position
          thread_args, \* the CPUs of each worker
          io_faults

loadvars == <<disk, flags, loading_pc, resources, loaders, shards, thread_args, io_faults>>

-----------------------------------------------------------------------------
(* Checksums and headers *)

kMagic == 7
kHeaderSize == 5
kChecksumBegin == 2   \* the offsets of SnapCorpusHeader::checksum
kChecksumEnd == 4

Crc(crc, bytes) == FoldLeft(LAMBDA c, b : 10 * c + b, crc, bytes)

\* bytes[begin, end), the offsets as in C.
Slice(bytes, begin, end) == SubSeq(bytes, begin + 1, end)

Lesser(a, b) == IF a < b THEN a ELSE b
Greater(a, b) == IF a > b THEN a ELSE b

\* Mutant: a hole that does not begin in this chunk is not skipped.
AddWholeHole(sum, data) ==
  LET hole == sum.offset < kChecksumBegin /\ sum.offset + Len(data) > kChecksumBegin
      before == IF hole THEN Slice(data, 0, kChecksumBegin - sum.offset) ELSE data
      after == IF hole THEN Slice(data, kChecksumEnd - sum.offset, Len(data)) ELSE <<>>
  IN  [offset |-> sum.offset + Len(data), crc |-> Crc(Crc(sum.crc, before), after)]

\* CorpusChecksumCalculator::AddData, of chunks of any size.
AddData(sum, data) ==
  LET here == sum.offset
      past == here + Len(data)
      before == Slice(data, Lesser(here, kChecksumBegin) - here, Lesser(past, kChecksumBegin) - here)
      after == Slice(data, Greater(here, kChecksumEnd) - here, Greater(past, kChecksumEnd) - here)
  IN  [offset |-> past, crc |-> Crc(Crc(sum.crc, before), after)]

ChecksumOf(chunks) == FoldLeft(AddData, [offset |-> 0, crc |-> 0], chunks).crc

ShardOf(path, chunks) ==
  LET contents == FlattenSeq(chunks)
  IN  [name |-> path, header_bytes |-> Slice(contents, 0, Lesser(kHeaderSize, Len(contents))),
       file |-> contents, file_size |-> Len(contents), checksum |-> ChecksumOf(chunks)]

\* ValidateShard: the checks in their order come to a conjunction.
ValidShard(shard) ==
  /\ shard.file_size >= kHeaderSize
  /\ Len(shard.header_bytes) = kHeaderSize
  /\ shard.header_bytes[1] = kMagic
  /\ shard.header_bytes[2] = kHeaderSize
  /\ shard.header_bytes[5] = shard.file_size
  /\ shard.header_bytes[3] = shard.checksum

-----------------------------------------------------------------------------
(* LoadCorpus *)

Idle == [todo |-> <<>>, phase |-> "idle"]
LoaderFor(tasks) == [todo |-> tasks, phase |-> "next"]
Opened(loader) == [todo |-> loader.todo, phase |-> "reading", at |-> 0, chunks |-> <<>>,
                   avail_in |-> <<>>, eof |-> FALSE, pending |-> <<>>, out |-> <<>>,
                   stalled |-> FALSE]

FileOf(loader) == disk.files[Head(loader.todo).path]

\* What is left of the list after the head got its result.
GotResult(l, result) ==
  /\ shards' = [shards EXCEPT ![Head(loaders[l].todo).slot] = result]
  /\ loaders' = [loaders EXCEPT ![l] = LoaderFor(Tail(@.todo))]

Failed == [status |-> "error"]
Loaded(shard) == [status |-> "ok", shard |-> shard]
Unknown == [status |-> "unknown"]

FaultsLeft == io_faults < MaxIoFaults
Keep == UNCHANGED <<disk, flags, loading_pc, resources, thread_args>>

OpenShard(l) ==
  /\ loaders[l].phase = "next" /\ loaders[l].todo # <<>>
  /\ Keep /\ UNCHANGED io_faults
  /\ IF FileOf(loaders[l]).type = "missing"
     THEN GotResult(l, Failed)
     ELSE loaders' = [loaders EXCEPT ![l] = Opened(@)] /\ UNCHANGED shards

LoaderEnds(l) ==
  /\ loaders[l].phase = "next" /\ loaders[l].todo = <<>>
  /\ loaders' = [loaders EXCEPT ![l] = Idle]
  /\ Keep /\ UNCHANGED <<shards, io_faults>>

Reading(l) == loaders[l].phase = "reading"

\* A read or the making of the memory file fails, or the seals are refused with EBUSY.
IoFails(l) ==
  /\ Reading(l) \/ loaders[l].phase = "read"
  /\ FaultsLeft /\ io_faults' = io_faults + 1
  /\ GotResult(l, Failed)
  /\ Keep

\* One round of the loop of ReadCord.
ReadPlain(l) ==
  LET file == FileOf(loaders[l])
      end == Lesser(loaders[l].at + kChunkBytes, Len(file.bytes))
      chunk == Slice(file.bytes, loaders[l].at, end)
  IN  /\ Reading(l) /\ file.type = "plain"
      /\ loaders' =
           [loaders EXCEPT ![l] = IF chunk = <<>> THEN [@ EXCEPT !.phase = "read"]
                                  ELSE [@ EXCEPT !.at = end, !.chunks = Append(@, chunk)]]
      /\ Keep /\ UNCHANGED <<shards, io_faults>>

\* The decoder as ReadXzipFile uses it: it takes tokens of its input while there is
\* room in the output, and returns "end" when all of the stream is put out, "error" for
\* a bad token or if it could do nothing twice.
LzmaCode(s) ==
  LET Bytes(n) == s.pending \o FlattenSeq([i \in 1..n |-> s.avail_in[i].bytes])
      Goes(n) == /\ \A i \in 1..(n - 1) : s.avail_in[i].type = "data"
                 /\ n = 0 \/ Len(Bytes(n - 1)) < kChunkBytes - Len(s.out)
      taken == Max({n \in 0..Len(s.avail_in) : Goes(n)})
      fits == Lesser(kChunkBytes - Len(s.out), Len(Bytes(taken)))
      last == IF taken = 0 THEN "none" ELSE s.avail_in[taken].type
      idle == taken = 0 /\ fits = 0
  IN  [ret |-> CASE last = "bad" -> "error"
                 [] last = "end" /\ fits = Len(Bytes(taken)) -> "end"
                 [] idle /\ s.stalled -> "error"
                 [] OTHER -> "ok",
       s |-> [s EXCEPT !.avail_in = SubSeq(@, taken + 1, Len(@)), !.stalled = idle,
                       !.pending = SubSeq(Bytes(taken), fits + 1, Len(Bytes(taken))),
                       !.out = @ \o SubSeq(Bytes(taken), 1, fits)]]

\* One round of the loop of ReadXzipFile, and the comparison of what was consumed with
\* the size of the file when the stream ends.
Decompress(l) ==
  LET file == FileOf(loaders[l])
      before == loaders[l]
      end == Lesser(before.at + kChunkBytes, Len(file.tokens))
      filled == IF before.avail_in # <<>> \/ before.eof THEN before
                ELSE [before EXCEPT !.avail_in = SubSeq(file.tokens, before.at + 1, end),
                                    !.at = end, !.eof = before.at = end]
      coded == LzmaCode(filled)
      after == IF Len(coded.s.out) = kChunkBytes \/ coded.ret = "end"
               THEN [coded.s EXCEPT !.chunks = Append(@, coded.s.out), !.out = <<>>]
               ELSE coded.s
  IN  /\ Reading(l) /\ file.type = "xz"
      /\ Keep /\ UNCHANGED io_faults
      /\ CASE coded.ret = "ok" -> loaders' = [loaders EXCEPT ![l] = after] /\ UNCHANGED shards
           [] /\ coded.ret = "end"
              /\ after.at - Len(after.avail_in) = Len(file.tokens) ->
                loaders' = [loaders EXCEPT ![l] = [after EXCEPT !.phase = "read"]]
                  /\ UNCHANGED shards
           [] OTHER -> GotResult(l, Failed)

\* WriteSharedMemoryFile and the end of LoadCorpus.
ShareInMemory(l) ==
  /\ loaders[l].phase = "read"
  /\ GotResult(l, Loaded(ShardOf(Head(loaders[l].todo).path, loaders[l].chunks)))
  /\ Keep /\ UNCHANGED io_faults

LoaderStep(l) ==
  \/ OpenShard(l) \/ ReadPlain(l) \/ Decompress(l) \/ ShareInMemory(l) \/ IoFails(l)
  \/ LoaderEnds(l)

-----------------------------------------------------------------------------
(* Resources *)

\* LoadShardFilenames: blank lines and comments are left out.
ShardFilenames(lines) == SelectSeq(lines, LAMBDA line : line \notin {"", "#"})

StopWith(why) ==
  /\ loading_pc' = why
  /\ UNCHANGED <<disk, flags, resources, loaders, shards, thread_args, io_faults>>

ListShards ==
  /\ loading_pc = "start"
  /\ IF ~flags.runner_given \/ ~disk.listed \/ ShardFilenames(disk.lines) = <<>>
     THEN StopWith("failed")
     ELSE /\ resources' =
               [shards |-> ShardFilenames(disk.lines),
                num_concurrent_runners |->
                  Lesser(flags.cpus, IF flags.max_cpus = 0 THEN flags.cpus ELSE flags.max_cpus)]
          /\ loading_pc' = "limit"
          /\ UNCHANGED <<disk, flags, loaders, shards, thread_args, io_faults>>

SizeOnDisk(path) ==
  LET file == disk.files[path]
  IN  IF file.type = "xz" THEN Len(file.tokens) ELSE Len(file.bytes)

\* The first of the largest files.
LargestFile(paths) ==
  Min({i \in DOMAIN paths : \A j \in DOMAIN paths : SizeOnDisk(paths[j]) <= SizeOnDisk(paths[i])})

\* The limit is unlimited or read from the flag or from /proc/meminfo; the largest file
\* is loaded to see what it takes.
ReadLimit ==
  /\ loading_pc = "limit"
  /\ \/ /\ flags.limit = "unlimited" /\ StopWith("metadata")
     \/ /\ flags.limit \in {"unreadable", "garbage"} /\ StopWith("failed")
     \/ /\ flags.limit \in {"auto", "mb"}
        /\ \E i \in DOMAIN resources.shards : disk.files[resources.shards[i]].type = "missing"
        /\ StopWith("failed")
     \/ /\ flags.limit \in {"auto", "mb"}
        /\ \A i \in DOMAIN resources.shards : disk.files[resources.shards[i]].type # "missing"
        /\ loaders' = [loaders EXCEPT ![0] =
             LoaderFor(<<[path |-> resources.shards[LargestFile(resources.shards)], slot |-> 0]>>)]
        /\ loading_pc' = "estimate"
        /\ UNCHANGED <<disk, flags, resources, shards, thread_args, io_faults>>

MemoryUsageLimit == IF flags.limit = "auto" THEN (flags.mb * 8) \div 10 ELSE flags.mb

InMb(bytes) == (bytes + kMb - 1) \div kMb

ShardsThatFit(limit, runners, shard_mb) == (limit - RunnerUsageMb * runners) \div shard_mb

\* CapResourcesToMemLimit: at least one shard and one runner, then as many runners and
\* then as many shards as there is room for; any shards are chosen. An empty shard
\* divides by zero.
CapResources ==
  LET shard_mb == InMb(shards[0].shard.file_size)
      beside_one == MemoryUsageLimit - shard_mb
      runners == Lesser(resources.num_concurrent_runners, beside_one \div RunnerUsageMb)
      max_shards == Lesser(Len(resources.shards),
                           ShardsThatFit(MemoryUsageLimit, runners, shard_mb))
  IN  /\ loading_pc = "estimate" /\ loaders[0] = Idle
      /\ IF shards[0].status # "ok" \/ beside_one <= 0 \/ runners = 0 THEN StopWith("failed")
         ELSE IF shard_mb = 0 THEN StopWith("crashed")
         ELSE /\ \E order \in SetToSeqs(DOMAIN resources.shards) :
                   resources' = [shards |-> [i \in 1..max_shards |-> resources.shards[order[i]]],
                                 num_concurrent_runners |-> runners]
              /\ shards' = [shards EXCEPT ![0] = Unknown]
              /\ loading_pc' = "metadata"
              /\ UNCHANGED <<disk, flags, loaders, thread_args, io_faults>>

-----------------------------------------------------------------------------
(* OrchestratorMain, up to its workers *)

Tasks == [i \in DOMAIN resources.shards |-> [path |-> resources.shards[i], slot |-> i]]

\* The metadata is read; LoadCorpora deals the paths and the places for the results to
\* its threads.
StartLoaders ==
  /\ loading_pc = "metadata"
  /\ IF ~disk.metadata THEN StopWith("failed")
     ELSE LET n == Lesser(HardwareConcurrency, Len(resources.shards))
              spans == PartitionEvenly(Tasks, n)
          IN  /\ loaders' = [l \in DOMAIN loaders |->
                               IF l \in 1..n THEN LoaderFor(spans[l]) ELSE Idle]
              /\ shards' = [i \in 0..Len(resources.shards) |-> Unknown]
              /\ loading_pc' = "load"
              /\ UNCHANGED <<disk, flags, resources, thread_args, io_faults>>

\* The threads are joined; one shard that was not loaded or is not valid ends the session.
ValidateCorpus ==
  /\ loading_pc = "load" /\ \A l \in DOMAIN loaders : loaders[l] = Idle
  /\ IF \A i \in DOMAIN resources.shards :
          shards[i].status = "ok" /\ ValidShard(shards[i].shard)
     THEN StopWith("assign") ELSE StopWith("failed")

AssignCpus ==
  /\ loading_pc = "assign"
  /\ \E order \in SetToSeqs(1..flags.cpus) :
       thread_args' =
         PartitionEvenly(order, IF flags.sequential THEN 1 ELSE resources.num_concurrent_runners)
  /\ loading_pc' = "started"
  /\ UNCHANGED <<disk, flags, resources, loaders, shards, io_faults>>

-----------------------------------------------------------------------------
LoadingInit ==
  /\ disk \in SomeDisks /\ flags \in SomeFlags
  /\ loading_pc = "start"
  /\ resources = [shards |-> <<>>, num_concurrent_runners |-> 0]
  /\ loaders = [l \in 0..HardwareConcurrency |-> Idle]
  /\ shards = [i \in {0} |-> Unknown]
  /\ thread_args = <<>> /\ io_faults = 0

LoadingEnded == loading_pc \in {"started", "failed", "crashed"}

LoadingNext ==
  \/ ListShards \/ ReadLimit \/ CapResources \/ StartLoaders \/ ValidateCorpus \/ AssignCpus
  \/ \E l \in DOMAIN loaders : LoaderStep(l)

LoadingSpec == LoadingInit /\ [][LoadingNext]_loadvars

-----------------------------------------------------------------------------
\* What the file would hold if nothing was wrong with it.
Uncompressed(file) ==
  IF file.type = "xz" THEN FlattenSeq([i \in DOMAIN file.tokens |-> file.tokens[i].bytes])
  ELSE file.bytes

HasWholeStream(file) ==
  file.type = "xz" =>
    \A i \in DOMAIN file.tokens : file.tokens[i].type = IF i = Len(file.tokens) THEN "end" ELSE "data"

\* A corpus as the generator writes one.
Genuine(path) ==
  LET file == disk.files[path]
      bytes == Uncompressed(file)
  IN  /\ file.type # "missing" /\ HasWholeStream(file)
      /\ Len(bytes) >= kHeaderSize /\ SubSeq(bytes, 1, 2) = <<kMagic, kHeaderSize>>
      /\ bytes[5] = Len(bytes)
      /\ bytes[3] = Crc(0, SubSeq(bytes, 1, 2) \o SubSeq(bytes, 5, Len(bytes)))

\* The workers start only with whole shards that the list names, each in its place
\* however the loader threads interleaved, none twice unless it is listed twice, each
\* CPU with one worker and a CPU for each, within the memory that was allowed if the
\* file that was largest on disk is so in memory. A list of good shards with enough
\* memory is not refused, unless I/O fails.
StartsWithWholeCorpus ==
  LET listed == ShardFilenames(disk.lines)
      chosen == resources.shards
      Size(i) == InMb(Len(Uncompressed(disk.files[chosen[i]])))
      uniform == \A path \in Range(listed) :
                   Len(Uncompressed(disk.files[path]))
                     <= Len(Uncompressed(disk.files[listed[LargestFile(listed)]]))
      good == disk.listed /\ disk.metadata /\ listed # <<>>
                /\ \A i \in DOMAIN listed : Genuine(listed[i])
      enough == \/ flags.limit = "unlimited"
                \/ /\ flags.limit \in {"auto", "mb"}
                   /\ \A path \in Range(listed) :
                        MemoryUsageLimit
                          >= RunnerUsageMb + InMb(Len(Uncompressed(disk.files[path])))
  IN  /\ loading_pc = "started" =>
           /\ \A i \in DOMAIN chosen :
                /\ Genuine(chosen[i])
                /\ shards[i].shard.file = Uncompressed(disk.files[chosen[i]])
                /\ shards[i].shard.name = chosen[i]
           /\ \A path \in Range(listed) :
                Cardinality({i \in DOMAIN chosen : chosen[i] = path})
                  <= Cardinality({i \in DOMAIN listed : listed[i] = path})
           /\ flags.limit = "unlimited" => chosen = listed
           /\ \A i \in DOMAIN thread_args : thread_args[i] # <<>>
           /\ IsInjective(FlattenSeq(thread_args))
           /\ flags.limit # "unlimited" /\ uniform =>
                RunnerUsageMb * resources.num_concurrent_runners
                  + FoldLeftDomain(LAMBDA sum, i : sum + Size(i), 0, chosen) <= MemoryUsageLimit
      /\ loading_pc \in {"failed", "crashed"} =>
           io_faults > 0 \/ ~(flags.runner_given /\ good /\ enough)
=============================================================================
