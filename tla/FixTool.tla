------------------------------- MODULE FixTool -------------------------------
(***************************************************************************)
(* tools/simple_fix_tool.cc with tool_libs/fix_tool_common.cc and the      *)
(* partition of tool_libs/snap_group.cc: blobs of instructions become      *)
(* snapshots in worker threads, the snapshots become groups without        *)
(* conflicts, in threads again, and each group becomes a corpus file.      *)
(***************************************************************************)
EXTENDS SnapGroup, SpanUtil, SequencesExt

CONSTANTS FixInputs,   \* sequences of files: [opens, blobs, ends, closes]
          MadeOf,      \* what may become of a blob: a set of failures and of sets of mappings
          KeyOf,       \* sort_key_ of the snapshot of a blob
          num_workers, num_groups, num_partitioning_iterations

VARIABLES fix_pc,      \* "read", "make", "partition", "grouping", "write" or "done"
          counters,
          worker,      \* FixToolWorkerArgs
          made,        \* the snapshots in the order of the workers
          ungrouped,   \* summaries, Null where a thread has taken one
          groups,
          chunk,       \* of each group: the next summary and the end of its range
          iteration,
          shards,      \* sequences of ids
          files_written \* the groups whose file is whole

fixvars == <<fix_pc, counters, worker, made, ungrouped, groups, chunk, iteration, shards,
             files_written>>

Null == [id |-> 0, key |-> 0, mappings |-> {}]
Blobs == DOMAIN MadeOf
Failures == {"instructions-to-snapshot-failed", "undef-end-state", "make", "snapify"}
\* Snapify fails without a counter.
Silent == {"snapify"}

NoCount == [c \in {"open-blob-reader-failed", "read-blob-failed", "close-blob-reader-failed",
                   "duplicate-blobs", "success", "cannot-group", "open-failed",
                   "write-failed"}
              \cup (Failures \ Silent) |-> 0]
Plus(count, c, n) == [count EXCEPT ![c] = @ + n]

FixInit ==
  /\ fix_pc = "read" /\ counters = NoCount /\ worker = <<>> /\ made = <<>>
  /\ ungrouped = <<>> /\ groups = <<>> /\ chunk = <<>> /\ iteration = 0
  /\ shards = <<>> /\ files_written = {}

-----------------------------------------------------------------------------
(* Reading and making *)

ReadBlob(read, blob) ==
  IF Contains(read.blobs, blob) THEN [read EXCEPT !.count = Plus(@, "duplicate-blobs", 1)]
  ELSE [read EXCEPT !.blobs = Append(@, blob)]

ReadFile(read, file) ==
  IF ~ file.opens THEN [read EXCEPT !.count = Plus(@, "open-blob-reader-failed", 1)]
  ELSE LET all == FoldLeft(ReadBlob, read, file.blobs)
           end == IF file.ends THEN all.count ELSE Plus(all.count, "read-blob-failed", 1)
       IN  [all EXCEPT !.count = IF file.closes THEN end
                                 ELSE Plus(end, "close-blob-reader-failed", 1)]

ReadUniqueCentipedeBlobs(files) ==
  FoldLeft(ReadFile, [blobs |-> <<>>, count |-> counters], files)

ReadInputs ==
  /\ fix_pc = "read"
  /\ \E files \in FixInputs :
       LET read == ReadUniqueCentipedeBlobs(files)
       IN  /\ counters' = read.count
           /\ worker' = [w \in 1..num_workers |->
                           [blobs |-> PartitionEvenly(read.blobs, num_workers)[w],
                            good |-> <<>>, count |-> NoCount]]
  /\ fix_pc' = "make"
  /\ UNCHANGED <<made, ungrouped, groups, chunk, iteration, shards, files_written>>

\* One blob in worker w: what becomes of it, from InstructionsToSnapshot to Snapify.
FixToolWorker(w) ==
  /\ fix_pc = "make" /\ worker[w].blobs # <<>>
  /\ LET blob == Head(worker[w].blobs)
         rest == [worker[w] EXCEPT !.blobs = Tail(@)]
     IN  \/ \E m \in MadeOf[blob].mappings :
              worker' = [worker EXCEPT ![w] =
                [rest EXCEPT !.good = Append(@, [id |-> blob, key |-> KeyOf[blob], mappings |-> m]),
                             !.count = Plus(@, "success", 1)]]
         \/ \E f \in MadeOf[blob].failures \ Silent :
              worker' = [worker EXCEPT ![w] = [rest EXCEPT !.count = Plus(@, f, 1)]]
         \/ MadeOf[blob].failures \cap Silent # {} /\ worker' = [worker EXCEPT ![w] = rest]
  /\ UNCHANGED <<fix_pc, counters, made, ungrouped, groups, chunk, iteration, shards, files_written>>

\* SnapshotSummary::operator<.
Before(s, t) == IF s.key # t.key THEN s.key < t.key ELSE s.id < t.id

\* The joins, in the order of the workers, and the start of PartitionCorpus.
JoinWorkers ==
  /\ fix_pc = "make" /\ \A w \in 1..num_workers : worker[w].blobs = <<>>
  /\ counters' = FoldLeft(LAMBDA all, w : [c \in DOMAIN all |-> all[c] + w.count[c]],
                          counters, worker)
  /\ made' = FlattenSeq([w \in 1..num_workers |-> worker[w].good])
  /\ ungrouped' = SortSeq(made', Before)
  /\ groups' = [g \in 1..num_groups |-> EmptyGroup]
  /\ fix_pc' = "partition"
  /\ UNCHANGED <<worker, chunk, iteration, shards, files_written>>

-----------------------------------------------------------------------------
(* Partitioning *)

\* Mutant: ranges as if all groups were empty.
ChunkSizeOfAll(g) == SpanSize(Len(ungrouped), num_groups, g - 1)

\* What group g lacks of its target: the first ones take one more.
ChunkSize(g) ==
  LET num_snapshots == Len(ungrouped)
                         + MapThenSumSet(LAMBDA h : Cardinality(groups[h].ids), 1..num_groups)
  IN  SpanSize(num_snapshots, num_groups, g - 1) - Cardinality(groups[g].ids)

ChunkStart(g) == FoldLeft(LAMBDA n, h : n + ChunkSize(h), 1, [h \in 1..(g - 1) |-> h])

\* A round of SnapshotPartition::PartitionSnapshots.
PartitionSnapshots ==
  /\ fix_pc = "partition"
  /\ iteration < num_partitioning_iterations /\ ungrouped # <<>>
  /\ chunk' = [g \in 1..num_groups |->
                 [next |-> ChunkStart(g), end |-> ChunkStart(g) + ChunkSize(g)]]
  /\ fix_pc' = "grouping"
  /\ UNCHANGED <<counters, worker, made, ungrouped, groups, iteration, shards, files_written>>

\* A thread of the pool looks at the next summary of its range.
GroupNext(g) ==
  /\ fix_pc = "grouping" /\ chunk[g].next < chunk[g].end
  /\ LET s == ungrouped[chunk[g].next]
     IN  IF CanAddSnapshot(groups[g], s)
         THEN /\ groups' = [groups EXCEPT ![g] = AddSnapshot(@, s)]
              /\ ungrouped' = [ungrouped EXCEPT ![chunk[g].next] = Null]
         ELSE UNCHANGED <<groups, ungrouped>>
  /\ chunk' = [chunk EXCEPT ![g].next = @ + 1]
  /\ UNCHANGED <<fix_pc, counters, worker, made, iteration, shards, files_written>>

\* The pool is joined, the nulls are removed.
EndGrouping ==
  /\ fix_pc = "grouping" /\ \A g \in 1..num_groups : chunk[g].next = chunk[g].end
  /\ ungrouped' = SelectSeq(ungrouped, LAMBDA s : s # Null)
  /\ iteration' = iteration + 1
  /\ fix_pc' = "partition" /\ chunk' = <<>>
  /\ UNCHANGED <<counters, worker, made, groups, shards, files_written>>

\* group_map: the last group that holds the id.
GroupOf(id) == {g \in 1..num_groups : /\ id \in groups[g].ids
                                      /\ \A h \in (g + 1)..num_groups : id \notin groups[h].ids}

\* The snapshots move to their groups in the order in which they were made; what is
\* left over is counted and dropped.
MoveSnapshots ==
  /\ fix_pc = "partition"
  /\ iteration = num_partitioning_iterations \/ ungrouped = <<>>
  /\ shards' = [g \in 1..num_groups |-> SelectSeq(made, LAMBDA s : GroupOf(s.id) = {g})]
  /\ counters' = Plus(counters, "cannot-group",
                      Len(SelectSeq(made, LAMBDA s : GroupOf(s.id) = {})))
  /\ fix_pc' = "write"
  /\ UNCHANGED <<worker, made, ungrouped, groups, chunk, iteration, files_written>>

\* WriteOutputFiles, which goes on past a file that cannot be opened or written; one
\* that fails in close, after os.fail() was asked, is not counted.
WriteOutputFiles ==
  /\ fix_pc = "write"
  /\ \E opened \in SUBSET (1..num_groups) : \E failed \in SUBSET opened :
       /\ files_written' \in SUBSET (opened \ failed)
       /\ counters' = Plus(Plus(counters, "open-failed", num_groups - Cardinality(opened)),
                           "write-failed", Cardinality(failed))
  /\ fix_pc' = "done"
  /\ UNCHANGED <<worker, made, ungrouped, groups, chunk, iteration, shards>>

FixNext ==
  \/ ReadInputs
  \/ \E w \in 1..num_workers : FixToolWorker(w)
  \/ JoinWorkers
  \/ PartitionSnapshots
  \/ \E g \in 1..num_groups : GroupNext(g)
  \/ EndGrouping \/ MoveSnapshots \/ WriteOutputFiles

FixSpec == FixInit /\ [][FixNext]_fixvars

-----------------------------------------------------------------------------
(* Properties *)

\* The summaries a thread may take and those it has taken belong to no other thread.
ChunksAreApart ==
  fix_pc = "grouping" =>
    \A g, h \in 1..num_groups : g < h =>
      1 <= chunk[g].next /\ chunk[g].end <= chunk[h].next /\ chunk[h].end <= Len(ungrouped) + 1

\* What the maker made is counted; whatever the threads do, each snapshot goes to
\* one shard or is counted as left over; no two of a shard conflict; and no shard
\* takes more than its share.
ShardsAreSound ==
  /\ ChunksAreApart
  /\ fix_pc \in {"write", "done"} =>
       /\ counters["success"] = Len(made)
       /\ Len(made) = counters["cannot-group"] + Len(FlattenSeq(shards))
       /\ IsInjective([i \in DOMAIN FlattenSeq(shards) |-> FlattenSeq(shards)[i].id])
       /\ \A g \in 1..num_groups :
            /\ Len(shards[g]) <= SpanSize(Len(made), num_groups, g - 1)
            /\ \A i, j \in DOMAIN shards[g] : i < j => Compatible(shards[g][i], shards[g][j])
=============================================================================
