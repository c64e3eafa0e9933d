# Verification of SiliFuzz (sdcfuzz)

TLA+ models, TLC checks and TLAPS proofs of the code that makes snapshots, runs
them on CPUs, decides what their results mean and reports them, and of the tools
around it. All paths are relative to `src/`.

1. [The system](#1-the-system)
2. [Modules and how they follow the code](#2-modules-and-how-they-follow-the-code)
3. [What the runs check](#3-what-the-runs-check)
4. [What is proved](#4-what-is-proved)
5. [Where code and documentation disagree](#5-where-code-and-documentation-disagree)
6. [Limits](#6-limits)
7. [Plan](#7-plan)

## 1. The system

SiliFuzz looks for silent data corruption. A *snapshot* is an instruction
sequence with its initial state and the end state it must reach; a *corpus* is a
file of them in the runner's binary layout (a *snap*). A *runner* process maps a
corpus and plays snaps; a mismatch of the end state is a suspected defect of the
CPU. The *orchestrator* keeps runners busy on every CPU and collects their
results. Making, fixing and minimising snapshots use the same runner through the
same driver.

```
 silifuzz_orchestrator_main                    snap_tool, simple_fix_tool, ...
   main thread     worker threads                        |
   event loop <--- results --- RunnerThread          SnapMaker
       |      ExecutionContext     |                     |
   ResultCollector            RunnerDriver <-------------+
       | BinaryLogChannel          | Subprocess: vfork, pipe, wait4
       v                           | HarnessTracer: ptrace, its own thread
   log consumer                    v
                              runner process: Runner, signal handler, snap
```

| component | state | operations | interacts through |
|---|---|---|---|
| execution context (`orchestrator/execution_context.*`) | result queue, stop flag, deadline, drop counter, one mutex | `OfferRunResult`, `EventLoop`, `ProcessResultQueue`, `Stop` | shared by workers, main thread and signal handler |
| orchestrator session (`orchestrator/silifuzz_orchestrator*.cc`) | threads, corpus position and backoff of each worker, exit code | `RunnerThread`, `OrchestratorMain`, `OrchestratorInit` | threads, signals, the watchdog's `_exit` |
| result collector (`orchestrator/result_collector.*`) | summary counters, error budget, log | `operator()`, `LogSessionStart`, `LogSessionSummary` | callback on the main thread |
| span partition (`util/span_util.h`) | none | `PartitionEvenly` | CPUs of workers, work lists of tools |
| runner process (`runner/*.cc`) | current snap, in-snap flag, saved contexts, signal mask, output | the run loops, `RunSnap`, `SigAction`, reports | signals, exit code, text proto on stdout |
| runner driver (`runner/driver/*`) | options, attempts | `Run`, `PlayOne`, `MakeOne`, `TraceOne`, `VerifyOneRepeatedly` | exit status and stdout of the process |
| subprocess (`util/subprocess.*`) | child pid, pipe | `Start`, `Communicate` | descriptors, vfork, wait4 |
| harness tracer (`common/harness_tracer.*`) | attached, active, exit status | `Attach`, `EventLoop`, `Trace`, `Join` | ptrace stops, callback, race for the exit status |
| snap maker (`runner/snap_maker.*`) | the snapshot in the making | `Make`, `RecordEndState`, `Verify`, `CheckTrace` | repeated driver calls |
| binary log channel (`orchestrator/binary_log_channel.*`, `util/byte_io.cc`) | a pipe | `Send`, `Receive` | length-prefixed entries of several threads |
| memory state (`common/memory_state.*`, `mapped_memory_map.*`, `memory_bytes_set.*`, `util/range_map.h`) | three range maps over addresses | map, unmap, write, forget, commands and bytes for a snapshot | runner, tracers, maker |
| snapshot (`common/snapshot*.cc`) | mappings, bytes, registers, end states: lists, and maps made of them | `add_*`, `set_*`, `NormalizeAll`, `FromProto`, `ToProto` | files; every tool |
| corpus generation (`snap/gen/*`, `snap/*.cc`) | relocatable image of a shard, checksums | snapify, two passes of the generator, relocate, play | files between tools and runner |
| fix tools and partitioning (`tools/simple_fix_tool.*`, `tool_libs/*`) | work lists of threads, groups with a map each | make, partition, write | threads, the maker, the generator |
| corpus loading (`orchestrator/corpus_util.*`, `orchestrator_util.*`) | list of shards, sealed files in memory | cap to memory, load in threads, check headers | files, the session |
| minimizer (`tools/minimizer/*.py`) | the snapshot, a schedule of passes | make, play on two CPUs, accept or reject | snap_tool and runner processes |
| SDC pipeline (`tools/sdc_pipeline/*.py`) | the vault: two JSONL files and an index | generations of mutate, assess, filter, validate | files, evaluators |
| feedback loop (`tools/sdc_experiment/feedback.py`) | hits of a scan | look up, replay, reseed | runner processes |
| PMU event proxy (`proxies/pmu_event_proxy/*`) | the kernel's ring of samples; groups of events | read records, measure an input | kernel, harness tracer |
| tracing (`tracing/*`) | a trace, the instruction to skip | capture, analyse by leaving out | a runner process or an emulator |
| proxies (`proxies/unicorn_*.cc`, `arch_feature_generator.h`) | array of features, state kept between callbacks | one input after another | emulator, counters, a fuzzer |
| page table proxy (`proxies/page_table/*`) | entries and tables | `AddContiguousMapping`, `Build` of an image | a proxy without operating system |
| fuzzer (`fuzzer/*`) | a program of instructions with branch targets | mutate, cross over, limit, fix up displacements | a fuzzing engine |
| operand search and variants (`tools/sdc_mutator/*.py`) | best registers so far, files | climb, measure, write variants | emulator, files |
| fault injection sweeps (`scripts/`, `sim_sweep.py`, ...) | golden outputs, result directories | golden runs, injections, rates | gem5 processes |
| board scripts, experiment harness (`scripts/*.py`, `tools/sdc_experiment/*`) | a thread and a log for each board | deploy, scan, poll, collect | ssh connections that fail |

What is hard in it:

* **Threads.** Workers, the event loop, a signal handler that only sets a flag,
  a deadline and a watchdog meet in `ExecutionContext`; a tracer thread and its
  creator wait for the same child; unrelated threads fork into each other's
  pipes.
* **Signals.** The runner's handler leaves through a context switch and not by
  returning, so the mask of the handler stays; timers fire between the finding
  and the report of a failure; the flag that says "inside a snap" is set before
  the context it promises is saved.
* **Lossy outcomes.** A result may be dropped (counted), cut short, or turned
  into a graceful timeout; the exit code must still mean something.
* **Sequences.** Error budgets, end of the stream, toggles of the tracer,
  repeated verification, edits of a snapshot kept in two forms.
* **Crashes.** A pipeline killed inside an append starts again on what it left;
  a producer killed inside an entry must not look like the end of the log.
* **Boundaries.** Ranges that touch, the last page of the address space, a ring
  whose records wrap around, branches whose encoding grows with their distance.
* **Two passes.** The generator measures a corpus and then writes it, the page
  tables are laid out before they are filled: both passes must agree.
* **What is left from before.** Goldens of an earlier program, features of an
  earlier input, logs of an earlier scan, memory of an earlier snap.

`PROJECT.json` lists every hazard at its line with the properties that would
catch it going wrong.

What makes each part correct: the session neither loses nor repeats a result
uncounted, and its verdict follows from the results; the collector's counters
are those of the results it took; the partition gives every CPU one owner; the
runner reports the failure it found or none; the driver takes only a complete
run, or one stopped on purpose, for a success; a call of the driver returns
with its own child's status and output; the tracer is active in snaps only; a
snapshot is made only if it verifies and maps only what it may.
An entry of the log is received whole, once and in order; a range map is the
function of its addresses; the commands for a snapshot lead to its memory from
any state; a snapshot's lists and maps agree and it survives its file; the
minimizer writes only what it saw fail; the candidates and assessments of the vault
survive a restart;
only hits that reproduce are fed back; a sample the proxy reads is one the kernel
wrote. A corpus means the same at every address it is loaded at, and no snap of a
shard disturbs another; what a mutant branches to is what was meant; an address
leads where it was mapped; a report is about the run it names.

## 2. Modules and how they follow the code

Names are the code's where the language allows it. An operator whose comment
begins with "Mutant" is a faulty variant of the definition after it; no
specification uses it.

| module | models | composed by |
|---|---|---|
| `ExecutionContext` | the queue, the stop flag and their methods | `Orchestrator` |
| `ResultCollector` | the callback, its counters, its log entries | `Orchestrator` |
| `SpanUtil` | `PartitionEvenly` | `Orchestrator`, `CorpusLoading`, `FixTool`, `MCTools` |
| `Orchestrator` | a session: main thread, workers, environment | `MCData` (part `session`) |
| `ResultAccounting` | abstract: what a session promises about results, and the proof of what its verdict means | refined by `Orchestrator` |
| `Runner` | one runner process and its signals | `RunnerDriver` |
| `RunnerDriver` | the driver's calls over that process | `MCProcesses` |
| `Subprocess` | `Start` and `Communicate` of several threads | `HarnessTracer` |
| `HarnessTracer` | the tracer beside `Communicate`; `RunImpl`'s join | `MCProcesses` |
| `Tracing` | capturing a trace and analysing it | `MCProcesses` |
| `CorpusLoading` | the orchestrator before its workers run | `MCProcesses` |
| `BoardScan` | scans of machines over ssh | `MCProcesses` |
| `SnapMaker` | `MakeSnapshot`, from candidate to made snapshot | `MCTools` |
| `RangeMap` | `util/range_map.h`, over any methods of its values | `MappedMemoryMap`, `MemoryState` |
| `MappedMemoryMap` | maps of permissions | `MemoryState`, `Snapshot`, `SnapGroup`, `Snapify` |
| `MemoryState` | the operations of a memory state, commands and bytes for a snapshot | `MCData` |
| `AddressSpace` | abstract: permissions and byte of each address | refined by `MemoryState` |
| `Snapshot` | the builder, its normal form, the proto | `MCData` |
| `FaultSweep` | golden runs and injections of nineteen scripts | `MCData` |
| `Proxies` | one proxy process through a batch of inputs | `MCData` |
| `Evolution` | climbs over operands; variants of a template | `MCData` |
| `BinaryLogChannel` | senders and receivers over a pipe | `MCTools` |
| `LogStream` | abstract: a stream of whole entries | refined by `BinaryLogChannel`, `PerfEventBuffer` |
| `Minimizer` | the passes over the code of one snapshot | `MCTools` |
| `SdcPipeline` | vault and evolution loop, with kills | `MCTools` |
| `Feedback` | from the hits of a scan to seeds | `MCTools` |
| `PerfEventBuffer` | the kernel's ring and the reading of samples | `MCTools` |
| `PerfEventFuzzer` | the measurement of one input by groups of events | `MCTools` |
| `SnapGroup`, `FixTool` | which snapshots may share a runner; the fix tool's threads | `CorpusPlay`, `MCTools` |
| `Snapify`, `RelocatableSnaps`, `CorpusPlay` | the form the runner plays; the corpus file; its plays | `MCCorpus`, `MCTools` |
| `ProgramMutator` | one mutant of a program | `MCTools` |
| `PageTable` | page tables and the image behind them | `MCTools` |
| `OrchestratorProofs`, `SpanUtilProofs`, `ProcessProofs` (boards, tracer, driver, sweeps), `ToolsProofs` (partition, maker, feedback, pipeline, PMU measurement), `StreamProofs` (log channel, PMU ring, proxies), `RangeMapProofs`, `MemoryStateProofs` (memory state, deltas, snapshots) | theorems | — |

`MCProcesses`, `MCData`, `MCTools` and `MCCorpus` give the constants of their
modules small values and hold the `Next` of the runs; a cfg is named after the
module it is for, with the name of the run where there are several.

**Orchestrator.** `main_pc` follows `OrchestratorMain` and `EventLoop`: `setup`
(metadata, corpora), `spawn`, `loop` (`while (!ShouldStop())`), `lock` and
`asleep` (`LockWhenWithTimeout`), `process` (the batch taken by the swap),
`join`, `drain` (`ProcessResultQueue`), and `exited`, `failed` or `killed` (by
the watchdog). `thread_pc` follows `RunnerThread`: `head` (loop test, budget,
next corpus), `running` (inside `driver.Run`), `backoff`, `offer`, `leaving`
(`ctx->Stop()`), `done`. A step is what happens without another thread able to
see the middle: a critical section, an atomic access, or local computation.
`Offer` is one step because `mu_` is held; `notified` is the hand-over of the
mutex to a sleeping main thread whose condition has come true, and
`WakeOnTimeout` is the timed wait that wakes it anyway. `Signal`,
`DeadlinePasses` and `WatchdogFires` may happen at any time. `driver.Run`
returns any kind of result the collector tells apart; `RunnerDriver` says where
these come from. `produced`, `handled` and `lost` are history variables: results
returned by runners, taken by the collector, refused by the full queue.

**Runner and RunnerDriver.** `pc` follows `RunnerMain`, `RunnerMainSequential`
and `MakerMain` (one loop with the mode in `options`), through `RunSnap`:
`entering` is the window between `enter_snap_context = true` and the saved
context. `Deliver(sig)` is `SigAction` at any point of it, with its early exits
in the order of the code; `timers_masked` is the mask that leaving the handler
by a context switch keeps in force. `stdout` is the list of top-level messages
written, and a write in progress may be `torn`. `HandleRunnerOutput` is the
decision of the driver on status and output, in order. The snap is code nobody
chose: the seccomp filter leaves it `write` and `exit_group`, so it may put
bytes of its own on stdout (`SnapWrites`) and end the process with any code
(`SnapExitsProcess`). `options` is chosen from
what the driver's callers pass: the orchestrator's `Run`, and `PlayOptions`,
`MakeOptions`, `VerifyOptions`. The comparison of registers and memory is an
outcome chosen freely.

**Subprocess and HarnessTracer.** `pipe_writers[t]` is the set of processes that
hold the write end of thread `t`'s pipe; `Fork` copies every open end into the
child, since no descriptor is close-on-exec; end of file is the empty set.
`tracer[t].at` follows `EventLoop`; `tracee[t]` is the kernel's view of the
traced child. `SeeExit` and `Wait4` race for the exit status, the loser gets
ECHILD. A child killed while stopped makes the next ptrace request fail, and
`LOG_FATAL` ends the process (`died`).

**SnapMaker.** `stage` follows `MakeSnapshot`: `make` (`Make`, whose loop is one
step per iteration), `record`, `verify` (one step per attempt), `trace`, and how
it ended. A call of the driver is one step and may come to anything `Runner` and
`RunnerDriver` allow. The candidate is a set of behaviours fixed in `MakerInit`:
which data pages it touches, and how it ends once they are there; each run shows
one of them, and a deterministic candidate has one. In compatibility mode the
maker adds a page after each fault, else the runner adds them all in one run and
`DataMappingDelta` finds them. A snap that runs away while its end state is
recorded is stopped at some instruction, which becomes the endpoint
(`endpoint_moved`). `banned` stands for what the trace filters refuse.

**RangeMap, MappedMemoryMap, MemoryState.** A range map is a set of entries, each
a function on `start..limit - 1`; `Add`, `Remove`, `Merge` and the clipped
iterations are the code's loops as operators over the entries and the gaps they
leave. The constants of `RangeMap` are the `Methods` class: what adding and
removing do to a value and whether neighbours merge; `MappedMemoryMap`
instantiates it with sets of permissions, `MemoryState` with known bytes.
The three variables of `MemoryState` are the code's three maps, an action is one
of its methods. `DeltaMemoryMappings` and `DeltaMemoryBytes` are readers: the
properties compute what executing their commands would give (`After`).

**Snapshot.** `snap` holds each list beside the map made of it, as the class
does; an action is a method together with the `can_...` test its caller owes.
`FromProto(ToProto(s))` builds the snapshot of the proto by the same operations
in the order of the code, which may refuse it. `PageSize`, `kMaxAddress` and the
last page without its last byte are the code's `Snapshot` constants made small.

**BinaryLogChannel.** A byte is numbered by its `Send`, so that a receiver that is
out of step is seen to read a header made of other bytes (`IsHeader`). Writes and
reads move any number of bytes that fit (`WriteSome`, `ReadSome`), both ends may
close, and the producer may die at any byte.

**Minimizer.** Code is a sequence of bytes that know their instruction, so an edit
at a stale address cuts an instruction in two and the trace shows it as `bad`.
What the two CPUs answer is any pair of `RunResults`. The passes of the schedule
are `NopCandidates`, `FuseCandidates`, `SwapCandidates`, `OmitCandidates` and
`Elide`, and a round is as `run_iterative_pass` has it.

**SdcPipeline and Feedback.** A file is the lines that parse and how it ends; a
kill during an append leaves nothing, a part, or all but the newline
(`AppendedInPart`), and `OpenVault` reads what is there. The vault has the three indexes
of `vault.py`: candidates and assessments in insertion order, and the children of each
parent as a set (`_children`, which `put_candidate` fills with `Linked` and `_load` does
not); `loaded` is how many candidates were read, for the property only. `run.pc` follows
`Pipeline.run`: `Work` is its two loops, every chosen mutator `PerGenMutations`
times before the next one; the children are stored before they are assessed; the
validation stays in the index. Assessments carry one metric and are chosen freely,
again at every assessment. Python's `sorted` is stable, so the order of rows is
given by a rank: a row comes after those that score higher and those before it
that score the same (`Rank`, `Sorted`). `Feedback` follows `main` with
`replay_gate` one step per replay.

**SnapGroup and FixTool.** A group is the ids and the map of the mappings of its
snapshots. `FixTool` deals blobs to workers by `PartitionEvenly`, lets the threads
of a partitioning round take and return summaries one by one, and writes each
group. What becomes of a blob is a constant with all the failures the code counts,
and the one it does not count.

**Snapify, RelocatableSnaps, CorpusPlay.** An image is a set of objects at offsets;
objects with pointers hold their values. The generator goes over the same requests
twice: the first pass sizes the blocks, the second places the objects, with data,
general and floating-point registers deduplicated. Loading moves every pointer by
the base. `CorpusPlay` damages the file or the CPU in between and plays the snaps of
a shard in one memory until one fails.

**ProgramMutator.** An instruction has an operation, a size, and for a branch a
displacement, and the index it is meant to reach (`boundary`). The actions are the
mutation operations, the crossover, the length limit, and one step of
`FixupEncodedDisplacements` per instruction, since re-encoding one may move all
others.

**PageTable.** `AddContiguousMapping` goes over the pages and, for each, over the
levels as the code does; `TranslateVirtualAddress` is the code's own walk. `Build` runs its two passes with
two creators, the first of which only counts tables.

**Tracing.** A machine of one register and two cells runs a snippet under a native
tracer, where a stopped tracer lets the snippet run on, or an emulator that stops
late. An analysis runs the snippet again without each instruction of the trace.

**CorpusLoading.** The list of shards is read, cut to the memory there is, loaded by
threads chunk by chunk with tokens for what xz makes of bytes, and compared with
checksums; then spans of CPUs are given to the workers.

**BoardScan.** One job deploys and scans a device; another has a thread per board, a
poller, and a collection afterwards. A connection may be refused, break or raise at any
call; what it had of the output is returned all the same. A log is a sequence of lines.
`parse_log` counts those that say an outcome (`ParseLog`, `Collect`); the poll greps raw
lines instead (`Counts`), and a failure of any kind may write none, one or more that match,
so "mismatch" lines are logged independently of "sdc" ones. A poll that is cut off
leaves any beginning of its two numbers (`Arrives`). A thread stores "done" whatever
its ssh call returned, or "error" if it raised; `closed` says whether the closing line
`SCAN_DONE_` was in the output, and is what the property goes by.

**FaultSweep.** One machine of items, each of which is a golden run if the script
makes one, and injections. A script is a record of how it differs (`Scripts`): where
its goldens come from, what it does with a run without output, how it counts.

**Proxies.** `gen` is `ArchFeatureGenerator` with the array of features, which outlive
an input; a run's callbacks are steps. `pmu` is what `pmu_events.cc` makes of the
machine's list of events.

**Evolution.** `evo` is one climb: measure, mutate, keep what is
no worse, write the file. Registers have a few bits and scores are in thousandths.
The last section fills the marked lines of a template from the tables of slots.

**PerfEventBuffer and PerfEventFuzzer.** The kernel's side of the ring is
external: it writes a record byte by byte into the room left and then moves
`data_head`. Offsets wrap around at `Offsets` and start shortly before, for 2^64.
A step of the reader is an object of a record. `PerfEventFuzzer` has the callback
of the harness tracer as one step, executions as another, and any call that may
fail failing up to `MaxFailures` times; `open_runs` is a history variable.

**ResultAccounting** has no threads, queue or clock: a result is produced, then
collected or, when at least `Capacity` others are outstanding, lost; a verdict comes when
nothing is outstanding. The refinement mapping in `Orchestrator` takes the
history variables as they are, `NumThreads` for `Capacity`, and the exit code
with the way out of `main` for `verdict`.

## 3. What the runs check

| run | instance | shows |
|---|---|---|
| `orchestrator_safety` | 2 workers, 3 CPUs, 2 iterations each, error budget 2, watchdog on | conservation of results, counters and order (`CollectorInStep`), clean exit, one runner per CPU, the error budget, and the refinement of `ResultAccounting` |
| `orchestrator_liveness` | 2 workers, watchdog on, `FairSpec` | a stop leads to the exit and every result is settled (`SessionSettles`) |
| `processes` | part `processes`: 2 threads, 2 calls each, one traced over 2 snaps, 2 more stops; part `driver`: 2 snaps, 3 iterations, 2 attempts, 2 added pages, all signals; parts `tracing`, `loading`, `boards`; fairness | status and output are the child's own; the tracer keeps step; what a result of the driver says about its processes; timers are live in snaps; traces, start-up and reports are right; every call returns |
| `data` | parts `memory`, `snapshot`, `sweep`, `proxies`, `evolution`, `variants` and `session` (1 worker, 3 shards, log and watchdog on, `Orchestrator`) | the maps are canonical and consistent and refine `AddressSpace`; commands and bytes lead to a snapshot; lists and maps agree; the proto and the normal form keep a snapshot; rates, features and operands are the run's own; each shard once before a worker leaves of itself; the protocol of the log |
| `tools` | one part for each of twelve tools and channels | the partition; the log channel and its refinement of `LogStream`; minimizer, pipeline, feedback; the PMU proxy's ring and its measurement; shards, corpora and their plays; the maker; mutants; page tables; what is begun ends |
| `orchestrator_failafter`, `driver_skipflag`, `pipe`, `quiet`, `maker_verbose`, `corpus_damage`, `proxy_features` | as above | section 5 |

The parts of a run do not interact: `part` is chosen at the start, and every
other part stays in its initial state. `MCProcesses`, `MCData` and `MCTools` say
so in their `Next`; their fairness is that of the parts' own specifications.

**Why the bounds are enough.** Two workers with two results each and two slots:
one worker can fill the queue while the other still holds a result, so drops,
swaps during an offer, and results that arrive after the event loop left all
occur. Three CPUs over two workers give spans of different sizes. Two failing
results and a budget of two let the budget run out inside a batch, between
batches and in the final drain. Three shards and three iterations reach the end
of the stream, and three failures the backoff. For the partition, 12 and 7 cover
fewer elements than spans, even and uneven division, and every remainder.

* *Processes.* For the driver, two snaps let one be run twice, or after one that
  failed; two attempts tell the first from a later one; two pages are both fewer
  than and as many as may be added. A trace has at most `Fuel` 12 steps, limits of 3
  and 6 cut some snippets and not others, and an emulator overruns by up to 2. Loading
  goes in chunks of 3 bytes with a megabyte of 4, so shards end inside a chunk, at
  its end and after it; two loader threads, one fault of I/O. Two boards, one of
  them the script's own, logs of two lines, one lost call. The boards log lines
  "sdc" and "mismatch" in any order and number, so the hits polled may be more or fewer
  than those collected; the device logs "sdc" and "runaway".
* *Memory and snapshots.* Three addresses let a range lie inside, at either end of,
  beside and across another one, with one permission to give and one pattern of
  bytes. Two and a half pages of two addresses, two entries in each list: one to
  split and one to leave; the last page is the short one.
* *Sweeps, proxies, operands.* Three items, two entries, one injection, one run that
  goes wrong, two jobs at a time: a result may be the item's own, a neighbour's or
  an older one. Batches of two inputs of up to three instructions, two instruction
  IDs, three register bits, pages of two bytes of two bits, and 22 features, so that
  the array ends inside a group. Three registers of two bits, two iterations and two
  probes; limits of 0, 1, 2 and 4 variants.
* *Maker.* The candidates are all deterministic ones with any mappings over four data
  pages (one reserved, one outside of the fuzzing config), and pairs of behaviours
  that start without a data page; the three pages that are not reserved are one more
  than may be added, one end state leaves no stack to exit, and two attempts tell the
  last from an earlier one.
* *Channels.* A pipe of two bytes is smaller than a header with its entry, so every
  write is cut, and two threads on both sides compete for the locks. The ring holds
  one record and a part of the next, so every second record wraps around. The event
  groups let two events open together, one, or none.
* *Scripts.* The minimizer's programs have a NOP at the front, between, and at the
  end; the numbers of successes and iterations are beyond reach, as the code's
  defaults are. The pipeline has a child that equals its ancestor, two generations
  and a kill at any step; its final list looks at the two best of the vault
  (`MaxListed`, 20 in the code) and names two (`MaxFinal`, 5).
* *Corpora.* Five small snapshots that share code, pages, stacks and data in all the
  ways that matter to the layout, pages of 8 bytes and words of 2, two bases, three
  plays. Mutants of up to 6 bytes with two repeats of a mutation and a branch of two
  sizes (`minimum_instructions` is 1 instead of 3). Page tables of 4 levels with 2
  entries each and pages of 2 bytes, up to three mappings out of eleven.

`MaxIterations`, `MaxCalls`, `MaxToggles`, `MaxStops`, `MaxSends`, `MaxErrors`,
`MaxKills`, `MaxRecords`, `MaxFailures`, `MaxMappings`, `MaxBytes`, `MaxEndStates`,
`MaxPlays`, `MaxRepeats`, `MaxIoFaults`, `MaxLost`, `MaxLogged`, `MaxTrouble`,
`MaxItems`, `MaxEntries`, `MaxInputs` and `Fuel` are the bounds of otherwise
unbounded loops; each is a guard of an action or the size of an input.

**Fairness.** `Orchestrator`: weak fairness of the main thread and of each
worker. The scheduler runs them, sleeps end, `driver.Run` returns because its
process has the remaining time as wall time budget, and the main thread waits
with a timeout. No signal, deadline or watchdog is assumed to come.
`RunnerDriver`: weak fairness of the runner's own code, of the driver, and of
the timers that the options set; a snap is never assumed to end. Every call the
model makes has a CPU budget, as the callers in the code do. `HarnessTracer`:
weak fairness of the threads, the tracers and the children; that a running child
ends is what `EveryCallReturns` shows of a runner with a budget. A child
held in a ptrace stop goes on only if its tracer lets it. `SnapMaker`: weak
fairness of its only thread, because every call of the driver returns
(`EveryCallReturns`). `Minimizer` and `PerfEventFuzzer`: one thread, and processes
that are killed when they hang. `BinaryLogChannel`: its threads are scheduled, and
a consumer that was told of an end closes its side.

Deadlock is checked in the runs of the orchestrator and the processes: a process
that has ended is a state with an explicit stuttering action, any other state without
a step is an error. `data` and `tools` have parts that simply come to their end, and
turn it off; that the maker and the other parts with a loop end where they should is
part of `ToolsEnd`.

## 4. What is proved

All theorems are for every value of the constants that the `ASSUME`s admit: a
positive number of threads, at least as many CPUs as threads (the `CHECK`
of the main thread), one thread in sequential mode, any integer error budget;
for the maker a finite set of pages, any limits, any candidates, at least one
attempt; for the driver any snaps and numbers of iterations and attempts; for the
tracer any threads and any bounds; for the tools any reports, candidates, mutators,
scores and settings; for the log channel any senders, receivers, capacity and sizes
of entries, and a header that is not empty; for the PMU ring any records and any
size that divides the range of the offsets (both are powers of two); for the PMU
measurement finitely many events, any schedule, and executions in which the last
breakpoint is passed once, after another one (the trigger code that the proxy puts at
both ends of the input sees to that); for the memory state an address space of any
size and any snapshots whose lists are as `can_add_memory_mapping`,
`can_add_negative_memory_mapping` and `can_add_memory_bytes` admit them: disjoint,
not empty, with some permission, the bytes in the mappings, and a positive
`kMinSkipOverBytes` (15, `memory_state.cc:383`); for the builder of a snapshot pages of more
than one address, finitely many ranges to add (not empty, within the address space, a
mapping with one set of permissions, as `CanMakeSized` and the types have it) and any end
states; for the scans finitely many
boards, any number of connections that fail and of entries in a log; for the sweeps
any of the nineteen scripts (`Scripts` is a part of `AllScripts`, of which the run
takes all), a machine that bears at least one process, at least one injection and any
number of items; for the proxies any instruction IDs, registers, memory and lists of
events, of finitely many events and with a counter to measure them (with none
`ScheduleEventsForCounters` would add empty groups for ever), counts clipped to a byte,
and any number of inputs and instructions. The theorems on range maps
hold for any `AddTo`, `RemoveFrom` and `CanMerge`. TLC evaluates every assumption on
every run. Most theorems state a property some run checks; the others are
`QueueIsBounded`, `VerdictIsSound`, `SpansArePartition`, the type of the maker, the
four on range maps, and `MemoryConsistent` and `DeltaReachesAnySnapshot`, the two
halves of `MemoryStaysRight`.

| theorem | statement |
|---|---|
| `TypeCorrect` | `Spec => []TypeOK` |
| `Conservation` | `Spec => []ResultsConserved` |
| `ExitIsClean` | `Spec => []CleanExit` |
| `QueueIsBounded` | `Spec => []QueueBounded` |
| `Refinement` | `Spec => RefinesAccounting` |
| `CollectorKeepsStep` | `Spec => []CollectorInStep` |
| `BudgetEndsSession` | `Spec => []ErrorBudgetStops` |
| `LogIsOrdered` | `Spec => []LogProtocol` |
| `CorpusIsCovered` | `Spec => SequentialCoverage` |
| `CpusAreExclusive` | `Spec => []CpuExclusive` |
| `VerdictIsSound` | `AccountingSpec => []VerdictSound` |
| `SpansArePartition` | the five properties of `PartitionEvenly`, for every vector |
| `PartitionStaysEven` | `Spec => []PartitionIsEven` (of `MCTools`) |
| `ChildIsOwn` | `HarnessSpec => []OwnChild` |
| `TracerKeepsStep` | `HarnessSpec => []TracerInStep` |
| `ResultsAreGenuine` | `DriverSpec => []ResultIsGenuine` |
| `TimersStayInPlace` | `DriverSpec => []TimersInPlace` |
| `MakerTypeCorrect` | `MakerSpec => []MakerTypeOK` |
| `MadePagesAreUsable` | `MakerSpec => []PagesAreUsable` |
| `MadeWasReproduced` | `MakerSpec => []MadeIsReproduced` |
| `DeterministicVerdict` | limits agree `=> (MakerSpec => []VerdictIsRight)` |
| `SeedsAreReproduced` | `FbSpec => []SeedsReproduced` |
| `VaultStaysFaithful` | `SdcSpec => []VaultIsFaithful` |
| `MeasurementStaysSound` | `FuzzSpec => []MeasurementIsSound` |
| `RingRead` | `RingSpec => RingIsRead`, which is `LogStream` refined and the view kept stable |
| `AddIsPointwise`, `RemoveIsPointwise` | what `RangeMap::Add` and `Remove` do, key by key |
| `AddRangeMapIsPointwise`, `RemoveRangeMapIsPointwise` | the same of `AddRangeMap` and `RemoveRangeMap` |
| `MemoryConsistent` | `MemorySpec => []MapsConsistent` |
| `DeltaReachesAnySnapshot` | `MemorySpec => []DeltaIsRight` |
| `MemoryStaysRight` | `DataSpec => []MemoryIsRight` (of `MCData`), which is both of these |
| `SnapshotStaysConsistent` | `SnapSpec => []SnapshotConsistent` |
| `MemoryRefinesAddressSpace` | `MemorySpec => RefinesAddressSpace` |
| `ReportsStayTrue` | `BoardSpec => []ReportsAreTrue` |
| `SweepsAreSound` | `SweepSpec => []SweepIsSound` |
| `ProxiesStayRight` | `ProxySpec => []ProxiesAreRight` |
| `ChannelFaithful` | `ChanSpec => ChannelIsFaithful`, which is `LogStream` refined and `EndIsTrue` |

*Conservation.* `ResultsConserved` is not inductive: the result a runner returns
must differ from all earlier ones, and the swap must not overwrite a batch.
`ConservationInv` adds that a worker's result carries its current iteration
number and sits in its hand only between the runner's end and the offer
(`HandInv`), that every older result has a smaller number (`FreshInv`), that
unspawned threads are those beyond `num_spawned` (`SpawnInv`), and that the
event loop's copy is empty outside of `process` (`BatchInv`).

*ExitIsClean.* From `ConservationInv` and `ExitInv`: from the drain on every
spawned worker is done (`JoinedInv`), a process that is gone takes no step
(`LifeInv`), the failure counter is positive exactly if a failing result was
collected (`FailureInv`), and at the exit the code is the verdict over an empty
queue (`VerdictInv`). No worker is left to hold a result, none is queued or
taken, so conservation puts each one among the collected and the lost.

*Refinement.* A step of a worker that returns is `Produce`, a processed result
is `Handle`, a refused offer is `Lose`, the exit is `Announce`, a failed set-up
or the watchdog is `Abort`, all else stutters. A refused offer needs the
cardinality argument: a full queue holds `NumThreads` different results
(conservation says it has no repetition), all of them outstanding, and
`produced` is finite (`FiniteInv`). Together with `VerdictIsSound` (inductive with
"a verdict leaves nothing outstanding", `VerdictInv`) this carries the meaning of a
verdict from the abstract session to the threads.

*Collector, budget, log.* `CollectorInStep` is inductive with `FiniteInv`: a
processed result is new to `handled` (conservation), so each of its cardinalities
grows by one with its counter; the order of a worker's results follows from that of
the queue, the batch and its hand. `ErrorBudgetStops` is inductive as it stands.
The log needs that nothing is in it before `setup` ends (`UnbegunInv`) and that the
summary is the last step (`LifeInv`).

*Sequential mode.* `SequentialInv`: the results are one for each shard up to the
worker's index (`Ran`). A worker that leaves unasked has an index past the corpus.

*Spans.* `SpanStart` is a function defined by recursion. That it has the closed form
`StartAt` is proved without an induction theorem: `LeastNumber`, a first-order fact
about sets of numbers (from `NatLessThanWellFounded` and `WFMin`), gives the least
length of a prefix where they would differ. What is left is arithmetic on the closed
form: spans meet, fit, and differ by one at most. `CpusAreExclusive` and
`PartitionStaysEven` follow; the latter by `SpanInv`, "what is joined is the prefix up
to where the next span starts".

*Harness tracer.* `HarnessInv` is the type and, for every thread, `CallInv`:
`ChildInv` (what has become of the child where the thread is), `PipeInv` (the child
holds its pipe until it ends), `FreshInv` (nothing is left of the last call's tracer),
`StatusInv` (one of the two waiters gets the status, and who reads it when) and
`SnapInv` (`is_active` is the parity of the SIGSTOPs, but for the one being handled).
A step of one thread disturbs the others' parts only by forking into their pipes,
which adds writers and takes none.

*Runner driver.* `DriverInv` adds to the types how far the process is
(`ProgressInv`), that it finds at most one failure, the outcome of the snap it ran
last (`FailureInv`), what may be on its stdout (`StdoutInv`), since when the timers are
masked (`TimerInv`), what its status says (`StatusInv`), and that every attempt before
this one was complete (`AttemptsInv`). The driver reads a status and a stdout of which
all this is true, so its result says no more.

*Snap maker.* `TypeInv` adds that plays are left while the stage is `verify`.
`GrowthInv`: the counter of the loop bounds the pages gained, and in the default
mode none is gained before the run that gains all. `RecordInv`: from the
recording on, the end state was reached on the snapshot's pages (or the endpoint
was moved), and every play so far ended in it. `DetInv`, for a candidate with
one behaviour that nothing disturbed: in `make` the pages are its own and some
it touches, and the counter is exact; past `make` they are exactly its own and
those it touches, so every later run ends the same way; what was rejected is not
`Fixable`. `DeterministicVerdict` needs `max_pages_to_add` within the runner's
static limit of 20: beyond that the default mode gives up on candidates which
compatibility mode would mend.

*Feedback.* `FbInv`: the items before `at` are settled and confirmed only with a hash
that was found and no failed replay, those from `at` on have not been judged, and a
failed replay of the current one leaves its count of reproductions short.

*SDC pipeline.* `SdcInv` is the types, `DiskInv`, `RunInv` and `FinalTopIsBest`.
`DiskInv` relates files and index at every step: while a process lives, a file that
can be read is the index without the record under way (`CandsMatch`, `AssessMatch`),
the index descends from the seeds, and nothing on disk is validated. `RunInv` says
that everything the process holds is in the index or about to go there: seeds
(`SeedingInv`), the pool (`PoolInv`), children (`ChildInv`) and rows (`RowInv`). That an
append which is cut off does no harm is one lemma on files (`FilesGrow`): what can be
read afterwards was there before or is the record, and the record is only in a file
that could be read. For the final list, a stable sort is a bijection from rows to
ranks: ranks lie in `1..n` and differ, so by the pigeonhole principle each is taken
(`RankTaken`), and a row that is left out has a rank beyond all that are in. The index of
children is an invariant of its own (`ChildrenInv`, kept by `ChildrenKept`): the candidates
that were read come first, and a record that is appended is one more to look among
(`SinceAppend`).

*Log channel.* `ChanInv` follows the bytes. `PlaceInv` says where in the pipe each
entry starts (before its first byte, for what has been read) and that its bytes follow
one another; `PartInv` adds the entry that is only in part in the pipe, which is that
of the one writer or one that was cut short. Until something is written after such an
entry (`torn` is `"middle"`) the reader stands, by `ReaderInv`, inside the entry after
those received, so the header it takes is a header and the bytes it counts are that
entry's. `SenderInv` says that one sender writes at a time and has the rest of its entry
left; `EndInv` that an error comes when all was received, and `EOC` only if nothing was
cut. The receiver that completes an entry is `Deliver` in `LogStream`, the writer that
completes one is `Accept`, a sender that follows a cut entry is `Break`.

*PMU measurement.* `FuzzInv` is the types, `ErrorInv` (an error of the callback is the
error of the input once an execution is over), `MeasuredInv` and `LastInv` (when the
last execution is being measured). `MeasuredInv` says what was counted: for the group
that is open, the pairs in the ring are those of the executions it has seen; for the
others, the measurements are what was run while they were open. `Counts` is recursive,
so what it makes of a longer run is shown by `LeastNumber` on sets of numbers.

*PMU ring.* The offsets wrap and the invariant must not: `RingInv` says that there are
starts of all records, as if offsets never wrapped, `w` bytes written of the next one,
and a last record `v` of the view. `StartInv` has the records follow one another from
the first offset, `KernelInv` gives `data_head`, `data_tail` and what is left to write
in terms of the starts, `ContentInv` the bytes of every record between `data_tail`
and where the kernel writes, and `ParserInv` the objects read so far and where the
view ends. Two facts about remainders carry it: wrapping an offset does not move its
slot, as the size of the ring divides the range, and offsets less than the size apart
have different slots, so the kernel writes on no byte that is still to be read.
`KernelPublishes` is `Accept` in `LogStream` and `CommitReads` is `Deliver`.

*Range maps.* A change leaves `Pieces`: entries that were there, cut at the ends of the
range (`UntouchedIs`, `SharedIs`), and new ones in the gaps (`GapIs`). They are
disjoint, hold what was covered or is in the range, and neighbours that meet outside
of the range were neighbours before (`ChangeIs`). `Merge` joins each run of entries that
may be merged: every entry is in one run, a run has no gap, and two runs do not meet
(`RunOf`, `RunCovers`, `RunsApart`), so no key changes its value and no neighbours are
left that could be one entry. `Remove` needs that `RemoveFrom` decides alike for all
keys of an entry in the range (`Uniform`), for it looks at the entry as a whole; the
three Methods classes do, as an entry has one value or nothing is ever left.
`ChangeRangeMap` is recursive in the parts of a finite map: `ChangesExist` shows by
`LeastNumber` over the keys that the recursion ends, and `PartsInduction` is the
induction over those parts.

*Memory state.* `MemoryInv` has the three maps in normal form with entries in the
address space, `kMapped` in what is mapped, known bytes written and written bytes mapped.
Each operation of `MappedMemoryMap` and of the sets of bytes is first shown to do what it
says address by address (`PermsAdded` to `IntersectionIs`, `BytesAdded`,
`BytesRemoved`), then each operation of `MemoryState` (`MapEffect` to `StartEffect`);
`StepKeepsInv` and `StepRefines` only compare what addresses hold. The hardest is
`SetInitialState`: it sets the mappings one after the other, takes away what the
negative ones outside of them forbid, and writes zeros where memory is new before the
snapshot's bytes. That an entry never loses all of its permissions there rests on
`kMapped` being in none of the negative mappings, which the code asserts in a `DCHECK`.

*Deltas.* `Difference` and `Intersection` of two maps are pointwise (`DifferenceIs`), so for
each mapping of the snapshot the commands cut it into what is missing and what has other
permissions (`OwnDeltaIs`), and what is forbidden or left over is an entry with one value
(`ForbiddenIs`, `ExtraCommandsAre`). Commands made from disjoint entries lie apart and
ask for what is there (`CommandsOn`), so the order in which they are executed does not
matter and each address ends as the one command for it says, or as it was (`AfterIs`). Those
for the snapshot's mappings and those outside of them never meet (`Together`). For the
bytes, `D` is the set of addresses whose value must change. A chunk ends where the next
address of `D` is `kMinSkipOverBytes` off (`LastOfIs`); two chunks are that far apart
(`ChunksApart`) and no gap in one is that long (`ChunkHasNoSkip`), so what is written
is what differs and the short gaps between. `kMinSkipOverBytes` is 1 in the run over three
addresses, where chunks split at every gap; the theorem has every positive value.

*Snapshots.* `GoodSnap` says of a snapshot that each map is in normal form and has at every
address what its list has (`Agree`), that mappings and negative mappings have no
permission at one address in common, and that bytes and end states fit the map. A map in
normal form is given by what it says (`OneNormalForm`), so such a map is the one the property
asks for, `MapOf` of the list. The four ways to add to a list are treated alike (`PutIs`), and
the loops of the code over lists, of which the order is not given or is that of a sequence, are
one kind of fold (`Folded`): each step adds an element or the whole has failed
(`FoldKeeps`, by `LeastNumber` over the elements). What is removed (mappings that are
replaced, platforms that are left out) is built anew from an empty snapshot, or keeps a part
of what fitted.

*Board scans.* The invariant has two halves that share only the count of failed
connections. `DeviceInv`: until the scan starts there is no log and no report
(`PhaseInv`), what is known of the tool on the device (`ToolInv`), an orchestrator runs or
ends without an error only if it had all it needs (`OrchInv`), and an exit code that came
is that of a scan which has ended, so the log read after it was all of it (`ReadInv`).
`BoardsInv`: for each board with its entry of the dictionary (`BoardOk`), the counts a poll
took or stored are covered by the matching lines of the log of this scan or, once that was
begun anew, of the last (a number cut short is no larger than the one that was sent); a
thread whose output was closed left an orchestrator that has ended, or had no log to
begin (`LogEnded`), and so did every thread that returned without a failed call; what a
poll stores keeps the status. So a log may still grow after its hits were printed or collected, but not
where a thread had its answer and the count is said to be exact.

*Fault sweeps.* `SweepInv` has four parts. `ItemsInv` follows each item with its output
directory (`ItemOk`): what a run that ended has left is due to its trouble and its
effect (`RunLeft`, `GoldenLeft`), the golden output it is compared with is that of its
program, but for the climb whose golden run died (`StaleItem`), and every class taken so
far is that of the run's own fault or says nothing (`ClassIsOwn`; `ClassIs` goes
through the outcomes). A step writes in the directory of its item only, and items at
work have directories of their own (`DirsApart`): where directories are shared, one job
runs (`JobsInv`). `ClimbInv` says that the best of the climb is the best so far, which needs
that all items after the one at work still wait. `VerdictInv` says that the totals are the
numbers of runs with a class that counts: the sum over the items is recursive, and that it
counts a set of pairs row by row is `SumCounts`, by `LeastNumber` on where the two would
differ first.

*Proxies.* `EventsInv` shares the events among the groups made so far and the sources that
are left (`ScheduleInv`): each source holds the sub-events of one event, so one from
each of some sources are of different events, and a round leaves every event in a
group or in a source. That the set the groups are made of has each event under its first
name is `DeduplicateEvents`; `LeastOf` finds the first. `FeaturesInv` says what was
emitted: the pairs of the instructions counted so far (`PairFeatures`), with the counts
and, if the last callback came, what `ExecFeatures` and `MemFeatures` say of the run.
`Knows` relates the generator to the instructions after which it was called, of which
`KnowsMore` adds one; the last one is still pending while the run goes on, and
`FlushedKnows` makes its callback up. Then each feature is read back: no two kinds
share a domain (`MeaningIs`), and quotient and remainder give what the number was put
together from (`TakenApart`), for instructions, bits, counts and pages of an emulator.
`Tells` relates features to what they say, kind by kind, and `HappenedIs` collects the same
kinds of what happened. Of the memory of a processor it proves nothing, as the property
says nothing of it (section 5 says why).

What proving found: the arms of `CASE` in the model of `HandleRunnerOutput` (and of two
others) overlapped, which TLA+ leaves ambiguous where the code has an order; they are
chains of `IF` now. `Work` went through the rounds of mutations before the mutators,
the code the other way round. `MemoryState` had snapshots whose lists nothing
constrained; what `can_add_*` admits is an assumption of it now, and what `CanMakeSized`
admits one of `Snapshot`. That the size of the
ring must divide the range of its offsets, which the code takes from `mmap` and the
width of its integers, is an assumption of the model now. The order of a proxy's
events came from a library operator whose result cannot be reasoned about; it is
`SortedEvents` now. And `UNION A \cup B` is `(UNION A) \cup B` to TLC but the union of both to
the proof system; where it occurs it has parentheses.

Only model-checked: liveness under fairness (the prover has no support for
`ENABLED`), and the other invariants of the runs. What recursive or folded
definitions compute for every input (layouts of a corpus, page tables, the
fixup of displacements) needs an induction over data that the installed provers cannot
instantiate; where a closed
form or a property of all parts exists, as for the spans and the range maps, the way through
`LeastNumber` is open.

## 5. Where code and documentation disagree

Each is a run that TLC must find violated, with the quoted line in
`PROJECT.json`.

* `orchestrator_failafter`: the error budget counts results without a player
  result, the verdict does not; a session that failed after N errors can exit
  with `EXIT_SUCCESS`.
* `driver_skipflag`: `--skip_end_state_check` is parsed and never copied to the
  options.
* `pipe`: `Subprocess::Start` assumes that there are no other threads, and is
  called by worker threads; the end of a child's output may wait for a child of
  another thread. It costs delay, not data: `OwnChild` and `EveryCallReturns`
  hold.
* `quiet`: after `kStopTracing` the tracer stays active until the next SIGSTOP,
  so a signal in the same snap reaches the callback again.
* `maker_verbose`: with `-v=1` a verification that fails without a player result
  (the runner was killed or could not be started) reads it all the same, and the
  `CHECK` of `failed_player_result` ends the maker.
* `corpus_damage`: the checksums that a failed play is compared with cover what the
  snap may not write; a damaged byte of the expected end state fails the play and
  still "matches".
* `proxy_features`: the features of the PMU proxy's memory bits collide, so bits of
  different data pages share one.

Read in the code and not a run: "at most 1 result slot per thread"
(`orchestrator/execution_context.cc:55`) bounds the queue by the number of
threads and reserves no slot, so a fast worker may take two and a slower one's
result is dropped, and counted (`ResultsConserved` holds); `Verify` is to show
that the snapshot "reaches the same expected end state"
(`runner/snap_maker.h:119`), and counts a play that ended with `exit_group(0)`
or SIGINT too, which `MadeIsReproduced` allows for; the runner exits through `_exit(2)` and some
`LOG_FATAL`s without the `execution_result` that the comment at
`runner/runner.cc:140` asks of every exit; `RunImpl` calls `Communicate`, which
waits for the child, before `Join`, whose comment
(`common/harness_tracer.h:151`) forbids that. The driver copes with both
(`ResultIsGenuine`, `OwnChild`).

In the memory state and the snapshot: `ForgetMemoryBytes` leaves the set of written
addresses as it is, which `common/memory_state.h:356` calls the "same set of
address ranges" as the bytes; the properties ask for no more than inclusion. Two
end states that differ only in how their bytes are cut become equal in the normal
form, and `FromProto` refuses duplicates; `ToProto` writes a snapshot in the making
whose endpoint is not mapped, and `FromProto` refuses that, too (`FormsAreSame`
excepts both). `EndState::set_platforms` and `add_platform` disagree by one on the
largest platform.

In the vault: `Vault._load` (`tools/sdc_pipeline/vault.py:42-58`) rebuilds candidates and
assessments and leaves `_children` empty, so `children()` (line 90) of a vault that was
opened again answers nothing for what is on disk, though each candidate names its parent
and `lineage()` finds it; `test_vault.py:60` asks within one process only. The model does the
same, and `VaultIsFaithful` says so (`ChildrenSinceOpening`): exactly the candidates stored
since the vault was opened. Nor are validation results written to a file.

In the tools: children of `OperandBitFlipMutator`, `PowerStressMutator` and
`OperandMutator` have an origin with the strategy in it, but
`tools/sdc_pipeline/pipeline.py:172` compares it with the mutator's name, so the
policy hears nothing of them (`Observe` models it); `NegativeControlFilter.select`
expects candidates or rows with `.cand`, gets the pipeline's tuples and rejects
nothing; the fix tool asks `os.fail()` before it closes a shard
(`simple_fix_tool.cc:319-323`), so one that cannot be flushed is not counted; a replay counts as a reproduction when its
output contains "failed" anywhere; with `--replay-n 0` every hit is confirmed.

In the PMU proxy: `PeekNextPerfEventHeader` tests `type <= 0 && type >= ...`
(`proxies/pmu_event_proxy/perf_event_buffer.cc:150`), which never holds; "No
measurements found" asks whether the name of an event is empty, which none is; the
queue and the counter are cleared only if the clean-up fails, so another error with
groups waiting ends the process on a `CHECK` of the destructor (phase `crashed`;
`CrashNeedsError` says that nothing else does).

In the corpus and the start-up: the file in memory is sealed without `F_SEAL_WRITE`
while `orchestrator/corpus_util.h` calls it protected; a list of empty shards makes
`CapResourcesToMemLimit` divide by zero.

In the proxies: the scheduler of events takes the smallest source group first where
its comment says the largest; up to 131072 bits of emulated memory go to an array of
100000 features, whose `CHECK` ends the process; an input may count as a success
though its `AfterExecution` never ran; no counters make the scheduling loop for ever;
the toggles of the last instruction are missed; the random numbers of the ACE proxy
are shared by the candidates, so scores depend on their order.

In the operand search: the crossover and the boundary mutation may lower what they are
to raise; markers on one line of a template overwrite each other; no probes divide by
zero.

In the sweeps: `sim_sweep.py` says that a timeout is "no_output" and parses what was
written all the same; `sdcbench_eval.py` says 0.5 of the cycles for the first clock and
takes 0.75, and runs 8 jobs where 4 is called the limit; `sdcbench_select.py` fails on
results without an id; the hill climb returns the first workload's golden and may take
one left from before; several divide by a total of zero.

In the board scripts: `distributed_scan.py` counts lines with "mismatch" or
"SNAPSHOT_FAILED" as SDC hits (lines 18 and 109) where `hw_log_parser.py` is to be the only
definition of one (outcomes 2 to 4): a failed checksum or memory state may match more than
once (`runner.cc:706`, `silifuzz_orchestrator.cc:141`) and a register mismatch not at all;
"done" is stored for a board that was never reached (`ssh_lib.py:39-62` raises nothing),
and `SCAN_DONE_` is printed where `cd` failed, so neither says that there was a scan; the
end of a scan overwrites the status polled meanwhile, and the
file is written while a poll may add a key; a stale `scan.log` is polled as the new
one, and the local board at a path it does not write; an ssh call that breaks off
returns what it had as if it were done; an exit code of 1 with any output passes for a
tool that was deployed, and an old file for one that was copied.

## 6. Limits

* Durations are not modelled. A deadline or budget is reached at some time; that
  a backoff of 30 s outlasts the deadline, or that a budget below a second
  truncates to 0, cannot be seen here.
* Memory contents, registers, instruction bytes, text and layout are
  abstracted to outcomes.
* `Runner` ends at its process: no SIGSTOP for a tracer (that is in
  `HarnessTracer`), and a system call the seccomp filter refuses is one step that
  kills. Page recovery counts pages and does not track which.
* `SnapMaker` leaves out the code page with the endpoint's trap, memory bytes,
  alignment and protections of pages, and the tracer's own stepping. Reserved
  pages are taken to be none the runner has mapped itself: touching one of those
  does not fault.
* In a session the log takes an entry whole or fails; what a write cut short does
  is in `BinaryLogChannel`.
* `MemoryState` leaves out iteration order and hints, `Snapshot` trace data, ids
  and register contents, `Minimizer` jumps in the code, `SdcPipeline` what mutators
  and evaluators compute.
* `RelocatableSnaps` takes a checksum for what it is taken of, `CorpusLoading` for a
  short number; `ProgramMutator` and `Tracing` have instructions of a few kinds,
  `PageTable` the same entry for both architectures.
* `FaultSweep` leaves out gem5 and the statistics over its results (`wilson`,
  `fisher_exact`), `Evolution` the wording of files, `BoardScan` the stress load and
  the reports.
* Weak memory is not modelled; the code uses a mutex and sequentially
  consistent atomics, but for the relaxed drop counter, which is read after the
  joins.
* A volatile flag in a signal handler is read and written as one step.
* The components with status `not_modelled` in `PROJECT.json` say why: pure I/O,
  emulators, code generation, or later in the plan.

## 7. Plan

Done, in this order: the orchestrator with its abstract specification and proofs;
runner and driver; subprocess and tracer; the snap maker and its proofs; the log
channel; range maps, memory state and snapshots; minimizer, pipeline and feedback;
the PMU proxy; corpora, grouping and the fix tool; the program mutator; page tables;
tracing and corpus loading; boards and sweeps; proxies and the operand search; the
proofs of session, spans, driver, tracer, feedback, pipeline, log channel, PMU ring and
PMU measurement; those of range maps, memory state with its deltas, snapshots, the scans of
boards, the sweeps, and the proxies.

Open:

1. Proofs: `OutputIsSound` of `Minimizer`, then the other invariants that only TLC checks.
2. Register sets and their scaled checksums (`snap/snap_checksum.cc`, `util/crc32c.cc`)
   byte by byte.
3. Static filters and the printing of snapshots.

Twelve questions are asked by a run each; a new one of the same shape becomes a
part of an existing run.
