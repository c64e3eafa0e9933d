---------------------------- MODULE Orchestrator ----------------------------
(***************************************************************************)
(* One session of silifuzz_orchestrator_main: the main thread sets up,     *)
(* spawns the worker threads, runs the event loop, joins the workers,      *)
(* drains the queue and turns the summary into the exit code; every worker *)
(* runs one runner process after another and offers each result; SIGINT,   *)
(* SIGALRM, the deadline and the watchdog may strike at any point.         *)
(*                                                                         *)
(* A runner process is one step from "running" to its result: what the     *)
(* driver makes of it is a nondeterministic choice of its kind.            *)
(***************************************************************************)
EXTENDS ExecutionContext, ResultCollector, SpanUtil, FiniteSets, Functions

CONSTANTS
  NumCpus,                \* CPUs the session may scan
  NumShards,              \* corpus shards in memory
  SequentialMode,         \* --sequential_mode
  WatchdogEnabled,        \* --watchdog_allowed_overrun > 0
  MaxFastFailures,        \* kMaxConsecutiveFastFailures (3 in the code)
  DriverKinds,            \* kinds of result the driver returns
  MaxIterations           \* bound: runner processes started by one worker

Threads == 1..NumThreads

ASSUME OrchestratorAssumption ==
  /\ NumCpus \in Nat /\ NumCpus >= NumThreads
  /\ NumShards \in Nat \ {0}
  /\ SequentialMode \in BOOLEAN /\ (SequentialMode => NumThreads = 1)
  /\ WatchdogEnabled \in BOOLEAN
  /\ MaxFastFailures \in Nat \ {0}
  /\ DriverKinds \subseteq Kinds
  /\ MaxIterations \in Nat

VARIABLES
  main_pc,            \* where the main thread is
  num_spawned,        \* worker threads created so far
  current_results,    \* EventLoop's local copy of the queue
  notified,           \* mu_ was handed to the main thread sleeping on it
  session_logging,    \* SessionLoggingEnabled()
  exit_code,          \* -1 while the process runs
  thread_pc,          \* where each worker is
  iteration,          \* iterations each worker has completed
  next_index,         \* NextCorpusGenerator::next_index_ of each worker
  fast_failures,      \* consecutive_fast_failures of each worker
  shard,              \* the corpus shard each worker took last
  hand,               \* run_result of each worker: none or one
  produced, handled, lost  \* history: results returned, collected, refused

mainVars   == <<main_pc, num_spawned, current_results, notified,
                session_logging, exit_code>>
threadVars ==
  <<thread_pc, iteration, next_index, fast_failures, shard, hand>>
history    == <<produced, handled, lost>>
vars == <<contextVars, collectorVars, mainVars, threadVars, history>>

EXIT_SUCCESS == 0
EXIT_FAILURE == 1
kWatchdogExitCode == 3
Running == -1

Results ==
  [by : Threads, n : 0..MaxIterations, shard : 1..NumShards, kind : Kinds]

\* The CPUs of worker t, and the one it uses in its i-th iteration.
Cpus(t) == PartitionEvenly([c \in 1..NumCpus |-> c], NumThreads)[t]
TargetCpu(t) == Cpus(t)[(iteration[t] % Len(Cpus(t))) + 1]

Alive == exit_code = Running

Init ==
  /\ ContextInit
  /\ CollectorInit
  /\ main_pc = "setup"
  /\ num_spawned = 0
  /\ current_results = <<>>
  /\ notified = FALSE
  /\ session_logging \in {FALSE, BinaryLogEnabled}
  /\ exit_code = Running
  /\ thread_pc = [t \in Threads |-> "unborn"]
  /\ iteration = [t \in Threads |-> 0]
  /\ next_index = [t \in Threads |-> 0]
  /\ fast_failures = [t \in Threads |-> 0]
  /\ shard = [t \in Threads |-> 0]
  /\ hand = [t \in Threads |-> {}]
  /\ produced = {} /\ handled = {} /\ lost = {}
-----------------------------------------------------------------------------
(***************************************************************************)
(* RunnerThread.                                                           *)
(***************************************************************************)
GotoThread(t, pc) == thread_pc' = [thread_pc EXCEPT ![t] = pc]

\* The loop test, the time budget and the corpus generator, up to the spawn
\* of the runner process.
StartRunner(t) ==
  /\ Alive /\ thread_pc[t] = "head"
  /\ ~ShouldStop
  /\ iteration[t] < MaxIterations
  /\ \E idx \in 1..NumShards :
       /\ SequentialMode => idx = next_index[t] + 1
       /\ shard' = [shard EXCEPT ![t] = idx]
  /\ next_index' =
       [next_index EXCEPT ![t] = IF SequentialMode THEN @ + 1 ELSE @]
  /\ GotoThread(t, "running")
  /\ UNCHANGED <<contextVars, collectorVars, mainVars, iteration,
                 fast_failures, hand, history>>

\* Mutant: the last shard is taken for the end of the stream.
EndOfStreamEarly(t) == SequentialMode /\ next_index[t] >= NumShards - 1

\* The generator returns kEndOfStream.
EndOfStream(t) == SequentialMode /\ next_index[t] >= NumShards

\* The loop ends: told to stop, out of time, or out of shards.
LeaveLoop(t) ==
  /\ Alive /\ thread_pc[t] = "head"
  /\ ShouldStop \/ EndOfStream(t)
  /\ GotoThread(t, "leaving")
  /\ UNCHANGED <<contextVars, collectorVars, mainVars, iteration, next_index,
                 fast_failures, shard, hand, history>>

\* driver.Run() returns; a failure within a second extends the streak, which
\* sends the thread to sleep before it offers the result.
RunnerReturns(t) ==
  /\ Alive /\ thread_pc[t] = "running"
  /\ \E kind \in DriverKinds, fast \in BOOLEAN :
       LET failed_fast == kind # "success" /\ fast
           result == [by |-> t, n |-> iteration[t], shard |-> shard[t],
                      kind |-> kind]
       IN  /\ fast_failures' = [fast_failures EXCEPT ![t] =
                                  IF failed_fast THEN @ + 1 ELSE 0]
           /\ GotoThread(t, IF fast_failures'[t] >= MaxFastFailures
                            THEN "backoff" ELSE "offer")
           /\ hand' = [hand EXCEPT ![t] = {result}]
           /\ produced' = produced \union {result}
  /\ UNCHANGED <<contextVars, collectorVars, mainVars, iteration, next_index,
                 shard, handled, lost>>

\* SleepFor(fast_failure_backoff) returns; nothing cuts it short.
BackoffEnds(t) ==
  /\ Alive /\ thread_pc[t] = "backoff"
  /\ GotoThread(t, "offer")
  /\ UNCHANGED <<contextVars, collectorVars, mainVars, iteration, next_index,
                 fast_failures, shard, hand, history>>

\* OfferRunResult: releasing mu_ evaluates ShouldWakeUp for a sleeping main
\* thread; the queue is not empty then, so the mutex passes to it.
Offer(t) ==
  /\ Alive /\ thread_pc[t] = "offer"
  /\ main_pc # "drain"
  /\ \E result \in hand[t] :
       \/ Accept(result) /\ UNCHANGED lost
       \/ Refuse /\ lost' = lost \union {result}
  /\ notified' = (notified \/ main_pc = "asleep")
  /\ iteration' = [iteration EXCEPT ![t] = @ + 1]
  /\ hand' = [hand EXCEPT ![t] = {}]
  /\ GotoThread(t, "head")
  /\ UNCHANGED <<stop_execution, past_deadline, collectorVars, main_pc,
                 num_spawned, current_results, session_logging, exit_code,
                 next_index, fast_failures, shard, produced,
                 handled>>

\* ctx->Stop() after the loop: the first worker out stops all the others.
StopAndReturn(t) ==
  /\ Alive /\ thread_pc[t] = "leaving"
  /\ Stop
  /\ GotoThread(t, "done")
  /\ UNCHANGED <<past_deadline, invocation_results, num_dropped_results,
                 collectorVars, mainVars, iteration, next_index, fast_failures,
                 shard, hand, history>>

Worker(t) ==
  \/ StartRunner(t) \/ LeaveLoop(t) \/ RunnerReturns(t) \/ BackoffEnds(t)
  \/ Offer(t) \/ StopAndReturn(t)
-----------------------------------------------------------------------------
(***************************************************************************)
(* The main thread: OrchestratorMain and EventLoop.                        *)
(***************************************************************************)
allButPc == <<contextVars, collectorVars, num_spawned, current_results, notified,
              session_logging, exit_code, threadVars, history>>

GotoMain(from, to) == Alive /\ main_pc = from /\ main_pc' = to

\* Metadata, corpora and their validation; the session-start log entry.
SetUp ==
  /\ GotoMain("setup", "spawn")
  /\ IF session_logging
     THEN binary_log' = Append(binary_log, [type |-> "session_start"])
     ELSE UNCHANGED binary_log
  /\ UNCHANGED <<contextVars, summaryVars, num_spawned, current_results,
                 notified, session_logging, exit_code, threadVars, history>>

SetUpFails ==
  /\ GotoMain("setup", "failed")
  /\ exit_code' = EXIT_FAILURE
  /\ UNCHANGED <<contextVars, collectorVars, num_spawned, current_results,
                 notified, session_logging, threadVars, history>>

Spawn ==
  /\ GotoMain("spawn", "spawn")
  /\ ~ShouldStop /\ num_spawned < NumThreads
  /\ num_spawned' = num_spawned + 1
  /\ GotoThread(num_spawned', "head")
  /\ UNCHANGED <<contextVars, collectorVars, current_results, notified,
                 session_logging, exit_code, iteration, next_index,
                 fast_failures, shard, hand, history>>

SpawnEnds ==
  /\ GotoMain("spawn", "loop")
  /\ ShouldStop \/ num_spawned = NumThreads
  /\ UNCHANGED allButPc

\* while (!ShouldStop())
LoopTest ==
  /\ \/ GotoMain("loop", "join") /\ ShouldStop
     \/ GotoMain("loop", "lock") /\ ~ShouldStop
  /\ UNCHANGED allButPc

\* LockWhenWithTimeout with a false condition: the main thread sleeps.
Sleep ==
  /\ GotoMain("lock", "asleep")
  /\ ~ShouldWakeUp
  /\ UNCHANGED allButPc

\* Mutant: the queue is copied, not swapped out.
CopyResults ==
  /\ current_results' = invocation_results
  /\ notified' = FALSE
  /\ UNCHANGED <<contextVars, collectorVars, num_spawned, session_logging,
                 exit_code, threadVars, history>>

\* invocation_results_.swap(current_results) under mu_.
TakeResults ==
  /\ current_results' = invocation_results
  /\ invocation_results' = <<>>
  /\ notified' = FALSE
  /\ UNCHANGED <<stop_execution, past_deadline, num_dropped_results,
                 collectorVars, num_spawned, session_logging, exit_code,
                 threadVars, history>>

WakeAtOnce    == GotoMain("lock", "process") /\ ShouldWakeUp /\ TakeResults
WakeNotified  == GotoMain("asleep", "process") /\ notified /\ TakeResults
WakeOnTimeout == GotoMain("asleep", "process") /\ TakeResults   \* kTimeout

\* One iteration of ProcessResultQueueImpl.
Process(result) ==
  /\ Collect(result)
  /\ IF CollectorWantsStop(result) THEN Stop ELSE UNCHANGED stop_execution
  /\ handled' = handled \union {result}
  /\ UNCHANGED <<past_deadline, num_dropped_results, num_spawned, notified,
                 session_logging, exit_code, threadVars, produced,
                 lost>>

ProcessTaken ==
  /\ GotoMain("process", "process")
  /\ current_results # <<>>
  /\ Process(Head(current_results))
  /\ current_results' = Tail(current_results)
  /\ UNCHANGED invocation_results

TakenProcessed ==
  /\ GotoMain("process", "loop")
  /\ current_results = <<>>
  /\ UNCHANGED allButPc

\* Mutant: the last worker is not joined.
AllButLastJoined == \A t \in 1..(num_spawned - 1) : thread_pc[t] = "done"

AllJoined == \A t \in 1..num_spawned : thread_pc[t] = "done"

Join ==
  /\ GotoMain("join", "drain")
  /\ AllJoined
  /\ UNCHANGED allButPc

\* ProcessResultQueue() after the join, holding mu_ throughout.
Drain ==
  /\ GotoMain("drain", "drain")
  /\ invocation_results # <<>>
  /\ Process(Head(invocation_results))
  /\ invocation_results' = Tail(invocation_results)
  /\ UNCHANGED current_results

Drained == invocation_results = <<>>

\* Mutant: the number of failures is the exit code.
VerdictIsCount == num_failed_snapshots

Verdict == IF num_failed_snapshots > 0 THEN EXIT_FAILURE ELSE EXIT_SUCCESS

\* The session summary and the exit code.
Exit ==
  /\ GotoMain("drain", "exited")
  /\ Drained
  /\ IF session_logging \/ num_failed_snapshots > 0
     THEN Send([type |-> "session_summary"])
     ELSE UNCHANGED binary_log
  /\ exit_code' = Verdict
  /\ UNCHANGED <<contextVars, summaryVars, num_spawned, current_results,
                 notified, session_logging, threadVars, history>>

Main ==
  \/ SetUp \/ SetUpFails \/ Spawn \/ SpawnEnds \/ LoopTest \/ Sleep
  \/ WakeAtOnce \/ WakeNotified \/ WakeOnTimeout \/ ProcessTaken
  \/ TakenProcessed \/ Join \/ Drain \/ Exit
-----------------------------------------------------------------------------
(***************************************************************************)
(* The environment: signals, time and the watchdog thread.                 *)
(***************************************************************************)
\* The SIGINT/SIGALRM handler, installed by OrchestratorInit.
Signal ==
  /\ Alive /\ main_pc # "setup"
  /\ Stop
  /\ UNCHANGED <<past_deadline, invocation_results, num_dropped_results,
                 collectorVars, mainVars, threadVars, history>>

DeadlinePasses ==
  /\ Alive
  /\ past_deadline' = TRUE
  /\ UNCHANGED <<stop_execution, invocation_results, num_dropped_results,
                 collectorVars, mainVars, threadVars, history>>

\* The detached watchdog calls _exit: no join, no drain, no verdict.
WatchdogFires ==
  /\ Alive /\ main_pc # "setup"
  /\ WatchdogEnabled /\ past_deadline
  /\ exit_code' = kWatchdogExitCode
  /\ main_pc' = "killed"
  /\ UNCHANGED <<contextVars, collectorVars, num_spawned, current_results,
                 notified, session_logging, threadVars, history>>

\* A process that has exited takes no more steps.
Terminated == ~Alive /\ UNCHANGED vars

Next ==
  \/ Main
  \/ \E t \in Threads : Worker(t)
  \/ Signal \/ DeadlinePasses \/ WatchdogFires \/ Terminated

Spec == Init /\ [][Next]_vars

(***************************************************************************)
(* Every thread keeps being scheduled; a runner process returns (its wall  *)
(* time budget is a timer that kills it) and a sleep ends.  Nothing makes  *)
(* a signal arrive, the deadline pass or the watchdog fire.                *)
(***************************************************************************)
FairSpec == Spec /\ WF_vars(Main) /\ \A t \in Threads : WF_vars(Worker(t))
-----------------------------------------------------------------------------
Held   == UNION {hand[t] : t \in Threads}
Queued == Range(invocation_results)
Taken  == Range(current_results)

MainPcs == {"setup", "spawn", "loop", "lock", "asleep", "process", "join",
            "drain", "exited", "failed", "killed"}
ThreadPcs ==
  {"unborn", "head", "running", "backoff", "offer", "leaving", "done"}
LogEntries == [type : {"session_start", "session_summary"}]
              \union [type : {"snapshot_execution_result"}, result : Results]

FlagsTypeOK ==
  /\ stop_execution \in BOOLEAN /\ past_deadline \in BOOLEAN
  /\ notified \in BOOLEAN /\ session_logging \in BOOLEAN

ContextTypeOK ==
  /\ invocation_results \in Seq(Results)
  /\ num_dropped_results \in Nat

CollectorTypeOK ==
  /\ play_count \in Nat
  /\ num_failed_snapshots \in Nat /\ num_runaway_snapshots \in Nat
  /\ fail_after_n_errors \in Int
  /\ binary_log \in Seq(LogEntries)

MainTypeOK ==
  /\ main_pc \in MainPcs /\ num_spawned \in 0..NumThreads
  /\ current_results \in Seq(Results)
  /\ exit_code \in {Running, EXIT_SUCCESS, EXIT_FAILURE, kWatchdogExitCode}

ThreadTypeOK ==
  /\ thread_pc \in [Threads -> ThreadPcs]
  /\ iteration \in [Threads -> 0..MaxIterations]
  /\ next_index \in [Threads -> 0..NumShards]
  /\ fast_failures \in [Threads -> Nat]
  /\ shard \in [Threads -> 0..NumShards]
  /\ hand \in [Threads -> SUBSET Results]
  /\ \A t \in Threads : thread_pc[t] \in {"running", "backoff", "offer"} =>
       iteration[t] < MaxIterations /\ shard[t] \in 1..NumShards

HistoryTypeOK ==
  produced \subseteq Results /\ handled \subseteq Results /\ lost \subseteq Results

\* The types of the variables, part by part; result counts are naturals, the
\* error budget may go negative.
TypeOK ==
  /\ FlagsTypeOK /\ ContextTypeOK /\ CollectorTypeOK
  /\ MainTypeOK /\ ThreadTypeOK /\ HistoryTypeOK

-----------------------------------------------------------------------------
\* Every result a runner returned is in exactly one place: in the hand of its
\* worker, in the queue, in the event loop's copy of the queue, collected, or
\* counted as dropped (OfferRunResult, the swap in EventLoop and the final
\* ProcessResultQueue neither lose nor repeat one).
ResultsConserved ==
  /\ produced = UNION {Held, Queued, Taken, handled, lost}
  /\ Held \intersect (Queued \union Taken \union handled \union lost) = {}
  /\ Queued \intersect (Taken \union handled \union lost) = {}
  /\ Taken \intersect (handled \union lost) = {}
  /\ handled \intersect lost = {}
  /\ IsInjective(invocation_results) /\ IsInjective(current_results)

\* The summary, the error budget and num_dropped_results() agree with what
\* really happened to the results.
CountersAgree ==
  /\ play_count = Cardinality(handled)
  /\ num_dropped_results = Cardinality(lost)
  /\ num_failed_snapshots = Cardinality({r \in handled : IsFailure(r.kind)})
  /\ num_runaway_snapshots = Cardinality({r \in handled : r.kind = "runaway"})
  /\ fail_after_n_errors =
       FailAfterNErrors - Cardinality({r \in handled : IsError(r.kind)})

Before(r, s) == r.by = s.by => r.n < s.n
InOrder(seq) == \A i, j \in 1..Len(seq) : i < j => Before(seq[i], seq[j])

\* Results of one worker reach the collector in the order its runners ended,
\* across the queue, the swap and the final drain.
PerThreadOrder ==
  /\ InOrder(invocation_results) /\ InOrder(current_results)
  /\ \A r \in handled, s \in Taken \union Queued \union Held : Before(r, s)
  /\ \A r \in Taken, s \in Queued \union Held : Before(r, s)
  /\ \A r \in Queued, s \in Held : Before(r, s)

\* Draining batches of several workers, the collector keeps count and order: the
\* summary, the budget and the drop counter agree with what happened to the results,
\* and no result overtakes an earlier one of its worker.
CollectorInStep == CountersAgree /\ PerThreadOrder

\* The queue stays within the slots the constructor reserves.
QueueBounded == Len(invocation_results) <= NumThreads

\* When OrchestratorMain returns a verdict every worker it started has ended,
\* no result is left (the destructor's check), and the exit code is
\* EXIT_FAILURE exactly when a failing result was collected: EXIT_SUCCESS can
\* hide a failing result only if it is one of the dropped.
CleanExit ==
  main_pc = "exited" =>
    /\ \A t \in 1..num_spawned : thread_pc[t] = "done"
    /\ Held \union Queued \union Taken = {}
    /\ exit_code = EXIT_FAILURE <=> \E r \in handled : IsFailure(r.kind)
    /\ exit_code = EXIT_SUCCESS =>
         {r \in produced : IsFailure(r.kind)} \subseteq lost

\* No CPU runs two runner processes of the session at once.
CpuExclusive ==
  \A t, u \in Threads :
    t # u /\ thread_pc[t] = "running" /\ thread_pc[u] = "running"
      => TargetCpu(t) # TargetCpu(u)

\* Once the errors collected use up --fail_after_n_errors, the session is
\* stopping: no main-thread or worker step lets it run on.
ErrorBudgetStops ==
  fail_after_n_errors <= 0 /\ (\E r \in handled : IsError(r.kind))
    => stop_execution

\* A worker leaves its loop only for a reason every worker shares, or in
\* sequential mode after it has run each shard of the corpus exactly once.
SequentialCoverage ==
  [][\A t \in Threads :
       thread_pc[t] = "head" /\ thread_pc'[t] = "leaving" /\ ~ShouldStop
         => \A idx \in 1..NumShards :
              Cardinality({r \in produced : r.shard = idx}) = 1]_vars

\* What a reader of the binary log can rely on: the session start comes first,
\* a failure is logged only if collected and at most once, in the order of its
\* worker, and the summary closes the log of a process that has exited.
LogProtocol ==
  LET Is(i, type) == binary_log[i].type = type
      Logged(i) == binary_log[i].result
  IN  \A i \in 1..Len(binary_log) :
        /\ Is(i, "session_start") => i = 1
        /\ Is(i, "session_summary") => i = Len(binary_log) /\ main_pc = "exited"
        /\ Is(i, "snapshot_execution_result") =>
             /\ Logged(i) \in handled /\ IsFailure(Logged(i).kind)
             /\ \A j \in 1..(i - 1) :
                  Is(j, "snapshot_execution_result") =>
                    Logged(j) # Logged(i) /\ Before(Logged(j), Logged(i))

\* The session settles, however the threads are scheduled: after a signal, the
\* deadline, the last shard or the last error of the budget the process exits, and
\* each result a runner returned is collected or counted as dropped, unless the
\* watchdog cuts the session off.
SessionSettles ==
  /\ ShouldStop ~> ~Alive
  /\ (produced # handled \union lost)
       ~> (produced = handled \union lost \/ exit_code = kWatchdogExitCode)

\* ResultCollector::Options, "Fail after seeing this many errors": a session
\* that collected that many errors does not exit with EXIT_SUCCESS.
FailsAfterNErrors ==
  main_pc = "exited" /\ FailAfterNErrors > 0 /\ fail_after_n_errors <= 0
    => exit_code = EXIT_FAILURE

\* The verdict an observer of the process sees.
SessionVerdict ==
  CASE exit_code = Running -> "running"
    [] main_pc = "exited" /\ exit_code = EXIT_FAILURE -> "failure"
    [] main_pc = "exited" /\ exit_code = EXIT_SUCCESS -> "success"
    [] OTHER -> "aborted"

Accounting ==
  INSTANCE ResultAccounting WITH
    Result <- Results,
    Failure <- {r \in Results : IsFailure(r.kind)},
    Capacity <- NumThreads,
    verdict <- SessionVerdict

\* The threads, the queue and the event loop implement the accounting that
\* ResultAccounting promises.
RefinesAccounting == Accounting!AccountingSpec
=============================================================================
