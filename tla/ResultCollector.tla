-------------------------- MODULE ResultCollector ---------------------------
(***************************************************************************)
(* ResultCollector (orchestrator/result_collector.h, .cc): the callback    *)
(* that turns the result of one runner process into the session's summary, *)
(* the binary log and the decision to stop.  Only the main thread calls    *)
(* it.                                                                     *)
(***************************************************************************)
EXTENDS Integers, Sequences

CONSTANTS
  FailAfterNErrors,        \* --fail_after_n_errors
  ReportRunawaysAsErrors,  \* --report_runaways_as_errors
  BinaryLogEnabled         \* --binary_log_fd >= 0

ASSUME CollectorAssumption ==
  /\ FailAfterNErrors \in Int
  /\ ReportRunawaysAsErrors \in BOOLEAN
  /\ BinaryLogEnabled \in BOOLEAN

VARIABLES
  play_count, num_failed_snapshots, num_runaway_snapshots,   \* Summary
  fail_after_n_errors,                                       \* errors left
  binary_log               \* the entries the log channel took, oldest first

summaryVars ==
  <<play_count, num_failed_snapshots, num_runaway_snapshots,
    fail_after_n_errors>>
collectorVars == <<summaryVars, binary_log>>

\* A RunResult, as far as the collector tells results apart: success(), an
\* error without a player result, a runaway, any other player result.
Kinds == {"success", "error", "runaway", "mismatch"}

CollectorInit ==
  /\ play_count = 0
  /\ num_failed_snapshots = 0
  /\ num_runaway_snapshots = 0
  /\ fail_after_n_errors = FailAfterNErrors
  /\ binary_log = <<>>

IgnoredRunaway(kind) == kind = "runaway" /\ ~ReportRunawaysAsErrors

\* What counts towards the verdict, and what uses up --fail_after_n_errors.
IsFailure(kind) == kind \in {"runaway", "mismatch"} /\ ~IgnoredRunaway(kind)
IsError(kind)   == kind # "success" /\ ~IgnoredRunaway(kind)

\* BinaryLogProducer::Send: without a channel nothing is sent; with one, the
\* entry goes out or the send fails, which the callers below only log.
Send(entry) ==
  \/ UNCHANGED binary_log
  \/ BinaryLogEnabled /\ binary_log' = Append(binary_log, entry)

\* ResultCollector::operator().
Collect(result) ==
  /\ play_count' = play_count + 1
  /\ num_runaway_snapshots' =
       num_runaway_snapshots + (IF result.kind = "runaway" THEN 1 ELSE 0)
  /\ num_failed_snapshots' =
       num_failed_snapshots + (IF IsFailure(result.kind) THEN 1 ELSE 0)
  /\ fail_after_n_errors' =
       fail_after_n_errors - (IF IsError(result.kind) THEN 1 ELSE 0)
  /\ IF IsFailure(result.kind)
     THEN Send([type |-> "snapshot_execution_result", result |-> result])
     ELSE UNCHANGED binary_log

\* Mutant: one error too many is tolerated.
CollectorWantsStopLate(result) ==
  IsError(result.kind) /\ fail_after_n_errors' < 0

\* ... and its return value, read after Collect.
CollectorWantsStop(result) == IsError(result.kind) /\ fail_after_n_errors' <= 0
=============================================================================
