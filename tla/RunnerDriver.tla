---------------------------- MODULE RunnerDriver ----------------------------
(***************************************************************************)
(* RunnerDriver (runner/driver/runner_driver.cc): starts a runner process, *)
(* waits for it, and makes a RunResult of its exit status and its stdout;  *)
(* VerifyOneRepeatedly does so until a run fails or NumAttempts succeeded. *)
(***************************************************************************)
EXTENDS Runner, FiniteSets

CONSTANTS
  CorpusIterations,    \* --num_iterations of a run over the whole corpus
  NumAttempts,         \* num_attempts of VerifyOneRepeatedly
  MaxPagesToAdd,       \* max_pages_to_add of MakeOne
  SkipEndStateCheck    \* runs over the whole corpus get --skip_end_state_check

ASSUME DriverAssumption ==
  /\ CorpusIterations \in Nat \ {0} /\ NumAttempts \in Nat \ {0}
  /\ MaxPagesToAdd \in Nat /\ SkipEndStateCheck \in BOOLEAN

VARIABLES
  attempt,         \* runs started so far, successful ones included
  run_result,      \* what RunImpl returned last, or NoResult
  endings          \* history: how each process ended and what it had detected

driverVars == <<options, attempt, run_result, endings>>
driver_vars == <<runnerVars, driverVars>>

\* The RunnerOptions of the driver's calls: Run over a corpus as the orchestrator
\* makes it (under its deadline and the CPU budget), PlayOne, MakeOne and
\* VerifyOneRepeatedly (under the CPU budget alone).
RunnerOptions(call, mode, id, iterations, budgets) ==
  [call |-> call, mode |-> mode, snap_id |-> id, num_iterations |-> iterations,
   budgets |-> budgets, max_pages_to_add |-> 0, strict |-> FALSE,
   skip_end_state_check |-> FALSE]

CorpusRun(mode, strict) ==
  [RunnerOptions("Run", mode, kNone, CorpusIterations, TimerSignals)
     EXCEPT !.strict = strict, !.skip_end_state_check = SkipEndStateCheck]
CorpusOptions == {CorpusRun(mode, strict) : mode \in {"run", "sequential"}, strict \in BOOLEAN}
PlayOptions ==
  {RunnerOptions("PlayOne", "run", id, 3, {"SIGXCPU"}) : id \in Snaps}
MakeOptions ==
  {[RunnerOptions("MakeOne", "make", id, 1, {"SIGXCPU"})
      EXCEPT !.max_pages_to_add = MaxPagesToAdd] : id \in Snaps}
VerifyOptions ==
  {RunnerOptions("VerifyOneRepeatedly", "run", id, 3, {"SIGXCPU"}) : id \in Snaps}

Attempts == IF options.call = "VerifyOneRepeatedly" THEN NumAttempts ELSE 1
SnapshotId == options.snap_id

\* A RunResult: its status code, and the snapshot and outcome of its player
\* result if it has one.
RunResult(code, player) == [code |-> code, player |-> player]
NoResult      == RunResult("none", <<>>)
Successful    == RunResult("ok", <<>>)
InternalError == RunResult("internal_error", <<>>)

Positions(field) == {i \in DOMAIN stdout : stdout[i].field = field}
Has(field)       == Positions(field) # {}
Value(field)     == stdout[CHOOSE i \in Positions(field) : TRUE].value

\* The text-format parser takes a message once, and only whole.
Parses ==
  /\ ~Has("torn")
  /\ \A i, j \in DOMAIN stdout : stdout[i].field = stdout[j].field => i = j

\* Mutant: a timeout counts as a success for a single snapshot too.
TimeoutIsSuccess == status = Exited(2)

\* Exit code 2 on a whole corpus: a graceful shutdown.
GracefulTimeout == status = Exited(2) /\ SnapshotId = kNone

HandleRunnerOutput ==
  LET code   == Value("execution_result")[1]
      player == Value("failed_snapshot_execution")
  IN  IF status \in {Killed("SIGINT"), Exited(0)} \/ GracefulTimeout THEN Successful
      ELSE IF status.how = "signaled" \/ ~Parses \/ ~Has("execution_result")
           THEN InternalError
      ELSE IF ~Has("failed_snapshot_execution") THEN RunResult(code, <<>>)
      ELSE IF SnapshotId # kNone /\ player[1] # SnapshotId THEN InternalError
      ELSE RunResult(code, player)

Success(result) == result.code = "ok"
-----------------------------------------------------------------------------
DriverInit ==
  /\ options \in CorpusOptions \union PlayOptions \union MakeOptions
                 \union VerifyOptions
  /\ RunnerStart
  /\ attempt = 1 /\ run_result = NoResult /\ endings = <<>>

\* Communicate returns and its result is handled.
RunReturns ==
  /\ run_result = NoResult /\ ~IsRunning
  /\ run_result' = HandleRunnerOutput
  /\ endings' = Append(endings, [status |-> status, at |-> pc,
                                 executed |-> executed, detected |-> detected])
  /\ UNCHANGED <<runnerVars, options, attempt>>

\* The subprocess cannot be started.
StartFails ==
  /\ run_result = NoResult /\ IsRunning /\ pc = "setup"
  /\ run_result' = InternalError
  /\ UNCHANGED <<runnerVars, options, attempt, endings>>

\* VerifyOneRepeatedly goes on after a success.
RunAgain ==
  /\ run_result # NoResult /\ Success(run_result) /\ attempt < Attempts
  /\ attempt' = attempt + 1
  /\ run_result' = NoResult
  /\ RunnerStarts
  /\ UNCHANGED <<options, endings>>

\* The driver's call returns run_result to its caller.
Returns ==
  run_result # NoResult /\ (~Success(run_result) \/ attempt = Attempts)

Waiting == run_result = NoResult /\ UNCHANGED driverVars
RunnerSteps == Waiting /\ RunnerStep
TimerFires  == Waiting /\ \E sig \in options.budgets : Deliver(sig)

DriverNext ==
  \/ RunnerSteps \/ TimerFires
  \/ Waiting /\ SnapStep
  \/ Waiting /\ \E sig \in {"SIGSEGV", "SIGTERM"} : Deliver(sig)
  \/ Waiting /\ \E sig \in Deadly : Kill(sig)
  \/ RunReturns \/ StartFails \/ RunAgain
  \/ Returns /\ UNCHANGED driver_vars

DriverSpec == DriverInit /\ [][DriverNext]_driver_vars

(***************************************************************************)
(* The process and the driver keep running, and a timer that is set fires; *)
(* nothing makes a snap end or a signal from outside arrive.               *)
(***************************************************************************)
DriverFairSpec ==
  /\ DriverSpec
  /\ WF_driver_vars(RunnerSteps) /\ WF_driver_vars(TimerFires)
  /\ WF_driver_vars(RunReturns) /\ WF_driver_vars(RunAgain)
-----------------------------------------------------------------------------
Pcs == {"setup", "loop", "entering", "snap", "ended", "report", "checksum",
        "result", "return", "gone", "quit"}
SnapOutcomes ==
  {"as_expected", "register_mismatch", "memory_mismatch", "runaway", "misbehave"}
Codes == {"ok", "unhandled_signal", "mmap_failed", "overlapping_mappings",
          "initial_checksum_mismatch", "snapshot_failed", "internal_error"}
Players == {<<>>} \union (Snaps \X SnapOutcomes)
Statuses == {NotEnded} \union {Exited(code) : code \in 0..2}
            \union {Killed(sig) :
                      sig \in CaughtSignals \union Deadly \union {"SIGSYS"}}
Messages == {ExecutionResult(code) : code \in Codes}
            \union {FailedSnapshot(id, o) : id \in Snaps, o \in SnapOutcomes}
            \union {Postfailure(c) : c \in {"match", "mismatch"}} \union {Torn}

\* The types of the variables; a process has ended exactly when its
\* pc is "gone", or "quit" when the snap ended it.
DriverTypeOK ==
  /\ pc \in Pcs /\ snap \in Snaps \union {kNone}
  /\ executed \in 0..NumIterations /\ outcome \in SnapOutcomes \union {"none"}
  /\ enter_snap_context \in BOOLEAN /\ context_saved \in BOOLEAN
  /\ signum \in CaughtSignals \union {"none"} /\ timers_masked \in BOOLEAN
  /\ num_added_pages \in 0..options.max_pages_to_add
  /\ stdout \in Seq(Messages)
  /\ status \in Statuses /\ (IsRunning <=> pc \notin {"gone", "quit"})
  /\ detected \in Seq(Snaps \X SnapOutcomes)
  /\ options \in CorpusOptions \union PlayOptions \union MakeOptions
                 \union VerifyOptions
  /\ attempt \in 1..Attempts
  /\ run_result \in [code : Codes \union {"none"}, player : Players]
  /\ endings \in Seq([status : Statuses, at : Pcs, executed : 0..NumIterations,
                     detected : Seq(Snaps \X SnapOutcomes)])

\* Whatever interrupted the process, a failing player result names the snap and
\* the outcome of the failure the process itself found, and no other.
ReportGenuine ==
  LET player == run_result.player
  IN  player # <<>> /\ player[2] # "as_expected"
        => ~Success(run_result) /\ detected = <<player>>

\* A failure the process found becomes a success only if a timer or the
\* terminal cut it off, and a timer only on a run over a whole corpus.
SuccessHidesNothing ==
  Success(run_result) /\ detected # <<>>
    => status = Killed("SIGINT") \/ (status = Exited(2) /\ SnapshotId = kNone)

\* The timers cannot cut short the report of a snap that a signal ended: a
\* runaway, once found, is not turned into a graceful timeout.
RunawayNotTimeout ==
  status = Exited(2)
    => \A i \in DOMAIN detected : detected[i][2] \notin {"runaway", "misbehave"}

\* No snap runs where the timers cannot stop it: the mask that SigAction leaves
\* behind is never in force when a snap is entered.
TimersLiveInSnap == enter_snap_context => ~timers_masked

\* The mask SigAction leaves behind, and its end, are where they should be: the timers
\* are live in every snap and cannot cut short the report of one that a signal ended.
\* The process and the call are where RunnerMain and the driver can leave them.
TimersInPlace == DriverTypeOK /\ TimersLiveInSnap /\ RunawayNotTimeout

\* The driver's call succeeds only after all its processes each ran all their
\* iterations without a failure, or were stopped from the terminal, or were ended
\* with code 0 by the snap itself; a timeout on the way, which a snap can feign, is
\* a success of a run over the whole corpus, and of no single snap.
SuccessIsComplete ==
  Returns /\ Success(run_result)
    => /\ Len(endings) = Attempts
       /\ \A i \in DOMAIN endings :
            \/ endings[i].status = Killed("SIGINT")
            \/ endings[i].status = Exited(0) /\ endings[i].at = "quit"
            \/ endings[i].status = Exited(2) /\ options.call = "Run"
            \/ endings[i].executed = NumIterations /\ endings[i].detected = <<>>

\* What the driver returns is what its processes did: a failure is the one they found,
\* none is hidden but by a timer or the terminal, and for a success each did all it was
\* started for.
ResultIsGenuine == ReportGenuine /\ SuccessHidesNothing /\ SuccessIsComplete

\* A budget bounds the run: whatever the snap does, a started
\* call of the driver returns.
CallReturns == pc # "setup" ~> Returns

\* The help text of --skip_end_state_check, "Do not check end state after snap
\* execution".
SkipFlagSkips ==
  options.skip_end_state_check =>
    \A i \in DOMAIN detected :
      detected[i][2] \notin {"register_mismatch", "memory_mismatch"}
=============================================================================
