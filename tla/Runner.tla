------------------------------- MODULE Runner -------------------------------
(***************************************************************************)
(* One runner process (runner/runner.cc, snap_runner_util.cc): it maps its *)
(* corpus, runs snaps one after another, and at the first one that does    *)
(* not end as expected writes a report to stdout and exits.  Timers, other *)
(* signals and faults may strike between any two steps.                    *)
(*                                                                         *)
(* stdout is the sequence of top-level messages of the RunnerOutput text   *)
(* proto the process has written; "torn" is anything that does not parse:  *)
(* a write a signal cut short, or bytes of the snap's.                     *)
(***************************************************************************)
EXTENDS Naturals, Sequences

CONSTANTS
  Corpus,              \* ids of the snaps in the corpus file, in order
  kNone                \* no snap, no snap_id

Snaps == {Corpus[i] : i \in DOMAIN Corpus}

\* (On an empty corpus Main returns EXIT_SUCCESS at once.)
ASSUME RunnerAssumption ==
  /\ Corpus \in Seq(Snaps) /\ Corpus # <<>>
  /\ kNone \notin Snaps

VARIABLE
  options              \* RunnerMainOptions: the flags it was started with

VARIABLES
  pc,                  \* where the process is
  snap,                \* the snap being run, or run last
  executed,            \* snap_execution_count
  outcome,             \* run_result.outcome of that snap
  enter_snap_context,  \* IsInsideSnap()
  context_saved,       \* runner_return_context was saved at least once
  signum,              \* signal that ended the snap, or "none"
  timers_masked,       \* SIGALRM and SIGXCPU are blocked
  num_added_pages,
  stdout,
  status,              \* "running", or how the process ended
  detected             \* history: the failures the process found, in order

runnerVars ==
  <<pc, snap, executed, outcome, enter_snap_context, context_saved, signum,
    timers_masked, num_added_pages, stdout, status, detected>>

\* The corpus the process runs: CommonMain cuts it down to the snap of --snap_id.
RunCorpus == IF options.snap_id = kNone THEN Corpus ELSE <<options.snap_id>>

\* How many snaps the loop of the mode runs.
NumIterations ==
  CASE options.mode = "make"       -> 1
    [] options.mode = "sequential" -> Len(RunCorpus)
    [] options.mode = "run"        -> options.num_iterations

kMaxAddedPageAddresses == 20
TimerSignals == {"SIGALRM", "SIGXCPU"}
CaughtSignals == TimerSignals \union {"SIGSEGV", "SIGTERM"}
Deadly == {"SIGKILL", "SIGINT"}           \* no handler is installed for these

\* How a process can end: it exits with a code, or a signal kills it.
Exited(code) == [how |-> "exited", code |-> code, sig |-> "none"]
Killed(sig)  == [how |-> "signaled", code |-> 0, sig |-> sig]
NotEnded     == [how |-> "running", code |-> 0, sig |-> "none"]
IsRunning    == status = NotEnded

\* The messages of a RunnerOutput.
Message(field, value) == [field |-> field, value |-> value]
ExecutionResult(code) == Message("execution_result", <<code>>)
FailedSnapshot(id, o) == Message("failed_snapshot_execution", <<id, o>>)
Postfailure(checksum) == Message("postfailure_checksum_status", <<checksum>>)
Torn                  == Message("torn", <<>>)

RunnerStart ==
  /\ pc = "setup" /\ snap = kNone /\ executed = 0 /\ outcome = "none"
  /\ enter_snap_context = FALSE /\ context_saved = FALSE
  /\ signum = "none" /\ timers_masked = FALSE /\ num_added_pages = 0
  /\ stdout = <<>> /\ status = NotEnded /\ detected = <<>>

\* Mutant: the process inherits blocked timer signals.
RunnerStartsBlocked ==
  /\ pc' = "setup" /\ snap' = kNone /\ executed' = 0 /\ outcome' = "none"
  /\ enter_snap_context' = FALSE /\ context_saved' = FALSE
  /\ signum' = "none" /\ timers_masked' = TRUE /\ num_added_pages' = 0
  /\ stdout' = <<>> /\ status' = NotEnded /\ detected' = <<>>

\* The same for a new process.
RunnerStarts ==
  /\ pc' = "setup" /\ snap' = kNone /\ executed' = 0 /\ outcome' = "none"
  /\ enter_snap_context' = FALSE /\ context_saved' = FALSE
  /\ signum' = "none" /\ timers_masked' = FALSE /\ num_added_pages' = 0
  /\ stdout' = <<>> /\ status' = NotEnded /\ detected' = <<>>

\* The process exits.
ExitWith(code) == status' = Exited(code) /\ pc' = "gone"
-----------------------------------------------------------------------------
\* Main and CommonMain fail: bad flags, no corpus, no such snap or CPU exit 1
\* without a word on stdout; mapping and checksum failures log their code first.
SetupFails ==
  /\ IsRunning /\ pc = "setup"
  /\ \/ stdout' = stdout /\ ExitWith(1)
     \/ \E code \in {"mmap_failed", "overlapping_mappings"}
                    \union (IF options.strict
                            THEN {"initial_checksum_mismatch"} ELSE {}) :
          stdout' = Append(stdout, ExecutionResult(code)) /\ ExitWith(1)
  /\ UNCHANGED <<snap, executed, outcome, enter_snap_context, context_saved,
                 signum, timers_masked, num_added_pages, detected>>

\* The corpus is mapped, the signal handlers are installed, seccomp is entered.
SetupDone ==
  /\ IsRunning /\ pc = "setup"
  /\ pc' = "loop"
  /\ UNCHANGED <<snap, executed, outcome, enter_snap_context, context_saved,
                 signum, timers_masked, num_added_pages, stdout, status,
                 detected>>

\* The head of the loop: RunnerMain draws a snap of its batch, the others take
\* the next; RunSnap prepares its memory and marks the snap as entered.
EnterSnap ==
  /\ IsRunning /\ pc = "loop" /\ executed < NumIterations
  /\ \E i \in DOMAIN RunCorpus :
       /\ options.mode # "run" => i = executed + 1
       /\ snap' = RunCorpus[i]
  /\ signum' = "none"
  /\ enter_snap_context' = TRUE
  /\ pc' = "entering"
  /\ UNCHANGED <<executed, outcome, context_saved, timers_masked,
                 num_added_pages, stdout, status, detected>>

\* SaveUContextNoSyscalls, then the jump into the snap.
SaveContext ==
  /\ IsRunning /\ pc = "entering"
  /\ context_saved' = TRUE
  /\ pc' = "snap"
  /\ UNCHANGED <<snap, executed, outcome, enter_snap_context, signum,
                 timers_masked, num_added_pages, stdout, status, detected>>

\* The snap reaches its exit point: RunnerReentry.
SnapExits ==
  /\ IsRunning /\ pc = "snap"
  /\ enter_snap_context' = FALSE
  /\ pc' = "ended"
  /\ UNCHANGED <<snap, executed, outcome, context_saved, signum, timers_masked,
                 num_added_pages, stdout, status, detected>>

\* Seccomp allows write and exit_group, to the snap too: it can put bytes of its
\* own on stdout, and end the process with any exit code (codes above 2 are
\* handled like 1).
SnapWrites ==
  /\ IsRunning /\ pc = "snap"
  /\ Torn \notin {stdout[i] : i \in DOMAIN stdout}
  /\ stdout' = Append(stdout, Torn)
  /\ UNCHANGED <<pc, snap, executed, outcome, enter_snap_context, context_saved,
                 signum, timers_masked, num_added_pages, status, detected>>

SnapExitsProcess ==
  /\ IsRunning /\ pc = "snap"
  /\ \E code \in 0..2 : status' = Exited(code)
  /\ pc' = "quit"
  /\ UNCHANGED <<snap, executed, outcome, enter_snap_context, context_saved,
                 signum, timers_masked, num_added_pages, stdout, detected>>

\* The snap makes a system call seccomp forbids.
SnapMakesSyscall ==
  /\ IsRunning /\ pc = "snap"
  /\ status' = Killed("SIGSYS") /\ pc' = "gone"
  /\ UNCHANGED <<snap, executed, outcome, enter_snap_context, context_saved,
                 signum, timers_masked, num_added_pages, stdout, detected>>

\* EndSpotToOutcome: a signal first, then registers and memory.  The flag
\* --skip_end_state_check never reaches the options RunSnap looks at.
Outcomes ==
  IF signum # "none"
  THEN {IF signum \in TimerSignals THEN "runaway" ELSE "misbehave"}
  ELSE {"as_expected", "register_mismatch", "memory_mismatch"}

\* Mutant: the loop goes on after a failing snap.
EvaluateAndGoOn ==
  /\ IsRunning /\ pc = "ended"
  /\ outcome' \in Outcomes
  /\ executed' = executed + 1
  /\ IF outcome' = "as_expected"
     THEN detected' = detected
     ELSE detected' = Append(detected, <<snap, outcome'>>)
  /\ pc' = IF outcome' = "as_expected" \/ executed' < NumIterations
           THEN "loop" ELSE "report"
  /\ UNCHANGED <<snap, enter_snap_context, context_saved, signum,
                 timers_masked, num_added_pages, stdout, status>>

\* Back in the loop body: a failing snap sends the process to its report; in
\* make mode there is always a report.
Evaluate ==
  /\ IsRunning /\ pc = "ended"
  /\ outcome' \in Outcomes
  /\ IF outcome' = "as_expected"
     THEN /\ executed' = executed + 1
          /\ pc' = IF options.mode = "make" THEN "report" ELSE "loop"
          /\ UNCHANGED detected
     ELSE /\ detected' = Append(detected, <<snap, outcome'>>)
          /\ pc' = "report"
          /\ UNCHANGED executed
  /\ UNCHANGED <<snap, enter_snap_context, context_saved, signum,
                 timers_masked, num_added_pages, stdout, status>>

\* LogSnapRunResult.
Report ==
  /\ IsRunning /\ pc = "report"
  /\ stdout' = Append(stdout, FailedSnapshot(snap, outcome))
  /\ pc' = IF options.mode = "run" THEN "checksum" ELSE "result"
  /\ UNCHANGED <<snap, executed, outcome, enter_snap_context, context_saved,
                 signum, timers_masked, num_added_pages, status, detected>>

\* VerifySnapChecksums and its status; reading the snap's memory can fault
\* (see Deliver).
Checksum ==
  /\ IsRunning /\ pc = "checksum"
  /\ \E checksum \in {"match", "mismatch"} :
       stdout' = Append(stdout, Postfailure(checksum))
  /\ pc' = "result"
  /\ UNCHANGED <<snap, executed, outcome, enter_snap_context, context_saved,
                 signum, timers_masked, num_added_pages, status, detected>>

\* LogExecutionResult at the end of the loop, or after a report.
Finish ==
  /\ IsRunning
  /\ pc = "result" \/ (pc = "loop" /\ executed = NumIterations)
  /\ stdout' = Append(stdout, ExecutionResult(
                 IF outcome = "as_expected" THEN "ok" ELSE "snapshot_failed"))
  /\ pc' = "return"
  /\ UNCHANGED <<snap, executed, outcome, enter_snap_context, context_saved,
                 signum, timers_masked, num_added_pages, status, detected>>

Return ==
  /\ IsRunning /\ pc = "return"
  /\ ExitWith(IF outcome = "as_expected" THEN 0 ELSE 1)
  /\ UNCHANGED <<snap, executed, outcome, enter_snap_context, context_saved,
                 signum, timers_masked, num_added_pages, stdout, detected>>

RunnerStep ==
  \/ SetupFails \/ SetupDone \/ EnterSnap \/ SaveContext \/ Evaluate
  \/ Report \/ Checksum \/ Finish \/ Return

\* The snap decides: it exits, makes a system call, faults, or runs on.
SnapStep == SnapExits \/ SnapWrites \/ SnapExitsProcess \/ SnapMakesSyscall
-----------------------------------------------------------------------------
(***************************************************************************)
(* Signals.  Leaving SigAction for runner_return_context skips the return  *)
(* from the handler, so the mask of the handler (sa_mask) stays in force.  *)
(***************************************************************************)
\* What is on stdout when a signal cuts a write short: the message or a part of
\* it may be out already.
CutShort ==
  IF \/ pc \in {"report", "checksum", "result"}
     \/ pc = "loop" /\ executed = NumIterations
  THEN {stdout, Append(stdout, Torn)} ELSE {stdout}

\* No handler is installed yet: the default action.
DieDuringSetup(sig) ==
  /\ pc = "setup"
  /\ status' = Killed(sig) /\ pc' = "gone"
  /\ UNCHANGED <<enter_snap_context, signum, timers_masked, num_added_pages,
                 stdout>>

\* Outside of a snap, or on SIGALRM anywhere: the graceful timeout.
ExitOnTimeout(sig) ==
  /\ pc # "setup"
  /\ sig = "SIGALRM" \/ (sig = "SIGXCPU" /\ ~enter_snap_context)
  /\ stdout' \in CutShort /\ ExitWith(2)
  /\ UNCHANGED <<enter_snap_context, signum, timers_masked, num_added_pages>>

\* Outside of a snap, any other signal: kUnhandledSignal.
ExitOnUnhandled(sig) ==
  /\ pc # "setup" /\ ~enter_snap_context /\ sig \notin TimerSignals
  /\ \E out \in CutShort :
       stdout' = Append(out, ExecutionResult("unhandled_signal"))
  /\ ExitWith(1)
  /\ UNCHANGED <<enter_snap_context, signum, timers_masked, num_added_pages>>

\* TryToRecoverFromSignal maps the missing page and the snap goes on.
AddPage(sig) ==
  /\ pc = "snap" /\ sig = "SIGSEGV"
  /\ num_added_pages < options.max_pages_to_add /\ num_added_pages < kMaxAddedPageAddresses
  /\ num_added_pages' = num_added_pages + 1
  /\ UNCHANGED <<pc, enter_snap_context, signum, timers_masked, stdout,
                 status>>

\* Mutant: the timers are left unblocked when the handler is left.
ReenterUnmasked(sig) ==
  /\ enter_snap_context /\ sig # "SIGALRM" /\ context_saved
  /\ signum' = sig /\ enter_snap_context' = FALSE
  /\ pc' = "ended"
  /\ UNCHANGED <<timers_masked, num_added_pages, stdout, status>>

\* RunnerReentryFromSignal: back in RunSnap as if the snap had ended.
Reenter(sig) ==
  /\ enter_snap_context /\ sig # "SIGALRM" /\ context_saved
  /\ signum' = sig /\ enter_snap_context' = FALSE
  /\ timers_masked' = TRUE
  /\ pc' = "ended"
  /\ UNCHANGED <<num_added_pages, stdout, status>>

\* The same before runner_return_context was ever saved: the jump through the
\* zeroed context faults, now outside of the snap.
ReenterNowhere(sig) ==
  /\ enter_snap_context /\ sig # "SIGALRM" /\ ~context_saved
  /\ signum' = sig /\ enter_snap_context' = FALSE
  /\ timers_masked' = TRUE
  /\ stdout' = Append(stdout, ExecutionResult("unhandled_signal"))
  /\ ExitWith(1)
  /\ UNCHANGED num_added_pages

\* A caught signal arrives.  SIGSEGV is a fault: of the snap, or of the runner
\* while it checksums the memory of a snap that failed.
Deliver(sig) ==
  /\ IsRunning
  /\ sig \in TimerSignals => ~timers_masked
  /\ sig = "SIGSEGV" => pc \in {"snap", "checksum"}
  /\ \/ DieDuringSetup(sig) \/ ExitOnTimeout(sig) \/ ExitOnUnhandled(sig)
     \/ AddPage(sig) \/ Reenter(sig) \/ ReenterNowhere(sig)
  /\ UNCHANGED <<snap, executed, outcome, context_saved, detected>>

\* SIGKILL (the hard limit, or the kernel) and SIGINT (the terminal).
Kill(sig) ==
  /\ IsRunning
  /\ status' = Killed(sig) /\ pc' = "gone"
  /\ UNCHANGED <<snap, executed, outcome, enter_snap_context, context_saved,
                 signum, timers_masked, num_added_pages, stdout, detected>>
=============================================================================
