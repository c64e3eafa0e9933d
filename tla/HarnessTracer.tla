---------------------------- MODULE HarnessTracer ----------------------------
(***************************************************************************)
(* RunImpl with a tracer (common/harness_tracer.cc): while a thread reads  *)
(* and waits for its child in Communicate, the tracer's own thread drives  *)
(* the child through ptrace and waits for it too.  The child raises        *)
(* SIGSTOP before and after every snap; the tracer is active in between.   *)
(*                                                                         *)
(* Threads outside of Traced run their children without a tracer.          *)
(***************************************************************************)
EXTENDS Subprocess

CONSTANTS
  Traced,           \* threads whose child is traced
  MaxToggles,       \* SIGSTOPs a child raises: two for each snap it runs
  MaxStops          \* bound: single-step and signal stops of a child

ASSUME TracerAssumption ==
  Traced \subseteq Threads /\ MaxToggles \in Nat /\ MaxStops \in Nat

VARIABLES
  tracer,           \* of each thread's tracer: where its thread is (at),
                    \* is_active, the exit_status EventLoop returned, and
                    \* (history) toggles when it last reported
                    \* kBecomingInactive
  tracee,           \* of each child: whether it is seized, what it is stopped
                    \* for, whether it was resumed with PTRACE_SINGLESTEP
                    \* (stepping), the SIGSTOPs it raised (toggles) and its
                    \* other stops
  died              \* LOG_FATAL ended the whole process

tracerVars == <<tracer, tracee, died>>
harness_vars == <<subprocessVars, tracerVars>>

Never == MaxToggles + 1
NewTracer ==
  [at |-> "none", is_active |-> FALSE, exit_status |-> "none",
   told_inactive |-> Never]
NewTracee ==
  [seized |-> FALSE, stop |-> "none", stepping |-> FALSE, toggles |-> 0,
   stops |-> 0]

TracerInit ==
  /\ tracer = [t \in Threads |-> NewTracer]
  /\ tracee = [t \in Threads |-> NewTracee]
  /\ died = FALSE

InSnap(t) == tracee[t].toggles % 2 = 1
-----------------------------------------------------------------------------
(***************************************************************************)
(* The traced child.                                                       *)
(***************************************************************************)
StopFor(t, reason, counter) ==
  /\ child[t] = "running" /\ child' = [child EXCEPT ![t] = "stopped"]
  /\ tracee' = [tracee EXCEPT ![t].stop = reason, ![t][counter] = @ + 1]
  /\ UNCHANGED <<thread_pc, ended, pipe_writers, info, calls, tracer, died>>

\* RunSnap raises SIGSTOP; without a tracer yet the child stays stopped.
RaiseSigstop(t) ==
  /\ t \in Traced /\ tracee[t].toggles < MaxToggles
  /\ StopFor(t, "SIGSTOP", "toggles")

\* A single-step trap, or a signal about to be delivered.
PtraceStop(t) ==
  /\ tracee[t].seized /\ tracee[t].stops < MaxStops
  /\ \/ tracee[t].stepping /\ StopFor(t, "step", "stops")
     \/ StopFor(t, "signal", "stops")

\* SIGKILL (from the OOM killer, a supervisor) ends a stopped child too.
KillStopped(t) ==
  /\ child[t] = "stopped" /\ Die(t, "killed")
  /\ UNCHANGED <<thread_pc, info, calls, tracerVars>>
-----------------------------------------------------------------------------
(***************************************************************************)
(* The tracer's thread: Attach, EventLoop, Trace.                          *)
(***************************************************************************)
Attach(t) ==
  /\ t \in Traced /\ thread_pc[t] = "reading" /\ tracer[t].at = "none"
  /\ tracer' = [tracer EXCEPT ![t].at = "attach"]
  /\ UNCHANGED <<subprocessVars, tracee, died>>

\* PTRACE_SEIZE, which may come too late.
Seize(t) ==
  /\ tracer[t].at = "attach" /\ tracer' = [tracer EXCEPT ![t].at = "wait"]
  /\ tracee' = [tracee EXCEPT ![t].seized = ~Gone(t)]
  /\ UNCHANGED <<subprocessVars, died>>

\* WaitpidToStop: the child stopped ...
SeeStop(t) ==
  /\ tracer[t].at = "wait" /\ child[t] = "stopped"
  /\ tracer' = [tracer EXCEPT ![t].at = "handle"]
  /\ UNCHANGED <<subprocessVars, tracee, died>>

\* ... or ended, and its status is here or with the other thread (ECHILD).
SeeExit(t) ==
  /\ tracer[t].at = "wait" /\ Gone(t)
  /\ tracer' = [tracer EXCEPT
       ![t].at = "done",
       ![t].exit_status = IF child[t] = "zombie" THEN ended[t] ELSE "none"]
  /\ child' = [child EXCEPT ![t] = "reaped"]
  /\ UNCHANGED <<thread_pc, ended, pipe_writers, info, calls, tracee, died>>

\* Trace ends: the child resumes with PTRACE_SINGLESTEP or PTRACE_CONT, and the
\* tracer waits again.
Resume(t, single_step, is_active, told_inactive) ==
  /\ tracer[t].at = "handle" /\ child[t] = "stopped"
  /\ child' = [child EXCEPT ![t] = "running"]
  /\ tracee' = [tracee EXCEPT ![t].stop = "none", ![t].stepping = single_step]
  /\ tracer' = [tracer EXCEPT ![t].at = "wait", ![t].is_active = is_active,
                              ![t].told_inactive = told_inactive]
  /\ UNCHANGED <<thread_pc, ended, pipe_writers, info, calls, died>>

\* SIGSTOP toggles the tracer.
Toggle(t) ==
  /\ tracee[t].stop = "SIGSTOP"
  /\ Resume(t, ~tracer[t].is_active, ~tracer[t].is_active,
            tracer[t].told_inactive)

\* An inactive tracer hands the signal on.
PassOn(t) ==
  /\ tracee[t].stop # "SIGSTOP" /\ ~tracer[t].is_active
  /\ Resume(t, FALSE, FALSE, tracer[t].told_inactive)

\* The callback is called, and answers kKeepTracing.
KeepTracing(t) ==
  /\ tracee[t].stop # "SIGSTOP" /\ tracer[t].is_active
  /\ Resume(t, TRUE, TRUE, tracer[t].told_inactive)

\* Mutant: the tracer takes itself for inactive at once.
StopTracingAtOnce(t) ==
  /\ tracee[t].stop # "SIGSTOP" /\ tracer[t].is_active
  /\ Resume(t, FALSE, FALSE, tracee[t].toggles)

\* It answers kStopTracing or kInjectSigusr1, and is called once more with
\* kBecomingInactive; the child runs on, and the tracer remains active.
StopTracing(t) ==
  /\ tracee[t].stop # "SIGSTOP" /\ tracer[t].is_active
  /\ Resume(t, FALSE, TRUE, tracee[t].toggles)

\* The child was killed while stopped: PTraceOrDie gets ESRCH.
TraceDies(t) ==
  /\ tracer[t].at = "handle" /\ child[t] # "stopped"
  /\ died' = TRUE
  /\ UNCHANGED <<subprocessVars, tracer, tracee>>

TracerStep(t) ==
  \/ Seize(t) \/ SeeStop(t) \/ SeeExit(t)
  \/ Toggle(t) \/ PassOn(t) \/ KeepTracing(t) \/ StopTracing(t)
  \/ TraceDies(t)
-----------------------------------------------------------------------------
\* Join, and the end of RunImpl: the tracer's status goes first if it has one.
\* (The next call has a new tracer.)
Join(t) ==
  /\ Goto(t, "joining", "returned")
  /\ t \in Traced => tracer[t].at = "done"
  /\ info' = [info EXCEPT ![t] = IF tracer[t].exit_status = "none"
                                 THEN @ ELSE tracer[t].exit_status]
  /\ tracer' = [tracer EXCEPT ![t] = NewTracer]
  /\ tracee' = [tracee EXCEPT ![t] = NewTracee]
  /\ UNCHANGED <<child, ended, pipe_writers, calls, died>>

TracerStarted(t) == t \in Traced => tracer[t].at # "none"

CallStep(t) ==
  \/ /\ \/ MakePipe(t) \/ Fork(t) \/ ForkFails(t) \/ Started(t) \/ NextCall(t)
        \/ TracerStarted(t) /\ (ReadEof(t) \/ Wait4(t))
     /\ UNCHANGED tracerVars
  \/ Attach(t) \/ Join(t)

ChildStep(t) == (Exec(t) \/ ChildEnds(t)) /\ UNCHANGED tracerVars

Finished ==
  /\ died \/ \A t \in Threads : thread_pc[t] = "idle" /\ calls[t] = MaxCalls
  /\ UNCHANGED harness_vars

HarnessNext ==
  \/ ~died /\ \E t \in Threads :
       CallStep(t) \/ ChildStep(t) \/ TracerStep(t)
       \/ RaiseSigstop(t) \/ PtraceStop(t) \/ KillStopped(t)
  \/ Finished

HarnessInit == SubprocessInit /\ TracerInit

HarnessSpec == HarnessInit /\ [][HarnessNext]_harness_vars

(***************************************************************************)
(* The threads and the tracers run; a child execs, and ends if it is not   *)
(* held in a stop for ever: its budget of CPU time sees to that.           *)
(***************************************************************************)
HarnessFairSpec ==
  /\ HarnessSpec
  /\ \A t \in Threads :
       /\ WF_harness_vars(~died /\ CallStep(t)) /\ WF_harness_vars(~died /\ TracerStep(t))
       /\ WF_harness_vars(~died /\ ChildStep(t))
-----------------------------------------------------------------------------
\* The types of the variables: every call is where Start, Communicate and Join
\* can leave it, every process is a child or the parent.
TracerTypeOK ==
  /\ thread_pc \in [Threads -> {"idle", "piped", "forked", "failed", "reading",
                         "waiting", "joining", "returned"}]
  /\ child \in [Threads -> {"none", "forked", "running", "stopped", "zombie",
                            "reaped"}]
  /\ ended \in [Threads -> ExitStatuses \union {"none"}]
  /\ pipe_writers \in [Threads -> SUBSET (Threads \union {Parent})]
  /\ info \in [Threads -> ExitStatuses \union {"none"}]
  /\ calls \in [Threads -> 0..MaxCalls]
  /\ tracer \in [Threads ->
       [at : {"none", "attach", "wait", "handle", "done"}, is_active : BOOLEAN,
        exit_status : ExitStatuses \union {"none"}, told_inactive : 0..Never]]
  /\ tracee \in [Threads ->
       [seized : BOOLEAN, stop : {"none", "SIGSTOP", "step", "signal"},
        stepping : BOOLEAN, toggles : 0..MaxToggles, stops : 0..MaxStops]]
  /\ died \in BOOLEAN

\* Whoever reaps the child, RunImpl handles the status the child really ended
\* with; the empty ProcessInfo Communicate has after ECHILD is never taken for a
\* clean exit.
StatusGenuine == \A t \in Threads : thread_pc[t] = "returned" => info[t] = ended[t]

\* Communicate sees the end of the pipe only once its own child is gone, so what
\* it read is all the child wrote.
OutputComplete ==
  \A t \in Threads : thread_pc[t] \in {"waiting", "joining"} => Gone(t)

\* What a call of the driver handles is its own child's: the status it ended with and
\* all it wrote, whoever reaps it and whoever holds its pipe.  No call is ever anywhere
\* Start, Communicate and Join do not take it.
OwnChild == TracerTypeOK /\ StatusGenuine /\ OutputComplete

\* However late it attaches and whatever its callback answers, the tracer is
\* active exactly while the child is in a snap: Trace never loses a toggle.
TracerInStep ==
  \A t \in Traced :
    child[t] = "running" /\ tracee[t].seized => tracer[t].is_active = InSnap(t)

\* Every call of RunImpl returns (or the tracer has ended the process).
CallsReturn ==
  \A t \in Threads :
    thread_pc[t] = "piped" ~> died \/ thread_pc[t] \in {"returned", "failed"}

\* Start's comment, "we assume that there are no other threads": no other
\* thread's child keeps the pipe of a child that is gone.
PipeClosesWithChild ==
  \A t \in Threads : Gone(t) => pipe_writers[t] \subseteq {Parent}

\* The comment on kStopTracing, "the callback will stop receiving further
\* notifications from the tracer until the tracee toggles the active mode
\* twice": the callback is not about to be called again in the same snap.
QuietAfterStopTracing ==
  \A t \in Traced :
    (/\ tracer[t].at = "handle" /\ child[t] = "stopped"
     /\ tracee[t].stop # "SIGSTOP" /\ tracer[t].is_active)
      => tracer[t].told_inactive # tracee[t].toggles
=============================================================================
