--------------------------- MODULE PerfEventFuzzer ---------------------------
(***************************************************************************)
(* proxies/pmu_event_proxy/perf_event_fuzzer.cc: FuzzOneInput measures the  *)
(* PMU events of one input.  A runner executes the input again and again;   *)
(* the tracer's callback, called before each execution, closes one group of *)
(* events, collects its samples and opens the next group, so that the last  *)
(* samples of a group are seen only at the execution after it.              *)
(***************************************************************************)
EXTENDS SequencesExt, Integers

CONSTANTS Events,
          ScheduledEvents,         \* Sequences of groups that the scheduler may choose.
          measurements_per_event,
          Executions,              \* What an execution leaves in the ring: the kinds of its samples.
          MaxFailures                \* A bound on failing calls.

\* An execution starts at the first breakpoint and ends after it passed the last one.
ASSUME FuzzAssumption ==
  /\ measurements_per_event \in Nat \ {0} /\ IsFiniteSet(Events)
  /\ \A groups \in ScheduledEvents : groups \in Seq(SUBSET Events)
  /\ \A x \in Executions :
       /\ x \in Seq({"first", "other", "last"})
       /\ \A k \in 1..Len(x) : x[k] = "last" => k > 1 /\ \A j \in 1..Len(x) : x[j] = "last" => j = k

VARIABLES
  work_queue, group, buffer,       \* group: {} or {the events opened}; buffer: the ring, or none
  callback_counter, callback_status,
  measurements,                    \* Per event: the pairs of executions counted.
  fuzz,                            \* [at, status, left, final, run, execution]
  open_runs,                       \* Per event: the clean executions while it was last open.
  failures

fuzzvars == <<work_queue, group, buffer, callback_counter, callback_status, measurements, fuzz,
              open_runs, failures>>

Closed == {}
NoPairs == [e \in Events |-> <<>>]

\* The samples of an execution: at the first breakpoint, at the last one, or elsewhere.
\* The pair is clean if one directly follows the other.
Clean(samples) == \E k \in 1..(Len(samples) - 1) : samples[k] = "first" /\ samples[k + 1] = "last"

FuzzInit ==
  /\ work_queue = <<>> /\ group = Closed /\ buffer = Closed
  /\ callback_counter = 0 /\ callback_status = "ok" /\ measurements = NoPairs
  /\ fuzz = [at |-> "start", status |-> "ok", left |-> 0, final |-> FALSE, run |-> 0,
             execution |-> <<>>]
  /\ open_runs = NoPairs /\ failures = 0

FuzzOneInput ==
  /\ fuzz.at = "start"
  /\ \E queue \in ScheduledEvents : work_queue' = queue
  /\ \E execution \in Executions : fuzz' = [fuzz EXCEPT !.at = "loop", !.execution = execution]
  /\ UNCHANGED <<group, buffer, callback_counter, callback_status, measurements, open_runs, failures>>

-----------------------------------------------------------------------------
(* The callback *)

\* ProcessPerfSamples takes the samples at the last breakpoint that directly follow one
\* at the first.  Counters that did not run all the time are left out.
Pairs(samples) ==
  {k \in 1..Len(samples) : samples[k].kind = "last" /\ k > 1 /\ samples[k - 1].kind = "first"}
Counts(samples) ==
  LET counts[k \in 0..Len(samples)] ==
        IF k = 0 THEN <<>>
        ELSE IF k \in Pairs(samples) /\ ~ samples[k].multiplexed
        THEN Append(counts[k - 1], <<samples[k - 1].run, samples[k].run>>)
        ELSE counts[k - 1]
  IN  counts[Len(samples)]

\* The events of a group that failed to open are tried alone, unless all of them failed.
Requeued(events, opened) ==
  IF opened = {} THEN <<>> ELSE SetToSeq({{e} : e \in events \ opened})

\* A mutant: samples are collected when there is a group to come.
CollectsBeforeNext == buffer # Closed /\ work_queue # <<>>
Collects == buffer # Closed

Collected(samples) == [e \in Events |-> IF \E g \in group : e \in g THEN Counts(samples) ELSE measurements[e]]

\* Opens the next group, if any.  The leader, other events or the ring may fail to open,
\* after which callbacks are counted all the same.
OpenNext(queue, status) ==
  IF queue = <<>>
  THEN /\ work_queue' = queue /\ group' = Closed /\ buffer' = Closed /\ callback_status' = status
       /\ UNCHANGED <<callback_counter, open_runs, failures>>
  ELSE /\ callback_counter' = measurements_per_event - 1
       /\ \/ /\ failures < MaxFailures /\ failures' = failures + 1
             /\ work_queue' = Tail(queue) /\ group' = Closed /\ buffer' = Closed
             /\ callback_status' = "error" /\ UNCHANGED open_runs
          \/ \E opened \in SUBSET Head(queue) :
               /\ work_queue' = Tail(queue) \o Requeued(Head(queue), opened)
               /\ group' = {opened}
               /\ open_runs' = [e \in Events |-> IF e \in opened THEN <<>> ELSE open_runs[e]]
               /\ \/ buffer' = {<<>>} /\ callback_status' = status /\ UNCHANGED failures
                  \/ /\ failures < MaxFailures /\ failures' = failures + 1
                     /\ buffer' = Closed /\ callback_status' = "error"

HarnessTracerCallback ==
  /\ fuzz.at = "trace" /\ fuzz.left > 0
  /\ fuzz' = [fuzz EXCEPT !.at = "execute"]
  /\ IF callback_counter > 0
     THEN /\ callback_counter' = callback_counter - 1
          /\ UNCHANGED <<work_queue, group, buffer, callback_status, measurements, open_runs, failures>>
     ELSE /\ IF Collects THEN \E samples \in buffer : measurements' = Collected(samples)
             ELSE UNCHANGED measurements
          /\ OpenNext(work_queue, callback_status)

\* The runner executes the input; an open group sees it.  Executions are numbered modulo
\* twice those of a group.
Execute ==
  /\ fuzz.at = "execute"
  /\ fuzz' = [fuzz EXCEPT !.at = "trace", !.left = @ - 1, !.run = (@ + 1) % (2 * measurements_per_event)]
  /\ \E multiplexed \in BOOLEAN :
       LET new == [k \in DOMAIN fuzz.execution |->
                     [kind |-> fuzz.execution[k], run |-> fuzz.run, multiplexed |-> multiplexed]]
       IN  /\ buffer' = {samples \o new : samples \in buffer}
           /\ open_runs' = IF buffer # Closed /\ Clean(fuzz.execution) /\ ~ multiplexed
                           THEN [e \in Events |-> IF \E g \in group : e \in g
                                  THEN Append(open_runs[e], <<fuzz.run, fuzz.run>>) ELSE open_runs[e]]
                           ELSE open_runs
  /\ UNCHANGED <<work_queue, group, callback_counter, callback_status, measurements, failures>>

-----------------------------------------------------------------------------
(* FuzzOneInput *)

\* Drains the queue: each group has its executions, those of groups queued again come
\* in the next pass.
StartTracing ==
  /\ fuzz.at = "loop" /\ fuzz.status = "ok" /\ work_queue # <<>>
  /\ fuzz' = [fuzz EXCEPT !.at = "trace", !.left = measurements_per_event * Len(work_queue)]
  /\ UNCHANGED <<work_queue, group, buffer, callback_counter, callback_status, measurements,
                 open_runs, failures>>

\* One more execution for the samples of the last group.
StartLastTracing ==
  /\ fuzz.at = "loop" /\ (fuzz.status # "ok" \/ work_queue = <<>>)
  /\ fuzz' = [fuzz EXCEPT !.at = "trace", !.left = 1, !.final = TRUE,
                          !.status = IF callback_counter # 0 THEN "error" ELSE @]
  /\ UNCHANGED <<work_queue, group, buffer, callback_counter, callback_status, measurements,
                 open_runs, failures>>

\* TraceOne returns after the executions, or earlier when the runner fails.
TracingEnds ==
  /\ fuzz.at \in {"trace", "execute"}
  /\ \E failed \in BOOLEAN :
       /\ IF failed THEN failures < MaxFailures ELSE fuzz.at = "trace" /\ fuzz.left = 0
       /\ failures' = IF failed THEN failures + 1 ELSE failures
       /\ fuzz' = [fuzz EXCEPT !.at = IF fuzz.final THEN "cleanup" ELSE "loop", !.left = 0,
                               !.status = IF failed \/ callback_status = "error" THEN "error" ELSE @]
  /\ UNCHANGED <<work_queue, group, buffer, callback_counter, callback_status, measurements, open_runs>>

\* After an error everything is closed; only if that fails, too, the rest of the queue
\* and the counter are dropped, without which the destructor of the state ends the process.
CleanUp ==
  /\ fuzz.at = "cleanup"
  /\ IF fuzz.status = "ok" THEN UNCHANGED <<group, buffer, work_queue, callback_counter, failures>>
     ELSE /\ group' = Closed /\ buffer' = Closed
          /\ \/ UNCHANGED <<work_queue, callback_counter, failures>>
             \/ /\ failures < MaxFailures /\ failures' = failures + 1
                /\ work_queue' = <<>> /\ callback_counter' = 0
  /\ fuzz' = [fuzz EXCEPT !.at = IF work_queue' = <<>> /\ callback_counter' = 0
                                 THEN "returned" ELSE "crashed"]
  /\ UNCHANGED <<callback_status, measurements, open_runs>>

FuzzNext ==
  \/ FuzzOneInput \/ HarnessTracerCallback \/ Execute
  \/ StartTracing \/ StartLastTracing \/ TracingEnds \/ CleanUp
  \/ fuzz.at \in {"returned", "crashed"} /\ UNCHANGED fuzzvars

\* One thread and a runner that is killed when it hangs.
FuzzSpec == FuzzInit /\ [][FuzzNext]_fuzzvars /\ WF_fuzzvars(FuzzNext)

-----------------------------------------------------------------------------
\* When FuzzOneInput succeeds, every event has been counted over exactly the executions
\* during which it was open, start and end of a count in the same one: the last group
\* and those queued again included.
EveryOpenRunCounts ==
  fuzz.at = "returned" /\ fuzz.status = "ok" => measurements = open_runs

\* Whatever fails, FuzzOneInput returns with nothing left open.
NothingLeftOpen == fuzz.at = "returned" => group = Closed /\ buffer = Closed

\* The process ends on the checks of the destructor only when an error left groups
\* waiting or callbacks missing: never when all went well.
CrashNeedsError == fuzz.at = "crashed" => fuzz.status # "ok"

\* Whatever fails on the way: the counts returned are those of the executions, nothing
\* is left open, and the process ends on a check only after an error.
MeasurementIsSound == EveryOpenRunCounts /\ NothingLeftOpen /\ CrashNeedsError

\* Events that fail to open are not tried for ever.
FuzzingEnds == fuzz.at # "start" ~> fuzz.at \in {"returned", "crashed"}
=============================================================================
