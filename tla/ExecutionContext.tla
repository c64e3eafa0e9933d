-------------------------- MODULE ExecutionContext --------------------------
(***************************************************************************)
(* ExecutionContext (orchestrator/execution_context.h, .cc): the bounded   *)
(* queue of runner results, the stop flag and the drop counter that the    *)
(* worker threads, the main thread and the signal handler share.  The      *)
(* operators below are the bodies of its methods; Orchestrator composes    *)
(* them with the threads that call them.                                   *)
(***************************************************************************)
EXTENDS Naturals, Sequences

CONSTANT NumThreads      \* num_threads_: capacity of the queue

ASSUME NumThreadsAssumption == NumThreads \in Nat \ {0}

VARIABLES
  stop_execution,        \* the atomic stop flag
  past_deadline,         \* absl::Now() > deadline_
  invocation_results,    \* the queue, guarded by mu_
  num_dropped_results    \* results refused because the queue was full

contextVars ==
  <<stop_execution, past_deadline, invocation_results, num_dropped_results>>

ContextInit ==
  /\ stop_execution = FALSE
  /\ past_deadline \in BOOLEAN     \* --duration may be zero or negative
  /\ invocation_results = <<>>
  /\ num_dropped_results = 0

ShouldStop == stop_execution \/ past_deadline

ShouldWakeUp == invocation_results # <<>> \/ ShouldStop

Stop == stop_execution' = TRUE

QueueFullTooSoon == Len(invocation_results) + 1 >= NumThreads

QueueFull == Len(invocation_results) >= NumThreads

\* Mutant: the newest result goes to the front.
AcceptInFront(result) ==
  /\ ~QueueFull
  /\ invocation_results' = <<result>> \o invocation_results
  /\ UNCHANGED num_dropped_results

\* The critical section of OfferRunResult, accepting and refusing.
Accept(result) ==
  /\ ~QueueFull
  /\ invocation_results' = Append(invocation_results, result)
  /\ UNCHANGED num_dropped_results

Refuse ==
  /\ QueueFull
  /\ num_dropped_results' = num_dropped_results + 1
  /\ UNCHANGED invocation_results
=============================================================================
