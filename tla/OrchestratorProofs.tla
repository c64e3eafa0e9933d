------------------------- MODULE OrchestratorProofs -------------------------
(***************************************************************************)
(* Theorems about Orchestrator for any number of threads, CPUs, shards and *)
(* iterations, and their proofs.                                           *)
(***************************************************************************)
EXTENDS Orchestrator, SpanUtilProofs, TLAPS, FiniteSetTheorems, SequenceTheorems

USE NumThreadsAssumption, CollectorAssumption, OrchestratorAssumption
    DEF contextVars, collectorVars, summaryVars, mainVars, threadVars, history,
        allButPc, GotoMain, GotoThread

-----------------------------------------------------------------------------
(***************************************************************************)
(* Type correctness, one part of TypeOK at a time.                         *)
(***************************************************************************)
LEMMA TypeInit == Init => TypeOK
<1> SUFFICES ASSUME Init PROVE TypeOK
  OBVIOUS
<1>1. ContextTypeOK
  BY DEF Init, ContextInit, ContextTypeOK
<1>2. CollectorTypeOK
  BY DEF Init, CollectorInit, CollectorTypeOK
<1>3. MainTypeOK
  BY DEF Init, MainTypeOK, MainPcs
<1>4. ThreadTypeOK
  BY DEF Init, ThreadTypeOK, ThreadPcs
<1>5. HistoryTypeOK
  BY DEF Init, HistoryTypeOK
<1>6. FlagsTypeOK
  BY DEF Init, ContextInit, FlagsTypeOK
<1> QED
  BY <1>1, <1>2, <1>3, <1>4, <1>5, <1>6 DEF TypeOK

\* The result a worker returns is one of Results.
LEMMA ReturnTyped ==
  ASSUME TypeOK, NEW t \in Threads, thread_pc[t] = "running",
         NEW kind \in DriverKinds
  PROVE  [by |-> t, n |-> iteration[t], shard |-> shard[t], kind |-> kind]
           \in Results
  BY DEF TypeOK, ThreadTypeOK, Results

\* The collector's variables keep their types when it takes a result.
LEMMA CollectTyped ==
  ASSUME CollectorTypeOK, NEW r \in Results, Collect(r)
  PROVE  CollectorTypeOK'
<1>1. [type |-> "snapshot_execution_result", result |-> r] \in LogEntries
  BY DEF LogEntries
<1>2. binary_log' \in Seq(LogEntries)
  BY <1>1 DEF Collect, Send, CollectorTypeOK
<1> QED
  BY <1>2 DEF Collect, CollectorTypeOK

LEMMA FlagsStep == TypeOK /\ [Next]_vars => FlagsTypeOK'
<1> SUFFICES ASSUME TypeOK, [Next]_vars PROVE FlagsTypeOK'
  OBVIOUS
<1> USE DEF TypeOK, FlagsTypeOK
<1>1. ASSUME NEW t \in Threads, Offer(t) PROVE FlagsTypeOK'
  BY <1>1 DEF Offer
<1>2. ASSUME NEW t \in Threads, StopAndReturn(t) PROVE FlagsTypeOK'
  BY <1>2 DEF StopAndReturn, Stop
<1>3. CASE WakeAtOnce
  BY <1>3 DEF WakeAtOnce, TakeResults
<1>4. CASE WakeNotified
  BY <1>4 DEF WakeNotified, TakeResults
<1>5. CASE WakeOnTimeout
  BY <1>5 DEF WakeOnTimeout, TakeResults
<1>6. CASE ProcessTaken
  BY <1>6 DEF ProcessTaken, Process, Stop
<1>7. CASE Drain
  BY <1>7 DEF Drain, Process, Stop
<1>8. CASE Signal
  BY <1>8 DEF Signal, Stop
<1>9. CASE DeadlinePasses
  BY <1>9 DEF DeadlinePasses
<1>10. ASSUME NEW t \in Threads,
             \/ StartRunner(t) \/ LeaveLoop(t) \/ RunnerReturns(t)
             \/ BackoffEnds(t)
      PROVE  FlagsTypeOK'
  BY <1>10 DEF StartRunner, LeaveLoop, RunnerReturns, BackoffEnds
<1>11. CASE SetUp \/ SetUpFails \/ Spawn \/ SpawnEnds \/ LoopTest \/ Sleep \/
           TakenProcessed \/ Join \/ Exit \/ WatchdogFires
  BY <1>11 DEF SetUp, SetUpFails, Spawn, SpawnEnds, LoopTest, Sleep,
         TakenProcessed, Join, Exit, WatchdogFires
<1>12. CASE Terminated \/ UNCHANGED vars
  BY <1>12 DEF Terminated, vars
<1> QED
  BY <1>1, <1>2, <1>3, <1>4, <1>5, <1>6, <1>7, <1>8, <1>9, <1>10, <1>11,
         <1>12
     DEF Next, Main, Worker

LEMMA ContextStep == TypeOK /\ [Next]_vars => ContextTypeOK'
<1> SUFFICES ASSUME TypeOK, [Next]_vars PROVE ContextTypeOK'
  OBVIOUS
<1> USE DEF TypeOK, ContextTypeOK
<1>1. ASSUME NEW t \in Threads, Offer(t) PROVE ContextTypeOK'
  <2> PICK r \in hand[t] : Accept(r) \/ Refuse
    BY <1>1 DEF Offer
  <2>1. r \in Results
    BY DEF ThreadTypeOK
  <2> QED
    BY <2>1 DEF Accept, Refuse
<1>2. CASE WakeAtOnce
  BY <1>2 DEF WakeAtOnce, TakeResults
<1>3. CASE WakeNotified
  BY <1>3 DEF WakeNotified, TakeResults
<1>4. CASE WakeOnTimeout
  BY <1>4 DEF WakeOnTimeout, TakeResults
<1>5. CASE ProcessTaken
  BY <1>5 DEF ProcessTaken, Process
<1>6. CASE Drain
  BY <1>6 DEF Drain, Process
<1>7. ASSUME NEW t \in Threads,
             \/ StartRunner(t) \/ LeaveLoop(t) \/ RunnerReturns(t)
             \/ BackoffEnds(t) \/ StopAndReturn(t)
      PROVE  ContextTypeOK'
  BY <1>7 DEF StartRunner, LeaveLoop, RunnerReturns, BackoffEnds,
         StopAndReturn
<1>8. CASE SetUp \/ SetUpFails \/ Spawn \/ SpawnEnds \/ LoopTest \/ Sleep \/
           TakenProcessed \/ Join \/ Exit \/ Signal \/ DeadlinePasses \/
           WatchdogFires
  BY <1>8 DEF SetUp, SetUpFails, Spawn, SpawnEnds, LoopTest, Sleep,
         TakenProcessed, Join, Exit, Signal, DeadlinePasses, WatchdogFires
<1>9. CASE Terminated \/ UNCHANGED vars
  BY <1>9 DEF Terminated, vars
<1> QED
  BY <1>1, <1>2, <1>3, <1>4, <1>5, <1>6, <1>7, <1>8, <1>9
     DEF Next, Main, Worker

LEMMA CollectorStep == TypeOK /\ [Next]_vars => CollectorTypeOK'
<1> SUFFICES ASSUME TypeOK, [Next]_vars PROVE CollectorTypeOK'
  OBVIOUS
<1> USE DEF TypeOK, CollectorTypeOK
<1>1. CASE SetUp
  BY <1>1 DEF SetUp, LogEntries
<1>2. CASE ProcessTaken
  <2> DEFINE r == Head(current_results)
  <2>1. r \in Results
    BY <1>2 DEF ProcessTaken, MainTypeOK
  <2>2. Process(r)
    BY <1>2 DEF ProcessTaken
  <2> QED
    BY <2>1, <2>2, CollectTyped DEF Process
<1>3. CASE Drain
  <2> DEFINE r == Head(invocation_results)
  <2>1. r \in Results
    BY <1>3 DEF Drain, ContextTypeOK
  <2>2. Process(r)
    BY <1>3 DEF Drain
  <2> QED
    BY <2>1, <2>2, CollectTyped DEF Process
<1>4. CASE Exit
  BY <1>4 DEF Exit, Send, LogEntries
<1>5. ASSUME NEW t \in Threads,
             \/ StartRunner(t) \/ LeaveLoop(t) \/ RunnerReturns(t)
             \/ BackoffEnds(t) \/ Offer(t) \/ StopAndReturn(t)
      PROVE  CollectorTypeOK'
  BY <1>5 DEF StartRunner, LeaveLoop, RunnerReturns, BackoffEnds, Offer,
         StopAndReturn
<1>6. CASE SetUpFails \/ Spawn \/ SpawnEnds \/ LoopTest \/ Sleep \/ WakeAtOnce
           \/ WakeNotified \/ WakeOnTimeout \/ TakenProcessed \/ Join \/
           Signal \/ DeadlinePasses \/ WatchdogFires
  BY <1>6 DEF SetUpFails, Spawn, SpawnEnds, LoopTest, Sleep, WakeAtOnce,
         WakeNotified, WakeOnTimeout, TakenProcessed, Join, Signal,
         DeadlinePasses, WatchdogFires, TakeResults
<1>7. CASE Terminated \/ UNCHANGED vars
  BY <1>7 DEF Terminated, vars
<1> QED
  BY <1>1, <1>2, <1>3, <1>4, <1>5, <1>6, <1>7
     DEF Next, Main, Worker

LEMMA MainStep == TypeOK /\ [Next]_vars => MainTypeOK'
<1> SUFFICES ASSUME TypeOK, [Next]_vars PROVE MainTypeOK'
  OBVIOUS
<1> USE DEF TypeOK, MainTypeOK
<1>1. CASE SetUp
  BY <1>1 DEF SetUp, MainPcs
<1>2. CASE SetUpFails
  BY <1>2 DEF SetUpFails, MainPcs
<1>3. CASE Spawn
  BY <1>3 DEF Spawn, MainPcs
<1>4. CASE SpawnEnds
  BY <1>4 DEF SpawnEnds, MainPcs
<1>5. CASE LoopTest
  BY <1>5 DEF LoopTest, MainPcs
<1>6. CASE Sleep
  BY <1>6 DEF Sleep, MainPcs
<1>7. CASE WakeAtOnce
  BY <1>7 DEF WakeAtOnce, MainPcs, TakeResults, ContextTypeOK
<1>8. CASE WakeNotified
  BY <1>8 DEF WakeNotified, MainPcs, TakeResults, ContextTypeOK
<1>9. CASE WakeOnTimeout
  BY <1>9 DEF WakeOnTimeout, MainPcs, TakeResults, ContextTypeOK
<1>10. CASE ProcessTaken
  BY <1>10 DEF ProcessTaken, MainPcs, Process
<1>11. CASE TakenProcessed
  BY <1>11 DEF TakenProcessed, MainPcs
<1>12. CASE Join
  BY <1>12 DEF Join, MainPcs
<1>13. CASE Drain
  BY <1>13 DEF Drain, MainPcs, Process
<1>14. CASE Exit
  BY <1>14 DEF Exit, MainPcs, Verdict
<1>15. CASE WatchdogFires
  BY <1>15 DEF WatchdogFires, MainPcs
<1>16. ASSUME NEW t \in Threads,
             \/ StartRunner(t) \/ LeaveLoop(t) \/ RunnerReturns(t)
             \/ BackoffEnds(t) \/ Offer(t) \/ StopAndReturn(t)
      PROVE  MainTypeOK'
  BY <1>16 DEF StartRunner, LeaveLoop, RunnerReturns, BackoffEnds, Offer,
         StopAndReturn
<1>17. CASE Signal \/ DeadlinePasses
  BY <1>17 DEF Signal, DeadlinePasses
<1>18. CASE Terminated \/ UNCHANGED vars
  BY <1>18 DEF Terminated, vars
<1> QED
  BY <1>1, <1>2, <1>3, <1>4, <1>5, <1>6, <1>7, <1>8, <1>9, <1>10, <1>11,
         <1>12, <1>13, <1>14, <1>15, <1>16, <1>17, <1>18
     DEF Next, Main, Worker

LEMMA ThreadStep == TypeOK /\ [Next]_vars => ThreadTypeOK'
<1> SUFFICES ASSUME TypeOK, [Next]_vars PROVE ThreadTypeOK'
  OBVIOUS
<1> USE DEF TypeOK, ThreadTypeOK
<1>1. ASSUME NEW t \in Threads,
             \/ StartRunner(t) PROVE ThreadTypeOK'
  BY <1>1 DEF StartRunner, ThreadPcs
<1>2. ASSUME NEW t \in Threads, LeaveLoop(t) PROVE ThreadTypeOK'
  BY <1>2 DEF LeaveLoop, ThreadPcs
<1>3. ASSUME NEW t \in Threads, RunnerReturns(t) PROVE ThreadTypeOK'
  BY <1>3, ReturnTyped DEF RunnerReturns, ThreadPcs
<1>4. ASSUME NEW t \in Threads, BackoffEnds(t) PROVE ThreadTypeOK'
  BY <1>4 DEF BackoffEnds, ThreadPcs
<1>5. ASSUME NEW t \in Threads, Offer(t) PROVE ThreadTypeOK'
  BY <1>5 DEF Offer, ThreadPcs
<1>6. ASSUME NEW t \in Threads, StopAndReturn(t) PROVE ThreadTypeOK'
  BY <1>6 DEF StopAndReturn, ThreadPcs
<1>7. CASE Spawn
  BY <1>7 DEF Spawn, ThreadPcs, Threads, MainTypeOK
<1>8. CASE SetUp \/ SetUpFails \/ SpawnEnds \/ LoopTest \/ Sleep \/ WakeAtOnce
           \/ WakeNotified \/ WakeOnTimeout \/ ProcessTaken \/ TakenProcessed
           \/ Join \/ Drain \/ Exit \/ Signal \/ DeadlinePasses \/
           WatchdogFires
  BY <1>8 DEF SetUp, SetUpFails, SpawnEnds, LoopTest, Sleep, WakeAtOnce,
         WakeNotified, WakeOnTimeout, ProcessTaken, TakenProcessed, Join,
         Drain, Exit, Signal, DeadlinePasses, WatchdogFires, TakeResults,
         Process
<1>9. CASE Terminated \/ UNCHANGED vars
  BY <1>9 DEF Terminated, vars
<1> QED
  BY <1>1, <1>2, <1>3, <1>4, <1>5, <1>6, <1>7, <1>8, <1>9
     DEF Next, Main, Worker

LEMMA HistoryStep == TypeOK /\ [Next]_vars => HistoryTypeOK'
<1> SUFFICES ASSUME TypeOK, [Next]_vars PROVE HistoryTypeOK'
  OBVIOUS
<1> USE DEF TypeOK, HistoryTypeOK
<1>1. ASSUME NEW t \in Threads, RunnerReturns(t) PROVE HistoryTypeOK'
  BY <1>1, ReturnTyped DEF RunnerReturns
<1>2. ASSUME NEW t \in Threads, Offer(t) PROVE HistoryTypeOK'
  BY <1>2 DEF Offer, ThreadTypeOK
<1>3. CASE ProcessTaken
  BY <1>3 DEF ProcessTaken, Process, MainTypeOK
<1>4. CASE Drain
  BY <1>4 DEF Drain, Process, ContextTypeOK
<1>5. ASSUME NEW t \in Threads,
             \/ StartRunner(t) \/ LeaveLoop(t) \/ BackoffEnds(t)
             \/ StopAndReturn(t)
      PROVE  HistoryTypeOK'
  BY <1>5 DEF StartRunner, LeaveLoop, BackoffEnds, StopAndReturn
<1>6. CASE SetUp \/ SetUpFails \/ Spawn \/ SpawnEnds \/ LoopTest \/ Sleep \/
           WakeAtOnce \/ WakeNotified \/ WakeOnTimeout \/ TakenProcessed \/
           Join \/ Exit \/ Signal \/ DeadlinePasses \/ WatchdogFires
  BY <1>6 DEF SetUp, SetUpFails, Spawn, SpawnEnds, LoopTest, Sleep,
         WakeAtOnce, WakeNotified, WakeOnTimeout, TakenProcessed, Join,
         Exit, Signal, DeadlinePasses, WatchdogFires, TakeResults
<1>7. CASE Terminated \/ UNCHANGED vars
  BY <1>7 DEF Terminated, vars
<1> QED
  BY <1>1, <1>2, <1>3, <1>4, <1>5, <1>6, <1>7
     DEF Next, Main, Worker

\* Type correctness of the whole session: whatever the interleaving, every
\* variable keeps its type; in particular the queue and the event loop's copy
\* of it hold results only.
THEOREM TypeCorrect == Spec => []TypeOK
<1>1. TypeOK /\ [Next]_vars => TypeOK'
  BY FlagsStep, ContextStep, CollectorStep, MainStep, ThreadStep, HistoryStep
     DEF TypeOK
<1> QED
  BY TypeInit, <1>1, PTL DEF Spec
-----------------------------------------------------------------------------
(***************************************************************************)
(* Conservation of results.  ResultsConserved is not inductive by itself:  *)
(* a new result must differ from every earlier one (HandInv, FreshInv),    *)
(* the swap must not overwrite a batch in progress (BatchInv).             *)
(***************************************************************************)
HandInv ==
  \A t \in Threads :
    /\ hand[t] # {} => thread_pc[t] \in {"backoff", "offer"}
    /\ \A r \in hand[t] : hand[t] = {r} /\ r.by = t /\ r.n = iteration[t]

FreshInv ==
  \A r \in produced : r.n < iteration[r.by] \/ r \in hand[r.by]

SpawnInv ==
  \A t \in Threads : thread_pc[t] = "unborn" <=> t > num_spawned

BatchInv == main_pc \notin {"process", "killed"} => current_results = <<>>

ConservationInv ==
  ResultsConserved /\ SpawnInv /\ HandInv /\ FreshInv /\ BatchInv

\* What Append does to the elements of a sequence without repetitions.
LEMMA AppendElements ==
  ASSUME NEW S, NEW s \in Seq(S), NEW e \in S
  PROVE  /\ Range(Append(s, e)) = Range(s) \union {e}
         /\ IsInjective(s) /\ e \notin Range(s) => IsInjective(Append(s, e))
<1> DEFINE a == Append(s, e)
<1>1. /\ DOMAIN s = 1..Len(s) /\ DOMAIN a = 1..(Len(s) + 1)
      /\ \A i \in 1..Len(s) : a[i] = s[i]
      /\ a[Len(s) + 1] = e
  OBVIOUS
<1>2. Range(a) = Range(s) \union {e}
  <2>1. ASSUME NEW x \in Range(a) PROVE x \in Range(s) \union {e}
    <3> PICK i \in 1..(Len(s) + 1) : x = a[i]
      BY <1>1, <2>1 DEF Range
    <3> QED
      BY <1>1 DEF Range
  <2>2. ASSUME NEW x \in Range(s) PROVE x \in Range(a)
    <3> PICK i \in 1..Len(s) : x = s[i]
      BY <1>1 DEF Range
    <3> QED
      BY <1>1 DEF Range
  <2>3. e \in Range(a)
    BY <1>1 DEF Range
  <2> QED
    BY <2>1, <2>2, <2>3
<1>3. ASSUME IsInjective(s), e \notin Range(s) PROVE IsInjective(a)
  BY <1>1, <1>3 DEF IsInjective, Range
<1> QED
  BY <1>2, <1>3

\* What Tail does to them.
LEMMA TailElements ==
  ASSUME NEW S, NEW s \in Seq(S), s # <<>>, IsInjective(s)
  PROVE  /\ Head(s) \in Range(s)
         /\ Range(Tail(s)) = Range(s) \ {Head(s)}
         /\ IsInjective(Tail(s))
<1> DEFINE t == Tail(s)
<1>1. /\ DOMAIN s = 1..Len(s) /\ Len(s) \in Nat \ {0}
      /\ DOMAIN t = 1..(Len(s) - 1)
      /\ \A i \in 1..(Len(s) - 1) : t[i] = s[i + 1]
      /\ Head(s) = s[1]
  OBVIOUS
<1>2. Head(s) \in Range(s)
  BY <1>1 DEF Range
<1>3. ASSUME NEW x \in Range(t) PROVE x \in Range(s) \ {Head(s)}
  <2> PICK i \in 1..(Len(s) - 1) : x = s[i + 1]
    BY <1>1, <1>3 DEF Range
  <2> QED
    BY <1>1 DEF Range, IsInjective
<1>4. ASSUME NEW x \in Range(s), x # Head(s) PROVE x \in Range(t)
  <2> PICK i \in 1..Len(s) : x = s[i]
    BY <1>1 DEF Range
  <2>1. i - 1 \in 1..(Len(s) - 1) /\ t[i - 1] = x
    BY <1>1, <1>4
  <2> QED
    BY <1>1, <2>1 DEF Range
<1>5. IsInjective(t)
  BY <1>1 DEF IsInjective
<1> QED
  BY <1>2, <1>3, <1>4, <1>5

LEMMA ConservationInit == Init => ConservationInv
BY DEF Init, ContextInit, CollectorInit, ConservationInv, ResultsConserved,
       SpawnInv, HandInv, FreshInv, BatchInv, Held, Queued, Taken, Range,
       IsInjective, Threads

LEMMA SpawnStep == TypeOK /\ SpawnInv /\ [Next]_vars => SpawnInv'
<1> SUFFICES ASSUME TypeOK, SpawnInv, [Next]_vars PROVE SpawnInv'
  OBVIOUS
<1> USE DEF TypeOK, ThreadTypeOK, MainTypeOK, SpawnInv, Threads
<1>1. CASE Spawn
  <2>1. /\ num_spawned \in Nat /\ num_spawned' = num_spawned + 1
        /\ num_spawned + 1 \in Threads
    BY <1>1 DEF Spawn
  <2>2. thread_pc' = [thread_pc EXCEPT ![num_spawned + 1] = "head"]
    BY <1>1, <2>1 DEF Spawn
  <2> SUFFICES ASSUME NEW t \in Threads
               PROVE  thread_pc'[t] = "unborn" <=> t > num_spawned'
    OBVIOUS
  <2>3. CASE t = num_spawned + 1
    BY <2>1, <2>2, <2>3
  <2>4. CASE t # num_spawned + 1
    <3>1. thread_pc'[t] = thread_pc[t]
      BY <2>2, <2>4
    <3>2. t > num_spawned <=> t > num_spawned + 1
      BY <2>1, <2>4
    <3> QED
      BY <2>1, <3>1, <3>2
  <2> QED
    BY <2>3, <2>4
<1>2. ASSUME NEW t \in Threads,
             \/ StartRunner(t) \/ LeaveLoop(t) \/ RunnerReturns(t)
             \/ BackoffEnds(t) \/ Offer(t) \/ StopAndReturn(t)
      PROVE  SpawnInv'
  BY <1>2 DEF StartRunner, LeaveLoop, RunnerReturns, BackoffEnds, Offer,
     StopAndReturn, Stop
<1>3. CASE \/ SetUp \/ SetUpFails \/ SpawnEnds \/ LoopTest \/ Sleep
           \/ WakeAtOnce \/ WakeNotified \/ WakeOnTimeout \/ ProcessTaken
           \/ TakenProcessed \/ Join \/ Drain \/ Exit \/ Signal
           \/ DeadlinePasses \/ WatchdogFires
  BY <1>3 DEF SetUp, SetUpFails, SpawnEnds, LoopTest, Sleep, WakeAtOnce,
     WakeNotified, WakeOnTimeout, ProcessTaken, TakenProcessed, Join, Drain,
     Exit, Signal, DeadlinePasses, WatchdogFires, TakeResults, Process
<1>4. CASE Terminated \/ UNCHANGED vars
  BY <1>4 DEF Terminated, vars
<1> QED
  BY <1>1, <1>2, <1>3, <1>4 DEF Next, Main, Worker

LEMMA HandStep == TypeOK /\ SpawnInv /\ HandInv /\ [Next]_vars => HandInv'
<1> SUFFICES ASSUME TypeOK, SpawnInv, HandInv, [Next]_vars PROVE HandInv'
  OBVIOUS
<1> USE DEF TypeOK, ThreadTypeOK, MainTypeOK, HandInv
<1>1. ASSUME NEW t \in Threads, RunnerReturns(t) PROVE HandInv'
  BY <1>1, SMTT(30) DEF RunnerReturns
<1>2. ASSUME NEW t \in Threads, Offer(t) PROVE HandInv'
  BY <1>2 DEF Offer
<1>3. CASE Spawn
  <2>1. /\ num_spawned + 1 \in Threads
        /\ thread_pc[num_spawned + 1] = "unborn"
    BY <1>3 DEF Spawn, SpawnInv, Threads
  <2>2. /\ thread_pc' = [thread_pc EXCEPT ![num_spawned + 1] = "head"]
        /\ UNCHANGED <<hand, iteration>>
    BY <1>3 DEF Spawn
  <2> QED
    BY <2>1, <2>2
<1>4. ASSUME NEW t \in Threads,
             \/ StartRunner(t) \/ LeaveLoop(t) \/ BackoffEnds(t)
             \/ StopAndReturn(t)
      PROVE  HandInv'
  BY <1>4, SMTT(30) DEF StartRunner, LeaveLoop, BackoffEnds, StopAndReturn, Stop
<1>5. CASE \/ SetUp \/ SetUpFails \/ SpawnEnds \/ LoopTest \/ Sleep
           \/ WakeAtOnce \/ WakeNotified \/ WakeOnTimeout \/ ProcessTaken
           \/ TakenProcessed \/ Join \/ Drain \/ Exit \/ Signal
           \/ DeadlinePasses \/ WatchdogFires
  BY <1>5 DEF SetUp, SetUpFails, SpawnEnds, LoopTest, Sleep, WakeAtOnce,
     WakeNotified, WakeOnTimeout, ProcessTaken, TakenProcessed, Join, Drain,
     Exit, Signal, DeadlinePasses, WatchdogFires, TakeResults, Process
<1>6. CASE Terminated \/ UNCHANGED vars
  BY <1>6 DEF Terminated, vars
<1> QED
  BY <1>1, <1>2, <1>3, <1>4, <1>5, <1>6 DEF Next, Main, Worker

LEMMA BatchStep == BatchInv /\ [Next]_vars => BatchInv'
<1> SUFFICES ASSUME BatchInv, [Next]_vars PROVE BatchInv'
  OBVIOUS
<1> USE DEF BatchInv
<1>1. ASSUME NEW t \in Threads,
             \/ StartRunner(t) \/ LeaveLoop(t) \/ RunnerReturns(t)
             \/ BackoffEnds(t) \/ Offer(t) \/ StopAndReturn(t)
      PROVE  BatchInv'
  BY <1>1 DEF StartRunner, LeaveLoop, RunnerReturns, BackoffEnds, Offer,
     StopAndReturn, Stop
<1>2. CASE \/ SetUp \/ SetUpFails \/ Spawn \/ SpawnEnds \/ LoopTest \/ Sleep
           \/ WakeAtOnce \/ WakeNotified \/ WakeOnTimeout \/ ProcessTaken
           \/ TakenProcessed \/ Join \/ Drain \/ Exit \/ Signal
           \/ DeadlinePasses \/ WatchdogFires
  BY <1>2 DEF SetUp, SetUpFails, Spawn, SpawnEnds, LoopTest, Sleep,
     WakeAtOnce, WakeNotified, WakeOnTimeout, ProcessTaken, TakenProcessed,
     Join, Drain, Exit, Signal, DeadlinePasses, WatchdogFires, TakeResults,
     Process
<1>3. CASE Terminated \/ UNCHANGED vars
  BY <1>3 DEF Terminated, vars
<1> QED
  BY <1>1, <1>2, <1>3 DEF Next, Main, Worker

LEMMA FreshStep == TypeOK /\ HandInv /\ FreshInv /\ [Next]_vars => FreshInv'
<1> SUFFICES ASSUME TypeOK, HandInv, FreshInv, [Next]_vars PROVE FreshInv'
  OBVIOUS
<1> USE DEF TypeOK, ThreadTypeOK, HistoryTypeOK, HandInv, FreshInv
<1>1. ASSUME NEW t \in Threads, RunnerReturns(t) PROVE FreshInv'
  BY <1>1 DEF RunnerReturns
<1>2. ASSUME NEW t \in Threads, Offer(t) PROVE FreshInv'
  <2> SUFFICES ASSUME NEW r \in produced'
               PROVE  r.n < iteration'[r.by] \/ r \in hand'[r.by]
    OBVIOUS
  <2>1. r \in produced /\ r \in Results /\ r.by \in Threads /\ r.n \in Nat
    BY <1>2 DEF Offer, Results
  <2>2. iteration' = [iteration EXCEPT ![t] = iteration[t] + 1]
    BY <1>2 DEF Offer
  <2>3. hand' = [hand EXCEPT ![t] = {}]
    BY <1>2 DEF Offer
  <2>4. CASE r.by = t
    BY <2>1, <2>2, <2>4
  <2>5. CASE r.by # t
    BY <2>1, <2>2, <2>3, <2>5
  <2> QED
    BY <2>4, <2>5
<1>3. ASSUME NEW t \in Threads,
             \/ StartRunner(t) \/ LeaveLoop(t) \/ BackoffEnds(t)
             \/ StopAndReturn(t)
      PROVE  FreshInv'
  BY <1>3 DEF StartRunner, LeaveLoop, BackoffEnds, StopAndReturn, Stop
<1>4. CASE \/ SetUp \/ SetUpFails \/ Spawn \/ SpawnEnds \/ LoopTest \/ Sleep
           \/ WakeAtOnce \/ WakeNotified \/ WakeOnTimeout \/ ProcessTaken
           \/ TakenProcessed \/ Join \/ Drain \/ Exit \/ Signal
           \/ DeadlinePasses \/ WatchdogFires
  BY <1>4 DEF SetUp, SetUpFails, Spawn, SpawnEnds, LoopTest, Sleep,
     WakeAtOnce, WakeNotified, WakeOnTimeout, ProcessTaken, TakenProcessed,
     Join, Drain, Exit, Signal, DeadlinePasses, WatchdogFires, TakeResults,
     Process
<1>5. CASE Terminated \/ UNCHANGED vars
  BY <1>5 DEF Terminated, vars
<1> QED
  BY <1>1, <1>2, <1>3, <1>4, <1>5 DEF Next, Main, Worker

LEMMA ConservedStep ==
  TypeOK /\ ConservationInv /\ [Next]_vars => ResultsConserved'
<1> SUFFICES ASSUME TypeOK, ConservationInv, [Next]_vars PROVE ResultsConserved'
  OBVIOUS
<1> USE DEF ConservationInv, ResultsConserved, Queued, Taken
<1>1. ASSUME NEW t \in Threads, RunnerReturns(t) PROVE ResultsConserved'
  <2> PICK kind \in DriverKinds :
          LET r == [by |-> t, n |-> iteration[t], shard |-> shard[t],
                    kind |-> kind]
          IN  /\ hand' = [hand EXCEPT ![t] = {r}]
              /\ produced' = produced \union {r}
    BY <1>1 DEF RunnerReturns
  <2> DEFINE r == [by |-> t, n |-> iteration[t], shard |-> shard[t],
                   kind |-> kind]
  <2>1. hand[t] = {}
    BY <1>1 DEF RunnerReturns, HandInv
  <2>2. r \notin produced
    BY <2>1 DEF FreshInv, TypeOK, ThreadTypeOK
  <2>3. Held' = Held \union {r}
    BY <2>1 DEF Held, TypeOK, ThreadTypeOK
  <2>4. /\ UNCHANGED <<invocation_results, current_results, handled, lost>>
        /\ produced' = produced \union {r}
    BY <1>1 DEF RunnerReturns
  <2> HIDE DEF r
  <2> QED
    BY <2>2, <2>3, <2>4
<1>2. ASSUME NEW t \in Threads, Offer(t) PROVE ResultsConserved'
  <2> PICK r \in hand[t] : \/ Accept(r) /\ UNCHANGED lost
                           \/ Refuse /\ lost' = lost \union {r}
    BY <1>2 DEF Offer
  <2>1. hand' = [hand EXCEPT ![t] = {}]
    BY <1>2 DEF Offer
  <2>2. \A u \in Threads : u # t => r \notin hand[u]
    BY DEF HandInv
  <2>3. r \in Results /\ hand[t] = {r} /\ r \in Held
    BY DEF HandInv, TypeOK, ThreadTypeOK, Held
  <2>4. Held' = Held \ {r}
    BY <2>1, <2>2, <2>3 DEF Held, TypeOK, ThreadTypeOK
  <2>5. UNCHANGED <<current_results, produced, handled>>
    BY <1>2 DEF Offer
  <2>6. CASE Accept(r) /\ UNCHANGED lost
    <3>1. invocation_results' = Append(invocation_results, r)
      BY <2>6 DEF Accept
    <3>2. r \notin Queued
      BY <2>3
    <3>3. Queued' = Queued \union {r} /\ IsInjective(invocation_results')
      BY <2>3, <3>1, <3>2, AppendElements DEF TypeOK, ContextTypeOK
    <3> QED
      BY <2>3, <2>4, <2>5, <2>6, <3>3
  <2>7. CASE Refuse /\ lost' = lost \union {r}
    BY <2>3, <2>4, <2>5, <2>7 DEF Refuse
  <2> QED
    BY <2>6, <2>7
<1>3. CASE WakeAtOnce
  <2>1. current_results = <<>>
    BY <1>3 DEF WakeAtOnce, BatchInv
  <2>2. Taken = {} /\ Queued' = {} /\ Taken' = Queued
    BY <1>3, <2>1 DEF WakeAtOnce, BatchInv, TakeResults, Range
  <2>3. IsInjective(invocation_results') /\ IsInjective(current_results')
    BY <1>3 DEF WakeAtOnce, BatchInv, TakeResults, IsInjective
  <2>4. Held' = Held /\ UNCHANGED <<produced, handled, lost>>
    BY <1>3 DEF WakeAtOnce, BatchInv, TakeResults, Held
  <2> QED
    BY <2>2, <2>3, <2>4
<1>4. CASE WakeNotified
  <2>1. current_results = <<>>
    BY <1>4 DEF WakeNotified, BatchInv
  <2>2. Taken = {} /\ Queued' = {} /\ Taken' = Queued
    BY <1>4, <2>1 DEF WakeNotified, BatchInv, TakeResults, Range
  <2>3. IsInjective(invocation_results') /\ IsInjective(current_results')
    BY <1>4 DEF WakeNotified, BatchInv, TakeResults, IsInjective
  <2>4. Held' = Held /\ UNCHANGED <<produced, handled, lost>>
    BY <1>4 DEF WakeNotified, BatchInv, TakeResults, Held
  <2> QED
    BY <2>2, <2>3, <2>4
<1>5. CASE WakeOnTimeout
  <2>1. current_results = <<>>
    BY <1>5 DEF WakeOnTimeout, BatchInv
  <2>2. Taken = {} /\ Queued' = {} /\ Taken' = Queued
    BY <1>5, <2>1 DEF WakeOnTimeout, BatchInv, TakeResults, Range
  <2>3. IsInjective(invocation_results') /\ IsInjective(current_results')
    BY <1>5 DEF WakeOnTimeout, BatchInv, TakeResults, IsInjective
  <2>4. Held' = Held /\ UNCHANGED <<produced, handled, lost>>
    BY <1>5 DEF WakeOnTimeout, BatchInv, TakeResults, Held
  <2> QED
    BY <2>2, <2>3, <2>4
<1>6. CASE ProcessTaken
  <2> DEFINE r == Head(current_results)
  <2>1. /\ current_results # <<>> /\ current_results' = Tail(current_results)
        /\ handled' = handled \union {r}
        /\ UNCHANGED <<invocation_results, hand, produced, lost>>
    BY <1>6 DEF ProcessTaken, Process
  <2>2. /\ r \in Taken /\ Taken' = Taken \ {r}
        /\ IsInjective(current_results')
    BY <2>1, TailElements DEF TypeOK, MainTypeOK
  <2>3. Held' = Held
    BY <2>1 DEF Held
  <2> HIDE DEF r
  <2> QED
    BY <2>1, <2>2, <2>3
<1>7. CASE Drain
  <2> DEFINE r == Head(invocation_results)
  <2>1. /\ invocation_results # <<>>
        /\ invocation_results' = Tail(invocation_results)
        /\ handled' = handled \union {r}
        /\ UNCHANGED <<current_results, hand, produced, lost>>
    BY <1>7 DEF Drain, Process
  <2>2. /\ r \in Queued /\ Queued' = Queued \ {r}
        /\ IsInjective(invocation_results')
    BY <2>1, TailElements DEF TypeOK, ContextTypeOK
  <2>3. Held' = Held
    BY <2>1 DEF Held
  <2> HIDE DEF r
  <2> QED
    BY <2>1, <2>2, <2>3
<1>8. ASSUME NEW t \in Threads,
             \/ StartRunner(t) \/ LeaveLoop(t) \/ BackoffEnds(t)
             \/ StopAndReturn(t)
      PROVE  ResultsConserved'
  BY <1>8 DEF StartRunner, LeaveLoop, BackoffEnds, StopAndReturn, Stop,
     Held
<1>9. CASE \/ SetUp \/ SetUpFails \/ Spawn \/ SpawnEnds \/ LoopTest \/ Sleep
           \/ TakenProcessed \/ Join \/ Exit \/ Signal \/ DeadlinePasses
           \/ WatchdogFires
  BY <1>9 DEF SetUp, SetUpFails, Spawn, SpawnEnds, LoopTest, Sleep,
     TakenProcessed, Join, Exit, Signal, DeadlinePasses, WatchdogFires,
     Held
<1>10. CASE Terminated \/ UNCHANGED vars
  BY <1>10 DEF Terminated, vars, Held
<1> QED
  BY <1>1, <1>2, <1>3, <1>4, <1>5, <1>6, <1>7, <1>8, <1>9, <1>10 DEF Next,
     Main, Worker

LEMMA ConservationHolds == Spec => []ConservationInv
<1>1. TypeOK /\ ConservationInv /\ [Next]_vars => ConservationInv'
  BY SpawnStep, HandStep, FreshStep, BatchStep, ConservedStep
     DEF ConservationInv
<1> QED
  BY ConservationInit, TypeCorrect, <1>1, PTL DEF Spec

\* No interleaving of the workers, the event loop and the final drain loses a
\* result or takes one twice: each is at every moment in exactly one place.
THEOREM Conservation == Spec => []ResultsConserved
BY ConservationHolds, PTL DEF ConservationInv

-----------------------------------------------------------------------------
(***************************************************************************)
(* The end of the session.  CleanExit needs to know who can still act when *)
(* the main thread drains (JoinedInv), that a process that is gone takes   *)
(* no step (LifeInv), and that the failure count the verdict is read from  *)
(* is nonzero exactly when a failing result was collected (FailureInv).    *)
(***************************************************************************)
JoinedInv == main_pc \in {"drain", "exited"} => AllJoined

LifeInv == Alive <=> main_pc \notin {"exited", "failed", "killed"}

FailureInv == num_failed_snapshots > 0 <=> \E r \in handled : IsFailure(r.kind)

VerdictInv ==
  main_pc = "exited" => exit_code = Verdict /\ invocation_results = <<>>

ExitInv == JoinedInv /\ LifeInv /\ FailureInv /\ VerdictInv

LEMMA ExitInit == Init => ExitInv
BY DEF Init, CollectorInit, ExitInv, JoinedInv, LifeInv, FailureInv,
       VerdictInv, Alive

\* Collecting a result keeps the failure count in step with the failures.
LEMMA CollectFailure ==
  ASSUME CollectorTypeOK, FailureInv, NEW r \in Results, Process(r)
  PROVE  FailureInv'
<1>1. num_failed_snapshots' =
        num_failed_snapshots + (IF IsFailure(r.kind) THEN 1 ELSE 0)
  BY DEF Process, Collect
<1>2. handled' = handled \union {r}
  BY DEF Process
<1>3. num_failed_snapshots \in Nat
  BY DEF CollectorTypeOK
<1>4. CASE IsFailure(r.kind)
  BY <1>1, <1>2, <1>3, <1>4 DEF FailureInv
<1>5. CASE ~IsFailure(r.kind)
  BY <1>1, <1>2, <1>3, <1>5 DEF FailureInv
<1> QED
  BY <1>4, <1>5

\* Once they are joined, no worker can take a step.
LEMMA JoinedIdle ==
  ASSUME TypeOK, SpawnInv, JoinedInv, main_pc \in {"drain", "exited"},
         NEW t \in Threads
  PROVE  thread_pc[t] \in {"done", "unborn"}
BY DEF TypeOK, MainTypeOK, SpawnInv, JoinedInv, AllJoined, Threads

LEMMA JoinedStep == TypeOK /\ SpawnInv /\ JoinedInv /\ [Next]_vars => JoinedInv'
<1> SUFFICES ASSUME TypeOK, SpawnInv, JoinedInv, [Next]_vars PROVE JoinedInv'
  OBVIOUS
<1> USE DEF TypeOK, ThreadTypeOK, MainTypeOK, SpawnInv, JoinedInv, AllJoined, Threads
<1>1. ASSUME NEW t \in Threads, StartRunner(t) PROVE JoinedInv'
  BY <1>1, JoinedIdle DEF StartRunner
<1>2. ASSUME NEW t \in Threads, LeaveLoop(t) PROVE JoinedInv'
  BY <1>2, JoinedIdle DEF LeaveLoop
<1>3. ASSUME NEW t \in Threads, RunnerReturns(t) PROVE JoinedInv'
  BY <1>3, JoinedIdle DEF RunnerReturns
<1>4. ASSUME NEW t \in Threads, BackoffEnds(t) PROVE JoinedInv'
  BY <1>4, JoinedIdle DEF BackoffEnds
<1>5. ASSUME NEW t \in Threads, Offer(t) PROVE JoinedInv'
  BY <1>5, JoinedIdle DEF Offer
<1>6. ASSUME NEW t \in Threads, StopAndReturn(t) PROVE JoinedInv'
  BY <1>6, JoinedIdle DEF StopAndReturn
<1>7. CASE Join
  BY <1>7 DEF Join
<1>8. CASE \/ SetUp \/ SetUpFails \/ Spawn \/ SpawnEnds \/ LoopTest \/ Sleep
           \/ WakeAtOnce \/ WakeNotified \/ WakeOnTimeout \/ ProcessTaken
           \/ TakenProcessed \/ Drain \/ Exit \/ Signal \/ DeadlinePasses
           \/ WatchdogFires
  BY <1>8 DEF SetUp, SetUpFails, Spawn, SpawnEnds, LoopTest, Sleep,
     WakeAtOnce, WakeNotified, WakeOnTimeout, ProcessTaken, TakenProcessed,
     Drain, Exit, Signal, DeadlinePasses, WatchdogFires, TakeResults, Process
<1>9. CASE Terminated \/ UNCHANGED vars
  BY <1>9 DEF Terminated, vars
<1> QED
  BY <1>1, <1>2, <1>3, <1>4, <1>5, <1>6, <1>7, <1>8, <1>9 DEF Next, Main,
     Worker

LEMMA LifeStep == LifeInv /\ [Next]_vars => LifeInv'
<1> SUFFICES ASSUME LifeInv, [Next]_vars PROVE LifeInv'
  OBVIOUS
<1> USE DEF LifeInv, Alive
<1>1. CASE Exit
  BY <1>1 DEF Exit, Verdict, EXIT_FAILURE, EXIT_SUCCESS, Running
<1>2. CASE SetUpFails
  BY <1>2 DEF SetUpFails, EXIT_FAILURE, Running
<1>3. CASE WatchdogFires
  BY <1>3 DEF WatchdogFires, kWatchdogExitCode, Running
<1>4. ASSUME NEW t \in Threads,
             \/ StartRunner(t) \/ LeaveLoop(t) \/ RunnerReturns(t)
             \/ BackoffEnds(t) \/ Offer(t) \/ StopAndReturn(t)
      PROVE  LifeInv'
  BY <1>4 DEF StartRunner, LeaveLoop, RunnerReturns, BackoffEnds, Offer,
     StopAndReturn, Stop
<1>5. CASE \/ SetUp \/ Spawn \/ SpawnEnds \/ LoopTest \/ Sleep \/ WakeAtOnce
           \/ WakeNotified \/ WakeOnTimeout \/ ProcessTaken \/ TakenProcessed
           \/ Join \/ Drain \/ Signal \/ DeadlinePasses
  BY <1>5 DEF SetUp, Spawn, SpawnEnds, LoopTest, Sleep, WakeAtOnce,
     WakeNotified, WakeOnTimeout, ProcessTaken, TakenProcessed, Join, Drain,
     Signal, DeadlinePasses, TakeResults, Process
<1>6. CASE Terminated \/ UNCHANGED vars
  BY <1>6 DEF Terminated, vars
<1> QED
  BY <1>1, <1>2, <1>3, <1>4, <1>5, <1>6 DEF Next, Main, Worker

LEMMA FailureStep == TypeOK /\ FailureInv /\ [Next]_vars => FailureInv'
<1> SUFFICES ASSUME TypeOK, FailureInv, [Next]_vars PROVE FailureInv'
  OBVIOUS
<1> USE DEF FailureInv
<1>1. CASE ProcessTaken
  <2>1. Head(current_results) \in Results
    BY <1>1 DEF ProcessTaken, TypeOK, MainTypeOK
  <2> QED
    BY <1>1, <2>1, CollectFailure DEF ProcessTaken, TypeOK
<1>2. CASE Drain
  <2>1. Head(invocation_results) \in Results
    BY <1>2 DEF Drain, TypeOK, ContextTypeOK
  <2> QED
    BY <1>2, <2>1, CollectFailure DEF Drain, TypeOK
<1>3. ASSUME NEW t \in Threads,
             \/ StartRunner(t) \/ LeaveLoop(t) \/ RunnerReturns(t)
             \/ BackoffEnds(t) \/ Offer(t) \/ StopAndReturn(t)
      PROVE  FailureInv'
  BY <1>3 DEF StartRunner, LeaveLoop, RunnerReturns, BackoffEnds, Offer,
     StopAndReturn, Stop
<1>4. CASE \/ SetUp \/ SetUpFails \/ Spawn \/ SpawnEnds \/ LoopTest \/ Sleep
           \/ WakeAtOnce \/ WakeNotified \/ WakeOnTimeout \/ TakenProcessed
           \/ Join \/ Exit \/ Signal \/ DeadlinePasses \/ WatchdogFires
  BY <1>4 DEF SetUp, SetUpFails, Spawn, SpawnEnds, LoopTest, Sleep,
     WakeAtOnce, WakeNotified, WakeOnTimeout, TakenProcessed, Join, Exit,
     Signal, DeadlinePasses, WatchdogFires, TakeResults
<1>5. CASE Terminated \/ UNCHANGED vars
  BY <1>5 DEF Terminated, vars
<1> QED
  BY <1>1, <1>2, <1>3, <1>4, <1>5 DEF Next, Main, Worker

LEMMA VerdictStep == LifeInv /\ VerdictInv /\ [Next]_vars => VerdictInv'
<1> SUFFICES ASSUME LifeInv, VerdictInv, [Next]_vars PROVE VerdictInv'
  OBVIOUS
<1> USE DEF VerdictInv, LifeInv, Verdict
<1>1. CASE Exit
  BY <1>1 DEF Exit, Verdict, Drained
<1>2. ASSUME NEW t \in Threads,
             \/ StartRunner(t) \/ LeaveLoop(t) \/ RunnerReturns(t)
             \/ BackoffEnds(t) \/ Offer(t) \/ StopAndReturn(t)
      PROVE  VerdictInv'
  BY <1>2 DEF StartRunner, LeaveLoop, RunnerReturns, BackoffEnds, Offer,
     StopAndReturn, Stop
<1>3. CASE \/ SetUp \/ SetUpFails \/ Spawn \/ SpawnEnds \/ LoopTest \/ Sleep
           \/ WakeAtOnce \/ WakeNotified \/ WakeOnTimeout \/ ProcessTaken
           \/ TakenProcessed \/ Join \/ Drain \/ Signal \/ DeadlinePasses
           \/ WatchdogFires
  BY <1>3 DEF SetUp, SetUpFails, Spawn, SpawnEnds, LoopTest, Sleep,
     WakeAtOnce, WakeNotified, WakeOnTimeout, ProcessTaken, TakenProcessed,
     Join, Drain, Signal, DeadlinePasses, WatchdogFires, TakeResults, Process
<1>4. CASE Terminated \/ UNCHANGED vars
  BY <1>4 DEF Terminated, vars
<1> QED
  BY <1>1, <1>2, <1>3, <1>4 DEF Next, Main, Worker

LEMMA QueueStep == TypeOK /\ QueueBounded /\ [Next]_vars => QueueBounded'
<1> SUFFICES ASSUME TypeOK, QueueBounded, [Next]_vars PROVE QueueBounded'
  OBVIOUS
<1> USE DEF TypeOK, ContextTypeOK, QueueBounded
<1>1. ASSUME NEW t \in Threads, Offer(t) PROVE QueueBounded'
  <2> PICK r \in hand[t] : Accept(r) \/ Refuse
    BY <1>1 DEF Offer
  <2> QED
    BY DEF Accept, Refuse, QueueFull
<1>2. CASE WakeAtOnce
  BY <1>2 DEF WakeAtOnce, TakeResults
<1>3. CASE WakeNotified
  BY <1>3 DEF WakeNotified, TakeResults
<1>4. CASE WakeOnTimeout
  BY <1>4 DEF WakeOnTimeout, TakeResults
<1>5. CASE ProcessTaken
  BY <1>5 DEF ProcessTaken, Process
<1>6. CASE Drain
  BY <1>6 DEF Drain, Process
<1>7. ASSUME NEW t \in Threads,
             \/ StartRunner(t) \/ LeaveLoop(t) \/ RunnerReturns(t)
             \/ BackoffEnds(t) \/ StopAndReturn(t)
      PROVE  QueueBounded'
  BY <1>7 DEF StartRunner, LeaveLoop, RunnerReturns, BackoffEnds,
     StopAndReturn, Stop
<1>8. CASE \/ SetUp \/ SetUpFails \/ Spawn \/ SpawnEnds \/ LoopTest \/ Sleep
           \/ TakenProcessed \/ Join \/ Exit \/ Signal \/ DeadlinePasses
           \/ WatchdogFires
  BY <1>8 DEF SetUp, SetUpFails, Spawn, SpawnEnds, LoopTest, Sleep,
     TakenProcessed, Join, Exit, Signal, DeadlinePasses, WatchdogFires
<1>9. CASE Terminated \/ UNCHANGED vars
  BY <1>9 DEF Terminated, vars
<1> QED
  BY <1>1, <1>2, <1>3, <1>4, <1>5, <1>6, <1>7, <1>8, <1>9 DEF Next, Main,
     Worker

LEMMA ExitHolds == Spec => []ExitInv
<1>1. TypeOK /\ SpawnInv /\ ExitInv /\ [Next]_vars => ExitInv'
  BY JoinedStep, LifeStep, FailureStep, VerdictStep DEF ExitInv
<1> QED
  BY ExitInit, TypeCorrect, ConservationHolds, <1>1, PTL
     DEF Spec, ConservationInv

\* Whatever stopped the session, a verdict is given only when every worker has
\* ended and no result is left anywhere, and EXIT_SUCCESS cannot hide a failing
\* result that was not counted as dropped.
THEOREM ExitIsClean == Spec => []CleanExit
<1>1. TypeOK /\ ConservationInv /\ ExitInv => CleanExit
  <2> SUFFICES ASSUME TypeOK, ConservationInv, ExitInv, main_pc = "exited"
               PROVE  /\ \A t \in 1..num_spawned : thread_pc[t] = "done"
                      /\ Held \union Queued \union Taken = {}
                      /\ exit_code = EXIT_FAILURE <=>
                           \E r \in handled : IsFailure(r.kind)
                      /\ exit_code = EXIT_SUCCESS =>
                           {r \in produced : IsFailure(r.kind)} \subseteq lost
    BY DEF CleanExit
  <2>1. \A t \in 1..num_spawned : thread_pc[t] = "done"
    BY DEF ExitInv, JoinedInv, AllJoined
  <2>2. \A t \in Threads : hand[t] = {}
    <3> TAKE t \in Threads
    <3>1. thread_pc[t] = "done" \/ thread_pc[t] = "unborn"
      BY <2>1 DEF ConservationInv, SpawnInv, Threads, TypeOK, MainTypeOK
    <3> QED
      BY <3>1 DEF ConservationInv, HandInv
  <2>3. Held = {} /\ Queued = {} /\ Taken = {}
    BY <2>2 DEF ConservationInv, BatchInv, ExitInv, VerdictInv, Held, Queued,
       Taken, Range
  <2>4. exit_code = EXIT_FAILURE <=> \E r \in handled : IsFailure(r.kind)
    BY DEF ExitInv, VerdictInv, FailureInv, Verdict, EXIT_FAILURE,
       EXIT_SUCCESS
  <2>5. produced = handled \union lost
    BY <2>3 DEF ConservationInv, ResultsConserved
  <2> QED
    BY <2>1, <2>3, <2>4, <2>5 DEF EXIT_FAILURE, EXIT_SUCCESS
<1> QED
  BY TypeCorrect, ConservationHolds, ExitHolds, <1>1, PTL

\* The queue never outgrows the slots the constructor reserves, however many
\* workers offer results while the main thread is busy with a batch.
THEOREM QueueIsBounded == Spec => []QueueBounded
<1>1. Init => QueueBounded
  BY DEF Init, ContextInit, QueueBounded
<1>2. TypeOK /\ QueueBounded /\ [Next]_vars => QueueBounded'
  BY QueueStep
<1> QED
  BY TypeCorrect, <1>1, <1>2, PTL DEF Spec
-----------------------------------------------------------------------------
(***************************************************************************)
(* The session implements ResultAccounting.  The one step that needs more  *)
(* than the invariants above is a refused offer: it implements Lose only   *)
(* because the full queue holds NumThreads different results.              *)
(***************************************************************************)
FiniteInv == IsFiniteSet(produced)

\* A sequence without repetitions has as many elements as positions.
LEMMA DistinctElements ==
  ASSUME NEW S, NEW s \in Seq(S), IsInjective(s)
  PROVE  IsFiniteSet(Range(s)) /\ Cardinality(Range(s)) = Len(s)
<1>1. s \in [1..Len(s) -> Range(s)] /\ Len(s) \in Nat
  <2>1. DOMAIN s = 1..Len(s) /\ s = [i \in 1..Len(s) |-> s[i]] /\ Len(s) \in Nat
    OBVIOUS
  <2>2. \A i \in 1..Len(s) : s[i] \in Range(s)
    BY <2>1 DEF Range
  <2> QED
    BY <2>1, <2>2
<1>2. s \in Bijection(1..Len(s), Range(s))
  BY <1>1 DEF Bijection, Injection, Surjection, IsInjective, Range
<1>3. ExistsBijection(1..Len(s), Range(s))
  BY <1>2 DEF ExistsBijection
<1>4. IsFiniteSet(1..Len(s)) /\ Cardinality(1..Len(s)) = Len(s)
  <2> DEFINE n == Len(s)
  <2>1. n \in Nat
    BY <1>1
  <2> HIDE DEF n
  <2>2. IsFiniteSet(1..n) /\ Cardinality(1..n) = IF 1 > n THEN 0 ELSE n - 1 + 1
    BY <2>1, FS_Interval
  <2>3. Cardinality(1..n) = n
    BY <2>1, <2>2
  <2> QED
    BY <2>2, <2>3 DEF n
<1> QED
  BY <1>3, <1>4, FS_Bijection

LEMMA FiniteStep == FiniteInv /\ [Next]_vars => FiniteInv'
<1> SUFFICES ASSUME FiniteInv, [Next]_vars PROVE FiniteInv'
  OBVIOUS
<1> USE DEF FiniteInv
<1>1. ASSUME NEW t \in Threads, RunnerReturns(t) PROVE FiniteInv'
  <2> PICK r : produced' = produced \union {r}
    BY <1>1 DEF RunnerReturns
  <2> QED
    BY FS_AddElement
<1>2. ASSUME NEW t \in Threads,
             \/ StartRunner(t) \/ LeaveLoop(t) \/ BackoffEnds(t) \/ Offer(t)
             \/ StopAndReturn(t)
      PROVE  FiniteInv'
  BY <1>2 DEF StartRunner, LeaveLoop, BackoffEnds, Offer, StopAndReturn, Stop
<1>3. CASE \/ SetUp \/ SetUpFails \/ Spawn \/ SpawnEnds \/ LoopTest \/ Sleep
           \/ WakeAtOnce \/ WakeNotified \/ WakeOnTimeout \/ ProcessTaken
           \/ TakenProcessed \/ Join \/ Drain \/ Exit \/ Signal
           \/ DeadlinePasses \/ WatchdogFires
  BY <1>3 DEF SetUp, SetUpFails, Spawn, SpawnEnds, LoopTest, Sleep,
     WakeAtOnce, WakeNotified, WakeOnTimeout, ProcessTaken, TakenProcessed,
     Join, Drain, Exit, Signal, DeadlinePasses, WatchdogFires, TakeResults,
     Process
<1>4. CASE Terminated \/ UNCHANGED vars
  BY <1>4 DEF Terminated, vars
<1> QED
  BY <1>1, <1>2, <1>3, <1>4 DEF Next, Main, Worker

LEMMA AccountingInitially == Init => Accounting!AccountingInit
BY DEF Init, SessionVerdict, Accounting!AccountingInit

\* The instance's Cardinality is the one of FiniteSets.
LEMMA SameCardinality == \A S : Accounting!Cardinality(S) = Cardinality(S)
BY DEF Cardinality, Accounting!Cardinality, IsFiniteSet, Accounting!IsFiniteSet

\* A live process shows no verdict.
LEMMA RunningVerdict ==
  /\ exit_code = Running => SessionVerdict = "running"
  /\ exit_code' = Running => SessionVerdict' = "running"
BY DEF SessionVerdict, Running, EXIT_FAILURE, EXIT_SUCCESS

\* Every step of the session is a step of the abstract accounting, or a stutter.
LEMMA AccountingStep ==
  TypeOK /\ ConservationInv /\ ExitInv /\ FiniteInv /\ [Next]_vars
    => [Accounting!AccountingNext]_(Accounting!accountingVars)
<1> SUFFICES ASSUME TypeOK, ConservationInv, ExitInv, FiniteInv, [Next]_vars
             PROVE  \/ Accounting!AccountingNext
                    \/ UNCHANGED Accounting!accountingVars
  OBVIOUS
<1> DEFINE Goal == \/ Accounting!AccountingNext
                   \/ UNCHANGED Accounting!accountingVars
<1> USE DEF Alive, Running
<1>1. ASSUME NEW t \in Threads, RunnerReturns(t) PROVE Goal
  <2> PICK kind \in DriverKinds :
        produced' = produced \union
          {[by |-> t, n |-> iteration[t], shard |-> shard[t], kind |-> kind]}
    BY <1>1 DEF RunnerReturns
  <2> DEFINE r == [by |-> t, n |-> iteration[t], shard |-> shard[t],
                   kind |-> kind]
  <2>1. r \in Results
    BY <1>1, ReturnTyped DEF RunnerReturns
  <2>2. r \notin produced
    <3>1. hand[t] = {}
      BY <1>1 DEF RunnerReturns, ConservationInv, HandInv
    <3> QED
      BY <3>1 DEF ConservationInv, FreshInv, TypeOK, ThreadTypeOK
  <2> HIDE DEF r
  <2>3. produced' = produced \union {r} /\ UNCHANGED <<handled, lost>>
    BY <1>1 DEF RunnerReturns, r
  <2>4. exit_code = Running /\ exit_code' = Running
    BY <1>1 DEF RunnerReturns
  <2>5. Accounting!Produce(r)
    BY <2>2, <2>3, <2>4, RunningVerdict DEF Accounting!Produce
  <2> QED
    BY <2>1, <2>5 DEF Accounting!AccountingNext
<1>2. ASSUME NEW t \in Threads, Offer(t) PROVE Goal
  <2> PICK r \in hand[t] : \/ Accept(r) /\ UNCHANGED lost
                           \/ Refuse /\ lost' = lost \union {r}
    BY <1>2 DEF Offer
  <2>1. /\ exit_code = Running /\ exit_code' = Running
        /\ UNCHANGED <<produced, handled>>
    BY <1>2 DEF Offer
  <2>2. CASE UNCHANGED lost
    BY <2>1, <2>2, RunningVerdict DEF Accounting!accountingVars
  <2>3. CASE Refuse /\ lost' = lost \union {r}
    <3>1. r \in Results /\ r \in Held
      BY DEF TypeOK, ThreadTypeOK, Held
    <3>2. r \in produced \ (handled \union lost)
      BY <3>1 DEF ConservationInv, ResultsConserved
    <3>3. Queued \subseteq (produced \ (handled \union lost)) \ {r}
      BY <3>1 DEF ConservationInv, ResultsConserved
    <3>4. Cardinality(Queued) = Len(invocation_results)
      BY DistinctElements
         DEF Queued, ConservationInv, ResultsConserved, TypeOK, ContextTypeOK
    <3>5. Len(invocation_results) >= NumThreads
      BY <2>3 DEF Refuse, QueueFull
    <3>6. IsFiniteSet((produced \ (handled \union lost)) \ {r})
      BY FS_Subset DEF FiniteInv
    <3>7. Cardinality(Queued)
            <= Cardinality((produced \ (handled \union lost)) \ {r})
      BY <3>3, <3>6, FS_Subset
    <3>8. Cardinality((produced \ (handled \union lost)) \ {r}) >= NumThreads
      <4>1. Cardinality((produced \ (handled \union lost)) \ {r}) \in Nat
        BY <3>6, FS_CardinalityType
      <4>2. Len(invocation_results) \in Nat
        BY DEF TypeOK, ContextTypeOK
      <4> QED
        BY <3>4, <3>5, <3>7, <4>1, <4>2
    <3>9. Accounting!Lose(r)
      <4>1. SessionVerdict = "running" /\ SessionVerdict' = "running"
        BY <2>1, RunningVerdict
      <4>2. r \in Accounting!Outstanding
        BY <3>2 DEF Accounting!Outstanding
      <4>3. Accounting!Cardinality(Accounting!Outstanding \ {r}) >= NumThreads
        BY <3>8, SameCardinality DEF Accounting!Outstanding
      <4> QED
        BY <2>1, <2>3, <4>1, <4>2, <4>3 DEF Accounting!Lose
    <3> QED
      BY <3>1, <3>9 DEF Accounting!AccountingNext
  <2> QED
    BY <2>2, <2>3
<1>3. ASSUME NEW r \in Results, exit_code = Running, Process(r),
             r \in produced \ (handled \union lost)
      PROVE  Goal
  <2>1. Accounting!Handle(r)
    BY <1>3, RunningVerdict DEF Process, Accounting!Handle, Accounting!Outstanding
  <2> QED
    BY <2>1 DEF Accounting!AccountingNext
<1>4. CASE ProcessTaken
  <2> DEFINE r == Head(current_results)
  <2>1. r \in Results /\ r \in Taken
    BY <1>4, TailElements
       DEF ProcessTaken, TypeOK, MainTypeOK, Taken, ConservationInv,
           ResultsConserved
  <2>2. r \in produced \ (handled \union lost)
    BY <2>1 DEF ConservationInv, ResultsConserved
  <2> QED
    BY <1>3, <1>4, <2>1, <2>2 DEF ProcessTaken
<1>5. CASE Drain
  <2> DEFINE r == Head(invocation_results)
  <2>1. r \in Results /\ r \in Queued
    BY <1>5, TailElements
       DEF Drain, TypeOK, ContextTypeOK, Queued, ConservationInv,
           ResultsConserved
  <2>2. r \in produced \ (handled \union lost)
    BY <2>1 DEF ConservationInv, ResultsConserved
  <2> QED
    BY <1>3, <1>5, <2>1, <2>2 DEF Drain
<1>6. CASE Exit
  <2>1. /\ exit_code = Running /\ main_pc' = "exited" /\ exit_code' = Verdict
        /\ UNCHANGED <<produced, handled, lost>>
    BY <1>6 DEF Exit
  <2>2. \A t \in Threads : hand[t] = {}
    BY <1>6, JoinedIdle DEF Exit, ExitInv, ConservationInv, HandInv
  <2>3. Held = {} /\ Queued = {} /\ Taken = {}
    BY <1>6, <2>2
       DEF Exit, Drained, Held, Queued, Taken, Range, ConservationInv, BatchInv
  <2>4. produced \ (handled \union lost) = {}
    BY <2>3 DEF ConservationInv, ResultsConserved
  <2>5. (handled \intersect {r \in Results : IsFailure(r.kind)} # {})
          <=> num_failed_snapshots > 0
    BY DEF ExitInv, FailureInv, TypeOK, HistoryTypeOK
  <2>6. Accounting!Announce
    BY <2>1, <2>4, <2>5
       DEF SessionVerdict, Verdict, EXIT_FAILURE, EXIT_SUCCESS, Accounting!Announce,
           Accounting!Outstanding
  <2> QED
    BY <2>6 DEF Accounting!AccountingNext
<1>7. CASE SetUpFails
  <2>1. Accounting!Abort
    BY <1>7 DEF SessionVerdict, SetUpFails, EXIT_FAILURE, EXIT_SUCCESS, Accounting!Abort
  <2> QED
    BY <2>1 DEF Accounting!AccountingNext
<1>8. CASE WatchdogFires
  <2>1. Accounting!Abort
    BY <1>8
       DEF SessionVerdict, WatchdogFires, EXIT_FAILURE, EXIT_SUCCESS, kWatchdogExitCode,
           Accounting!Abort
  <2> QED
    BY <2>1 DEF Accounting!AccountingNext
<1>9. ASSUME exit_code = Running,
             UNCHANGED <<exit_code, produced, handled, lost>>
      PROVE  Goal
  BY <1>9, RunningVerdict DEF Accounting!accountingVars
<1>10. ASSUME NEW t \in Threads,
              \/ StartRunner(t) \/ LeaveLoop(t) \/ BackoffEnds(t)
              \/ StopAndReturn(t)
       PROVE  Goal
  BY <1>9, <1>10 DEF StartRunner, LeaveLoop, BackoffEnds, StopAndReturn
<1>11. CASE \/ SetUp \/ Spawn \/ SpawnEnds \/ LoopTest \/ Sleep \/ WakeAtOnce
            \/ WakeNotified \/ WakeOnTimeout \/ TakenProcessed \/ Join
            \/ Signal \/ DeadlinePasses
  BY <1>9, <1>11
     DEF SetUp, Spawn, SpawnEnds, LoopTest, Sleep, WakeAtOnce, WakeNotified,
         WakeOnTimeout, TakenProcessed, Join, Signal, DeadlinePasses,
         TakeResults
<1>12. CASE Terminated \/ UNCHANGED vars
  BY <1>12 DEF Terminated, vars, SessionVerdict, Accounting!accountingVars
<1> QED
  BY <1>1, <1>2, <1>4, <1>5, <1>6, <1>7, <1>8, <1>10, <1>11, <1>12
     DEF Next, Main, Worker

\* The threads, the queue and the event loop implement the abstract accounting,
\* for any number of workers: every step produces, collects, gives up or
\* announces as ResultAccounting allows, or is invisible there.
THEOREM Refinement == Spec => RefinesAccounting
<1>1. Init => FiniteInv
  BY FS_EmptySet DEF Init, FiniteInv
<1>2. Spec => [](TypeOK /\ ConservationInv /\ ExitInv /\ FiniteInv)
  BY TypeCorrect, ConservationHolds, ExitHolds, FiniteStep, <1>1, PTL DEF Spec
<1> QED
  BY AccountingInitially, AccountingStep, <1>2, PTL
     DEF Spec, RefinesAccounting, Accounting!AccountingSpec

-----------------------------------------------------------------------------
(***************************************************************************)
(* The collector.  Five kinds of step move a result or the collector's     *)
(* counters, every other step leaves all of resultVars alone.              *)
(***************************************************************************)
resultVars ==
  <<invocation_results, current_results, num_dropped_results, summaryVars, hand,
    iteration, history>>

\* The main thread takes the queue's results (FetchResults).
Swap ==
  /\ main_pc \in {"lock", "asleep"}
  /\ current_results' = invocation_results /\ invocation_results' = <<>>
  /\ UNCHANGED <<num_dropped_results, summaryVars, hand, iteration, history>>

\* Which steps those are.
LEMMA ResultSteps ==
  ASSUME [Next]_vars
  PROVE  \/ \E t \in Threads : RunnerReturns(t) \/ Offer(t)
         \/ Swap \/ ProcessTaken \/ Drain
         \/ UNCHANGED resultVars
<1> USE DEF resultVars
<1>1. ASSUME NEW t \in Threads,
             \/ StartRunner(t) \/ LeaveLoop(t) \/ BackoffEnds(t)
             \/ StopAndReturn(t)
      PROVE  UNCHANGED resultVars
  BY <1>1 DEF StartRunner, LeaveLoop, BackoffEnds, StopAndReturn
<1>2. CASE WakeAtOnce \/ WakeNotified \/ WakeOnTimeout
  BY <1>2 DEF WakeAtOnce, WakeNotified, WakeOnTimeout, TakeResults, Swap
<1>3. CASE \/ SetUp \/ SetUpFails \/ Spawn \/ SpawnEnds \/ LoopTest \/ Sleep
           \/ TakenProcessed \/ Join \/ Exit \/ Signal \/ DeadlinePasses
           \/ WatchdogFires
  BY <1>3 DEF SetUp, SetUpFails, Spawn, SpawnEnds, LoopTest, Sleep,
     TakenProcessed, Join, Exit, Signal, DeadlinePasses, WatchdogFires
<1>4. CASE Terminated \/ UNCHANGED vars
  BY <1>4 DEF Terminated, vars
<1> QED
  BY <1>1, <1>2, <1>3, <1>4 DEF Next, Main, Worker

\* One more element of a set is one more that satisfies a condition, or none.
LEMMA CountOneMore ==
  ASSUME NEW S, IsFiniteSet(S), NEW x, x \notin S
  PROVE  Cardinality(S \union {x}) = Cardinality(S) + 1 /\ Cardinality(S) \in Nat
BY FS_AddElement, FS_CardinalityType

\* The collector keeps count when it takes a result it has not had.
LEMMA CollectCounts ==
  ASSUME CollectorTypeOK, CountersAgree, IsFiniteSet(handled),
         NEW r \in Results, r \notin handled, Process(r), UNCHANGED lost
  PROVE  CountersAgree'
<1>1. /\ handled' = handled \union {r} /\ num_dropped_results' = num_dropped_results
      /\ Collect(r)
  BY DEF Process
<1>2. play_count' = Cardinality(handled')
  BY <1>1, CountOneMore DEF Collect, CountersAgree
<1>3. num_failed_snapshots' = Cardinality({x \in handled' : IsFailure(x.kind)})
  <2> DEFINE S == {x \in handled : IsFailure(x.kind)}
  <2>1. IsFiniteSet(S) /\ r \notin S
    BY FS_Subset
  <2>2. {x \in handled' : IsFailure(x.kind)}
          = IF IsFailure(r.kind) THEN S \union {r} ELSE S
    BY <1>1
  <2> HIDE DEF S
  <2>3. num_failed_snapshots = Cardinality(S) /\ Cardinality(S) \in Nat
    BY <2>1, FS_CardinalityType DEF CountersAgree, S
  <2>4. num_failed_snapshots' = num_failed_snapshots + (IF IsFailure(r.kind) THEN 1 ELSE 0)
    BY <1>1 DEF Collect
  <2>5. CASE IsFailure(r.kind)
    BY <2>1, <2>2, <2>3, <2>4, <2>5, CountOneMore
  <2>6. CASE ~(IsFailure(r.kind))
    <3>1. {x \in handled' : IsFailure(x.kind)} = S
      BY <2>2, <2>6
    <3>2. num_failed_snapshots' = num_failed_snapshots
      BY <2>4, <2>6 DEF CollectorTypeOK
    <3> QED
      BY <2>3, <3>1, <3>2
  <2> QED
    BY <2>5, <2>6
<1>4. num_runaway_snapshots' = Cardinality({x \in handled' : x.kind = "runaway"})
  <2> DEFINE S == {x \in handled : x.kind = "runaway"}
  <2>1. IsFiniteSet(S) /\ r \notin S
    BY FS_Subset
  <2>2. {x \in handled' : x.kind = "runaway"}
          = IF r.kind = "runaway" THEN S \union {r} ELSE S
    BY <1>1
  <2> HIDE DEF S
  <2>3. num_runaway_snapshots = Cardinality(S) /\ Cardinality(S) \in Nat
    BY <2>1, FS_CardinalityType DEF CountersAgree, S
  <2>4. num_runaway_snapshots' = num_runaway_snapshots + (IF r.kind = "runaway" THEN 1 ELSE 0)
    BY <1>1 DEF Collect
  <2>5. CASE r.kind = "runaway"
    BY <2>1, <2>2, <2>3, <2>4, <2>5, CountOneMore
  <2>6. CASE ~(r.kind = "runaway")
    <3>1. {x \in handled' : x.kind = "runaway"} = S
      BY <2>2, <2>6
    <3>2. num_runaway_snapshots' = num_runaway_snapshots
      BY <2>4, <2>6 DEF CollectorTypeOK
    <3> QED
      BY <2>3, <3>1, <3>2
  <2> QED
    BY <2>5, <2>6
<1>5. fail_after_n_errors'
        = FailAfterNErrors - Cardinality({x \in handled' : IsError(x.kind)})
  <2> DEFINE S == {x \in handled : IsError(x.kind)}
  <2>1. IsFiniteSet(S) /\ r \notin S
    BY FS_Subset
  <2>2. {x \in handled' : IsError(x.kind)}
          = IF IsError(r.kind) THEN S \union {r} ELSE S
    BY <1>1
  <2> HIDE DEF S
  <2>3. fail_after_n_errors = FailAfterNErrors - Cardinality(S) /\ Cardinality(S) \in Nat
    BY <2>1, FS_CardinalityType DEF CountersAgree, S
  <2>4. fail_after_n_errors' = fail_after_n_errors - (IF IsError(r.kind) THEN 1 ELSE 0)
    BY <1>1 DEF Collect
  <2>5. CASE IsError(r.kind)
    BY <2>1, <2>2, <2>3, <2>4, <2>5, CountOneMore
  <2>6. CASE ~(IsError(r.kind))
    <3>1. {x \in handled' : IsError(x.kind)} = S
      BY <2>2, <2>6
    <3>2. fail_after_n_errors' = fail_after_n_errors
      BY <2>4, <2>6 DEF CollectorTypeOK
    <3> QED
      BY <2>3, <3>1, <3>2
  <2> QED
    BY <2>5, <2>6
<1> QED
  BY <1>1, <1>2, <1>3, <1>4, <1>5 DEF CountersAgree

\* The counters agree with what was handled after every step.
LEMMA CountersStep ==
  TypeOK /\ ConservationInv /\ FiniteInv /\ CountersAgree /\ [Next]_vars
    => CountersAgree'
<1> SUFFICES ASSUME TypeOK, ConservationInv, FiniteInv, CountersAgree, [Next]_vars
             PROVE  CountersAgree'
  OBVIOUS
<1>1. IsFiniteSet(handled) /\ IsFiniteSet(lost)
  <2>1. handled \subseteq produced /\ lost \subseteq produced
    BY DEF ConservationInv, ResultsConserved
  <2> QED
    BY <2>1, FS_Subset DEF FiniteInv
<1>2. ASSUME NEW t \in Threads, Offer(t) PROVE CountersAgree'
  <2> PICK r \in hand[t] : \/ Accept(r) /\ UNCHANGED lost
                           \/ Refuse /\ lost' = lost \union {r}
    BY <1>2 DEF Offer
  <2>1. r \notin lost
    BY DEF ConservationInv, ResultsConserved, Held
  <2>2. UNCHANGED <<summaryVars, handled>>
    BY <1>2 DEF Offer
  <2>3. num_dropped_results' = Cardinality(lost')
    BY <1>1, <2>1, CountOneMore DEF Accept, Refuse, CountersAgree
  <2> QED
    BY <2>2, <2>3 DEF CountersAgree
<1>3. CASE ProcessTaken
  <2> DEFINE r == Head(current_results)
  <2>1. r \in Results /\ r \in Taken
    BY <1>3, TailElements
       DEF ProcessTaken, TypeOK, MainTypeOK, Taken, ConservationInv, ResultsConserved
  <2>2. r \notin handled /\ Process(r) /\ UNCHANGED lost
    BY <1>3, <2>1 DEF ProcessTaken, Process, ConservationInv, ResultsConserved
  <2> HIDE DEF r
  <2> QED
    BY <1>1, <2>1, <2>2, CollectCounts DEF TypeOK
<1>4. CASE Drain
  <2> DEFINE r == Head(invocation_results)
  <2>1. r \in Results /\ r \in Queued
    BY <1>4, TailElements
       DEF Drain, TypeOK, ContextTypeOK, Queued, ConservationInv, ResultsConserved
  <2>2. r \notin handled /\ Process(r) /\ UNCHANGED lost
    BY <1>4, <2>1 DEF Drain, Process, ConservationInv, ResultsConserved
  <2> HIDE DEF r
  <2> QED
    BY <1>1, <2>1, <2>2, CollectCounts DEF TypeOK
<1>5. ASSUME UNCHANGED <<num_dropped_results, summaryVars, handled, lost>>
      PROVE  CountersAgree'
  BY <1>5 DEF CountersAgree
<1>6. ASSUME NEW t \in Threads, RunnerReturns(t) PROVE CountersAgree'
  BY <1>5, <1>6 DEF RunnerReturns
<1>7. CASE Swap \/ UNCHANGED resultVars
  BY <1>5, <1>7 DEF Swap, resultVars
<1> QED
  BY <1>2, <1>3, <1>4, <1>6, <1>7, ResultSteps

\* Appending a result of a later iteration, and taking the first, keep the order.
LEMMA AppendInOrder ==
  ASSUME NEW s \in Seq(Results), NEW e \in Results, InOrder(s),
         \A x \in Range(s) : Before(x, e)
  PROVE  InOrder(Append(s, e))
<1> DEFINE a == Append(s, e)
<1>1. /\ Len(a) = Len(s) + 1 /\ Len(s) \in Nat /\ DOMAIN s = 1..Len(s)
      /\ \A i \in 1..Len(s) : a[i] = s[i]
      /\ a[Len(s) + 1] = e
  OBVIOUS
<1> HIDE DEF a
<1>2. SUFFICES ASSUME NEW i \in 1..Len(a), NEW j \in 1..Len(a), i < j
               PROVE  Before(a[i], a[j])
  BY DEF InOrder, a
<1>3. i \in 1..Len(s) /\ a[i] = s[i]
  BY <1>1, <1>2
<1>4. CASE j = Len(s) + 1
  BY <1>1, <1>3, <1>4 DEF Range
<1>5. CASE j # Len(s) + 1
  <2>1. j \in 1..Len(s) /\ a[j] = s[j]
    BY <1>1, <1>5
  <2> QED
    BY <1>2, <1>3, <2>1 DEF InOrder
<1> QED
  BY <1>4, <1>5

\* See AppendInOrder.
LEMMA TailInOrder ==
  ASSUME NEW s \in Seq(Results), s # <<>>, InOrder(s), IsInjective(s)
  PROVE  /\ InOrder(Tail(s))
         /\ \A x \in Range(Tail(s)) : Before(Head(s), x)
<1> DEFINE t == Tail(s)
<1>1. /\ DOMAIN s = 1..Len(s) /\ Len(s) \in Nat \ {0}
      /\ DOMAIN t = 1..(Len(s) - 1) /\ Len(t) = Len(s) - 1
      /\ \A i \in 1..(Len(s) - 1) : t[i] = s[i + 1]
      /\ Head(s) = s[1]
  OBVIOUS
<1> HIDE DEF t
<1>2. ASSUME NEW i \in 1..Len(t), NEW j \in 1..Len(t), i < j
      PROVE  Before(t[i], t[j])
  <2>1. /\ i + 1 \in 1..Len(s) /\ j + 1 \in 1..Len(s) /\ i + 1 < j + 1
        /\ t[i] = s[i + 1] /\ t[j] = s[j + 1]
    BY <1>1, <1>2
  <2> QED
    BY <2>1 DEF InOrder
<1>3. ASSUME NEW x \in Range(t) PROVE Before(Head(s), x)
  <2> PICK i \in 1..(Len(s) - 1) : x = s[i + 1]
    BY <1>1, <1>3 DEF Range
  <2>1. 1 \in 1..Len(s) /\ i + 1 \in 1..Len(s) /\ 1 < i + 1
    BY <1>1
  <2> QED
    BY <1>1, <2>1 DEF InOrder
<1> QED
  BY <1>2, <1>3 DEF InOrder, t

\* The results of one worker stay in the order it returned them.
LEMMA OrderStep ==
  TypeOK /\ ConservationInv /\ PerThreadOrder /\ [Next]_vars => PerThreadOrder'
<1> SUFFICES ASSUME TypeOK, ConservationInv, PerThreadOrder, [Next]_vars
             PROVE  PerThreadOrder'
  OBVIOUS
<1>1. ASSUME NEW t \in Threads, RunnerReturns(t) PROVE PerThreadOrder'
  <2> PICK kind \in DriverKinds :
          hand' = [hand EXCEPT ![t] = {[by |-> t, n |-> iteration[t],
                                        shard |-> shard[t], kind |-> kind]}]
    BY <1>1 DEF RunnerReturns
  <2> DEFINE r == [by |-> t, n |-> iteration[t], shard |-> shard[t],
                   kind |-> kind]
  <2>1. hand[t] = {}
    BY <1>1 DEF RunnerReturns, ConservationInv, HandInv
  <2>2. ASSUME NEW x \in produced PROVE Before(x, r)
    BY <2>1 DEF Before, ConservationInv, FreshInv
  <2>3. Held' = Held \union {r}
    BY <2>1 DEF Held, TypeOK, ThreadTypeOK
  <2>4. UNCHANGED <<invocation_results, current_results, handled>>
    BY <1>1 DEF RunnerReturns
  <2>5. Queued \union Taken \union handled \subseteq produced
    BY DEF ConservationInv, ResultsConserved
  <2> HIDE DEF r
  <2> QED
    BY <2>2, <2>3, <2>4, <2>5 DEF PerThreadOrder, Queued, Taken
<1>2. ASSUME NEW t \in Threads, Offer(t) PROVE PerThreadOrder'
  <2> PICK r \in hand[t] : \/ Accept(r) /\ UNCHANGED lost
                           \/ Refuse /\ lost' = lost \union {r}
    BY <1>2 DEF Offer
  <2>1. hand' = [hand EXCEPT ![t] = {}] /\ UNCHANGED <<current_results, handled>>
    BY <1>2 DEF Offer
  <2>2. Held' \subseteq Held /\ \A s \in Held' : s.by # t
    BY <2>1 DEF Held, ConservationInv, HandInv, TypeOK, ThreadTypeOK
  <2>3. r \in Results /\ r \in Held /\ r.by = t
    BY DEF TypeOK, ThreadTypeOK, ConservationInv, HandInv, Held
  <2>4. CASE Accept(r)
    <3>1. invocation_results' = Append(invocation_results, r)
      BY <2>4 DEF Accept
    <3>2. invocation_results \in Seq(Results)
      BY DEF TypeOK, ContextTypeOK
    <3>3. InOrder(invocation_results') /\ Queued' = Queued \union {r}
      BY <2>3, <3>1, <3>2, AppendInOrder, AppendElements DEF PerThreadOrder, Queued
    <3>4. \A s \in Held' : Before(r, s)
      BY <2>2, <2>3 DEF Before
    <3> QED
      BY <2>1, <2>2, <2>3, <3>3, <3>4 DEF PerThreadOrder, Taken
  <2>5. CASE Refuse
    BY <2>1, <2>2, <2>5 DEF Refuse, PerThreadOrder, Queued, Taken
  <2> QED
    BY <2>4, <2>5
<1>3. CASE Swap
  <2>1. current_results = <<>>
    BY <1>3 DEF Swap, ConservationInv, BatchInv
  <2>2. Taken = {} /\ Queued' = {} /\ Taken' = Queued
    BY <1>3, <2>1 DEF Swap, Queued, Taken, Range
  <2>3. InOrder(invocation_results') /\ InOrder(current_results')
    BY <1>3 DEF Swap, PerThreadOrder, InOrder
  <2>4. Held' = Held /\ handled' = handled
    BY <1>3 DEF Swap, Held
  <2> QED
    BY <2>2, <2>3, <2>4 DEF PerThreadOrder
<1>4. CASE ProcessTaken
  <2> DEFINE r == Head(current_results)
  <2>1. /\ current_results # <<>> /\ current_results' = Tail(current_results)
        /\ handled' = handled \union {r}
        /\ UNCHANGED <<invocation_results, hand>>
    BY <1>4 DEF ProcessTaken, Process
  <2>2. current_results \in Seq(Results) /\ IsInjective(current_results)
    BY DEF TypeOK, MainTypeOK, ConservationInv, ResultsConserved
  <2>3. r \in Taken /\ Taken' = Taken \ {r}
    BY <2>1, <2>2, TailElements DEF Taken
  <2>4. InOrder(current_results') /\ \A s \in Taken' : Before(r, s)
    BY <2>1, <2>2, TailInOrder DEF PerThreadOrder, Taken
  <2>5. Held' = Held /\ Queued' = Queued
    BY <2>1 DEF Held, Queued
  <2> HIDE DEF r
  <2> QED
    BY <2>1, <2>3, <2>4, <2>5 DEF PerThreadOrder
<1>5. CASE Drain
  <2> DEFINE r == Head(invocation_results)
  <2>1. /\ invocation_results # <<>> /\ invocation_results' = Tail(invocation_results)
        /\ handled' = handled \union {r}
        /\ UNCHANGED <<current_results, hand>> /\ main_pc = "drain"
    BY <1>5 DEF Drain, Process
  <2>2. invocation_results \in Seq(Results) /\ IsInjective(invocation_results)
    BY DEF TypeOK, ContextTypeOK, ConservationInv, ResultsConserved
  <2>3. r \in Queued /\ Queued' = Queued \ {r}
    BY <2>1, <2>2, TailElements DEF Queued
  <2>4. InOrder(invocation_results') /\ \A s \in Queued' : Before(r, s)
    BY <2>1, <2>2, TailInOrder DEF PerThreadOrder, Queued
  <2>5. Held' = Held /\ Taken' = Taken /\ Taken = {}
    BY <2>1 DEF Held, Taken, ConservationInv, BatchInv, Range
  <2> HIDE DEF r
  <2> QED
    BY <2>1, <2>3, <2>4, <2>5 DEF PerThreadOrder
<1>6. CASE UNCHANGED resultVars
  BY <1>6 DEF resultVars, PerThreadOrder, Queued, Taken, Held
<1> QED
  BY <1>1, <1>2, <1>3, <1>4, <1>5, <1>6, ResultSteps

\* However the workers' results interleave in the queue, whatever batches the main
\* thread takes and whatever is left for the final drain, the counters that
\* ResultCollector::operator() keeps for the summary and the error budget count each
\* collected result once, and no result overtakes an earlier one of its worker.
THEOREM CollectorKeepsStep == Spec => []CollectorInStep
<1>1. Init => CountersAgree /\ PerThreadOrder /\ FiniteInv
  <2>1. ASSUME Init PROVE CountersAgree
    <3>1. handled = {} /\ lost = {}
      BY <2>1 DEF Init
    <3>2. {r \in handled : IsFailure(r.kind)} = {}
          /\ {r \in handled : r.kind = "runaway"} = {}
          /\ {r \in handled : IsError(r.kind)} = {}
      BY <3>1
    <3> QED
      BY <2>1, <3>1, <3>2, FS_EmptySet
         DEF Init, ContextInit, CollectorInit, CountersAgree
  <2>2. ASSUME Init PROVE PerThreadOrder
    BY <2>2 DEF Init, ContextInit, PerThreadOrder, InOrder, Queued, Taken, Held, Range
  <2> QED
    BY <2>1, <2>2, FS_EmptySet DEF Init, FiniteInv
<1>2. TypeOK /\ ConservationInv /\ FiniteInv /\ CountersAgree /\ PerThreadOrder
        /\ [Next]_vars => (CountersAgree /\ PerThreadOrder /\ FiniteInv)'
  BY CountersStep, OrderStep, FiniteStep
<1> QED
  BY TypeCorrect, ConservationHolds, <1>1, <1>2, PTL DEF Spec, CollectorInStep

\* Only the collector touches the error budget, and only it can use up its last error.
LEMMA BudgetStep == TypeOK /\ ErrorBudgetStops /\ [Next]_vars => ErrorBudgetStops'
<1> SUFFICES ASSUME TypeOK, ErrorBudgetStops, [Next]_vars PROVE ErrorBudgetStops'
  OBVIOUS
<1>1. ASSUME NEW r, Process(r) PROVE ErrorBudgetStops'
  <2>1. /\ handled' = handled \union {r} /\ Collect(r)
        /\ IF CollectorWantsStop(r) THEN Stop ELSE UNCHANGED stop_execution
    BY <1>1 DEF Process
  <2>2. CASE IsError(r.kind)
    BY <2>1, <2>2 DEF CollectorWantsStop, Stop, ErrorBudgetStops
  <2>3. CASE ~IsError(r.kind)
    <3>1. fail_after_n_errors' = fail_after_n_errors
      BY <2>1, <2>3 DEF Collect, TypeOK, CollectorTypeOK
    <3>2. stop_execution' = stop_execution
      BY <2>1, <2>3 DEF CollectorWantsStop
    <3> QED
      BY <2>1, <2>3, <3>1, <3>2 DEF ErrorBudgetStops
  <2> QED
    BY <2>2, <2>3
<1>2. ASSUME stop_execution' \in {stop_execution, TRUE},
             UNCHANGED <<fail_after_n_errors, handled>>
      PROVE  ErrorBudgetStops'
  BY <1>2 DEF ErrorBudgetStops
<1>3. ASSUME NEW t \in Threads,
             \/ StartRunner(t) \/ LeaveLoop(t) \/ RunnerReturns(t)
             \/ BackoffEnds(t) \/ Offer(t) \/ StopAndReturn(t)
      PROVE  ErrorBudgetStops'
  BY <1>2, <1>3 DEF StartRunner, LeaveLoop, RunnerReturns, BackoffEnds, Offer,
     StopAndReturn, Stop
<1>4. CASE ProcessTaken \/ Drain
  BY <1>1, <1>4 DEF ProcessTaken, Drain
<1>5. CASE \/ SetUp \/ SetUpFails \/ Spawn \/ SpawnEnds \/ LoopTest \/ Sleep
           \/ WakeAtOnce \/ WakeNotified \/ WakeOnTimeout \/ TakenProcessed
           \/ Join \/ Exit \/ Signal \/ DeadlinePasses \/ WatchdogFires
  BY <1>2, <1>5 DEF SetUp, SetUpFails, Spawn, SpawnEnds, LoopTest, Sleep,
     WakeAtOnce, WakeNotified, WakeOnTimeout, TakenProcessed, Join, Exit, Signal,
     DeadlinePasses, WatchdogFires, TakeResults, Stop
<1>6. CASE Terminated \/ UNCHANGED vars
  BY <1>2, <1>6 DEF Terminated, vars
<1> QED
  BY <1>3, <1>4, <1>5, <1>6 DEF Next, Main, Worker

\* From the collection of the last error of --fail_after_n_errors on
\* (ResultCollector::operator()), the session is told to stop, and nothing ever takes
\* that back.
THEOREM BudgetEndsSession == Spec => []ErrorBudgetStops
<1>1. Init => ErrorBudgetStops
  BY DEF Init, ErrorBudgetStops
<1> QED
  BY <1>1, TypeCorrect, BudgetStep, PTL DEF Spec
-----------------------------------------------------------------------------
(***************************************************************************)
(* The binary log.  Nothing is logged before the session start (UnbegunInv) *)
(* or after the summary, which the process sends as its last act (LifeInv). *)
(***************************************************************************)
UnbegunInv == main_pc = "setup" => binary_log = <<>>

\* The entries a step may append.
Appends(entry) == binary_log' = Append(binary_log, entry)

\* What Append does to the positions of the log.
LEMMA LogGrows ==
  ASSUME NEW entry \in LogEntries, binary_log \in Seq(LogEntries), Appends(entry)
  PROVE  /\ Len(binary_log') = Len(binary_log) + 1 /\ Len(binary_log) \in Nat
         /\ \A i \in 1..Len(binary_log) : binary_log'[i] = binary_log[i]
         /\ binary_log'[Len(binary_log) + 1] = entry
BY DEF Appends

\* The log keeps to the protocol at every step.
LEMMA LogStep ==
  TypeOK /\ ConservationInv /\ PerThreadOrder /\ LifeInv /\ UnbegunInv /\ LogProtocol
    /\ [Next]_vars => UnbegunInv' /\ LogProtocol'
<1> SUFFICES ASSUME TypeOK, ConservationInv, PerThreadOrder, LifeInv, UnbegunInv,
                    LogProtocol, [Next]_vars
             PROVE  UnbegunInv' /\ LogProtocol'
  OBVIOUS
<1>1. binary_log \in Seq(LogEntries)
  BY DEF TypeOK, CollectorTypeOK
<1>2. ASSUME UNCHANGED binary_log, handled \subseteq handled',
             main_pc' # "setup" \/ main_pc = "setup",
             main_pc = "exited" => main_pc' = "exited"
      PROVE  UnbegunInv' /\ LogProtocol'
  BY <1>2 DEF UnbegunInv, LogProtocol
<1>3. CASE SetUp
  <2>1. /\ main_pc = "setup" /\ main_pc' = "spawn" /\ handled' = handled
        /\ binary_log = <<>>
    BY <1>3 DEF SetUp, UnbegunInv
  <2>2. CASE UNCHANGED binary_log
    BY <1>2, <2>1, <2>2
  <2>3. CASE Appends([type |-> "session_start"])
    <3>1. /\ Len(binary_log') = 1 /\ binary_log'[1] = [type |-> "session_start"]
      BY <2>1, <2>3 DEF Appends
    <3> QED
      BY <2>1, <3>1 DEF UnbegunInv, LogProtocol
  <2> QED
    BY <1>3, <2>2, <2>3 DEF SetUp, Appends
<1>4. CASE Exit
  <2>1. /\ main_pc = "drain" /\ main_pc' = "exited" /\ handled' = handled
    BY <1>4 DEF Exit
  <2>2. CASE UNCHANGED binary_log
    BY <1>2, <2>1, <2>2
  <2>3. CASE Appends([type |-> "session_summary"])
    <3> DEFINE n == Len(binary_log)
    <3>1. /\ Len(binary_log') = n + 1 /\ n \in Nat
          /\ \A i \in 1..n : binary_log'[i] = binary_log[i]
          /\ binary_log'[n + 1] = [type |-> "session_summary"]
      BY <1>1, <2>3, LogGrows DEF LogEntries
    <3> HIDE DEF n
    <3>2. \A i \in 1..n : binary_log[i].type # "session_summary"
      BY <2>1 DEF LogProtocol, n
    <3>3. SUFFICES ASSUME NEW i \in 1..(n + 1)
                   PROVE  LET Is(k, type) == binary_log'[k].type = type
                              Logged(k) == binary_log'[k].result
                          IN  /\ Is(i, "session_start") => i = 1
                              /\ Is(i, "session_summary") => i = n + 1
                              /\ Is(i, "snapshot_execution_result") =>
                                   /\ Logged(i) \in handled
                                   /\ IsFailure(Logged(i).kind)
                                   /\ \A j \in 1..(i - 1) :
                                        Is(j, "snapshot_execution_result") =>
                                          /\ Logged(j) # Logged(i)
                                          /\ Before(Logged(j), Logged(i))
      BY <2>1, <3>1 DEF UnbegunInv, LogProtocol
    <3>4. CASE i = n + 1
      BY <3>1, <3>4
    <3>5. CASE i # n + 1
      <4>1. i \in 1..n /\ \A j \in 1..i : binary_log'[j] = binary_log[j]
        BY <3>1, <3>5
      <4> QED
        BY <3>1, <3>2, <4>1 DEF LogProtocol, n
    <3> QED
      BY <3>4, <3>5
  <2> QED
    BY <1>4, <2>2, <2>3 DEF Exit, Send, Appends
<1>5. ASSUME NEW r \in Results, r \in Taken \union Queued, Alive, main_pc # "setup",
             main_pc' = main_pc, Process(r)
      PROVE  UnbegunInv' /\ LogProtocol'
  <2>1. /\ handled' = handled \union {r} /\ Collect(r) /\ main_pc # "exited"
    BY <1>5 DEF Process, LifeInv
  <2>2. CASE UNCHANGED binary_log
    BY <1>2, <1>5, <2>1, <2>2
  <2>3. CASE /\ IsFailure(r.kind)
             /\ Appends([type |-> "snapshot_execution_result", result |-> r])
    <3> DEFINE n == Len(binary_log)
               entry == [type |-> "snapshot_execution_result", result |-> r]
    <3>1. entry \in LogEntries
      BY DEF LogEntries
    <3>2. /\ Len(binary_log') = n + 1 /\ n \in Nat
          /\ \A i \in 1..n : binary_log'[i] = binary_log[i]
          /\ binary_log'[n + 1] = entry
      BY <1>1, <2>3, <3>1, LogGrows
    <3>3. entry.type = "snapshot_execution_result" /\ entry.result = r
      OBVIOUS
    <3>4. r \notin handled /\ \A q \in handled : Before(q, r)
      BY <1>5 DEF ConservationInv, ResultsConserved, PerThreadOrder
    <3> HIDE DEF n, entry
    <3>5. \A i \in 1..n :
            binary_log[i].type = "snapshot_execution_result"
              => binary_log[i].result \in handled
      BY DEF LogProtocol, n
    <3>6. \A i \in 1..n : binary_log[i].type # "session_summary"
      BY <2>1 DEF LogProtocol, n
    <3>7. SUFFICES ASSUME NEW i \in 1..(n + 1)
                   PROVE  LET Is(k, type) == binary_log'[k].type = type
                              Logged(k) == binary_log'[k].result
                          IN  /\ Is(i, "session_start") => i = 1
                              /\ ~Is(i, "session_summary")
                              /\ Is(i, "snapshot_execution_result") =>
                                   /\ Logged(i) \in handled'
                                   /\ IsFailure(Logged(i).kind)
                                   /\ \A j \in 1..(i - 1) :
                                        Is(j, "snapshot_execution_result") =>
                                          /\ Logged(j) # Logged(i)
                                          /\ Before(Logged(j), Logged(i))
      BY <1>5, <3>2 DEF UnbegunInv, LogProtocol
    <3>8. CASE i = n + 1
      <4>1. \A j \in 1..(i - 1) : j \in 1..n /\ binary_log'[j] = binary_log[j]
        BY <3>2, <3>8
      <4> QED
        BY <2>1, <2>3, <3>2, <3>3, <3>4, <3>5, <3>8, <4>1
    <3>9. CASE i # n + 1
      <4>1. i \in 1..n /\ \A j \in 1..i : binary_log'[j] = binary_log[j]
        BY <3>2, <3>9
      <4> QED
        BY <2>1, <3>2, <3>6, <4>1 DEF LogProtocol, n
    <3> QED
      BY <3>8, <3>9
  <2> QED
    BY <2>1, <2>2, <2>3 DEF Collect, Send, Appends
<1>6. CASE ProcessTaken
  <2>1. /\ Head(current_results) \in Results /\ Head(current_results) \in Taken
    BY <1>6, TailElements
       DEF ProcessTaken, TypeOK, MainTypeOK, Taken, ConservationInv, ResultsConserved
  <2> QED
    BY <1>5, <1>6, <2>1 DEF ProcessTaken
<1>7. CASE Drain
  <2>1. /\ Head(invocation_results) \in Results /\ Head(invocation_results) \in Queued
    BY <1>7, TailElements
       DEF Drain, TypeOK, ContextTypeOK, Queued, ConservationInv, ResultsConserved
  <2> QED
    BY <1>5, <1>7, <2>1 DEF Drain
<1>8. ASSUME NEW t \in Threads,
             \/ StartRunner(t) \/ LeaveLoop(t) \/ RunnerReturns(t)
             \/ BackoffEnds(t) \/ Offer(t) \/ StopAndReturn(t)
      PROVE  UnbegunInv' /\ LogProtocol'
  BY <1>2, <1>8 DEF StartRunner, LeaveLoop, RunnerReturns, BackoffEnds, Offer,
     StopAndReturn
<1>9. CASE \/ SetUpFails \/ Spawn \/ SpawnEnds \/ LoopTest \/ Sleep
           \/ WakeAtOnce \/ WakeNotified \/ WakeOnTimeout \/ TakenProcessed
           \/ Join \/ Signal \/ DeadlinePasses \/ WatchdogFires
  BY <1>2, <1>9 DEF SetUpFails, Spawn, SpawnEnds, LoopTest, Sleep,
     WakeAtOnce, WakeNotified, WakeOnTimeout, TakenProcessed, Join, Signal,
     DeadlinePasses, WatchdogFires, TakeResults, LifeInv
<1>10. CASE Terminated \/ UNCHANGED vars
  BY <1>2, <1>10 DEF Terminated, vars
<1> QED
  BY <1>3, <1>4, <1>6, <1>7, <1>8, <1>9, <1>10 DEF Next, Main, Worker

\* A reader of what LogSessionStart, ResultCollector::operator() and LogSessionSummary send sees the session start first, each collected failure at
\* most once and in the order of its worker, and nothing after the summary, which
\* only an exited process has sent.
THEOREM LogIsOrdered == Spec => []LogProtocol
<1>1. Init => UnbegunInv /\ LogProtocol
  BY DEF Init, CollectorInit, UnbegunInv, LogProtocol
<1>2. CollectorInStep /\ ExitInv => PerThreadOrder /\ LifeInv
  BY DEF CollectorInStep, ExitInv
<1> QED
  BY TypeCorrect, ConservationHolds, CollectorKeepsStep, ExitHolds, LogStep, <1>1, <1>2,
     PTL DEF Spec
-----------------------------------------------------------------------------
(***************************************************************************)
(* Sequential mode.  Its one worker has run the shards up to the one the   *)
(* generator handed out last, that one included unless it is running still *)
(* (Ran), each exactly once.                                               *)
(***************************************************************************)
Ran(t) == IF thread_pc[t] = "running" THEN next_index[t] - 1 ELSE next_index[t]

\* r is the only result of shard idx.
OnlyResultOf(r, idx) == \A q \in produced : q.shard = idx => q = r

\* What a worker's generator has handed out so far has a result each, and one.
SequentialInv ==
  SequentialMode => \A t \in Threads :
    /\ thread_pc[t] = "running" => next_index[t] >= 1 /\ shard[t] = next_index[t]
    /\ \A r \in produced : r.shard <= Ran(t)
    /\ \A idx \in 1..Ran(t) :
         \E r \in produced : r.shard = idx /\ OnlyResultOf(r, idx)

\* The invariant is inductive.
LEMMA SequentialStep ==
  TypeOK /\ SpawnInv /\ SequentialInv /\ [Next]_vars => SequentialInv'
<1> SUFFICES ASSUME TypeOK, SpawnInv, SequentialInv, [Next]_vars, SequentialMode
             PROVE  SequentialInv'
  BY DEF SequentialInv
<1>1. Threads = {1}
  BY DEF Threads
<1> DEFINE Inv(pc, next, last, results) ==
      LET ran == IF pc = "running" THEN next - 1 ELSE next
      IN  /\ pc = "running" => next >= 1 /\ last = next
          /\ \A r \in results : r.shard <= ran
          /\ \A idx \in 1..ran :
               \E r \in results : /\ r.shard = idx
                                  /\ \A q \in results : q.shard = idx => q = r
<1>2. Inv(thread_pc[1], next_index[1], shard[1], produced)
  BY <1>1 DEF SequentialInv, Ran, OnlyResultOf
<1>3. SUFFICES Inv(thread_pc'[1], next_index'[1], shard'[1], produced')
  BY <1>1 DEF SequentialInv, Ran, OnlyResultOf
<1>4. /\ next_index[1] \in Nat /\ shard[1] \in Nat
      /\ \A r \in produced : r.shard \in Nat
  BY <1>1 DEF TypeOK, ThreadTypeOK, HistoryTypeOK, Results
<1>5. ASSUME StartRunner(1) PROVE Inv(thread_pc'[1], next_index'[1], shard'[1], produced')
  <2>1. /\ thread_pc[1] = "head" /\ thread_pc'[1] = "running"
        /\ next_index'[1] = next_index[1] + 1 /\ shard'[1] = next_index[1] + 1
        /\ produced' = produced
    BY <1>1, <1>5 DEF StartRunner, TypeOK, ThreadTypeOK
  <2> QED
    BY <1>2, <1>4, <2>1
<1>6. ASSUME RunnerReturns(1) PROVE Inv(thread_pc'[1], next_index'[1], shard'[1], produced')
  <2> PICK kind \in DriverKinds :
        produced' = produced \union
          {[by |-> 1, n |-> iteration[1], shard |-> shard[1], kind |-> kind]}
    BY <1>6 DEF RunnerReturns
  <2> DEFINE r == [by |-> 1, n |-> iteration[1], shard |-> shard[1], kind |-> kind]
  <2>1. r.shard = shard[1] /\ produced' = produced \union {r}
    OBVIOUS
  <2> HIDE DEF r
  <2>2. /\ thread_pc[1] = "running" /\ thread_pc'[1] # "running"
        /\ next_index'[1] = next_index[1]
    BY <1>1, <1>6 DEF RunnerReturns, TypeOK, ThreadTypeOK
  <2>3. /\ next_index[1] >= 1 /\ shard[1] = next_index[1]
        /\ \A q \in produced : q.shard <= next_index[1] - 1
    BY <1>2, <2>2
  <2>4. \A q \in produced : q.shard # r.shard /\ q.shard <= next_index[1]
    BY <1>4, <2>1, <2>3
  <2>5. \A q \in produced' : q.shard <= next_index[1]
    BY <1>4, <2>1, <2>3, <2>4
  <2>6. ASSUME NEW idx \in 1..next_index[1]
        PROVE  \E q \in produced' : /\ q.shard = idx
                                    /\ \A p \in produced' : p.shard = idx => p = q
    <3>1. CASE idx = next_index[1]
      BY <2>1, <2>3, <2>4, <3>1
    <3>2. CASE idx # next_index[1]
      <4>1. idx \in 1..(next_index[1] - 1)
        BY <1>4, <3>2
      <4>2. PICK q \in produced : /\ q.shard = idx
                                  /\ \A p \in produced : p.shard = idx => p = q
        BY <1>2, <2>2, <4>1
      <4> QED
        BY <2>1, <2>3, <3>2, <4>2
    <3> QED
      BY <3>1, <3>2
  <2> QED
    BY <2>2, <2>5, <2>6
<1>7. ASSUME (thread_pc'[1] = "running") <=> (thread_pc[1] = "running"),
             UNCHANGED <<next_index, shard, produced>>
      PROVE  Inv(thread_pc'[1], next_index'[1], shard'[1], produced')
  BY <1>2, <1>7
<1>8. ASSUME LeaveLoop(1) \/ BackoffEnds(1) \/ Offer(1) \/ StopAndReturn(1)
      PROVE  Inv(thread_pc'[1], next_index'[1], shard'[1], produced')
  BY <1>1, <1>7, <1>8
     DEF LeaveLoop, BackoffEnds, Offer, StopAndReturn, TypeOK, ThreadTypeOK
<1>9. CASE Spawn
  <2>1. num_spawned + 1 = 1
    BY <1>1, <1>9 DEF Spawn, TypeOK, MainTypeOK
  <2>2. thread_pc[1] = "unborn"
    BY <1>1, <2>1 DEF SpawnInv, TypeOK, MainTypeOK
  <2>3. thread_pc' = [thread_pc EXCEPT ![1] = "head"]
    BY <1>9, <2>1 DEF Spawn
  <2> QED
    BY <1>1, <1>7, <1>9, <2>2, <2>3 DEF Spawn, TypeOK, ThreadTypeOK
<1>10. CASE \/ SetUp \/ SetUpFails \/ SpawnEnds \/ LoopTest \/ Sleep
            \/ WakeAtOnce \/ WakeNotified \/ WakeOnTimeout \/ ProcessTaken
            \/ TakenProcessed \/ Join \/ Drain \/ Exit \/ Signal
            \/ DeadlinePasses \/ WatchdogFires
  BY <1>7, <1>10 DEF SetUp, SetUpFails, SpawnEnds, LoopTest, Sleep, WakeAtOnce,
     WakeNotified, WakeOnTimeout, ProcessTaken, TakenProcessed, Join, Drain,
     Exit, Signal, DeadlinePasses, WatchdogFires, TakeResults, Process
<1>11. CASE Terminated \/ UNCHANGED vars
  BY <1>7, <1>11 DEF Terminated, vars
<1> HIDE DEF Inv
<1> QED
  BY <1>1, <1>5, <1>6, <1>8, <1>9, <1>10, <1>11 DEF Next, Main, Worker

\* It holds in every state of a session.
LEMMA SequentialHolds == Spec => []SequentialInv
<1>1. Init => SequentialInv
  BY DEF Init, SequentialInv, Ran
<1>2. ConservationInv => SpawnInv
  BY DEF ConservationInv
<1> QED
  BY TypeCorrect, ConservationHolds, SequentialStep, <1>1, <1>2, PTL DEF Spec

\* NextCorpusGenerator neither leaves out the last shard nor hands out one twice: a
\* worker that leaves its loop though nothing told it to stop is in sequential mode, and
\* each shard of the corpus has exactly one result.
THEOREM CorpusIsCovered == Spec => SequentialCoverage
<1> DEFINE Covered ==
      \A t \in Threads :
        thread_pc[t] = "head" /\ thread_pc'[t] = "leaving" /\ ~ShouldStop
          => \A idx \in 1..NumShards :
               Cardinality({r \in produced : r.shard = idx}) = 1
<1>1. TypeOK /\ SpawnInv /\ SequentialInv /\ [Next]_vars => Covered
  <2> SUFFICES ASSUME TypeOK, SpawnInv, SequentialInv, [Next]_vars,
                      NEW t \in Threads, thread_pc[t] = "head",
                      thread_pc'[t] = "leaving", ~ShouldStop,
                      NEW idx \in 1..NumShards
               PROVE  Cardinality({r \in produced : r.shard = idx}) = 1
    OBVIOUS
  <2> USE DEF TypeOK, ThreadTypeOK
  <2>1. LeaveLoop(t)
    <3>1. ASSUME NEW u \in Threads,
                 \/ StartRunner(u) \/ RunnerReturns(u) \/ BackoffEnds(u)
                 \/ Offer(u) \/ StopAndReturn(u)
          PROVE  FALSE
      BY <3>1 DEF StartRunner, RunnerReturns, BackoffEnds, Offer, StopAndReturn
    <3>2. CASE Spawn
      <4>1. thread_pc' = [thread_pc EXCEPT ![num_spawned + 1] = "head"]
        BY <3>2 DEF Spawn, MainTypeOK
      <4> QED
        BY <4>1
    <3>3. CASE \/ SetUp \/ SetUpFails \/ SpawnEnds \/ LoopTest \/ Sleep
               \/ WakeAtOnce \/ WakeNotified \/ WakeOnTimeout \/ ProcessTaken
               \/ TakenProcessed \/ Join \/ Drain \/ Exit \/ Signal
               \/ DeadlinePasses \/ WatchdogFires
      BY <3>3 DEF SetUp, SetUpFails, SpawnEnds, LoopTest, Sleep, WakeAtOnce,
         WakeNotified, WakeOnTimeout, ProcessTaken, TakenProcessed, Join, Drain,
         Exit, Signal, DeadlinePasses, WatchdogFires, TakeResults, Process
    <3>4. CASE Terminated \/ UNCHANGED vars
      BY <3>4 DEF Terminated, vars
    <3>5. ASSUME NEW u \in Threads, LeaveLoop(u) PROVE LeaveLoop(t)
      <4>1. u = t
        BY <3>5 DEF LeaveLoop
      <4> QED
        BY <3>5, <4>1
    <3> QED
      BY <3>1, <3>2, <3>3, <3>4, <3>5 DEF Next, Main, Worker
  <2>2. SequentialMode /\ next_index[t] >= NumShards
    BY <2>1 DEF LeaveLoop, EndOfStream
  <2>3. idx \in 1..Ran(t)
    BY <2>2 DEF Ran
  <2>4. PICK r \in produced : r.shard = idx /\ OnlyResultOf(r, idx)
    BY <2>2, <2>3 DEF SequentialInv
  <2>5. {q \in produced : q.shard = idx} = {r}
    BY <2>4 DEF OnlyResultOf
  <2> QED
    BY <2>5, FS_Singleton
<1>2. TypeOK /\ SpawnInv /\ SequentialInv /\ [Next]_vars => [Covered]_vars
  BY <1>1
<1>3. ConservationInv => SpawnInv
  BY DEF ConservationInv
<1> QED
  BY <1>2, <1>3, TypeCorrect, ConservationHolds, SequentialHolds, PTL
     DEF Spec, SequentialCoverage
-----------------------------------------------------------------------------
\* The CPUs of worker t, as the numbers its span of the list of CPUs covers.
LEMMA TargetCpuIs ==
  ASSUME TypeOK, NEW t \in Threads
  PROVE  LET first == StartAt(NumCpus, NumThreads, t - 1)
             size  == SpanSize(NumCpus, NumThreads, t - 1)
         IN  /\ size \in Nat \ {0} /\ first \in Nat
             /\ TargetCpu(t) = first + (iteration[t] % size) + 1
<1> DEFINE cpus == Cpus(t)
           first == StartAt(NumCpus, NumThreads, t - 1)
           size  == SpanSize(NumCpus, NumThreads, t - 1)
           turn  == iteration[t]
<1>1. t \in 1..NumThreads /\ t - 1 \in Nat /\ t - 1 < NumThreads
  BY DEF Threads
<1>2. first \in Nat /\ size \in Nat
  BY <1>1, SpanFits
<1>3. Len(cpus) = size /\ \A k \in 1..size : cpus[k] = first + k
  <2>1. cpus = PartitionEvenly([c \in 1..NumCpus |-> c], NumThreads)[t]
    BY DEF Cpus
  <2> HIDE DEF cpus
  <2> QED
    BY <1>1, <2>1, SpanOfNumbers, SMTT(30)
<1>4. size # 0
  <2> DEFINE q == NumCpus \div NumThreads
  <2>1. q \in Nat /\ q >= 1
    OBVIOUS
  <2>2. size = q + (IF t - 1 < NumCpus % NumThreads THEN 1 ELSE 0)
    BY DEF SpanSize
  <2> HIDE DEF q, size
  <2> QED
    BY <2>1, <2>2
<1>5. turn \in Nat
  BY DEF TypeOK, ThreadTypeOK
<1>6. TargetCpu(t) = cpus[(turn % Len(cpus)) + 1]
  BY DEF TargetCpu
<1> HIDE DEF cpus, first, size, turn
<1>7. turn % size \in Nat /\ (turn % size) + 1 \in 1..size
  BY <1>2, <1>4, <1>5
<1>8. TargetCpu(t) = first + ((turn % size) + 1)
  BY <1>3, <1>6, <1>7
<1> QED
  BY <1>2, <1>4, <1>7, <1>8 DEF first, size, turn

\* Two workers never run on one CPU at once, whichever CPU of its span each has come
\* to: the spans OrchestratorMain makes with PartitionEvenly are disjoint, and none is
\* empty (SpanUtilProofs).
THEOREM CpusAreExclusive == Spec => []CpuExclusive
<1>1. ASSUME TypeOK, NEW t \in Threads, NEW u \in Threads, t < u
      PROVE  TargetCpu(t) # TargetCpu(u)
  <2> DEFINE a == t - 1
             b == u - 1
             i == iteration[t] % SpanSize(NumCpus, NumThreads, a)
             j == iteration[u] % SpanSize(NumCpus, NumThreads, b)
  <2>1. a \in Nat /\ b \in Nat /\ a < b
    BY <1>1 DEF Threads
  <2>2. /\ iteration[t] \in Nat /\ iteration[u] \in Nat
    BY <1>1 DEF TypeOK, ThreadTypeOK
  <2>3. /\ SpanSize(NumCpus, NumThreads, a) \in Nat \ {0}
        /\ StartAt(NumCpus, NumThreads, a) \in Nat
        /\ TargetCpu(t) = StartAt(NumCpus, NumThreads, a) + i + 1
    BY <1>1, TargetCpuIs, Zenon
  <2>4. /\ SpanSize(NumCpus, NumThreads, b) \in Nat \ {0}
        /\ StartAt(NumCpus, NumThreads, b) \in Nat
        /\ TargetCpu(u) = StartAt(NumCpus, NumThreads, b) + j + 1
    BY <1>1, TargetCpuIs, Zenon
  <2> HIDE DEF a, b
  <2>5. i < SpanSize(NumCpus, NumThreads, a) /\ i \in Nat /\ j \in Nat
    BY <2>2, <2>3, <2>4
  <2>6. StartAt(NumCpus, NumThreads, a) + SpanSize(NumCpus, NumThreads, a)
          <= StartAt(NumCpus, NumThreads, b)
    BY <2>1, SpansApart
  <2> HIDE DEF i, j
  <2> QED
    BY <2>3, <2>4, <2>5, <2>6
<1>2. TypeOK => CpuExclusive
  <2> SUFFICES ASSUME TypeOK, NEW t \in Threads, NEW u \in Threads, t # u
               PROVE  TargetCpu(t) # TargetCpu(u)
    BY DEF CpuExclusive
  <2>1. t < u \/ u < t
    BY DEF Threads
  <2> QED
    BY <1>1, <2>1
<1> QED
  BY <1>2, TypeCorrect, PTL
=============================================================================
