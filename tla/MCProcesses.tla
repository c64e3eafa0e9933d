----------------------------- MODULE MCProcesses -----------------------------
(***************************************************************************)
(* The processes a harness starts, the calls of the driver that handles    *)
(* one of them, the tracers of snippets, the loading of a corpus and the   *)
(* scan of boards: "part" chooses which of them the behaviour is about,    *)
(* the others stay where they start.                                       *)
(***************************************************************************)
EXTENDS HarnessTracer, RunnerDriver, Tracing, CorpusLoading, BoardScan

CONSTANTS s1, s2

TwoSnaps == <<s1, s2>>

VARIABLE part

Init ==
  /\ part \in {"processes", "driver", "tracing", "loading", "boards"}
  /\ IF part = "driver" THEN TRUE ELSE options = CHOOSE o \in CorpusOptions : TRUE
  /\ IF part = "tracing" THEN TRUE
     ELSE job = [type |-> "native", snippet |-> <<>>, limit |-> CHOOSE l \in Limits : TRUE]
  /\ IF part = "loading" THEN TRUE
     ELSE /\ disk = CHOOSE d \in SomeDisks : TRUE
          /\ flags = CHOOSE f \in SomeFlags : TRUE
  /\ IF part = "boards" THEN TRUE
     ELSE /\ errand = [phase |-> "boards", device |-> "remote"]
          /\ boards = [b \in Boards |-> NewBoard(<<"none">>)]
  /\ HarnessInit /\ DriverInit /\ TracingInit /\ LoadingInit /\ BoardInit

Next ==
  /\ UNCHANGED part
  /\ \/ part = "processes" /\ HarnessNext
     \/ part # "processes" /\ UNCHANGED harness_vars
  /\ \/ part = "driver" /\ DriverNext
     \/ part # "driver" /\ UNCHANGED driver_vars
  /\ \/ part = "tracing" /\ TracingNext
     \/ part = "tracing" /\ analysis.phase \in {"failed", "done"} /\ UNCHANGED tracingvars
     \/ part # "tracing" /\ UNCHANGED tracingvars
  /\ \/ part = "loading" /\ LoadingNext
     \/ part = "loading" /\ LoadingEnded /\ UNCHANGED loadvars
     \/ part # "loading" /\ UNCHANGED loadvars
  /\ \/ part = "boards" /\ BoardNext
     \/ part = "boards" /\ BoardEnded /\ UNCHANGED boardvars
     \/ part # "boards" /\ UNCHANGED boardvars

\* HarnessFairSpec or DriverFairSpec.
Fairness ==
  /\ \A t \in Threads :
       /\ WF_harness_vars(part = "processes" /\ ~died /\ CallStep(t))
       /\ WF_harness_vars(part = "processes" /\ ~died /\ TracerStep(t))
       /\ WF_harness_vars(part = "processes" /\ ~died /\ ChildStep(t))
  /\ WF_driver_vars(part = "driver" /\ RunnerSteps)
  /\ WF_driver_vars(part = "driver" /\ TimerFires)
  /\ WF_driver_vars(part = "driver" /\ RunReturns)
  /\ WF_driver_vars(part = "driver" /\ RunAgain)

Spec == Init /\ [][Next]_<<part, harness_vars, driver_vars, tracingvars, loadvars, boardvars>> /\ Fairness

-----------------------------------------------------------------------------
\* Loops that end and that do not, faults, jumps out of the code, instructions without an
\* effect, with one that shows in a register, in memory or nowhere a tool looks, and a
\* last instruction that is too long.
SomeSnippets ==
  {<<>>, <<"inc", "near", "clear">>, <<"inc", "far", "inc">>, <<"inc", "loop", "near">>,
   <<"inc", "clear", "inc", "inc">>, <<"wide", "inc", "inc">>, <<"inc", "wide">>,
   <<"inc", "trap">>, <<"inc", "hang">>, <<"inc", "out">>, <<"loop", "inc">>,
   <<"inc", "inc", "loop", "trap">>, <<"inc", "inc", "loop", "near", "clear">>}

-----------------------------------------------------------------------------
(* Corpus loading *)

LOCAL Data(bytes) == [type |-> "data", bytes |-> bytes]
LOCAL End == [type |-> "end", bytes |-> <<>>]
LOCAL Corrupt == [type |-> "bad", bytes |-> <<>>]
LOCAL Good(body) ==
  LET n == kHeaderSize + Len(body)
  IN  <<kMagic, kHeaderSize, Crc(0, <<kMagic, kHeaderSize, n>> \o body), 0, n>> \o body
LOCAL Plain(bytes) == [type |-> "plain", bytes |-> bytes]
LOCAL Xz(tokens) == [type |-> "xz", tokens |-> tokens]

\* A stream of one token to the byte, one of few, one with something after its end, one
\* that ends early, a broken one; contents that are changed, longer or shorter than the
\* header says, of another version, of nothing; no file.
LOCAL TheFiles ==
  [small |-> Plain(Good(<<1>>)),
   large |-> Xz([i \in 1..8 |-> Data(<<Good(<<1, 2, 3>>)[i]>>)] \o <<Data(<<>>), End>>),
   dense |-> Xz(<<Data(SubSeq(Good(<<2, 2>>), 1, 4)), Data(SubSeq(Good(<<2, 2>>), 5, 7)), End>>),
   tail |-> Xz(<<Data(Good(<<4>>)), End, Data(<<1>>)>>),
   cut |-> Xz(<<Data(Good(<<5>>)), Data(<<1>>)>>),
   broken |-> Xz(<<Data(Good(<<5>>)), Corrupt, End>>),
   flipped |-> Plain([Good(<<1, 2>>) EXCEPT ![6] = 3]),
   longer |-> Plain(Good(<<1, 2>>) \o <<2>>),
   short |-> Plain(<<7, 5, 1>>),
   version |-> Plain([Good(<<1>>) EXCEPT ![2] = 6]),
   nothing |-> Plain(<<>>),
   gone |-> [type |-> "missing"]]
LOCAL Disk(lines) == [listed |-> TRUE, lines |-> lines, metadata |-> TRUE, files |-> TheFiles]
TheDisks ==
  {Disk(<<"large", "#", "small", "">>), Disk(<<"small", "dense">>),
   Disk(<<"large", "small", "small">>), Disk(<<"small", "tail">>), Disk(<<"cut", "large">>),
   Disk(<<"broken">>), Disk(<<"flipped", "longer">>), Disk(<<"short">>),
   Disk(<<"version", "small">>), Disk(<<"nothing">>), Disk(<<"gone", "small">>), Disk(<<"#">>),
   [Disk(<<"small">>) EXCEPT !.listed = FALSE], [Disk(<<"small">>) EXCEPT !.metadata = FALSE]}

\* Three CPUs, all of them or two at most; limits that hold everything, one shard with one
\* runner, or nothing.
LOCAL With(limit, mb) ==
  [runner_given |-> TRUE, cpus |-> 3, max_cpus |-> 2, limit |-> limit, mb |-> mb,
   sequential |-> FALSE]
TheFlags ==
  {With("unlimited", 0), [With("unlimited", 0) EXCEPT !.max_cpus = 0, !.sequential = TRUE],
   With("auto", 9), With("mb", 8), With("mb", 4), With("mb", 1), With("mb", 10),
   With("unreadable", 0), With("garbage", 0),
   [With("unlimited", 0) EXCEPT !.runner_given = FALSE]}

-----------------------------------------------------------------------------
\* Whatever children, snaps and tracers do, every call of RunImpl and of the driver
\* that was started returns.
EveryCallReturns == CallsReturn /\ CallReturns
=============================================================================
