------------------------------- MODULE MCTools -------------------------------
(***************************************************************************)
(* The tools and the channels between programs, one of them at a time:     *)
(* "part" chooses which one the behaviour is about, the others stay where  *)
(* they start.                                                             *)
(***************************************************************************)
EXTENDS SpanUtil, Integers, BinaryLogChannel, Minimizer, SdcPipeline, Feedback,
        PerfEventBuffer, PerfEventFuzzer, FixTool, MCCorpus, SnapMaker, ProgramMutator,
        PageTable

(* PartitionEvenly against the five properties its comment declares, for every vector of
   up to MaxLen distinct elements and up to MaxSpans spans: one behaviour per input, the
   partition is computed, then concatenated back span by span. *)

CONSTANTS MaxLen, MaxSpans

ASSUME SpanAssumption == MaxLen \in Nat /\ MaxSpans \in Nat

VARIABLES vector, count, spans, joined, taken
spanvars == <<vector, count, spans, joined, taken>>

SpanInit ==
  /\ vector = <<>> /\ count = 0 /\ spans = <<>>
  /\ joined = <<>> /\ taken = 0

Partition ==
  /\ count = 0
  /\ \E len \in 0..MaxLen : vector' = [i \in 1..len |-> i]
  /\ count' \in 1..MaxSpans
  /\ spans' = PartitionEvenly(vector', count')
  /\ UNCHANGED <<joined, taken>>

TakeSpan ==
  /\ taken < count
  /\ joined' = joined \o spans[taken + 1]
  /\ taken' = taken + 1
  /\ UNCHANGED <<vector, count, spans>>

SpanNext == Partition \/ TakeSpan

\* Properties 3, 4 and 5 of the comment on PartitionEvenly: the spans, end to
\* end, are the vector.
SpansCoverVector ==
  /\ joined = SubSeq(vector, 1, Len(joined))
  /\ taken = count => joined = vector

\* Properties 1 and 2: no two spans differ by more than one element, the
\* larger ones come first, and with fewer elements than spans the rest are
\* empty.
SpansEven ==
  \A i, j \in 1..count : i < j =>
    /\ Len(spans[i]) - Len(spans[j]) \in {0, 1}
    /\ Len(vector) < j => spans[j] = <<>>

\* The five properties together.
PartitionIsEven == SpansCoverVector /\ SpansEven

-----------------------------------------------------------------------------
VARIABLE part

Parts == {"span", "channel", "minimizer", "pipeline", "feedback", "ring", "pmu", "fix",
          "corpus", "maker", "mutator", "pagetable"}

Init ==
  /\ part \in Parts
  /\ SpanInit /\ ChanInit /\ MinInit /\ SdcInit /\ FbInit /\ RingInit /\ FuzzInit
  /\ FixInit /\ CorpusInit /\ MutatorInit
  /\ part = "pagetable" \/ creator = PageTableCreator(0)
  /\ PageTableInit
  /\ IF part = "maker" THEN TRUE
     ELSE /\ maker_options = CHOOSE o \in Options : TRUE
          /\ program = CHOOSE p \in Programs : TRUE
  /\ MakerInit

Next ==
  /\ UNCHANGED part
  /\ \/ part = "span" /\ SpanNext
     \/ part # "span" /\ UNCHANGED spanvars
  /\ \/ part = "channel" /\ ChanNext
     \/ part # "channel" /\ UNCHANGED chanvars
  /\ \/ part = "minimizer" /\ MinNext
     \/ part # "minimizer" /\ UNCHANGED minvars
  /\ \/ part = "pipeline" /\ SdcNext
     \/ part # "pipeline" /\ UNCHANGED sdcvars
  /\ \/ part = "feedback" /\ FbNext
     \/ part # "feedback" /\ UNCHANGED fb
  /\ \/ part = "ring" /\ RingNext
     \/ part # "ring" /\ UNCHANGED ringvars
  /\ \/ part = "pmu" /\ FuzzNext
     \/ part # "pmu" /\ UNCHANGED fuzzvars
  /\ \/ part = "fix" /\ FixNext
     \/ part # "fix" /\ UNCHANGED fixvars
  /\ \/ part = "corpus" /\ CorpusNext
     \/ part # "corpus" /\ UNCHANGED corpusvars
  /\ \/ part = "maker" /\ MakerNext
     \/ part # "maker" /\ UNCHANGED maker_vars
  /\ \/ part = "mutator" /\ MutatorNext
     \/ part # "mutator" /\ UNCHANGED mutvars
  /\ \/ part = "pagetable" /\ PageTableNext
     \/ part # "pagetable" /\ UNCHANGED ptvars

vars == <<part, spanvars, chanvars, minvars, sdcvars, fb, ringvars, fuzzvars, fixvars,
          corpusvars, maker_vars, mutvars, ptvars>>

\* The fairness of the parts' own specifications.
Fairness ==
  /\ \A p \in Senders : WF_chanvars(part = "channel" /\ SenderStep(p))
  /\ \A r \in Receivers : WF_chanvars(part = "channel" /\ ReceiverStep(r))
  /\ WF_chanvars(part = "channel" /\ first_error # "none" /\ CloseConsumer)
  /\ WF_minvars(part = "minimizer" /\ MinNext)
  /\ WF_fuzzvars(part = "pmu" /\ FuzzNext)
  /\ WF_maker_vars(part = "maker" /\ MakerNext)

Spec == Init /\ [][Next]_vars /\ Fairness

-----------------------------------------------------------------------------
\* What is begun comes to its end: a Send, the wait for the end of a channel, the
\* schedule of the minimizer, the measurement of an input, the making of a snapshot.
ToolsEnd == SendsEnd /\ EndIsTold /\ MinimizerEnds /\ FuzzingEnds
              /\ (part = "maker" => MakeEnds)
-----------------------------------------------------------------------------
(* Minimizer *)

\* An x86_64 program without NOPs, one with NOPs of two lengths, and an aarch64
\* program: kinds a and b matter, c and NOPs do not.
SomeInputs ==
  {[arch |-> "x86_64", code |-> Insn("a", 2) \o Insn("b", 1) \o Insn("c", 1) \o Insn("exit", 1)],
   [arch |-> "x86_64", code |-> Insn("nop", 1) \o Insn("a", 1) \o Insn("nop", 2) \o Insn("b", 2)
                                  \o Insn("exit", 1)],
   [arch |-> "aarch64", code |-> Insn("nop", 2) \o Insn("a", 2) \o Insn("b", 2) \o Insn("nop", 2)
                                   \o Insn("exit", 2)]}
SomeSchedules == {<<"NOP", "FUSE", "SWAP", "ELIDE">>, <<"NOP", "SWAP", "OMIT", "ELIDE">>,
                  <<"OMIT", "ELIDE", "FUSE">>}

-----------------------------------------------------------------------------
(* The SDC pipeline and its feedback *)

LOCAL Seed(i, t) == [ident |-> i, parent |-> None, origin |-> <<"seed", "test">>, fs001 |-> t]
SomeSeeds == <<Seed("c1", TRUE)>>
SomeMutators == <<"operand", "fs001_loadpath">>
LOCAL Choosing(p, f, g) == [policy |-> p, filt |-> f, generations |-> g]
SomeSettings == {Choosing("bandit", "weighted", 2), Choosing("hill_climb", "random", 1),
                 Choosing("bandit", "pareto", 1)}


LOCAL Hit(h, d) == [hash |-> h, device |-> d]

\* No hit, a hash seen on two devices, a hit without hash, a hash no file has.
SomeReports ==
  {<<>>, <<Hit("h1", "d1"), Hit("h1", "d2"), Hit("h2", "d1")>>,
   <<Hit(Unhashed, "group"), Hit("h2", "d1")>>, <<Hit("h3", "d1"), Hit("h2", "d1")>>}

-----------------------------------------------------------------------------
(* Performance counters *)

\* Three events: one schedule tries two of them together, and either may come back
\* alone. The executions pass the breakpoints in order, with something between them,
\* or with a first one left over from before.
SomeEventGroups == {<<{"e1", "e2"}, {"e3"}>>, <<{"e1"}>>}
SomeExecutions == {<<"first", "last">>, <<"first", "other", "last">>,
                   <<"first", "first", "last", "other">>}

-----------------------------------------------------------------------------
(* Fix tool *)

LOCAL Region(s, l, p) == P!Entry(s, l, P!Flat(s, l, p))
LOCAL CodeAt(s) == Region(s, s + 1, {"r", "x"})
LOCAL StackAt(s) == Region(s, s + 2, {"r", "w"})

\* Code at the same place, stacks that overlap, the same page with other
\* permissions, a page one may write and the other only read.
SomeMade ==
  <<[mappings |-> {{CodeAt(0), StackAt(2)}}, failures |-> {}],
    [mappings |-> {{CodeAt(1), StackAt(3)}, {CodeAt(0)}}, failures |-> {"make"}],
    [mappings |-> {{CodeAt(0), StackAt(2)}, {Region(2, 3, {"r", "w", "x"})}}, failures |-> {"snapify"}],
    [mappings |-> {{CodeAt(1), Region(4, 5, {"r"})}}, failures |-> {"instructions-to-snapshot-failed"}],
    [mappings |-> {{StackAt(4)}}, failures |-> {"undef-end-state"}]>>
SomeKeys == <<0, -1, 0, -1, 0>>

LOCAL File(opens, blobs, ends, closes) ==
  [opens |-> opens, blobs |-> blobs, ends |-> ends, closes |-> closes]
SomeFixInputs ==
  {<<File(TRUE, <<1, 2, 3, 4, 5>>, TRUE, TRUE)>>,
   <<File(TRUE, <<3, 1, 3>>, FALSE, TRUE), File(FALSE, <<2>>, TRUE, TRUE),
     File(TRUE, <<1, 4>>, TRUE, FALSE)>>}

-----------------------------------------------------------------------------
(* Program mutator *)

LOCAL Nop == [op |-> "nop", size |-> 1, displacement |-> kInvalid]
LOCAL Jmp(size, d) == [op |-> "jmp", size |-> size, displacement |-> d]
LOCAL Rejected(size) == [op |-> "rejected", size |-> size]

\* A short branch that is encoded in two bytes and may be read from three.
SomeOperations ==
  [nop |-> [branch |-> FALSE, sizes |-> {1}, canonical |-> 1, least |-> 0, greatest |-> 0],
   jmp |-> [branch |-> TRUE, sizes |-> {2, 3}, canonical |-> 2, least |-> -6, greatest |-> 3]]
SomeEncodable == {Nop, Jmp(3, 0), Jmp(2, 2)}

\* Branches forth and back, one over a hole, one out of the program; nothing at all.
SomeCorpusInputs ==
  {<<Nop, Jmp(3, -1), Nop>>, <<Jmp(3, 5), Rejected(1), Jmp(2, 0), Jmp(3, -3)>>, <<Rejected(2)>>}
-----------------------------------------------------------------------------
(* Page tables *)

LOCAL Asked(s, n, p, a) == [start |-> s, num_bytes |-> n, perms |-> p, physical_addr |-> a]

\* Of an address space of 32 bytes: mappings that share tables or pages, cross the
\* borders of tables, repeat or contradict others, end with the space, leave it, or are
\* not aligned.
SomeCalls ==
  {Asked(0, 4, {"r"}, 20), Asked(2, 4, {"r", "w"}, 24), Asked(2, 2, {"r", "w"}, 24),
   Asked(4, 6, {"r", "x"}, 24), Asked(14, 4, {"r", "w"}, 4), Asked(16, 4, {"r", "x"}, 26),
   Asked(30, 2, {"r", "w", "x"}, 30), Asked(28, 6, {"r"}, 0), Asked(8, 0, {"r"}, 4),
   Asked(3, 2, {"r"}, 4), Asked(6, 4, {"r"}, 30)}

LOCAL Mapped(s, l, p) == [start |-> s, limit |-> l, perms |-> p]
LOCAL MemoryOf(ranges) ==
  [ranges |-> ranges,
   bytes |-> [a \in UNION {r.start..(r.limit - 1) : r \in Range(ranges)} |-> a]]
SomeImages ==
  [memory : {MemoryOf(<<Mapped(0, 2, {"r", "x"}), Mapped(2, 6, {"r", "w"})>>),
             MemoryOf(<<Mapped(6, 10, {"r", "x"}), Mapped(22, 24, {"r", "w"})>>), MemoryOf(<<>>)},
   physical_address : {0, 4, 24},
   external : {<<>>, <<Asked(10, 2, {"r", "w"}, 30)>>, <<Asked(2, 2, {"r", "w"}, 12)>>}]
=============================================================================
