------------------------------ MODULE Proxies ------------------------------
(***************************************************************************)
(* proxies/: programs that a fuzzer links to score its inputs.  Each runs   *)
(* an input under a tracer and turns what the processor did into features:  *)
(* unicorn_aarch64.cc and unicorn_x86_64.cc on an emulator,                 *)
(* pmu_event_proxy.cc on the processor itself, where it adds the counts of  *)
(* performance events that pmu_events.cc found and put into groups.         *)
(*                                                                         *)
(* One process handles a batch of inputs; arch_feature_generator.h and the  *)
(* array of features outlive each of them.  Registers are a few bits.       *)
(***************************************************************************)
EXTENDS Integers, Sequences, SequencesExt, FiniteSets, FiniteSetsExt

CONSTANTS
  ProxyTypes,         \* of "unicorn_aarch64", "unicorn_x86_64", "pmu"
  NumInstructionIDs,
  NumRegBits, Aliased,   \* the bits of registers, those that are part of larger registers
  RegisterStates, InitialRegisters,  \* what registers may hold: sets of the bits that are 1
  Layouts,            \* memory: [stack, data1, data2, maps]; addresses are pages
  PageBytes, ByteBits, kMaxDataPages,
  Dirty,              \* what memory may hold at the end: sets of <<page, bit>>
  NumFeatures, kMaxCount,
  Means,              \* the means of counts that events may have, in their order
  Libraries,          \* what libpfm may say of the machine
  MaxInstructions, MaxInputs

VARIABLES proxy,      \* the process: [at, type, layout, status, inputs]
          run_state,  \* the run of an input and the callbacks' variables
          gen,        \* ArchFeatureGenerator and UserFeatures
          pmu         \* the events: [library, events, source_groups, groups, status]

proxyvars == <<proxy, run_state, gen, pmu>>

kInvalidInstructionId == -1
InstructionIDs == 0..(NumInstructionIDs - 1)
RegBits == 0..(NumRegBits - 1)
PageBits == PageBytes * ByteBits

-----------------------------------------------------------------------------
(* pmu_events.cc *)

\* Names are numbers, in the order they sort.  The library answers for each unit of the
\* machine, and lists events with their sub-events; it knows aliases by their full name.
CPUCorePMUs(library) ==
  {i \in DOMAIN library.units :
     LET u == library.units[i] IN u.answer = "ok" /\ u.present /\ ~u.dfl /\ u.core}

\* The units are asked in order, and any other error ends the process.
OneCorePMU(library) ==
  /\ \A i \in DOMAIN library.units : library.units[i].answer # "error"
  /\ Cardinality(CPUCorePMUs(library)) = 1

\* Intel processors tell the counters that one of two threads has.
GetNumCounters(library) ==
  IF library.apm # -1 THEN library.apm
  ELSE library.units[CHOOSE i \in CPUCorePMUs(library) : TRUE].counters

\* An event stands for its sub-events, if it has any.
EventsAndSubEvents(library) ==
  UNION {IF e.subs = {} THEN {e.name} ELSE e.subs : e \in library.listing}

FullName(library, e) == library.encoding[e].full_name
Idx(library, e) == library.encoding[e].idx

\* Of names of the same event the first stays.
DeduplicateEvents(library, events) ==
  {e \in events : ~ \E d \in events : d < e /\ FullName(library, d) = FullName(library, e)}

\* Without the events that have to be opened together with others.
FilterEvents(library, events) == events \ library.paired_only

\* GetUniqueFilteredCPUCorePMUEvents when no call fails.
UniqueFilteredEvents(library) ==
  FilterEvents(library, DeduplicateEvents(library, EventsAndSubEvents(library)))

\* The list stays in the order DeduplicateEvents sorts the names into.
SortedEvents(events) ==
  [k \in 1..Cardinality(events) |->
     CHOOSE e \in events : Cardinality({d \in events : d < e}) = k - 1]

\* What there is to choose from.  A bit of a page is a number below PageBits; counts are
\* clipped to a byte; each event has a mean, and the unit of the core a counter, without
\* which events would never be scheduled.
ASSUME ProxyAssumption ==
  /\ ProxyTypes \subseteq {"unicorn_aarch64", "unicorn_x86_64", "pmu"}
  /\ NumInstructionIDs \in Nat /\ NumRegBits \in Nat
  /\ RegisterStates \subseteq SUBSET RegBits /\ InitialRegisters \subseteq SUBSET RegBits
  /\ PageBytes \in Nat /\ ByteBits \in Nat /\ kMaxCount \in 0..255
  /\ \A memory \in Dirty : \A m \in memory : m = <<m[1], m[2]>> /\ m[2] \in 0..(PageBits - 1)
  /\ Libraries # {}
  /\ \A library \in Libraries :
       /\ IsFiniteSet(EventsAndSubEvents(library)) /\ EventsAndSubEvents(library) \subseteq Nat
       /\ OneCorePMU(library) => GetNumCounters(library) \in Nat \ {0}
       /\ \A means \in Means :
            means \in Seq(Nat) /\ Cardinality(UniqueFilteredEvents(library)) <= Len(means)

NoEvents == [library |-> CHOOSE l \in Libraries : TRUE, events |-> <<>>, source_groups |-> {},
             groups |-> <<>>, status |-> "none"]

\* libpfm is asked for the list of events; the process cannot do without.
PMUEventProxyInitialize ==
  /\ proxy.at = "start" /\ proxy.type = "pmu"
  /\ \E library \in Libraries, failed \in BOOLEAN :
       IF ~OneCorePMU(library)
       THEN proxy' = [proxy EXCEPT !.at = "crashed"] /\ UNCHANGED pmu
       ELSE IF failed \/ EventsAndSubEvents(library) = {}
       THEN proxy' = [proxy EXCEPT !.at = "not_initialized"] /\ UNCHANGED pmu
       ELSE LET events == UniqueFilteredEvents(library)
                same_idx(e) == {d \in events : Idx(library, d) = Idx(library, e)}
            IN  /\ proxy' = [proxy EXCEPT !.at = "schedule"]
                /\ pmu' = [library |-> library, events |-> SortedEvents(events), groups |-> <<>>,
                           source_groups |-> {same_idx(e) : e \in events}, status |-> "ok"]
  /\ UNCHANGED <<run_state, gen>>

\* The first event of each source.
TakeOneOfEach(sources) == {Min(s) : s \in sources}

\* ScheduleEventsForCounters: the next group of events, from as many sources as there are
\* counters.  The queue has the smallest source on top, whatever its comment says.
ScheduleGroup ==
  /\ proxy.at = "schedule" /\ pmu.source_groups # {}
  /\ \E sources \in SUBSET pmu.source_groups :
       LET group == TakeOneOfEach(sources)
       IN  /\ Cardinality(sources) = Min({GetNumCounters(pmu.library), Cardinality(pmu.source_groups)})
           /\ \A s \in sources, t \in pmu.source_groups \ sources : Cardinality(s) <= Cardinality(t)
           /\ pmu' = [pmu EXCEPT !.groups = Append(@, group),
                                 !.source_groups = {s \ group : s \in @} \ {{}}]
  /\ UNCHANGED <<proxy, run_state, gen>>

\* An event is not one of the core's or not known any more: each input will be refused.
ScheduleEnds ==
  /\ proxy.at = "schedule"
  /\ \/ pmu.source_groups = {} /\ UNCHANGED pmu
     \/ /\ pmu.groups = <<>>
        /\ pmu' = [pmu EXCEPT !.status = "error", !.source_groups = {}]
  /\ proxy' = [proxy EXCEPT !.at = "idle"]
  /\ UNCHANGED <<run_state, gen>>

-----------------------------------------------------------------------------
(* ArchFeatureGenerator *)

\* The domains of the proxy's features: the first eight are the generator's.
DomainKinds == <<"op", "op_pair", "toggle_zero_one", "toggle_one_zero", "difference",
           "op_toggle_zero_one", "op_toggle_one_zero", "mem", "count", "count_pair">>
Domains == IF proxy.type = "pmu" THEN <<3, 4, 5, 6, 7, 8, 9, 0, 1, 2>> ELSE <<0, 1, 2, 3, 4, 5, 6, 7>>
Domain(kind) == Domains[CHOOSE k \in DOMAIN Domains : DomainKinds[k] = kind]

\* EmitFeature: nothing is feature 0 of domain 0, which would not be seen.
Feature(kind, number) ==
  LET domain == Domain(kind) IN <<domain, IF domain = 0 THEN number + 1 ELSE number>>

\* The array has an end; the process, too, when it is reached.
EmitAll(g, new, calls) == [g EXCEPT !.features = @ \union new, !.emitted = @ + calls]
Emit(g, new) == EmitAll(g, new, Cardinality(new))
Overflowed(g) == g.emitted > NumFeatures

NoToggles == [zero_one |-> {}, one_zero |-> {}]
NoOps == [id \in InstructionIDs |-> [count |-> 0, toggles |-> NoToggles]]
BeforeBatch ==
  [features |-> {}, emitted |-> 0, prev_id |-> kInvalidInstructionId, initial |-> {}, prev |-> {},
   toggles |-> NoToggles, op_info |-> NoOps]

BeforeInput(g) == [g EXCEPT !.features = {}, !.emitted = 0]

\* Mutant: the counts of instructions are those of the batch.
BeforeExecutionKeepsOps(g, registers) ==
  [g EXCEPT !.prev_id = kInvalidInstructionId, !.initial = registers, !.prev = registers,
            !.toggles = NoToggles]
BeforeExecution(g, registers) ==
  [g EXCEPT !.prev_id = kInvalidInstructionId, !.initial = registers, !.prev = registers,
            !.toggles = NoToggles, !.op_info = NoOps]

AccumulateToggle(toggles, from, to) ==
  [zero_one |-> toggles.zero_one \union (to \ from), one_zero |-> toggles.one_zero \union (from \ to)]

AfterInstruction(g, id, registers) ==
  LET counted == IF id = kInvalidInstructionId THEN g.op_info
                 ELSE [g.op_info EXCEPT ![id] =
                         [count |-> @.count + 1,
                          toggles |-> AccumulateToggle(@.toggles, g.prev, registers)]]
      pair == IF kInvalidInstructionId \in {id, g.prev_id} THEN {}
              ELSE {Feature("op_pair", g.prev_id * NumInstructionIDs + id)}
  IN  [Emit(g, pair) EXCEPT !.op_info = counted, !.prev_id = id, !.prev = registers,
                            !.toggles = AccumulateToggle(@, g.prev, registers)]

\* PrepareToEmit: what a larger register holds is not told twice; an emulator has only
\* the smaller ones.
Told(bits) == IF proxy.type = "pmu" THEN bits \ Aliased ELSE bits

BitDiff(a, b) == (a \ b) \union (b \ a)

AfterExecution(g) ==
  LET Ops == {id \in InstructionIDs : g.op_info[id].count > 0}
      Bits(kind, base, bits) == {Feature(kind, base + b) : b \in Told(bits)}
      Toggles(one, two, base, toggles) ==
        Bits(one, base, toggles.zero_one) \union Bits(two, base, toggles.one_zero)
  IN  Emit(g, Toggles("toggle_zero_one", "toggle_one_zero", 0, g.toggles)
                \union Bits("difference", 0, BitDiff(g.initial, g.prev))
                \union {Feature("op", id) : id \in Ops}
                \union UNION {Toggles("op_toggle_zero_one", "op_toggle_one_zero", id * NumRegBits,
                                      g.op_info[id].toggles) : id \in Ops})

-----------------------------------------------------------------------------
(* Memory at the end of a run: each page that is read, with its first feature *)

kFeatureLimitPerSegment == kMaxDataPages \div 2

\* FinalMemory numbers the pages as they are read; the emulated x86_64 reads two of each
\* segment, its stack being the first page of the first.
FinalMemory ==
  LET first(page, n) == [i \in 1..n |-> page + i - 1]
      l == proxy.layout
      pages == IF proxy.type = "unicorn_x86_64" THEN first(l.data1, 2) \o first(l.data2, 2)
               ELSE <<l.stack, l.data1, l.data2>>
  IN  {<<pages[i], (i - 1) * PageBits>> : i \in DOMAIN pages}

\* EmitMemoryFeaturesForSegment, for the pages of a mapping from start on: those of the
\* segment, if it starts there.
ForSegment(start, limit, segment_base, feature_base) ==
  IF start < segment_base THEN {}
  ELSE {<<page, feature_base + (page - segment_base) * PageBytes>> :
          page \in start..(Min({segment_base + kFeatureLimitPerSegment, limit}) - 1)}

\* EmitMemoryFeatures: the number of a page is that of its first byte, though each of its
\* bits is a feature.
MemoryOf(map) ==
  LET l == proxy.layout
      data_base1 == IF l.stack = l.data1 THEN l.stack + 1 ELSE l.data1
      is_stack == map.start = l.stack
      start == IF is_stack THEN map.start + 1 ELSE map.start
      one == ForSegment(start, map.limit, data_base1, PageBytes)
      two == ForSegment(start + Cardinality(one), map.limit, l.data2,
                        PageBytes + kFeatureLimitPerSegment * PageBytes)
  IN  IF ~map.writable THEN {}
      ELSE (IF is_stack THEN {<<l.stack, 0>>} ELSE {}) \union one \union two
PagesRead ==
  IF proxy.type = "pmu" THEN UNION {MemoryOf(map) : map \in proxy.layout.maps} ELSE FinalMemory

EmitMemory(g, memory) ==
  LET told == {pm \in PagesRead \X memory : pm[1][1] = pm[2][1]}
  IN  EmitAll(g, {Feature("mem", pm[1][2] + pm[2][2]) : pm \in told}, Cardinality(told))

-----------------------------------------------------------------------------
(* One input *)

NoRun == [pending |-> FALSE, id |-> kInvalidInstructionId, in_range |-> TRUE, registers |-> {},
          first |-> {}, path |-> <<>>, memory |-> {}, called |-> FALSE, counts |-> <<>>]

\* The process ends when the array of features has.
Goto(at) == proxy' = [proxy EXCEPT !.at = IF Overflowed(gen') THEN "crashed" ELSE at]
Return(status) == proxy' = [proxy EXCEPT !.at = IF Overflowed(gen') THEN "crashed" ELSE "returned",
                                         !.status = status]

\* LLVMFuzzerTestOneInput: inputs that are too short or make no snippet are refused at once.
TestOneInput ==
  /\ proxy.at \in {"idle", "returned"} /\ proxy.inputs < MaxInputs
  /\ run_state' = NoRun
  /\ \/ /\ gen' = BeforeInput(gen)
        /\ proxy' = [proxy EXCEPT !.at = "ready", !.inputs = @ + 1]
     \/ /\ UNCHANGED gen
        /\ proxy' = [proxy EXCEPT !.at = "returned", !.inputs = @ + 1, !.status = "discard"]
  /\ UNCHANGED pmu

StartExecution ==
  /\ proxy.at = "ready"
  /\ \E registers \in InitialRegisters :
       /\ run_state' = [run_state EXCEPT !.registers = registers, !.first = registers]
       /\ gen' = BeforeExecution(gen, registers)
  /\ proxy' = [proxy EXCEPT !.at = "tracing"]
  /\ UNCHANGED pmu

\* The tracers call before an instruction; the call after it is made up of the next one.
after_instruction(r) ==
  IF r.pending THEN AfterInstruction(gen, r.id, r.registers) ELSE gen

\* The callback before an instruction, and the instruction.
ExecuteInstruction ==
  /\ proxy.at = "tracing" /\ Len(run_state.path) < MaxInstructions
  /\ gen' = after_instruction(run_state)
  /\ \E id \in InstructionIDs \union {kInvalidInstructionId}, registers \in RegisterStates,
        fits \in BOOLEAN :
       /\ proxy.type = "unicorn_aarch64" \/ id = kInvalidInstructionId => fits
       /\ run_state' = [run_state EXCEPT !.pending = TRUE, !.id = id, !.registers = registers,
                                         !.in_range = @ /\ fits,
                                         !.path = Append(@, [id |-> id, registers |-> registers])]
  /\ Goto("tracing")
  /\ UNCHANGED pmu

Flushed(r) == after_instruction(r)

\* The run ends.  The emulator always calls back; on the processor a runner that stopped
\* elsewhere leaves the last instruction pending, though that may count as a success.
EndExecution ==
  /\ proxy.at \in {"ready", "tracing"}
  /\ \E ok \in BOOLEAN :
       LET status == IF ok /\ run_state.in_range THEN "ok" ELSE "discard"
       IN  /\ \/ /\ proxy.at = "tracing"
                 /\ \E memory \in Dirty :
                      /\ run_state' = [run_state EXCEPT !.pending = FALSE, !.memory = memory,
                                                        !.called = TRUE]
                      /\ gen' = EmitMemory(AfterExecution(Flushed(run_state)), memory)
              \/ proxy.type = "pmu" /\ UNCHANGED <<run_state, gen>>
           /\ IF proxy.type = "pmu" /\ status = "ok" THEN Goto("measure") ELSE Return(status)
  /\ UNCHANGED pmu

\* The highest bit of a count that is not 0.
Log2(n) == CHOOSE k \in 0..7 : 2^k <= n /\ n < 2^(k + 1)
Convert8BitCountToUserFeature(i, count) == (i - 1) * 8 + Log2(count)

ClippedCounts(counts) == [i \in DOMAIN counts |-> Min({counts[i], kMaxCount})]
CountFeatures(counts) ==
  LET clipped == ClippedCounts(counts)
      d == Len(counts) * 8
      seen == {i \in DOMAIN counts : clipped[i] > 0}
      compressed(i) == Convert8BitCountToUserFeature(i, clipped[i])
  IN  {Feature("count", (i - 1) * (kMaxCount + 1) + clipped[i]) : i \in DOMAIN counts}
      \union {Feature("count_pair", compressed(p[1]) * d + compressed(p[2])) :
                p \in {p \in seen \X seen : p[2] < p[1]}}

\* PerfEventFuzzer measures the events in their groups; their means are rounded down.
MeasureEvents ==
  /\ proxy.at = "measure"
  /\ \/ /\ pmu.status = "ok"
        /\ \E means \in Means : LET counts == SubSeq(means, 1, Len(pmu.events)) IN
             /\ run_state' = [run_state EXCEPT !.counts = counts]
             /\ gen' = Emit(gen, CountFeatures(counts))
        /\ Return("ok")
     \/ UNCHANGED <<run_state, gen>> /\ Return("discard")
  /\ UNCHANGED pmu

ProxyInit ==
  /\ \E type \in ProxyTypes, layout \in Layouts :
       /\ layout.arch = "any" \/ type \in {"pmu", layout.arch}
       /\ proxy = [at |-> IF type = "pmu" THEN "start" ELSE "idle", type |-> type,
                   layout |-> layout, status |-> "none", inputs |-> 0]
  /\ run_state = NoRun /\ gen = BeforeBatch /\ pmu = NoEvents

ProxyNext ==
  \/ PMUEventProxyInitialize \/ ScheduleGroup \/ ScheduleEnds
  \/ TestOneInput \/ StartExecution \/ ExecuteInstruction \/ EndExecution \/ MeasureEvents

ProxySpec == ProxyInit /\ [][ProxyNext]_proxyvars
-----------------------------------------------------------------------------
(* What a run was, and what its features say *)

\* The register states of the instructions that were counted.
Counted == IF run_state.called \/ run_state.path = <<>> THEN run_state.path ELSE Front(run_state.path)
State(i) == IF i = 0 THEN run_state.first ELSE Counted[i].registers

Happened ==
  LET steps == DOMAIN Counted
      id(i) == Counted[i].id
      known == {i \in steps : id(i) # kInvalidInstructionId}
      rises(i) == Told(State(i) \ State(i - 1))
      falls(i) == Told(State(i - 1) \ State(i))
      last == State(Len(Counted))
      clipped == ClippedCounts(run_state.counts)
      seen == {i \in DOMAIN clipped : clipped[i] > 0}
      compressed(i) == Convert8BitCountToUserFeature(i, clipped[i])
  IN  {<<"op", id(i), 0>> : i \in known}
      \union {<<"op_pair", id(i - 1), id(i)>> : i \in {i \in known : i - 1 \in known}}
      \union (UNION {{<<"toggle_zero_one", b, 0>> : b \in rises(i)} : i \in steps})
      \union (UNION {{<<"toggle_one_zero", b, 0>> : b \in falls(i)} : i \in steps})
      \union (UNION {{<<"op_toggle_zero_one", id(i), b>> : b \in rises(i)} : i \in known})
      \union (UNION {{<<"op_toggle_one_zero", id(i), b>> : b \in falls(i)} : i \in known})
      \union {<<"difference", b, 0>> : b \in Told(BitDiff(run_state.first, last))}
      \union {<<"mem", m[1], m[2]>> : m \in {m \in run_state.memory : \E p \in PagesRead : p[1] = m[1]}}
      \union {<<"count", i, clipped[i]>> : i \in DOMAIN clipped}
      \union {<<"count_pair", compressed(i), compressed(j)>> : i \in seen, j \in seen}

\* How a reader of a feature understands it.
Meaning(feature) ==
  LET kind == DomainKinds[CHOOSE k \in DOMAIN Domains : Domains[k] = feature[1]]
      number == IF feature[1] = 0 THEN feature[2] - 1 ELSE feature[2]
      Split(n) == <<kind, number \div n, number % n>>
  IN  CASE kind = "op_pair" -> Split(NumInstructionIDs)
        [] kind \in {"op_toggle_zero_one", "op_toggle_one_zero"} -> Split(NumRegBits)
        [] kind = "count_pair" -> Split(Len(pmu.events) * 8)
        [] kind = "count" -> <<kind, number \div (kMaxCount + 1) + 1, number % (kMaxCount + 1)>>
        [] kind = "mem" -> LET p == CHOOSE p \in PagesRead : p[2] = number - (number % PageBits)
                           IN  <<kind, p[1], number % PageBits>>
        [] OTHER -> <<kind, number, 0>>

\* The features of an input that is kept say what this run of it did, with no trace of
\* the inputs before, and all of it unless the runner stopped before the end.  Of the
\* memory of a processor they do not say which bit it was.
FeaturesTellTheRun ==
  LET legible == {f \in gen.features : ~(proxy.type = "pmu" /\ f[1] = Domain("mem"))}
      said == {Meaning(f) : f \in legible}
      happened == {h \in Happened :
                     CASE h[1] = "mem" -> proxy.type # "pmu"
                       [] h[1] = "count_pair" -> h[2] \div 8 > h[3] \div 8
                       [] OTHER -> TRUE}
  IN  proxy.at = "returned" /\ proxy.status = "ok" =>
        IF run_state.called THEN said = happened ELSE said \subseteq happened

\* Each event that the machine knows, under whatever names, is measured under the first
\* of them, in one group; a group has a counter for each of its events, and no two are
\* sub-events of the same.
EachEventOnce ==
  LET lib == pmu.library
      groups == ToSet(pmu.groups)
      named == EventsAndSubEvents(lib)
  IN  proxy.at \in {"idle", "returned"} /\ proxy.type = "pmu" /\ pmu.status = "ok" =>
        /\ \A e \in named : LET first == Min({d \in named : FullName(lib, d) = FullName(lib, e)})
                           IN  Cardinality({k \in DOMAIN pmu.groups : first \in pmu.groups[k]})
                                 = IF first \in lib.paired_only THEN 0 ELSE 1
        /\ UNION groups = ToSet(pmu.events)
        /\ \A g \in groups :
             /\ Cardinality(g) \in 1..GetNumCounters(lib)
             /\ Cardinality({Idx(lib, e) : e \in g}) = Cardinality(g)

ProxiesAreRight == FeaturesTellTheRun /\ EachEventOnce

\* "Compress the memory address into the feature space": each bit of the pages read has
\* a feature of its own.
EachBitHasItsFeature ==
  proxy.at = "returned" /\ proxy.status = "ok" /\ run_state.called =>
    Cardinality({f \in gen.features : f[1] = Domain("mem")})
      = Cardinality({m \in run_state.memory : \E p \in PagesRead : p[1] = m[1]})
=============================================================================
