------------------------------- MODULE Tracing -------------------------------
(***************************************************************************)
(* tracing/: a snippet of code is run under a tracer, instruction by       *)
(* instruction, by the program that analyses it (trace_tool.cc).  It       *)
(* captures a trace of all states (CaptureTrace, execution_trace.h), then  *)
(* runs the snippet again for every instruction of the trace with that one *)
(* skipped (analysis.cc): an instruction is critical if it is missed.      *)
(*                                                                         *)
(* Two tracers: one steps through the snippet in a runner process          *)
(* (native_tracer.cc), where a stopped tracer lets the snippet run on; the *)
(* other emulates it (unicorn_tracer.h) and may be late to stop.           *)
(*                                                                         *)
(* The machine has a register of two bits and two cells of memory, one of  *)
(* them beyond the pages that a checksum covers.  Code is 1..n, n + 1 is   *)
(* where it ends.                                                          *)
(***************************************************************************)
EXTENDS Integers, Sequences, SequencesExt, FiniteSets

CONSTANTS Snippets,   \* sequences of the kinds of instruction in NextCpu
          TracerTypes,
          Limits,     \* max_instructions
          MaxOverrun, \* instructions that an emulator runs after it was stopped
          Fuel        \* bound on the steps of a run that ends

VARIABLES job,         \* the arguments of the tool
          insn_tracer, \* the one that is running, and its machine
          trace,       \* ExecutionTrace and the checksum after it
          analysis     \* phase, the instruction to skip, what was found

tracingvars == <<job, insn_tracer, trace, analysis>>

-----------------------------------------------------------------------------
(* The machine *)

FirstCpu == [pc |-> 1, r |-> 0, near |-> 0, far |-> 0]
Outside == 0
Handler == -2
CodeEnd == Len(job.snippet) + 1
IsInsideCode(pc) == pc \in 1..Len(job.snippet)

\* "wide" is as long as two instructions.
InstructionSize(insn) == IF insn = "wide" THEN 2 ELSE 1
InstructionIsInRange(pc) == pc + InstructionSize(job.snippet[pc]) <= CodeEnd

NextCpu(cpu) ==
  LET insn == job.snippet[cpu.pc]
      next == [cpu EXCEPT !.pc = @ + InstructionSize(insn)]
  IN  CASE insn = "inc" -> [next EXCEPT !.r = (@ + 1) % 4]
        [] insn = "clear" -> [next EXCEPT !.r = 0]
        [] insn = "near" -> [next EXCEPT !.near = cpu.r]
        [] insn = "far" -> [next EXCEPT !.far = cpu.r]
        [] insn = "loop" -> IF cpu.r < 2 THEN [cpu EXCEPT !.pc = 1] ELSE next
        [] insn = "hang" -> cpu
        [] insn = "out" -> [cpu EXCEPT !.pc = Outside]
        [] OTHER -> next

Faults(cpu) == IsInsideCode(cpu.pc) /\ job.snippet[cpu.pc] = "trap"

\* GetRegisters and PartialChecksumOfMutableMemory; 0 is no checksum of memory.
Registers(cpu) == [pc |-> cpu.pc, r |-> cpu.r]
PartialChecksum(cpu) == cpu.near + 1

\* The states of a run with an instruction left out (skip = 0: with none), until it has
\* left the code or stopped.
Reached(skip) ==
  LET Halts(cpu) == ~IsInsideCode(cpu.pc) \/ Faults(cpu)
      state[n \in 0..Fuel] ==
        IF n = 0 THEN <<FirstCpu>>
        ELSE LET path == state[n - 1]
                 cpu == Last(path)
             IN  IF IsInsideCode(cpu.pc) /\ n = skip
                 THEN Append(path, [cpu EXCEPT !.pc = @ + InstructionSize(job.snippet[@])])
                 ELSE IF Halts(cpu) THEN path ELSE Append(path, NextCpu(cpu))
  IN  state[Fuel]
EndsWell(path) == Len(path) <= Fuel /\ Last(path).pc = CodeEnd

\* ValidateArchEndState; the register is the stack pointer.
Misaligned(cpu) == job.type = "unicorn_aarch64" /\ cpu.r % 2 = 1

-----------------------------------------------------------------------------
(* The programs that trace *)

\* LastContext() is the last of the contexts, which is written before it is read.
Unwritten == [pc |-> -1, r |-> 0]
NewTrace == [info |-> <<>>, contexts |-> <<Unwritten>>, checksum |-> 0]

\* A tracer is made for one run.  The native one first makes a snapshot of the snippet,
\* which has to play to its end; its runner then comes from code of its own.
CreateTracer(type) ==
  LET native == type = "native"
  IN  [state |-> IF native THEN "pretracing" ELSE "running",
       cpu |-> IF native THEN [FirstCpu EXCEPT !.pc = Outside] ELSE FirstCpu,
       stop_requested |-> FALSE, insn_limit_reached |-> FALSE, desynced_pc |-> FALSE,
       out_of_bounds |-> FALSE, num_instructions |-> 0, executed |-> 0, overrun |-> 0,
       after |-> <<>>]

Capturing == analysis.phase = "capture"

\* The callbacks of CaptureTrace and TraceSnippetWithSkip before an instruction: what
\* they do to the tracer and its machine, and to the trace.
BeforeInstruction(t, address) ==
  IF Capturing
  THEN LET out == ~InstructionIsInRange(address)
       IN  [t EXCEPT !.stop_requested = @ \/ out, !.out_of_bounds = @ \/ out]
  ELSE [t EXCEPT !.cpu.pc = IF t.executed + 1 = analysis.skip
                            THEN address + InstructionSize(job.snippet[address]) ELSE @,
                 !.executed = @ + 1]
WithInstruction(t, address) ==
  IF ~Capturing THEN trace
  ELSE [trace EXCEPT !.contexts = Append([@ EXCEPT ![Len(@)] = Registers(t.cpu)], Unwritten),
                     !.info = Append(@, [address |-> address, insn |-> job.snippet[address]])]

\* And the one after the execution.
AfterExecution(t) ==
  [t EXCEPT !.after = <<[registers |-> Registers(t.cpu), checksum |-> PartialChecksum(t.cpu)]>>]
WithLastContext(tr, t) ==
  IF ~Capturing \/ t.after = <<>> THEN tr
  ELSE [tr EXCEPT !.contexts[Len(tr.contexts)] = Last(t.after).registers,
                  !.checksum = Last(t.after).checksum]

\* Mutant: the checksum of the round before is left, too.
EndsLeft(t) ==
  IF t.after # <<>> THEN {Last(t.after)}
  ELSE [registers : {Unwritten, Last(trace.contexts)}, checksum : {0, trace.checksum}]

\* What was left by the callback; if it was not called, registers nobody wrote, be it
\* those of the round before, and no checksum.
EndsSeen(t) ==
  IF t.after # <<>> THEN {Last(t.after)}
  ELSE [registers : {Unwritten, Last(trace.contexts)}, checksum : {0}]
fault_detected(ok, end) ==
  ~ok \/ end.registers # Last(trace.contexts) \/ end.checksum # trace.checksum

\* Run returns: AnalyzeSnippet goes on to the first fault, AnalyzeSnippetWithFaultInjection
\* to the next.  "disturbed" remembers that time or the emulator, not the snippet, decided.
Returned(t, ok, disturbed) ==
  LET n == Len(trace.info)
      Continue(skip, critical) ==
        /\ analysis' = [phase |-> IF skip <= n THEN "inject" ELSE "done",
                        skip |-> IF skip <= n THEN skip ELSE 0, critical |-> critical]
        /\ insn_tracer' = CreateTracer(job.type)
  IN  IF Capturing
      THEN IF ok /\ ~t.out_of_bounds THEN Continue(1, <<>>)
           ELSE analysis' = [analysis EXCEPT !.phase = "failed"] /\ insn_tracer' = t
      ELSE \E end \in EndsSeen(t) :
             Continue(analysis.skip + 1,
                      Append(analysis.critical, [critical |-> fault_detected(ok, end),
                                                 disturbed |-> disturbed]))

-----------------------------------------------------------------------------
(* NativeTracer *)

\* In the runner: a fault goes to its signal handler.
RunnerCpu(cpu) ==
  IF cpu.pc = Outside THEN [cpu EXCEPT !.pc = 1]
  ELSE IF Faults(cpu) THEN [cpu EXCEPT !.pc = Handler] ELSE NextCpu(cpu)

ShouldStopTracing(t) == t.state = "finished" \/ t.stop_requested \/ t.insn_limit_reached

\* The callback at an instruction, and then the instruction.
SingleStepStop ==
  /\ job.type = "native" /\ insn_tracer.state \in {"pretracing", "tracing"}
  /\ ~ShouldStopTracing(insn_tracer)
  /\ LET addr == insn_tracer.cpu.pc
         start == [insn_tracer EXCEPT !.state = IF addr = 1 THEN "tracing" ELSE @]
         counts == start.state = "tracing" /\ IsInsideCode(addr)
         num == start.num_instructions + 1
         within == counts /\ num <= job.limit
         before == IF within THEN BeforeInstruction([start EXCEPT !.num_instructions = num], addr)
                   ELSE [start EXCEPT !.insn_limit_reached = counts]
         leaves == /\ before.state = "tracing"
                   /\ ~IsInsideCode(before.cpu.pc) \/ before.stop_requested
         t == IF leaves THEN [AfterExecution(before) EXCEPT !.state = "finished"] ELSE before
         tr == IF within THEN WithInstruction(start, addr) ELSE trace
     IN  /\ trace' = WithLastContext(tr, t)
         /\ insn_tracer' = IF ShouldStopTracing(t) THEN t ELSE [t EXCEPT !.cpu = RunnerCpu(@)]
  /\ UNCHANGED <<job, analysis>>

\* Where a run gets to on its own.
RunOn(cpu) ==
  LET state[n \in 0..Fuel] ==
        IF n = 0 THEN cpu
        ELSE IF IsInsideCode(state[n - 1].pc) /\ ~Faults(state[n - 1])
             THEN NextCpu(state[n - 1]) ELSE state[n - 1]
  IN  state[Fuel]

\* How the runner ends, which has to play the snapshot to its recorded end.  Out of the
\* code it may come upon another one; and it may always be too slow.
PlaybackOutcomes(cpu) ==
  LET last == RunOn(cpu)
  IN  {"runaway"} \cup
      CASE last.pc = CodeEnd -> {IF last = Last(Reached(0)) THEN "as_expected" ELSE "mismatch"}
        [] last.pc = Handler \/ Faults(last) -> {"misbehave"}
        [] IsInsideCode(last.pc) /\ ~Faults(last) -> {}
        [] OTHER -> {"misbehave", "mismatch"}

RunnerEnds ==
  /\ job.type = "native" /\ ShouldStopTracing(insn_tracer)
  /\ analysis.phase \in {"capture", "inject"}
  /\ \E outcome \in PlaybackOutcomes(insn_tracer.cpu) :
       LET ok == \/ outcome = "mismatch"
                 \/ outcome = "as_expected" /\ ~insn_tracer.insn_limit_reached
       IN  Returned(insn_tracer, ok, outcome = "runaway")
  /\ UNCHANGED <<job, trace>>

-----------------------------------------------------------------------------
(* UnicornTracer *)

Emulated == job.type # "native" /\ analysis.phase \in {"capture", "inject"}

Stop(t) == [t EXCEPT !.stop_requested = TRUE]

\* HookCode: the emulator's own instruction pointer may be another one than the address.
HookCode(t, desync) ==
  LET address == t.cpu.pc
      hooked == IF desync THEN [Stop(t) EXCEPT !.desynced_pc = TRUE]
                ELSE IF t.num_instructions >= job.limit THEN Stop(t)
                ELSE IF ~t.stop_requested THEN BeforeInstruction(t, address)
                ELSE t
  IN  [hooked EXCEPT !.num_instructions = @ + 1]
Calls(t, desync) == ~desync /\ t.num_instructions < job.limit /\ ~t.stop_requested

\* The hook may have moved the instruction pointer.  After a stop, the emulator may end
\* at once or go on for a while.
EmulateInstruction ==
  /\ Emulated /\ insn_tracer.state = "running" /\ IsInsideCode(insn_tracer.cpu.pc)
  /\ insn_tracer.stop_requested => insn_tracer.overrun < MaxOverrun
  /\ \E desync \in BOOLEAN :
       LET t == HookCode(insn_tracer, desync)
           cpu == IF t.cpu # insn_tracer.cpu \/ Faults(t.cpu) THEN t.cpu ELSE NextCpu(t.cpu)
       IN  /\ trace' = IF Calls(insn_tracer, desync)
                       THEN WithInstruction(insn_tracer, insn_tracer.cpu.pc) ELSE trace
           /\ \E stops \in IF t.stop_requested THEN BOOLEAN ELSE {FALSE} :
                insn_tracer' = [t EXCEPT !.cpu = IF stops THEN @ ELSE cpu,
                                    !.overrun = IF t.stop_requested THEN @ + 1 ELSE @,
                                    !.state = IF stops \/ Faults(t.cpu) THEN "stopped" ELSE @]
  /\ UNCHANGED <<job, analysis>>

\* uc_emu_start returns: stopped, at the end of the code, out of it, or out of time.
EmulatorEnds ==
  /\ Emulated
  /\ \E timed_out \in BOOLEAN :
       /\ ~timed_out => insn_tracer.state = "stopped" \/ ~IsInsideCode(insn_tracer.cpu.pc)
       /\ LET t == AfterExecution(insn_tracer)
              err == t.cpu.pc = Outside \/ Faults(t.cpu)
              ok == /\ ~err /\ t.num_instructions <= job.limit /\ ~timed_out
                    /\ t.cpu.pc = CodeEnd /\ ~t.desynced_pc /\ ~Misaligned(t.cpu)
          IN  /\ trace' = WithLastContext(trace, t)
              /\ Returned(t, ok, timed_out \/ t.desynced_pc)
  /\ UNCHANGED job

-----------------------------------------------------------------------------
(* Statistics over a trace *)

Bits(context) == {b \in {0, 1} : (context.r \div 2^b) % 2 = 1}
BitDiff(a, b) == (Bits(a) \cup Bits(b)) \ (Bits(a) \cap Bits(b))

\* AccumulateToggle and AddOp, over the instructions in a set.
OpInfo(insns) ==
  [zero_one |-> UNION {Bits(trace.contexts[i + 1]) \ Bits(trace.contexts[i]) : i \in insns},
   one_zero |-> UNION {Bits(trace.contexts[i]) \ Bits(trace.contexts[i + 1]) : i \in insns},
   critical |-> Cardinality({i \in insns : analysis.critical[i].critical}),
   count |-> Cardinality(insns)]
GatherTraceOpInfo ==
  [op_infos |-> [op \in {info.insn : info \in Range(trace.info)} |->
                   OpInfo({i \in DOMAIN trace.info : trace.info[i].insn = op})],
   all_info |-> OpInfo(DOMAIN trace.info)]

-----------------------------------------------------------------------------
(* The specification *)

TracingInit ==
  /\ job \in [type : TracerTypes, snippet : Snippets, limit : Limits]
  /\ insn_tracer = CreateTracer(job.type) /\ trace = NewTrace
  /\ analysis = [phase |-> IF job.type = "native" /\ ~EndsWell(Reached(0)) THEN "failed"
                           ELSE "capture",
                 skip |-> 0, critical |-> <<>>]

TracingNext == SingleStepStop \/ RunnerEnds \/ EmulateInstruction \/ EmulatorEnds

TracingSpec == TracingInit /\ [][TracingNext]_tracingvars

-----------------------------------------------------------------------------
(* Properties *)

\* A trace that was captured is the run of the snippet, every instruction with the state
\* before it and the end, and stays within the limit.
TraceIsTheRun ==
  LET path == Reached(0)
      n == Len(path) - 1
  IN  /\ EndsWell(path) /\ n <= job.limit
      /\ trace.info = [i \in 1..n |-> [address |-> path[i].pc, insn |-> job.snippet[path[i].pc]]]
      /\ trace.contexts = [i \in 1..(n + 1) |-> Registers(path[i])]
      /\ trace.checksum = PartialChecksum(Last(path))

\* An instruction is critical exactly when the snippet without it ends in another state,
\* as far as registers and checksum show, or does not end within the limit (about which
\* the tracers differ by one); but time or the emulator can make any one look critical.
CriticalIsRight(i) ==
  LET path == Reached(i)
      found == analysis.critical[i]
      same == /\ EndsWell(path) /\ ~Misaligned(Last(path))
              /\ Registers(Last(path)) = Last(trace.contexts)
              /\ PartialChecksum(Last(path)) = trace.checksum
  IN  /\ ~found.critical => same /\ Len(path) - 2 <= job.limit
      /\ found.critical /\ ~found.disturbed => ~same \/ Len(path) - 1 > job.limit

\* What a tool reports of a trace is true of the snippet, whichever tracer steps through
\* it, stops it, runs out of time or loses its way.
TracesAreRight ==
  /\ analysis.phase \in {"inject", "done"} => TraceIsTheRun
  /\ \A i \in DOMAIN analysis.critical : CriticalIsRight(i)
  /\ analysis.phase = "done" =>
       LET all == GatherTraceOpInfo.all_info
           ops == Range(GatherTraceOpInfo.op_infos)
       IN  /\ BitDiff(Head(trace.contexts), Last(trace.contexts))
                \subseteq all.zero_one \cup all.one_zero
           /\ all.zero_one = UNION {op.zero_one : op \in ops}
           /\ all.count = Len(trace.contexts) - 1
=============================================================================
