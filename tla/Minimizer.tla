----------------------------- MODULE Minimizer -----------------------------
(***************************************************************************)
(* The snapshot minimizer: tools/minimizer/{engine,passes,insn,minimizer}.  *)
(* py.  A schedule of passes edits the code of one snapshot; an edit stays  *)
(* only when the remade snapshot passes on the good CPU and fails on the    *)
(* bad one.  Code is a sequence of bytes, a byte being its place in an      *)
(* instruction [kind, len, at]; it runs straight from the entry to its last *)
(* instruction, the exit, and the address of a byte is its index.  The      *)
(* instructions of an input are all different.                              *)
(***************************************************************************)
EXTENDS SequencesExt

CONSTANTS
  Inputs,               \* The snapshots to minimize: [arch, code].
  Schedules,            \* The --passes lists that may be given.
  MaxX86Nop,            \* The longest single NOP of x86_64 (11).
  ArmInsn,              \* The length of every AArch64 instruction (4).
  max_successes, max_consecutive_failures, max_iterations

NoCandidate == [addr |-> 0, len |-> 0, left |-> 0]
Insn(kind, len) == [j \in 1..len |-> [kind |-> kind, len |-> len, at |-> j - 1]]

\* _SINGLE_NOP_INSTRUCTIONS_BY_SIZE: the lengths of one NOP.
NopLens(arch) == IF arch = "x86_64" THEN 1..MaxX86Nop ELSE {ArmInsn}
MIN_NOP_LEN(arch) == IF arch = "x86_64" THEN 1 ELSE ArmInsn

\* nop_sequence_bytes raises when a length cannot be filled.
CanFill(arch, len) == arch = "x86_64" \/ len % ArmInsn = 0
nop_sequence_bytes(arch, len) ==
  FlattenSeq([j \in 1..(len \div MIN_NOP_LEN(arch)) |-> Insn("nop", MIN_NOP_LEN(arch))])

\* The instruction at an address; bytes cut out of their instruction are "bad".
InsnAt(code, a) ==
  LET b == code[a]
      whole == /\ b.at = 0 /\ a + b.len - 1 <= Len(code)
               /\ SubSeq(code, a, a + b.len - 1) = Insn(b.kind, b.len)
  IN IF whole THEN [addr |-> a, len |-> b.len, kind |-> b.kind]
     ELSE [addr |-> a, len |-> 1, kind |-> "bad"]
Disassembly(code, entry) ==
  LET from[a \in entry..(Len(code) + 1)] ==
        IF a > Len(code) THEN <<>>
        ELSE LET i == InsnAt(code, a) IN <<i>> \o from[a + i.len]
  IN from[entry]

\* trace_insns: the trace without the exit.
trace_insns(code, entry) == Front(Disassembly(code, entry))
is_nop(i) == i.kind = "nop"
is_simple_nop(arch, i) == is_nop(i) /\ (arch = "x86_64" => i.len = 1)

\* set_bytes, delete_bytes: the edits of a snapshot's bytes.
set_bytes(code, a, data) ==
  [j \in 1..Len(code) |-> IF j \in a..(a + Len(data) - 1) THEN data[j - a + 1] ELSE code[j]]
delete_bytes(code, a, len) == SubSeq(code, 1, a - 1) \o SubSeq(code, a + len, Len(code))

-----------------------------------------------------------------------------
\* What each pass takes from a trace: instructions to overwrite, ...
NopCandidates(insns) ==
  {[addr |-> i.addr, len |-> i.len, left |-> 0] : i \in {i \in ToSet(insns) : ~is_nop(i)}}

\* ... maximal runs of simple NOPs that fuse something, ...
FuseCandidates(arch, insns) ==
  LET simple == {i \in ToSet(insns) : is_simple_nop(arch, i)}
      starts == {i \in simple : \A j \in simple : j.addr + j.len # i.addr}
      RunLen(i) == CHOOSE n \in 1..Len(insns) * MaxX86Nop * ArmInsn :
        /\ \A k \in i.addr..(i.addr + n - 1) : \E j \in simple : k \in j.addr..(j.addr + j.len - 1)
        /\ \A j \in simple : j.addr # i.addr + n
  IN {c \in {[addr |-> i.addr, len |-> RunLen(i), left |-> 0] : i \in starts} :
        c.len > MIN_NOP_LEN(arch)}

\* ... an instruction with the NOP that follows it, ...
SwapCandidates(insns) ==
  {[addr |-> insns[k].addr, len |-> insns[k].len + insns[k + 1].len, left |-> insns[k].len] :
     k \in {k \in 1..(Len(insns) - 1) :
              /\ ~is_nop(insns[k]) /\ is_nop(insns[k + 1])
              /\ insns[k].addr + insns[k].len = insns[k + 1].addr}}

\* ... and NOPs to take out.
OmitCandidates(insns) ==
  {[addr |-> i.addr, len |-> i.len, left |-> 0] : i \in {i \in ToSet(insns) : is_nop(i)}}

Candidates(pass, arch, insns) ==
  CASE pass = "NOP" -> NopCandidates(insns)
    [] pass = "FUSE" -> FuseCandidates(arch, insns)
    [] pass = "SWAP" -> SwapCandidates(insns)
    [] pass = "OMIT" -> OmitCandidates(insns)

\* The edits one candidate tries, one after the other until one is kept.
Edits(pass, arch, code, c) ==
  CASE pass = "NOP" ->
         {set_bytes(code, c.addr, nop_sequence_bytes(arch, l)) : l \in {l \in {c.len} : CanFill(arch, l)}}
    [] pass = "FUSE" ->
         {set_bytes(code, c.addr, Insn("nop", l)) :
            l \in {l \in NopLens(arch) : l > MIN_NOP_LEN(arch) /\ l <= c.len}}
    [] pass = "SWAP" ->
         {set_bytes(code, c.addr,
                    SubSeq(code, c.addr + c.left, c.addr + c.len - 1)
                      \o SubSeq(code, c.addr, c.addr + c.left - 1))}
    [] pass = "OMIT" -> {delete_bytes(code, c.addr, c.len)}

\* A mutant: the rest of an OMIT round goes on with addresses traced before the deletion.
NeverStale(pass) == FALSE

\* After an edit of this pass the rest of the round's candidates are stale.
mutation_invalidates_candidates(pass) == pass = "OMIT"

-----------------------------------------------------------------------------
VARIABLES
  active,     \* The active snapshot: [arch, code, entry].
  input,      \* The snapshot the tool was given.
  sched,      \* The passes still to run, the current one first.
  phase,      \* "load", "round", "candidates", "saved".
  round,      \* outer_iter
  todo,       \* The candidates of the round not yet tried.
  counts,     \* [success, failures, modified]
  played      \* What the two CPUs said of the code last played: [good, bad].

minvars == <<active, input, sched, phase, round, todo, counts, played>>

NoCounts == [success |-> 0, failures |-> 0, modified |-> FALSE]
NotPlayed == [good |-> "none", bad |-> "none"]
NoSnapshot == [arch |-> "x86_64", code |-> <<>>, entry |-> 1]

MinInit == /\ active = NoSnapshot /\ input = NoSnapshot /\ sched = <<>>
           /\ phase = "load" /\ round = 0 /\ todo = {}
           /\ counts = NoCounts /\ played = NotPlayed

\* execute_runner: the snapshot passes, fails, or the runner does something else.
RunResults == {"as_expected", "failed", "error"}

\* try_modify of an edited code: snap_tool may fail; the good CPU plays first, and
\* both must answer; only a pass on the good and a failure on the bad are kept.
Reproduces(good, bad) == good = "as_expected" /\ bad = "failed"
try_modify(code, entry) ==
  \E good, bad \in RunResults :
    /\ Reproduces(good, bad)
    /\ active' = [active EXCEPT !.code = code, !.entry = entry]
    /\ played' = [good |-> good, bad |-> bad]
try_fails == UNCHANGED <<active, played>>

MinLoad ==
  /\ phase = "load"
  /\ \E i \in Inputs, s \in Schedules :
       /\ active' = [arch |-> i.arch, code |-> i.code, entry |-> 1]
       /\ input' = active'
       /\ sched' = s
  /\ phase' = "round"
  /\ UNCHANGED <<round, todo, counts, played>>

\* A mutant: the pass that ended is the next one again.
SamePass == /\ sched' = sched /\ phase' = "round" /\ round' = 0
            /\ todo' = {} /\ counts' = NoCounts

\* A pass that ended: the next one of the schedule starts afresh.
EndPass == /\ sched' = Tail(sched) /\ phase' = "round" /\ round' = 0
           /\ todo' = {} /\ counts' = NoCounts

Iterative == sched # <<>> /\ Head(sched) # "ELIDE"

\* The head of the loop over rounds: trace, and collect the candidates.
StartRound ==
  /\ phase = "round" /\ Iterative
  /\ LET cs == Candidates(Head(sched), active.arch, trace_insns(active.code, active.entry))
     IN \/ (round = max_iterations \/ cs = {}) /\ EndPass
        \/ /\ round < max_iterations /\ cs # {}
           /\ phase' = "candidates" /\ todo' = cs
           /\ counts' = [counts EXCEPT !.modified = FALSE]
           /\ UNCHANGED <<sched, round>>
  /\ UNCHANGED <<active, input, played>>

\* snap_tool trace failed: the pass is over.
TraceFails == /\ phase = "round" /\ Iterative /\ round < max_iterations
              /\ EndPass /\ UNCHANGED <<active, input, played>>

\* The candidates left, unless the budget is used up or an edit made them stale.
InBudget == counts.success < max_successes /\ counts.failures < max_consecutive_failures
RoundGoesOn == /\ todo # {} /\ InBudget
               /\ ~(counts.modified /\ mutation_invalidates_candidates(Head(sched)))

\* The order of the candidates: any, or that of the addresses for OMIT.
NextCandidates == IF Head(sched) = "OMIT"
                    THEN {c \in todo : \A d \in todo : c.addr <= d.addr} ELSE todo

CandidateKept ==
  /\ phase = "candidates" /\ RoundGoesOn
  /\ \E c \in NextCandidates :
       /\ \E code \in Edits(Head(sched), active.arch, active.code, c) :
            try_modify(code, active.entry)
       /\ todo' = todo \ {c}
  /\ counts' = [success |-> counts.success + 1, failures |-> 0, modified |-> TRUE]
  /\ UNCHANGED <<input, sched, phase, round>>

CandidateRejected ==
  /\ phase = "candidates" /\ RoundGoesOn
  /\ \E c \in NextCandidates : todo' = todo \ {c}
  /\ counts' = [counts EXCEPT !.failures = @ + 1]
  /\ try_fails
  /\ UNCHANGED <<input, sched, phase, round>>

EndRound ==
  /\ phase = "candidates" /\ ~RoundGoesOn
  /\ \/ (~InBudget \/ ~counts.modified) /\ EndPass
     \/ /\ InBudget /\ counts.modified
        /\ phase' = "round" /\ round' = round + 1 /\ todo' = {}
        /\ UNCHANGED <<sched, counts>>
  /\ UNCHANGED <<active, input, played>>

\* elide_pass: one attempt to enter at the first instruction that is no NOP.
Elide ==
  /\ phase = "round" /\ sched # <<>> /\ Head(sched) = "ELIDE"
  /\ LET effective == SelectSeq(trace_insns(active.code, active.entry), LAMBDA i : ~is_nop(i))
     IN \/ /\ effective # <<>> /\ effective[1].addr # active.entry
           /\ try_modify(active.code, effective[1].addr)
        \/ try_fails
  /\ EndPass
  /\ UNCHANGED input

MinSave == /\ phase = "round" /\ sched = <<>>
           /\ phase' = "saved"
           /\ UNCHANGED <<active, input, sched, round, todo, counts, played>>

MinNext ==
  \/ MinLoad \/ StartRound \/ TraceFails \/ CandidateKept \/ CandidateRejected
  \/ EndRound \/ Elide \/ MinSave
  \/ phase = "saved" /\ UNCHANGED minvars

\* The tool is one thread that runs to its end.
MinFairness == WF_minvars(MinNext)
MinSpec == MinInit /\ [][MinNext]_minvars /\ MinFairness

-----------------------------------------------------------------------------
Effective(code, entry) ==
  LET kept == SelectSeq(Disassembly(code, entry), LAMBDA i : ~is_nop(i))
  IN [k \in 1..Len(kept) |-> kept[k].kind]

\* A minimized program is the given one with instructions left out: the passes
\* never invent, cut or reorder an instruction, whatever addresses they hold on to.
OnlyLeavesOut ==
  LET now == Effective(active.code, active.entry)
  IN now = SelectSeq(Effective(input.code, 1), LAMBDA k : k \in ToSet(now))

\* A snapshot that differs from the input was played: it passed on the good CPU and
\* failed on the bad one.
OutputReproduces ==
  (active.code # input.code \/ active.entry # input.entry)
     => played.good = "as_expected" /\ played.bad = "failed"

\* What the minimizer writes is the given program with instructions left out, and it
\* was seen to fail on the bad CPU only.
OutputIsSound == OnlyLeavesOut /\ OutputReproduces

\* With the unlimited default budgets the schedule still comes to an end: no pass
\* can undo its own edits for ever.
MinimizerEnds == phase # "load" ~> phase = "saved"
=============================================================================
