----------------------------- MODULE Evolution -----------------------------
(***************************************************************************)
(* tools/sdc_mutator/: climbs that look for operands with which a short     *)
(* sequence of instructions toggles many bits or lets few flipped bits be   *)
(* masked (evolution_engine.py, ace_fraction_engine.py,                     *)
(* ace_workload_engine.py), the files of evolution_corpus_gen.py, and the   *)
(* evaluators of tools/sdc_pipeline/evaluators.py, which measure the same.  *)
(*                                                                         *)
(* Registers have a few bits; scores are in thousandths.                    *)
(***************************************************************************)
EXTENDS Integers, Sequences, SequencesExt, FiniteSets, FiniteSetsExt

CONSTANTS
  NumRegs, Width,     \* registers and their bits
  HalfWidth,          \* bits that one movz or movk sets, 16
  Codes,              \* sequences of instructions
  Templates,          \* those of them that files are made of: neither branches nor faults
  HighPower,          \* the sequence put in front by the crossover
  MaxCount,           \* instructions the emulator runs, 64
  PerturbedBit,       \* 31
  EntropyOf,          \* of a value, by the number of its ones
  BigDifference, BigRise,   \* of a mutation point: 10 bits of state, 4 toggles
  Probes,             \* flips in a measurement
  score_threshold,
  Starts,             \* registers to start from
  Iterations          \* of each climb

VARIABLE evo  \* the program: [tool, code, at, stage, regs, best, first, iteration, elite,
              \* file, metrics]

RegNums == 0..(NumRegs - 1)
Bits == 0..(Width - 1)
Values == 0..(2^Width - 1)
RegFiles == [RegNums -> Values]

IsSet(v, k) == (v \div 2^k) % 2 = 1
Ones(v) == {k \in Bits : IsSet(v, k)}
FromOnes(S) == CHOOSE v \in Values : Ones(v) = S
popcount(v) == Cardinality(Ones(v))
Xor(v, w) == FromOnes({k \in Bits : IsSet(v, k) # IsSet(w, k)})
Flip(regs, r, k) == [regs EXCEPT ![r] = Xor(@, 2^k)]

\* The bits in which two register files differ, of the registers in R.
Differing(R, x, y) == Cardinality({p \in R \X Bits : IsSet(x[p[1]], p[2]) # IsSet(y[p[1]], p[2])})

-----------------------------------------------------------------------------
(* The emulator *)

Wrap(n) == n % 2^Width
Result(i, x) ==
  CASE i.op = "add" -> Wrap(x[i.a] + x[i.b])
    [] i.op = "eor" -> Xor(x[i.a], x[i.b])
    [] i.op = "mul" -> Wrap(x[i.a] * x[i.b])
    [] i.op = "movz" -> Wrap(i.imm * 2^i.shift)
    [] i.op = "movk" -> FromOnes({k \in Bits : IF k \in i.shift..(i.shift + HalfWidth - 1)
                                                THEN IsSet(i.imm * 2^i.shift, k) ELSE IsSet(x[i.d], k)})

Stopped(code, m) == m.faulted \/ m.pc = Len(code)

\* A hook runs before each instruction, one that faults included.
Execute(code, m) ==
  LET i == code[m.pc + 1]
  IN  IF Stopped(code, m) THEN m
      ELSE CASE i.op = "cbz" -> [m EXCEPT !.pc = IF m.regs[i.a] = 0 THEN i.to ELSE @ + 1, !.hooked = @ + 1]
             [] i.op = "ldr" -> [m EXCEPT !.pc = IF m.regs[i.a] = 0 THEN @ + 1 ELSE @,
                                          !.faulted = m.regs[i.a] # 0, !.hooked = @ + 1]
             [] OTHER -> [m EXCEPT !.pc = @ + 1, !.regs[i.d] = Result(i, m.regs), !.hooked = @ + 1]

NoFlip == [insn |-> -1, reg |-> 0, bit |-> 0]

\* The states of a run of up to count instructions, with a bit flipped by the hook before
\* one of them.
States(code, regs, flip, count) ==
  LET Flipped(m, n) == IF n = flip.insn /\ ~Stopped(code, m)
                       THEN [m EXCEPT !.regs = Flip(@, flip.reg, flip.bit)] ELSE m
      state[n \in 0..count] ==
        IF n = 0 THEN [pc |-> 0, regs |-> regs, faulted |-> FALSE, hooked |-> 0]
        ELSE Execute(code, Flipped(state[n - 1], n - 1))
  IN  state
EndOf(code, regs, flip, count) == States(code, regs, flip, count)[count]

-----------------------------------------------------------------------------
(* EvolutionEngine *)

\* What run_once returns, for each sequence and registers.
RunOnce(code, regs) ==
  LET end == EndOf(code, regs, NoFlip, MaxCount)
      T == Differing(RegNums, regs, end.regs)
      entropy == EntropyOf[popcount(FoldSet(LAMBDA r, v : Xor(end.regs[r], v), 0, RegNums))]
  IN  [final |-> end.regs, T |-> T, M |-> end.pc,
       score |-> 1000 * T + 500 * end.pc + (800 * entropy) \div 1000]

Runs == [code \in Codes \union {HighPower \o c : c \in Codes} |-> [regs \in RegFiles |-> RunOnce(code, regs)]]
run_once(code, regs) == Runs[code][regs]

avalanche_test(code, regs, r, k) ==
  Differing(RegNums, run_once(code, regs).final, run_once(code, Flip(regs, r, k)).final)

Avalanche(code, regs) == MapThenSumSet(LAMBDA r : avalanche_test(code, regs, r, PerturbedBit), RegNums)

Toggle(code, regs) ==
  LET run == run_once(code, regs)
  IN  [T |-> run.T, score |-> run.score, avalanche |-> Avalanche(code, regs)]
ByScore(code, regs) == LET run == run_once(code, regs) IN [T |-> run.T, score |-> run.score]

\* Mutant: more toggles are enough.
ToggleRises(best, candidate) ==
  candidate.T > best.T \/ (candidate.T = best.T /\ candidate.score > best.score)

ToggleAccepts(best, candidate) ==
  /\ candidate.T > best.T \/ (candidate.T = best.T /\ candidate.score > best.score)
  /\ candidate.avalanche >= best.avalanche

\* One to four bits of one register; a bit may be flipped back.
FlippedUpTo(n, regs) ==
  {[regs EXCEPT ![r] = Xor(@, mask)] : r \in RegNums, mask \in {v \in Values : popcount(v) <= n}}

Boundary(regs) ==
  UNION {{[regs EXCEPT ![r] = Wrap(@ + 1)], [regs EXCEPT ![r] = Wrap(@ - 1 + 2^Width)],
          [regs EXCEPT ![r] = Wrap(@ * 2)], [regs EXCEPT ![r] = @ \div 2],
          [regs EXCEPT ![r] = 2^Width - 1 - @]} : r \in RegNums}

\* A small change of the operands that changes much.
MutationPoint(code, best, regs, candidate) ==
  \/ Differing(RegNums, run_once(code, regs).final, run_once(code, candidate).final) > BigDifference
  \/ run_once(code, candidate).T > best.T + BigRise

-----------------------------------------------------------------------------
(* The share of flipped bits that change the output *)

\* Flips of operands, and flips before an instruction; the last position of one
\* instruction is never reached.
OperandPoints == {[insn |-> 0, reg |-> r, bit |-> k] : r \in RegNums, k \in Bits}
Points(code) ==
  {[insn |-> n, reg |-> r, bit |-> k] : n \in 0..Max({1, Len(code) - 1}), r \in RegNums, k \in Bits}

run_with_midflip(code, regs, flip) ==
  EndOf(code, regs, flip, Max({MaxCount, 2 * Len(code)})).regs
FlippedOperand(code, regs, flip) == run_once(code, Flip(regs, flip.reg, flip.bit)).final

\* What a number of probes can count when some of the points are live.
Counts(points, live, n) ==
  {c \in 0..n : (c > 0 => live # {}) /\ (c < n => live # points)}
measure_ace_fraction(code, regs) ==
  Counts(OperandPoints,
         {p \in OperandPoints : FlippedOperand(code, regs, p) # run_once(code, regs).final}, Probes)

MidflipsThatShow ==
  [code \in Codes |-> [regs \in RegFiles |->
     {p \in Points(code) : run_with_midflip(code, regs, p) # run_once(code, regs).final}]]
measure_workload_ace(code, regs) == Counts(Points(code), MidflipsThatShow[code][regs], Probes)

\* The share and the entropy of x0, in thousandths.
AceScores(measured, weight, code, regs) ==
  {[ace |-> c, score |-> (c * 1000) \div Probes
                           + (weight * EntropyOf[popcount(run_once(code, regs).final[0])]) \div 1000] :
     c \in measured}

-----------------------------------------------------------------------------
(* The climbs *)

Stages(tool) ==
  CASE tool = "evolution_engine" -> <<"toggle", "boundary", "crossover">>
    [] tool = "evolution_corpus_gen" -> <<"toggle", "boundary">>
    [] tool = "ace_fraction" -> <<"ace_fraction">>
    [] tool = "ace_workload" -> <<"ace_workload">>

Stage == Stages(evo.tool)[evo.stage]

\* The crossover runs the sequence with another in front.
CodeOf(stage, code) == IF stage = "crossover" THEN HighPower \o code ELSE code

\* What a climb may find of some operands.
Measured(stage, code, regs) ==
  CASE stage = "toggle" -> {Toggle(code, regs)}
    [] stage = "boundary" -> {ByScore(code, regs)}
    [] stage = "crossover" -> {ByScore(HighPower \o code, regs)}
    [] stage = "ace_fraction" -> AceScores(measure_ace_fraction(code, regs), 500, code, regs)
    [] stage = "ace_workload" -> AceScores(measure_workload_ace(code, regs), 300, code, regs)

Candidates(stage, regs) ==
  CASE stage = "boundary" -> Boundary(regs)
    [] stage \in {"toggle", "crossover"} -> FlippedUpTo(4, regs)
    [] OTHER -> FlippedUpTo(3, regs)

Accepts(stage, best, candidate) ==
  CASE stage = "toggle" -> ToggleAccepts(best, candidate)
    [] stage = "crossover" -> candidate.T > best.T
    [] OTHER -> candidate.score > best.score

BeginStage ==
  /\ evo.at = "begin"
  /\ \E found \in Measured(Stage, evo.code, evo.regs) :
       evo' = [evo EXCEPT !.at = "climb", !.best = found, !.iteration = 0,
                          !.first = [regs |-> evo.regs, found |-> found]]

\* One iteration: a candidate next to the best so far, kept if it is better.
Climb ==
  /\ evo.at = "climb" /\ evo.iteration < Iterations
  /\ \E candidate \in Candidates(Stage, evo.regs) :
     \E found \in Measured(Stage, evo.code, candidate) :
       LET accepted == Accepts(Stage, evo.best, found)
           point == Stage = "boundary" /\ MutationPoint(evo.code, evo.best, evo.regs, candidate)
       IN  evo' = [evo EXCEPT !.iteration = @ + 1,
                              !.regs = IF accepted THEN candidate ELSE @,
                              !.best = IF accepted THEN found ELSE @,
                              !.elite = IF point THEN @ \union {[regs |-> candidate, T |-> found.T]} ELSE @]

ClimbReturns ==
  /\ evo.at = "climb" /\ evo.iteration = Iterations
  /\ evo' = [evo EXCEPT !.at = "returned"]

NextStage ==
  /\ evo.at = "returned" /\ evo.stage < Len(Stages(evo.tool))
  /\ evo' = [evo EXCEPT !.at = "begin", !.stage = @ + 1]

\* movz for the low half, movk for each other that is not 0.
LoadOperand(r, v) ==
  LET Half(h) == (v \div 2^(h * HalfWidth)) % 2^HalfWidth
      movk == [h \in 1..(Width \div HalfWidth - 1) |->
                 [op |-> "movk", d |-> r, shift |-> h * HalfWidth, imm |-> Half(h)]]
  IN  <<[op |-> "movz", d |-> r, shift |-> 0, imm |-> Half(0)]>>
        \o SelectSeq(movk, LAMBDA i : i.imm # 0)
build_bin_with_operands(code, regs) ==
  FlattenSeq([r \in 1..NumRegs |-> LoadOperand(r - 1, regs[r - 1])]) \o code

WriteFile ==
  /\ evo.at = "returned" /\ evo.tool = "evolution_corpus_gen" /\ evo.stage = 2
  /\ run_once(evo.code, evo.regs).score >= score_threshold
  /\ evo' = [evo EXCEPT !.at = "written", !.file = build_bin_with_operands(evo.code, evo.regs)]

-----------------------------------------------------------------------------
(* Evaluators: of a candidate that gives values to some registers, R *)

Started(R, x) == [r \in RegNums |-> IF r \in R THEN x[r] ELSE 0]
OnR(R, x, y) == \E r \in R : x[r] # y[r]

UnicornRunner(code, regs, flip) == EndOf(code, regs, flip, MaxCount)

\* Flips whose change shows in the registers observed; no value given means x0.
LivePoints(code, R, regs) ==
  LET observed == IF R = {} THEN {0} ELSE R
  IN  {p \in [insn : 0..(Len(code) - 1), reg : observed, bit : Bits] :
         OnR(observed, UnicornRunner(code, regs, p).regs, UnicornRunner(code, regs, NoFlip).regs)}

\* Bits that changed from one hook to the next, all registers together.
IbrToggles(code, regs) ==
  LET state == States(code, regs, NoFlip, MaxCount)
      hooks == {n \in 0..(MaxCount - 1) : ~Stopped(code, state[n])}
  IN  MapThenSumSet(LAMBDA n : Differing(RegNums, state[n].regs, state[Max({0, n - 1})].regs), hooks)

PowerToggles(code, regs) == Differing(RegNums, regs, UnicornRunner(code, regs, NoFlip).regs)

AvalancheOf(code, R, regs, r, k) ==
  Differing(R, UnicornRunner(code, regs, NoFlip).regs, UnicornRunner(code, Flip(regs, r, k), NoFlip).regs)

Evaluate ==
  /\ evo.at = "begin" /\ evo.tool = "evaluators"
  /\ \E R \in SUBSET RegNums :
       LET regs == Started(R, evo.regs)
       IN  evo' = [evo EXCEPT !.at = "evaluated", !.metrics =
                     [observed |-> R, regs |-> regs, live |-> LivePoints(evo.code, R, regs),
                      executed |-> UnicornRunner(evo.code, regs, NoFlip).hooked,
                      ibr |-> IbrToggles(evo.code, regs), power |-> PowerToggles(evo.code, regs),
                      avalanche |-> [p \in R \X Bits |-> AvalancheOf(evo.code, R, regs, p[1], p[2])]]]

EvoInit ==
  \E tool \in {"evolution_engine", "evolution_corpus_gen", "ace_fraction", "ace_workload", "evaluators"},
     code \in Codes, regs \in Starts :
    /\ tool = "evolution_corpus_gen" => code \in Templates
    /\ evo = [tool |-> tool, code |-> code, at |-> "begin", stage |-> 1, regs |-> regs, best |-> <<>>,
              first |-> <<>>, iteration |-> 0, elite |-> {}, file |-> <<>>, metrics |-> <<>>]

EvoNext ==
  \/ evo.tool # "evaluators" /\ (BeginStage \/ Climb \/ ClimbReturns \/ NextStage \/ WriteFile)
  \/ Evaluate

EvoSpec == EvoInit /\ [][EvoNext]_evo
-----------------------------------------------------------------------------
(* Properties *)

\* What a climb returns belongs to the registers it returns.  The climb by toggles gives
\* up neither toggles nor avalanche, and no score when every run executes all of the code,
\* since a toggle is worth more than any entropy; the others do not give up what they climb by.
ClimbsKeepTheBest ==
  evo.at \in {"climb", "returned", "written"} =>
    LET found == evo.best  first == evo.first.found
    IN  /\ found \in Measured(Stage, evo.code, evo.regs)
        /\ found = first => evo.regs = evo.first.regs
        /\ Stage \in {"toggle", "crossover"} => found.T >= first.T
        /\ Stage = "toggle" => found.avalanche >= first.avalanche
        /\ Stage # "crossover" => \/ found.score >= first.score
                                  \/ Stage = "toggle" /\ evo.code \notin Templates
        /\ \A e \in evo.elite : run_once(evo.code, e.regs).T = e.T

\* Whatever the registers hold, a file loads the operands it was written for and leads to
\* the same end.
FilesReproduce ==
  evo.at = "written" =>
    \A regs \in RegFiles :
      EndOf(evo.file, regs, NoFlip, Len(evo.file)).regs = run_once(evo.code, evo.regs).final

\* The evaluators agree: a flip before the first instruction shows exactly when the
\* avalanche of that operand's bit does, a flip shows only before an instruction that runs,
\* and more toggles from start to end than from instruction to instruction can only be the
\* last one's.
EvaluatorsAgree ==
  evo.at = "evaluated" =>
    LET m == evo.metrics
    IN  /\ \A r \in m.observed, k \in Bits :
             ([insn |-> 0, reg |-> r, bit |-> k] \in m.live) = (m.avalanche[<<r, k>>] > 0)
        /\ \A p \in m.live : p.insn < m.executed
        /\ m.power <= m.ibr + Width

EvolutionIsSound == ClimbsKeepTheBest /\ FilesReproduce /\ EvaluatorsAgree
-----------------------------------------------------------------------------
(***************************************************************************)
(* operand_mutator.py and csp_targeted_generator.py: from a template with  *)
(* marked lines, one file for each way to fill the lines after the marks   *)
(* with operands from the tables of their slots.                           *)
(***************************************************************************)
CONSTANTS
  Files,          \* templates: sequences of lines [kind, slot, reg]
  Slots,          \* of each tool: the labels of the operands for each slot
  MaxVariants     \* limits that may be given, 0 for none

VARIABLE variants \* [tool, lines, limit, at, written]

IsCode(line) == line.kind = "code"
LinesPerMark(tool) == IF tool = "operand_mutator" THEN 1 ELSE 2

\* Mutant: blank lines and comments are taken for code.
LinesAnyKind(tool, lines, i) ==
  {j \in (i + 1)..Len(lines) : j - i <= LinesPerMark(tool)}

\* The first lines of code after a mark.
LinesAfter(tool, lines, i) ==
  {j \in (i + 1)..Len(lines) :
     /\ IsCode(lines[j])
     /\ Cardinality({k \in (i + 1)..(j - 1) : IsCode(lines[k])}) < LinesPerMark(tool)}

\* The mutator takes integers for a slot it does not know; the generator skips the mark.
Table(tool, slot) ==
  IF slot \in DOMAIN Slots[tool] THEN Slots[tool][slot] ELSE Slots[tool]["int"]
Marked(tool, lines) ==
  {i \in DOMAIN lines : /\ lines[i].slot # "none"
                        /\ tool = "operand_mutator" \/ lines[i].slot \in DOMAIN Slots[tool]
                        /\ LinesAfter(tool, lines, i) # {}}

\* parse_template: the slots with their lines, from the top.
Muts(tool, lines) ==
  LET marks == SetToSortSeq(Marked(tool, lines), <)
  IN  [m \in DOMAIN marks |->
         [slot |-> lines[marks[m]].slot,
          ops |-> SetToSortSeq(LinesAfter(tool, lines, marks[m]), <)]]

\* itertools.product: the last table runs fastest.
Product(tables) ==
  FoldLeft(LAMBDA combos, t : FlattenSeq([c \in DOMAIN combos |->
             [k \in DOMAIN t |-> Append(combos[c], t[k])]]), << <<>> >>, tables)

First(s, n) == SubSeq(s, 1, Min({n, Len(s)}))

\* The mutator cuts the product off; the generator also cuts each table.
Combos(tool, lines, limit) ==
  LET muts == Muts(tool, lines)
      table(m) == Table(tool, muts[m].slot)
  IN  IF muts = <<>> THEN <<>>
      ELSE IF limit = 0 THEN Product([m \in DOMAIN muts |-> table(m)])
      ELSE IF tool = "operand_mutator" THEN First(Product([m \in DOMAIN muts |-> table(m)]), limit)
      ELSE First(Product([m \in DOMAIN muts |-> First(table(m), limit)]), limit)

\* The register of the line replaced, or a default.
RegOf(line, k) == IF line.reg # "none" THEN line.reg ELSE IF k = 1 THEN "x1" ELSE "x2"

\* The operand takes the place of the line, mark by mark: the last one stays.
Variant(tool, lines, combo) ==
  LET muts == Muts(tool, lines)
      Fill(text, m) ==
        [j \in DOMAIN text |->
           IF j \notin ToSet(muts[m].ops) THEN text[j]
           ELSE LET k == CHOOSE k \in DOMAIN muts[m].ops : muts[m].ops[k] = j
                IN  [kind |-> "operand", label |-> combo[m], part |-> k, reg |-> RegOf(lines[j], k)]]
  IN  FoldLeft(LAMBDA text, m : Fill(text, m), lines, [m \in DOMAIN muts |-> m])

VariantsInit ==
  \E tool \in DOMAIN Slots, lines \in Files, limit \in MaxVariants :
    variants = [tool |-> tool, lines |-> lines, limit |-> limit, at |-> "writing", written |-> <<>>]

WriteVariant ==
  LET v == variants
      combos == Combos(v.tool, v.lines, v.limit)
      n == Len(v.written) + 1
  IN  /\ v.at = "writing"
      /\ variants' =
           IF n > Len(combos) THEN [v EXCEPT !.at = "done"]
           ELSE [v EXCEPT !.written = Append(@, [name |-> combos[n],
                                                 text |-> Variant(v.tool, v.lines, combos[n])])]

VariantsSpec == VariantsInit /\ [][WriteVariant]_variants
-----------------------------------------------------------------------------
\* A file is the template with each line of code that is the first (or, for the generator,
\* second) after a mark replaced by the operand its name says for the last such mark, into
\* the register the line had; no two files have a name in common; and those written within
\* a limit are the first of those without one.
VariantsAreOperands ==
  LET v == variants
      marks == SetToSortSeq(Marked(v.tool, v.lines), <)
      CodeBetween(i, j) == {k \in (i + 1)..(j - 1) : v.lines[k].kind = "code"}
      Covering(j) == {m \in DOMAIN marks : /\ marks[m] < j /\ v.lines[j].kind = "code"
                                           /\ Cardinality(CodeBetween(marks[m], j)) < LinesPerMark(v.tool)}
      all == Combos(v.tool, v.lines, 0)
  IN  /\ \A f \in ToSet(v.written), j \in DOMAIN v.lines :
           IF Covering(j) = {} THEN f.text[j] = v.lines[j]
           ELSE /\ f.text[j].label = f.name[Max(Covering(j))]
                /\ v.lines[j].reg # "none" => f.text[j].reg = v.lines[j].reg
      /\ \A n \in DOMAIN v.written : v.written[n].name = all[n]
      /\ Cardinality({f.name : f \in ToSet(v.written)}) = Len(v.written)
      /\ v.at = "done" =>
           Len(v.written) = IF v.limit = 0 THEN Len(all) ELSE Min({v.limit, Len(all)})
=============================================================================
