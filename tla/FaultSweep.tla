----------------------------- MODULE FaultSweep -----------------------------
(***************************************************************************)
(* Fault injection with gem5: a program is run once as it is, which gives   *)
(* its golden output, then with one fault per run, and how often the output *)
(* differs is its rate.  The sweeps of scripts/ and sim_sweep.py have their *)
(* golden outputs in a table; Gem5Validator, sdcbench_eval.py and           *)
(* gem5_ace_hillclimb.py make them.                                         *)
(*                                                                         *)
(* One machine stands for all: items (the runs of a sweep, the candidates,  *)
(* entries or steps of the others), each of which is a golden run, if the   *)
(* tool makes one, and some injections.  What the clock of an injection     *)
(* does to the program is drawn before anything runs.  A run may go wrong:  *)
(* it is killed after its result is written ("late") or before ("hung"),    *)
(* gem5 dies before it opens its output ("dead"), or the program of a       *)
(* golden run cannot be built ("broken").                                   *)
(***************************************************************************)
EXTENDS Integers, Sequences, FiniteSets

CONSTANTS Scripts,   \* the tools, of those below
          MAX_JOBS,  \* gem5 processes at a time that the machine bears
          MaxItems, MaxEntries, \* bounds: of a sweep or climb, of a campaign or report
          Injections,           \* bound: into a program with a golden output of its own
          MaxTrouble            \* bound: runs that go wrong

VARIABLES order,   \* what is asked for: the script, jobs, the programs, the effects
          items,   \* how far each item is
          output,  \* what gem5 has left in the output directories
          goldens, \* Gem5Validator._goldens
          climbed, \* the best item of the hill climb, its divergences, the golden it returns
          verdict  \* what the script reported

sweepvars == <<order, items, output, goldens, climbed, verdict>>

-----------------------------------------------------------------------------
(* The tools, by what they differ in. *)

\* A table of golden outputs; one run at a time, and no output if it times out; a total
\* of zero is divided by.
Plain == [goldens |-> "table", jobs |-> {1}, timeout |-> "no_output",
          diverging |-> {"clean_diverge"}, empty |-> "raises"]

gem5_sweep_ab_csp == Plain
gem5_sweep_ab_random == Plain
gem5_sweep_multibit == Plain
d6_sweep == Plain
d9_sweep == Plain
d10_sweep == Plain
d11_sweep == Plain
d12_sweep == Plain
d13_sweep == Plain
gem5_sweep_abcd == [Plain EXCEPT !.empty = "is_reported"]
gem5_sweep_structural_abc == gem5_sweep_abcd
gem5_sweep_sdc_probe ==
  [Plain EXCEPT !.timeout = "raises", !.diverging = {"clean_diverge", "exit_diverge"}]

\* A run that times out or leaves nothing is not counted.
gem5_ace_scanner == [Plain EXCEPT !.timeout = "skipped", !.empty = "is_reported"]

\* What was written before a timeout is read; several processes.
sim_sweep == [Plain EXCEPT !.timeout = "read", !.empty = "is_reported", !.jobs = 0..(MAX_JOBS + 1)]

\* The campaigns over Gem5Validator; e8v2 takes the minimum of what it counted.
e7_evolve_vs_random ==
  [Plain EXCEPT !.goldens = "registered", !.timeout = "read", !.empty = "is_reported"]
e8_power_sdc == e7_evolve_vs_random
e8v2_power_sdc == [e7_evolve_vs_random EXCEPT !.empty = "raises"]

\* Entries in threads, as many as one likes.
sdcbench_eval ==
  [Plain EXCEPT !.goldens = "own", !.empty = "is_reported", !.jobs = 1..(MAX_JOBS + 1)]

gem5_ace_hillclimb == [Plain EXCEPT !.goldens = "climb", !.empty = "is_reported"]

AllScripts ==
  {gem5_sweep_ab_csp, gem5_sweep_ab_random, gem5_sweep_multibit, gem5_sweep_abcd,
   gem5_sweep_structural_abc, gem5_sweep_sdc_probe, d6_sweep, d9_sweep, d10_sweep, d11_sweep,
   d12_sweep, d13_sweep, gem5_ace_scanner, sim_sweep, e7_evolve_vs_random, e8_power_sdc,
   e8v2_power_sdc, sdcbench_eval, gem5_ace_hillclimb}

ASSUME SweepAssumption ==
  /\ {MAX_JOBS, Injections} \subseteq Nat \ {0} /\ MaxItems \in Nat
  /\ Scripts \subseteq AllScripts

-----------------------------------------------------------------------------
Tool == order.tool
Total == Len(items)
MakesGoldens == Tool.goldens # "table"
Limited == Tool.goldens = "table"
Shots == IF MakesGoldens THEN Injections ELSE 1

\* A line "SUM=...": of which program, run how.
NoLine == <<>>
Line(prog, effect) == <<prog, effect>>
GoldenLine(prog) == Line(prog, "masked")
Nothing == [line |-> NoLine, whole |-> FALSE, injected |-> FALSE]

GoldenDir(i) ==
  CASE Tool.goldens = "registered" -> <<"golden", order.programs[i], 0>>
    [] Tool.goldens = "climb" -> <<"golden", i, 0>>
    [] OTHER -> <<"run", i, 0>>

\* Mutant: the runs of a sweep write to the same directory.
OneRunDir(i, k) == <<"run", 0, k>>

RunDir(i, k) ==
  CASE Tool.goldens = "registered" -> <<"inject", order.programs[i], k>>
    [] Tool.goldens = "climb" -> <<"probe", 0, k>>
    [] OTHER -> <<"run", i, k>>

Dir(i) == IF items[i].step = 0 THEN GoldenDir(i) ELSE RunDir(i, items[i].step)
Dirs == {"golden", "inject", "probe", "run"} \X (0..MaxItems) \X (0..Injections)

classify_output(line, golden) ==
  IF line = NoLine THEN "no_output"
  ELSE IF line = golden THEN "masked"
  ELSE IF line[2] = "exit_diverge" THEN "exit_diverge"
  ELSE "clean_diverge"

\* sdcbench_eval looks for a line that is a checksum, and for the log of the injection.
ClassifyChecksum(seen, golden) ==
  IF ~seen.injected THEN "noinj"
  ELSE IF seen.line # NoLine /\ seen.line[2] = "exit_diverge" THEN "no_output"
  ELSE classify_output(seen.line, golden)

-----------------------------------------------------------------------------
Going == verdict.status = "running"
Busy == {i \in 1..Total : items[i].phase \in {"ready", "running", "ended"}}
Troubled == {t \in (1..Total) \X (0..Injections) : items[t[1]].trouble[t[2]] # "fine"}

\* A number of jobs out of the limits is refused.
RefuseJobs ==
  /\ Going /\ Limited /\ order.jobs \notin 1..MAX_JOBS
  /\ verdict' = [verdict EXCEPT !.status = "refused"]
  /\ UNCHANGED <<order, items, output, goldens, climbed>>

\* The next item in order, if a worker is free. A golden output that is registered is
\* not made again.
Begin ==
  /\ Going /\ (Limited => order.jobs \in 1..MAX_JOBS)
  /\ Cardinality(Busy) < order.jobs
  /\ \E i \in 1..Total :
       /\ items[i].phase = "queued" /\ \A j \in 1..(i - 1) : items[j].phase # "queued"
       /\ LET known == CASE Tool.goldens = "table" -> GoldenLine(order.programs[i])
                         [] Tool.goldens = "registered" -> goldens[order.programs[i]]
                         [] OTHER -> NoLine
          IN  items' = [items EXCEPT ![i].phase = "ready", ![i].golden = known,
                                     ![i].step = IF known = NoLine THEN 0 ELSE 1]
  /\ UNCHANGED <<order, output, goldens, climbed, verdict>>

\* The directory of an injection is new. The golden ones of a validator and of the climb
\* may be those of an earlier invocation.
Launch(i) ==
  /\ Going /\ items[i].phase = "ready"
  /\ items' = [items EXCEPT ![i].phase = "running"]
  /\ output' = IF items[i].step = 0 /\ Tool.goldens # "own" THEN output
               ELSE [output EXCEPT ![Dir(i)] = Nothing]
  /\ UNCHANGED <<order, goldens, climbed, verdict>>

\* gem5 runs and begins its file anew, or does not.
Gem5Runs(i) ==
  /\ Going /\ items[i].phase = "running"
  /\ \E trouble \in {"fine", "late", "hung", "dead"} \union (IF items[i].step = 0 THEN {"broken"} ELSE {}) :
       LET prog == order.programs[i]
           effect == IF items[i].step = 0 THEN "masked" ELSE order.effects[i][items[i].step]
           line == IF effect = "no_output" \/ trouble = "hung" THEN NoLine
                   ELSE IF effect = "not_injected" THEN GoldenLine(prog)
                   ELSE Line(prog, effect)
       IN  /\ trouble # "fine" => Cardinality(Troubled) < MaxTrouble
           /\ items' = [items EXCEPT ![i].phase = "ended", ![i].trouble[items[i].step] = trouble]
           /\ output' = IF trouble \in {"dead", "broken"} THEN output
                        ELSE [output EXCEPT ![Dir(i)] =
                               [line |-> line, whole |-> trouble = "fine",
                                injected |-> items[i].step > 0 /\ effect # "not_injected"]]
  /\ UNCHANGED <<order, goldens, climbed, verdict>>

-----------------------------------------------------------------------------
Trouble(i) == items[i].trouble[items[i].step]
TimedOut(i) == Trouble(i) \in {"late", "hung"}

\* A timeout that nobody catches.
Raise(i) ==
  /\ Going /\ items[i].phase = "ended" /\ TimedOut(i)
  /\ IF items[i].step = 0 THEN Tool.goldens = "climb" ELSE Tool.timeout = "raises"
  /\ verdict' = [verdict EXCEPT !.status = "raised"]
  /\ UNCHANGED <<order, items, output, goldens, climbed>>

\* parse_golden wants the line of the exit too, run_gem5 the cycles; get_golden does not,
\* and takes what an earlier invocation has left.
GoldenSeen(i) ==
  IF Trouble(i) # "broken" /\ (Tool.goldens = "climb" \/ output[Dir(i)].whole)
  THEN output[Dir(i)].line
  ELSE NoLine

\* Without golden output there is nothing to compare with: the item is left out, or, as
\* the first of a climb, ends it.
TakeGolden(i) ==
  /\ Going /\ items[i].phase = "ended" /\ items[i].step = 0
  /\ ~(Tool.goldens = "climb" /\ TimedOut(i))
  /\ LET golden == GoldenSeen(i)
     IN  /\ items' = IF golden = NoLine THEN [items EXCEPT ![i].phase = "failed"]
                     ELSE [items EXCEPT ![i].phase = "ready", ![i].step = 1, ![i].golden = golden]
         /\ goldens' = IF Tool.goldens = "registered" /\ golden # NoLine
                       THEN [goldens EXCEPT ![order.programs[i]] = golden] ELSE goldens
         /\ verdict' = IF Tool.goldens = "climb" /\ i = 1 /\ golden = NoLine
                       THEN [verdict EXCEPT !.status = "none"] ELSE verdict
         /\ climbed' = IF Tool.goldens = "climb" /\ i = 1 THEN [climbed EXCEPT !.golden = golden]
                       ELSE climbed
  /\ UNCHANGED <<order, output>>

ClassOf(i) ==
  IF TimedOut(i) /\ Tool.timeout # "read" THEN Tool.timeout
  ELSE IF Trouble(i) = "dead" /\ Tool.timeout = "skipped" THEN "skipped"
  ELSE IF Tool.goldens = "own" THEN ClassifyChecksum(output[Dir(i)], items[i].golden)
  ELSE classify_output(output[Dir(i)].line, items[i].golden)

Diverging(got) == Cardinality({k \in DOMAIN got : got[k] \in Tool.diverging})
CountedOf(got) == Cardinality({k \in DOMAIN got : got[k] \notin {"skipped", "noinj"}})

\* The class is counted; at the end of a step of the climb, more divergences win.
TakeRun(i) ==
  /\ Going /\ items[i].phase = "ended" /\ items[i].step > 0
  /\ ~(TimedOut(i) /\ Tool.timeout = "raises")
  /\ LET got == Append(items[i].got, ClassOf(i))
         over == items[i].step = Shots
     IN  /\ items' = [items EXCEPT ![i].got = got,
                        ![i].phase = IF over THEN "done" ELSE "ready",
                        ![i].step = IF over THEN @ ELSE @ + 1]
         /\ climbed' = IF Tool.goldens = "climb" /\ over /\ Diverging(got) > climbed.best
                       THEN [climbed EXCEPT !.item = i, !.best = Diverging(got)] ELSE climbed
  /\ UNCHANGED <<order, output, goldens, verdict>>

SumOf(counts) ==
  LET sum[i \in 0..Len(counts)] == IF i = 0 THEN 0 ELSE sum[i - 1] + counts[i]
  IN  sum[Len(counts)]

\* The totals of a sweep, an arm or a report.
ReportTotals ==
  /\ Going /\ \A i \in 1..Total : items[i].phase \in {"done", "failed"}
  /\ Limited => order.jobs \in 1..MAX_JOBS
  /\ LET n == SumOf([i \in 1..Total |-> CountedOf(items[i].got)])
     IN  verdict' = IF n = 0 /\ Tool.empty = "raises" THEN [verdict EXCEPT !.status = "raised"]
                    ELSE [verdict EXCEPT
                            !.status = "reported", !.n = n,
                            !.diverging = SumOf([i \in 1..Total |-> Diverging(items[i].got)])]
  /\ UNCHANGED <<order, items, output, goldens, climbed>>

\* sdcbench_select: entries whose rate is 7/8 or more. The result of one that failed has
\* no id, which is looked up before its status.
Selected(i) ==
  items[i].phase = "done" /\ CountedOf(items[i].got) > 0
    /\ Diverging(items[i].got) * 8 >= CountedOf(items[i].got) * 7
Select ==
  /\ verdict.status = "reported" /\ Tool.goldens = "own"
  /\ verdict' = IF \E i \in 1..Total : items[i].phase = "failed"
                THEN [verdict EXCEPT !.status = "raised"]
                ELSE [verdict EXCEPT !.status = "selected",
                                     !.selected = {i \in 1..Total : Selected(i)}]
  /\ UNCHANGED <<order, items, output, goldens, climbed>>

-----------------------------------------------------------------------------
Effects == {"masked", "clean_diverge", "exit_diverge", "no_output"}
EffectsOn(tool) == IF tool.goldens = "own" THEN Effects \union {"not_injected"} ELSE Effects

\* A campaign may come to the same program again.
ProgramsOf(tool, n) ==
  CASE tool.goldens = "table" -> {[i \in 1..n |-> 1]}
    [] tool.goldens = "registered" -> {[i \in 1..n |-> 1], [i \in 1..n |-> i]}
    [] OTHER -> {[i \in 1..n |-> i]}

\* Earlier invocations have registered the same programs, and climbed by others.
Earlier(tool) ==
  [d \in Dirs |->
     IF d[1] = "golden" /\ d[2] > 0 /\ d[3] = 0 /\ tool.goldens \in {"registered", "climb"}
     THEN [line |-> GoldenLine(IF tool.goldens = "climb" THEN 0 ELSE d[2]),
           whole |-> TRUE, injected |-> FALSE]
     ELSE Nothing]

SweepInit ==
  /\ \E tool \in Scripts, n \in 0..MaxItems :
       /\ tool.goldens = "climb" => n > 0
       /\ tool.goldens \in {"registered", "own"} => n <= MaxEntries
       /\ order \in [tool : {tool}, jobs : tool.jobs, programs : ProgramsOf(tool, n),
                     effects : [1..n -> [1..(IF tool.goldens = "table" THEN 1 ELSE Injections)
                                           -> EffectsOn(tool)]]]
       /\ items = [i \in 1..n |-> [phase |-> "queued", step |-> 0, golden |-> NoLine, got |-> <<>>,
                                   trouble |-> [k \in 0..Injections |-> "fine"]]]
       /\ output \in {[d \in Dirs |-> Nothing], Earlier(tool)}
  /\ goldens = [prog \in 1..MaxItems |-> NoLine]
  /\ climbed = [item |-> 0, best |-> -1, golden |-> NoLine]
  /\ verdict = [status |-> "running", n |-> 0, diverging |-> 0, selected |-> {}]

SweepNext ==
  \/ RefuseJobs \/ Begin \/ ReportTotals \/ Select
  \/ \E i \in 1..Total : Launch(i) \/ Gem5Runs(i) \/ Raise(i) \/ TakeGolden(i) \/ TakeRun(i)

SweepSpec == SweepInit /\ [][SweepNext]_sweepvars
-----------------------------------------------------------------------------
\* Golden outputs of other programs: only the climb takes one.
Stale(i) == Tool.goldens = "climb" /\ items[i].trouble[0] = "dead"

Own(i, k) ==
  LET effect == order.effects[i][k]
  IN  CASE effect = "not_injected" -> "noinj"
        [] effect = "exit_diverge" /\ Tool.goldens = "own" -> "no_output"
        [] OTHER -> effect

Injected == {r \in (1..Total) \X (1..Injections) : r[2] <= Len(items[r[1]].got)}
Fine(r) == items[r[1]].trouble[r[2]] = "fine"
OwnDiverging == {r \in Injected : Own(r[1], r[2]) \in Tool.diverging}

\* Whatever runs beside it or went before, a run is classified by its own fault, or as one
\* that says nothing if it was disturbed; what is reported counts each run once; no more
\* gem5 processes run than the machine bears, where the script promises it; the selection
\* is of entries that diverged; and the climb keeps the best of what it measured.
SweepIsSound ==
  /\ \A r \in Injected :
       LET got == items[r[1]].got[r[2]]
       IN  IF Fine(r) THEN got = Own(r[1], r[2]) \/ Stale(r[1])
           ELSE got \in Tool.diverging =>
                  Stale(r[1]) \/ (Tool.timeout = "read" /\ got = Own(r[1], r[2]))
  /\ Cardinality(Busy) <= order.jobs
  /\ Tool.goldens # "own" => Cardinality(Busy) <= MAX_JOBS
  /\ verdict.status \in {"reported", "selected"} =>
       /\ Troubled = {} => /\ verdict.diverging = Cardinality(OwnDiverging)
                           /\ Cardinality(Injected) = Total * Shots
       /\ verdict.n <= Cardinality(Injected) /\ verdict.diverging <= verdict.n
       /\ Tool.goldens = "climb" =>
            \A i \in 1..Total : items[i].phase = "done" =>
              Diverging(items[i].got) <= climbed.best
                /\ (i < climbed.item => Diverging(items[i].got) < climbed.best)
  /\ \A i \in verdict.selected :
       items[i].golden = GoldenLine(order.programs[i])
         /\ \E k \in 1..Injections : Own(i, k) \in Tool.diverging
=============================================================================
