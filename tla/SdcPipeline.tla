---------------------------- MODULE SdcPipeline ----------------------------
(***************************************************************************)
(* The evolution loop of tools/sdc_pipeline: pipeline.py (generate, assess, *)
(* filter, validate, feed back) over the vault of vault.py, two append-only *)
(* JSONL files with an index in memory.  A candidate is named by its        *)
(* content, so mutations may meet.  A process may be killed at any step, an *)
(* append included, and started again over the same directory.              *)
(***************************************************************************)
EXTENDS SequencesExt, Integers

CONSTANTS
  Contents,     \* What candidates can be: the idents.
  Loads,        \* The contents with a load instruction in them.
  SeedList,     \* The seeds: a sequence of candidates.
  Mutators,     \* A sequence of them.
  Tagging,      \* Mutators that inject a load block and tag the child (fs001).
  Suffixed,     \* Mutators that add their strategy to the origin of a child.
  Scores,       \* The metric of an assessment.
  Settings,     \* Of a run: [policy, filt, generations], where policy "hill_climb"
                \* applies all mutators and "bandit" one of them.
  PerGenMutations, TopK, ValidateTopK,
  MaxListed,    \* How many of the vault's best are looked at for final_top (20) ...
  MaxFinal,     \* ... and its length (5).
  MaxKills      \* A bound on how often the process is killed.

None == "none"

\* The origin of a child: its mutator, and for some of them the strategy.
Mutated(m) == IF m \in Suffixed THEN <<"mutate", m, "strategy">> ELSE <<"mutate", m>>
Names == ToSet(Mutators)
Origins == {c.origin : c \in ToSet(SeedList)} \union {Mutated(m) : m \in Names}
Cands == [ident : Contents, parent : Contents \union {None}, origin : Origins, fs001 : BOOLEAN]

ASSUME PipelineAssumption ==
  /\ SeedList \in Seq(Cands) /\ \A c \in ToSet(SeedList) : c.parent = None
  /\ Mutators \in Seq(Names) /\ Loads \subseteq Contents /\ Scores \subseteq Int
  /\ Settings \subseteq [policy : {"hill_climb", "bandit"}, filt : {"weighted", "pareto", "random"},
                         generations : Nat]
  /\ PerGenMutations \in Nat /\ TopK \in Nat /\ ValidateTopK \in Nat
  /\ MaxListed \in Nat /\ MaxFinal \in Nat

Idents(recs) == {r.ident : r \in ToSet(recs)}

\* A JSONL file: the lines that parse, and how it ends: after a newline, in a whole
\* line without one ("open"), or with text that does not parse somewhere ("bad").
EmptyFile == [lines |-> <<>>, end |-> "newline"]
Appended(file, rec) ==
  IF file.end = "newline" THEN [file EXCEPT !.lines = Append(@, rec)]
  ELSE [file EXCEPT !.end = "bad"]

\* What a killed append leaves: nothing, a part of the line, all but its newline, all.
AppendedInPart(file, rec) ==
  {file, [file EXCEPT !.end = "bad"], Appended(file, rec)}
    \union IF file.end = "newline"
             THEN {[lines |-> Append(file.lines, rec), end |-> "open"]} ELSE {}

\* Mutations: what a mutator can make of a candidate.
Child(m, parent, ident) ==
  [ident |-> ident, parent |-> parent.ident, origin |-> Mutated(m),
   fs001 |-> parent.fs001 \/ m \in Tagging]
mutate(m, parent) ==
  {Child(m, parent, i) : i \in IF m \in Tagging THEN Loads ELSE Contents}

\* The rows S in the order of sorted(), which is stable: the best first, equal ones as
\* they came.
NoLater(rows, i, j) ==
  rows[i].score > rows[j].score \/ (rows[i].score = rows[j].score /\ i <= j)
Rank(rows, S, j) == Cardinality({i \in S : NoLater(rows, i, j)})
Sorted(rows, S) == [k \in 1..Cardinality(S) |-> rows[CHOOSE j \in S : Rank(rows, S, j) = k]]
Firsts(s, k) == IF Len(s) <= k THEN s ELSE SubSeq(s, 1, k)

\* WeightedFilter, ParetoFilter (over one metric) and RandomFilter select.
select(filt, rows, k) ==
  CASE filt = "weighted" -> {Firsts(Sorted(rows, DOMAIN rows), k)}
    [] filt = "pareto" ->
         {Firsts(Sorted(rows, {j \in DOMAIN rows :
                                 \A i \in DOMAIN rows : rows[i].score <= rows[j].score}), k)}
    [] filt = "random" ->
         IF Len(rows) <= k THEN {rows}
         ELSE {[j \in 1..k |-> rows[pick[j]]] :
                 pick \in {p \in [1..k -> 1..Len(rows)] : \A i, j \in 1..k : p[i] = p[j] => i = j}}

-----------------------------------------------------------------------------
VARIABLES
  candFile, assessFile,  \* candidates.jsonl, assessments.jsonl
  vault,                 \* The index: cands and assess in insertion order, children by
                         \* parent; and loaded, how many candidates were read when it was
                         \* opened, which only the property looks at.
  writing,               \* The append under way: [to, rec], or none.
  run                    \* The process: its place, generation, pool, rows, policy, ...

sdcvars == <<candFile, assessFile, vault, writing, run>>

NoChildren == [i \in Contents |-> {}]
NoVault == [cands |-> <<>>, assess |-> <<>>, children |-> NoChildren, loaded |-> 0]
NotWriting == [to |-> None]
NoSettings == [policy |-> None, filt |-> None, generations |-> 0]
Down(kills) ==
  [pc |-> "down", gen |-> 0, with |-> NoSettings, pool |-> <<>>, left |-> <<>>, children |-> <<>>,
   rows |-> <<>>, chosen |-> <<>>, heard |-> {}, goldens |-> {}, final |-> <<>>, kills |-> kills]

SdcInit == /\ candFile = EmptyFile /\ assessFile = EmptyFile
           /\ vault = NoVault /\ writing = NotWriting
           /\ run = Down(0)

At(pc) == run.pc = pc /\ writing = NotWriting

\* Vault(root): both files are read; a line that does not parse ends the program.
\* _load does not fill the index of children.
Readable(file) == file.end # "bad"
OpenVault ==
  /\ At("down")
  /\ IF Readable(candFile) /\ Readable(assessFile)
       THEN /\ vault' = [cands |-> candFile.lines, assess |-> assessFile.lines,
                         children |-> NoChildren, loaded |-> Len(candFile.lines)]
            /\ \E w \in Settings :
                 run' = [run EXCEPT !.pc = "seeding", !.left = SeedList, !.with = w]
       ELSE vault' = vault /\ run' = [run EXCEPT !.pc = "unreadable"]
  /\ UNCHANGED <<candFile, assessFile, writing>>

Linked(children, c) ==
  [i \in Contents |-> IF i = c.parent THEN children[i] \union {c.ident} ELSE children[i]]

\* A mutant: the child is linked to its parent before it is looked up.
LinkedFirst(c) ==
  IF c.ident \in Idents(vault.cands)
    THEN vault' = [vault EXCEPT !.children = Linked(@, c)] /\ UNCHANGED writing
  ELSE /\ vault' = [vault EXCEPT !.cands = Append(@, c), !.children = Linked(@, c)]
       /\ writing' = [to |-> "candidates", rec |-> c]

\* put_candidate: nothing for a known ident, else into the index and then the file.
put_candidate(c) ==
  IF c.ident \in Idents(vault.cands) THEN UNCHANGED <<vault, writing>>
  ELSE /\ vault' = [vault EXCEPT !.cands = Append(@, c), !.children = Linked(@, c)]
       /\ writing' = [to |-> "candidates", rec |-> c]

\* put_assessment: the first assessment of a candidate stays.
put_assessment(a) ==
  IF a.ident \in Idents(vault.assess) THEN UNCHANGED <<vault, writing>>
  ELSE /\ vault' = [vault EXCEPT !.assess = Append(@, a)]
       /\ writing' = [to |-> "assessments", rec |-> a]

\* _append
AppendLine ==
  /\ writing # NotWriting
  /\ \/ /\ writing.to = "candidates"
        /\ candFile' = Appended(candFile, writing.rec) /\ UNCHANGED assessFile
     \/ /\ writing.to = "assessments"
        /\ assessFile' = Appended(assessFile, writing.rec) /\ UNCHANGED candFile
  /\ writing' = NotWriting
  /\ UNCHANGED <<vault, run>>

\* Pipeline.__init__ stores the seeds.
PutSeed ==
  /\ At("seeding") /\ run.left # <<>>
  /\ put_candidate(Head(run.left))
  /\ run' = [run EXCEPT !.left = Tail(@)]
  /\ UNCHANGED <<candFile, assessFile>>
StartRun ==
  /\ At("seeding") /\ run.left = <<>>
  /\ run' = [run EXCEPT !.pc = "choose", !.pool = SeedList, !.gen = 1]
  /\ UNCHANGED <<candFile, assessFile, vault, writing>>

\* The policy chooses, and every chosen mutator mutates members of the pool; the
\* first child of a mutation counts, and a mutation may have none.
choose_mutators ==
  IF run.with.policy = "hill_climb" THEN {Mutators} ELSE {<<m>> : m \in ToSet(Mutators)}
Work(chosen) == [j \in 1..(Len(chosen) * PerGenMutations) |-> chosen[1 + ((j - 1) \div PerGenMutations)]]
Choose ==
  /\ At("choose") /\ run.gen <= run.with.generations
  /\ \E c \in choose_mutators : run' = [run EXCEPT !.pc = "mutate", !.chosen = c, !.left = Work(c),
                                           !.rows = <<>>, !.heard = {}]
  /\ UNCHANGED <<candFile, assessFile, vault, writing>>
Mutate ==
  /\ At("mutate") /\ run.left # <<>>
  /\ \/ \E parent \in ToSet(run.pool) : \E c \in mutate(Head(run.left), parent) :
          run' = [run EXCEPT !.left = Tail(@), !.children = Append(@, c)]
     \/ run' = [run EXCEPT !.left = Tail(@)]
  /\ UNCHANGED <<candFile, assessFile, vault, writing>>
\* A mutant: children are assessed first, to store the good ones only.
MutateDoneUnstored ==
  /\ At("mutate") /\ run.left = <<>>
  /\ run' = [run EXCEPT !.pc = "put", !.left = <<>>]
  /\ UNCHANGED <<candFile, assessFile, vault, writing>>
MutateDone ==
  /\ At("mutate") /\ run.left = <<>>
  /\ run' = [run EXCEPT !.pc = "put", !.left = run.children]
  /\ UNCHANGED <<candFile, assessFile, vault, writing>>

PutChild ==
  /\ At("put") /\ run.left # <<>>
  /\ put_candidate(Head(run.left))
  /\ run' = [run EXCEPT !.left = Tail(@)]
  /\ UNCHANGED <<candFile, assessFile>>

\* _assess runs the evaluators; they draw random probes, so a candidate that is
\* assessed again may score differently.
Row(c, s) == [cand |-> c, score |-> s]
Assess ==
  /\ At("put") /\ run.left = <<>>
  /\ \E s \in [1..Len(run.children) -> Scores] :
       LET rows == [j \in 1..Len(run.children) |-> Row(run.children[j], s[j])]
       IN run' = [run EXCEPT !.pc = "assess", !.rows = rows, !.left = rows, !.children = <<>>]
  /\ UNCHANGED <<candFile, assessFile, vault, writing>>
Assessment(row) == [ident |-> row.cand.ident, score |-> row.score, validated |-> FALSE]
PutAssessment ==
  /\ At("assess") /\ run.left # <<>>
  /\ put_assessment(Assessment(Head(run.left)))
  /\ run' = [run EXCEPT !.left = Tail(@)]
  /\ UNCHANGED <<candFile, assessFile>>

\* Filter: the best rows are the next pool; a generation without children keeps its.
Filter ==
  /\ At("assess") /\ run.left = <<>>
  /\ \E rows \in select(run.with.filt, run.rows, TopK) :
       LET pool == IF run.rows = <<>> THEN run.pool ELSE [j \in 1..Len(rows) |-> rows[j].cand]
       IN run' = [run EXCEPT !.pc = "validate", !.pool = pool,
                             !.left = IF run.rows = <<>> THEN <<>> ELSE Firsts(pool, ValidateTopK)]
  /\ UNCHANGED <<candFile, assessFile, vault, writing>>

Validated(recs, ident) ==
  [j \in DOMAIN recs |-> IF recs[j].ident = ident THEN [recs[j] EXCEPT !.validated = TRUE] ELSE recs[j]]
\* Validate: a golden run, kept for the process, and then two injection sweeps; the
\* result goes to the index, and only there.  A candidate gem5 cannot run is skipped.
Validate ==
  /\ At("validate") /\ run.left # <<>>
  /\ LET i == Head(run.left).ident
     IN \/ /\ vault' = [vault EXCEPT !.assess = Validated(@, i)]
           /\ run' = [run EXCEPT !.left = Tail(@), !.goldens = @ \union {i}]
        \/ /\ i \notin run.goldens
           /\ vault' = vault /\ run' = [run EXCEPT !.left = Tail(@)]
  /\ UNCHANGED <<candFile, assessFile, writing>>

\* Feedback: a mutator is scored by the children whose origin is its name, and the
\* policy hears of the mutators that have some.
Observe ==
  /\ At("validate") /\ run.left = <<>>
  /\ run' = [run EXCEPT !.pc = "choose", !.gen = @ + 1,
       !.heard = {m \in ToSet(run.chosen) :
                    \E r \in ToSet(run.rows) : r.cand.origin = <<"mutate", m>>}]
  /\ UNCHANGED <<candFile, assessFile, vault, writing>>

\* A mutant: every shape may be in final_top.
AnyShape(c) == FALSE
\* A shape known to find nothing: aimed at loads, and without a load.
Falsified(c) == c.fs001 /\ c.ident \notin Loads

Stored(i) == CHOOSE c \in ToSet(vault.cands) : c.ident = i
\* The vault's best, and those of them that may be in final_top.
top_by == {j \in DOMAIN vault.assess : Rank(vault.assess, DOMAIN vault.assess, j) <= MaxListed}
Finalists ==
  {j \in top_by : LET i == vault.assess[j].ident IN i \in Idents(vault.cands) /\ ~Falsified(Stored(i))}
FinalTop ==
  /\ At("choose") /\ run.gen > run.with.generations
  /\ run' = [run EXCEPT !.pc = "done", !.rows = <<>>,
                        !.final = Firsts(Sorted(vault.assess, Finalists), MaxFinal)]
  /\ UNCHANGED <<candFile, assessFile, vault, writing>>

\* The process is killed, perhaps in an append.
Kill ==
  /\ run.pc \notin {"down", "unreadable"} /\ run.kills < MaxKills
  /\ IF writing = NotWriting THEN UNCHANGED <<candFile, assessFile>>
     ELSE \/ /\ writing.to = "candidates" /\ UNCHANGED assessFile
             /\ candFile' \in AppendedInPart(candFile, writing.rec)
          \/ /\ writing.to = "assessments" /\ UNCHANGED candFile
             /\ assessFile' \in AppendedInPart(assessFile, writing.rec)
  /\ run' = Down(run.kills + 1)
  /\ vault' = NoVault /\ writing' = NotWriting

SdcNext == OpenVault \/ AppendLine \/ PutSeed \/ StartRun \/ Choose \/ Mutate \/ MutateDone
             \/ PutChild \/ Assess \/ PutAssessment \/ Filter \/ Validate \/ Observe
             \/ FinalTop \/ Kill

SdcSpec == SdcInit /\ [][SdcNext]_sdcvars

-----------------------------------------------------------------------------
\* Every candidate on disk comes after its parent, whenever processes are killed: the
\* lineage of a candidate of a vault that opens again leads back to a seed.
LineageOnDisk ==
  \A j \in 1..Len(candFile.lines) :
    \/ candFile.lines[j].parent = None
    \/ \E i \in 1..(j - 1) : candFile.lines[i].ident = candFile.lines[j].parent

\* The two files are written apart, yet no assessment on disk is of a candidate that
\* is not, as long as the candidates can be read.
AssessedIsStored ==
  Readable(candFile) => Idents(assessFile.lines) \subseteq Idents(candFile.lines)

\* Between two appends, opening the vault again would give the candidates and the
\* assessments of now, but for the validation results: what the index skips as known is
\* on disk.
Unvalidated(recs) == [j \in 1..Len(recs) |-> [recs[j] EXCEPT !.validated = FALSE]]
ReopeningIsFaithful ==
  run.pc \notin {"down", "unreadable"} /\ writing = NotWriting
    => /\ Readable(candFile) => candFile.lines = vault.cands
       /\ Readable(assessFile) => assessFile.lines = Unvalidated(vault.assess)

\* children(): what this process has stored under that parent, and no more; of the
\* candidates that were read when the vault was opened it has none, whose parent they
\* name all the same.  A candidate that several parents lead to is under the first.
ChildrenSinceOpening ==
  \A i \in Contents :
    vault.children[i] =
      {vault.cands[j].ident : j \in {k \in (vault.loaded + 1)..Len(vault.cands) :
                                       vault.cands[k].parent = i}}

\* final_top has no candidate of a falsified shape, and no better candidate is left
\* out: whatever the vault held from earlier runs.
FinalTopIsBest ==
  run.pc = "done" =>
    /\ \A a \in ToSet(run.final) : ~(Stored(a.ident).fs001 /\ a.ident \notin Loads)
    /\ \A a \in ToSet(vault.assess), b \in ToSet(run.final) :
         a.score > b.score => a \in ToSet(run.final) \/ Falsified(Stored(a.ident))

\* Killed at any step, a process leaves files from which the next one goes on: no
\* reference leads nowhere, what the index skips as known is on disk, and the final list
\* is the best of what all processes left.  Two things do not outlive it: validation
\* results, and the index of children, which has those of one process only.
VaultIsFaithful ==
  /\ LineageOnDisk /\ AssessedIsStored /\ ReopeningIsFaithful /\ ChildrenSinceOpening
  /\ FinalTopIsBest
=============================================================================
