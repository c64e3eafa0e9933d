------------------------------ MODULE SnapMaker ------------------------------
(***************************************************************************)
(* MakeSnapshot (runner/make_snapshot.cc) over SnapMaker                   *)
(* (runner/snap_maker.cc): a candidate snapshot is run until every page it *)
(* touches is mapped, its end state is recorded, it is replayed several    *)
(* times and once more under the tracer, and only then kept.               *)
(*                                                                         *)
(* A run of the snapshot, one call of RunnerDriver, is one step; Runner    *)
(* and RunnerDriver say what such a call can return.  What the candidate   *)
(* does is fixed in `program`: a set of behaviours, each of which a run    *)
(* may show; a deterministic snapshot has one.  Code and stack conform to  *)
(* every rule and are not in Pages; a page of Reserved is one the runner   *)
(* has not mapped itself.                                                  *)
(***************************************************************************)
EXTENDS Naturals, Sequences, FiniteSets

CONSTANTS
  Pages,               \* data pages a candidate may map or touch
  Reserved,            \* those in ReservedMemoryMappings
  Foreign,             \* those the fuzzing config does not allow
  FinalStates,         \* register and memory contents at the endpoint
  NoStack,             \* those whose stack pointer leaves no room to exit
  Programs,            \* the candidates MakeSnapshot may be given
  max_pages_to_add,
  RunnerPageLimit,     \* the static limit of the runner
  num_verify_attempts

ASSUME MakerAssumption ==
  /\ IsFiniteSet(Pages) /\ Reserved \subseteq Pages /\ Foreign \subseteq Pages
  /\ NoStack \subseteq FinalStates
  /\ {"signal", "runaway", "exit_0", "killed"} \intersect FinalStates = {}
  /\ {"page_fault", "interrupted", "none"} \intersect FinalStates = {}
  /\ max_pages_to_add \in Nat /\ RunnerPageLimit \in Nat
  /\ num_verify_attempts \in Nat \ {0}

VARIABLES
  maker_options,       \* Options of the maker
  program,             \* the candidate: its mappings and what it does
  stage,               \* which call of MakeSnapshot runs, or how it ended
  pages,               \* data pages mapped in the snapshot
  pages_added,         \* the counter of MakeLoop
  end_state,           \* the expected end state recorded, or "none"
  endpoint_moved,      \* it lies where a runaway was stopped
  plays,               \* how the verifying plays ended
  disturbed            \* history: something from outside interfered

maker_vars == <<maker_options, program, stage, pages, pages_added, end_state,
          endpoint_moved, plays, disturbed>>

Options == [compatibility_mode : BOOLEAN, enforce_fuzzing_config : BOOLEAN,
            verbose : BOOLEAN]       \* VLOG_IS_ON(1)

\* How a behaviour ends once its pages are there: at the endpoint, by a signal no
\* page can mend, not at all, by exit_group(0), or by a signal that kills it.
Ends == FinalStates \union {"signal", "runaway", "exit_0", "killed"}
Behaviours == [touches : SUBSET Pages, ends : Ends]
AllPrograms ==
  [pages : SUBSET Pages, runs : (SUBSET Behaviours) \ {{}},
   banned : BOOLEAN]       \* it executes what the trace filters refuse

\* A choice of candidates small enough to check: deterministic ones with any mappings,
\* and ones that show one of two behaviours, each touching one page at most.
SmallPrograms ==
  {[pages |-> mapped, runs |-> {b}, banned |-> FALSE] : mapped \in SUBSET Pages, b \in Behaviours}
  \union {[pages |-> {}, runs |-> {b}, banned |-> TRUE] : b \in Behaviours}
  \union {[pages |-> {}, runs |-> {a, b}, banned |-> FALSE] :
            a, b \in {c \in Behaviours : Cardinality(c.touches) <= 1}}

ASSUME ProgramsAssumption == Programs \subseteq AllPrograms

\* What a run came to: `ends` as above or "page_fault" at page `at`, with the
\* pages the runner added to the process.
Run(ends, added, at) == [ends |-> ends, added |-> added, at |-> at]

\* Once the expected endpoint lies elsewhere, where a run ends is anyone's guess.
EndsOf(b) == {b.ends} \union (IF endpoint_moved THEN FinalStates ELSE {})

\* The runs the candidate may show when the runner adds up to `limit` pages to
\* the process (TryToRecoverFromSignal, whatever page is missing).
Runs(limit) ==
  UNION {LET missing == b.touches \ pages
         IN  IF Cardinality(missing) <= limit
             THEN {Run(ends, missing, "none") : ends \in EndsOf(b)}
             ELSE {run \in [ends : {"page_fault"}, added : SUBSET missing,
                             at : missing] :
                     Cardinality(run.added) = limit /\ run.at \notin run.added} :
         b \in program.runs}

\* What strikes a run from outside: SIGINT, SIGKILL or a runner that cannot be
\* started, a signal the runner catches.
Outside == {Run(ends, {}, "none") : ends \in {"interrupted", "killed", "signal"}}

\* One call of the driver in the given stage.
Plays(limit) == Runs(limit) \union Outside
Notes(run, limit) == disturbed' = (disturbed \/ run \notin Runs(limit))

\* RunResult::success and has_failed_player_result.
RunSucceeds(run) == run.ends \in {"exit_0", "interrupted", end_state}
HasPlayerResult(run) == ~RunSucceeds(run) /\ run.ends # "killed"

\* CanSnapify, as far as it depends on pages and end states.
CanSnapify == pages \intersect Reserved = {} /\ end_state \notin NoStack

\* The mappings conform to the fuzzing config, where that is enforced.
Conforms(mapped) ==
  maker_options.enforce_fuzzing_config => mapped \intersect Foreign = {}

Rejects ==
  /\ stage' = "rejected"
  /\ UNCHANGED <<pages, pages_added, end_state, endpoint_moved>>
-----------------------------------------------------------------------------
MakerInit ==
  /\ maker_options \in Options /\ program \in Programs
  /\ stage = "make" /\ pages = program.pages /\ pages_added = 0
  /\ end_state = "none" /\ endpoint_moved = FALSE
  /\ plays = <<>> /\ disturbed = FALSE

\* Snapify fails, at the head of MakeLoop or before the snapshot is replayed.
SnapifyFails ==
  /\ stage \in {"make", "record", "verify"} /\ ~CanSnapify
  /\ Rejects
  /\ UNCHANGED <<maker_options, program, plays, disturbed>>

\* In compatibility mode MakeLoop adds the pages itself, one run after another;
\* otherwise the runner does, and DataMappingDelta finds them in the end state.
RunnerLimit ==
  IF maker_options.compatibility_mode \/ max_pages_to_add = 0 THEN 0
  ELSE IF max_pages_to_add <= RunnerPageLimit THEN max_pages_to_add
  ELSE RunnerPageLimit
Grown(run) ==
  IF maker_options.compatibility_mode THEN pages ELSE pages \union run.added

\* Mutant: AddMemoryMappings takes any page.
ReachesEndAnywhere(run) == run.ends \in FinalStates /\ Conforms(Grown(run))

\* The run reached the endpoint, and the mappings it needed are acceptable.
ReachesEnd(run) ==
  /\ run.ends \in FinalStates
  /\ Grown(run) \intersect Reserved = {} /\ Conforms(Grown(run))

\* Mutant: the last page allowed is not added.
AddsPageBelow(run) ==
  /\ run.ends = "page_fault" /\ maker_options.compatibility_mode
  /\ pages_added + 1 < max_pages_to_add /\ run.at \notin Reserved

\* MakeLoop mends the fault and goes on.
AddsPage(run) ==
  /\ run.ends = "page_fault" /\ maker_options.compatibility_mode
  /\ pages_added < max_pages_to_add /\ run.at \notin Reserved

MakeReachesEnd(run) ==
  /\ ReachesEnd(run)
  /\ pages' = Grown(run)
  /\ stage' = "record"
  /\ UNCHANGED <<pages_added, end_state, endpoint_moved>>

MakeAddsPage(run) ==
  /\ AddsPage(run)
  /\ pages' = pages \union {run.at} /\ pages_added' = pages_added + 1
  /\ UNCHANGED <<stage, end_state, endpoint_moved>>

\* A success, a result without a player, a signal, a runaway, a page that may not
\* be added.
MakeGivesUp(run) == ~ReachesEnd(run) /\ ~AddsPage(run) /\ Rejects

\* Make, one iteration of MakeLoop and what follows the last.
Make ==
  /\ stage = "make" /\ CanSnapify
  /\ \E run \in Plays(RunnerLimit) :
       /\ MakeReachesEnd(run) \/ MakeAddsPage(run) \/ MakeGivesUp(run)
       /\ Notes(run, RunnerLimit)
  /\ UNCHANGED <<maker_options, program, plays>>

\* RecordEndState and the check of the endpoint in MakeSnapshot.  A runaway has an
\* instruction endpoint too, where it was stopped.  A run that succeeds leaves the
\* undefined end state, which is not complete.
Record ==
  /\ stage = "record" /\ CanSnapify
  /\ \E run \in Plays(0) :
       /\ \/ /\ run.ends \in FinalStates
             /\ end_state' = run.ends /\ endpoint_moved' = FALSE
             /\ stage' = "verify" /\ UNCHANGED <<pages, pages_added>>
          \/ /\ run.ends = "runaway"
             /\ end_state' \in FinalStates /\ endpoint_moved' = TRUE
             /\ stage' = "verify" /\ UNCHANGED <<pages, pages_added>>
          \/ /\ run.ends \notin FinalStates \union {"runaway"}
             /\ Rejects
       /\ Notes(run, 0)
  /\ UNCHANGED <<maker_options, program, plays>>

\* Mutant: a single play out of several suffices.
VerifyOnce ==
  /\ stage = "verify" /\ CanSnapify
  /\ \E run \in Plays(0) :
       /\ plays' = Append(plays, run.ends)
       /\ stage' = IF RunSucceeds(run) THEN "trace" ELSE "rejected"
       /\ Notes(run, 0)
  /\ UNCHANGED <<maker_options, program, pages, pages_added, end_state, endpoint_moved>>

\* VerifyPlaysDeterministically, one attempt.  When it fails and the log is
\* verbose, the player result is printed whether there is one or not.
Verify ==
  /\ stage = "verify" /\ CanSnapify
  /\ \E run \in Plays(0) :
       /\ plays' = Append(plays, run.ends)
       /\ stage' = IF RunSucceeds(run)
                   THEN IF Len(plays') = num_verify_attempts THEN "trace"
                        ELSE "verify"
                   ELSE IF maker_options.verbose /\ ~HasPlayerResult(run) THEN "aborted"
                        ELSE "rejected"
       /\ Notes(run, 0)
  /\ UNCHANGED <<maker_options, program, pages, pages_added, end_state, endpoint_moved>>

\* CheckTrace.
Trace ==
  /\ stage = "trace"
  /\ \E run \in Plays(0) :
       /\ stage' = IF RunSucceeds(run) /\ ~program.banned THEN "made" ELSE "rejected"
       /\ Notes(run, 0)
  /\ UNCHANGED <<maker_options, program, pages, pages_added, end_state,
                 endpoint_moved, plays>>

\* MakeSnapshot returns, or the process is gone.
Done == stage \in {"made", "rejected", "aborted"}

MakerNext ==
  \/ SnapifyFails \/ Make \/ Record \/ Verify \/ Trace
  \/ Done /\ UNCHANGED maker_vars

MakerSpec == MakerInit /\ [][MakerNext]_maker_vars

\* Every call of the driver returns, and MakeSnapshot is sequential.
MakerFairSpec == MakerSpec /\ WF_maker_vars(MakerNext)
-----------------------------------------------------------------------------
Stages == {"make", "record", "verify", "trace", "made", "rejected", "aborted"}

\* The types of the variables.
MakerTypeOK ==
  /\ maker_options \in Options /\ program \in AllPrograms
  /\ stage \in Stages /\ pages \subseteq Pages
  /\ pages_added \in 0..max_pages_to_add
  /\ end_state \in FinalStates \union {"none"} /\ endpoint_moved \in BOOLEAN
  /\ plays \in Seq(Ends \union {"page_fault", "interrupted"})
  /\ Len(plays) <= num_verify_attempts
  /\ disturbed \in BOOLEAN

\* Past Make the snapshot maps no reserved page and no page the fuzzing config
\* forbids, has lost none of its own pages, and has at most max_pages_to_add more,
\* whoever added them: the maker page by page, or the runner all at once.
PagesAreUsable ==
  stage \in {"record", "verify", "trace", "made", "aborted"}
    => /\ pages \intersect Reserved = {} /\ Conforms(pages)
       /\ program.pages \subseteq pages
       /\ Cardinality(pages \ program.pages) <= max_pages_to_add

\* A made snapshot has been played as often as asked, every play ended in the
\* recorded state (or ended the process with code 0, or was interrupted from the
\* terminal), and that state is one the program reaches on the pages of the
\* snapshot, unless the endpoint is where a runaway was stopped.
MadeIsReproduced ==
  stage = "made"
    => /\ Len(plays) = num_verify_attempts
       /\ \A i \in DOMAIN plays : plays[i] \in {end_state, "exit_0", "interrupted"}
       /\ \/ endpoint_moved
          \/ \E b \in program.runs : b.ends = end_state /\ b.touches \subseteq pages

\* A behaviour the maker should keep if it is the only one: to reach the endpoint
\* on pages the snapshot may have.
Fixable(b) ==
  /\ ~program.banned
  /\ b.ends \in FinalStates \ NoStack
  /\ (program.pages \union b.touches) \intersect Reserved = {}
  /\ Conforms(program.pages \union b.touches)
  /\ Cardinality(b.touches \ program.pages) <= max_pages_to_add

\* For a deterministic candidate and without interference, what MakeSnapshot returns
\* depends on the candidate alone, in either mode (the SnapMaker tests compare
\* the two on one snapshot): the fixable ones are kept, with their end state and
\* exactly the pages they touch, and the others are rejected.
VerdictIsRight ==
  \A b \in program.runs :
    Done /\ ~disturbed /\ program.runs = {b}
      => /\ (stage = "made") <=> Fixable(b)
         /\ stage = "made"
              => end_state = b.ends /\ pages = program.pages \union b.touches

\* MakeSnapshot returns: MakeLoop does not add pages for ever.
MakeEnds == <>Done

\* RunResult::failed_player_result, "REQUIRES has_failed_player_result() == true":
\* the CHECK in it never ends the maker.
PlayerResultIsThere == stage # "aborted"
=============================================================================
