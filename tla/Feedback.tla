------------------------------ MODULE Feedback ------------------------------
(***************************************************************************)
(* tools/sdc_experiment/feedback.py: the hits that a hardware scan reported *)
(* are looked up among the snapshots, replayed, and only what reproduces in *)
(* every replay becomes a seed of the next round.                           *)
(***************************************************************************)
EXTENDS SequencesExt, Integers

CONSTANTS
  Hashes,      \* Snapshot ids.
  Unhashed,    \* The hash of a hit that has none (a group of E5).
  Reports,     \* What a scan can report: sequences of hits [hash, device].
  Found,      \* The hashes some .pb file of the directory has.
  ReplayN      \* --replay-n

ASSUME ReplayAssumption ==
  /\ Reports \subseteq Seq([hash : Hashes \union {Unhashed}, device : STRING])
  /\ ReplayN \in Nat \ {0}

VARIABLE fb    \* The program: its phase, the report's items, the replays, the seeds.

\* The item of a hit: it can be confirmed when its snapshot is found.
Action(hit) == IF hit.hash # Unhashed /\ hit.hash \in Found THEN "replay-confirm" ELSE "quarantine"
build_feedback_report(hits) ==
  [j \in 1..Len(hits) |-> [hash |-> hits[j].hash, device |-> hits[j].device,
                           action |-> Action(hits[j]), insns |-> FALSE, confirmed |-> FALSE]]

FbInit == fb = [phase |-> "scan", items |-> <<>>, at |-> 1, runs |-> 0, reproduced |-> 0,
                failures |-> {}, seeds |-> {}]

\* extract_hits reads the scan's files; the instructions of a found snapshot are read
\* with snap_tool, which may fail.
Extract ==
  /\ fb.phase = "scan"
  /\ \E hits \in Reports :
       LET items == build_feedback_report(hits)
       IN \E found \in SUBSET {j \in 1..Len(items) : items[j].action = "replay-confirm"} :
            fb' = [fb EXCEPT !.phase = IF hits = <<>> THEN "done" ELSE "gate",
                             !.items = [j \in 1..Len(items) |-> [items[j] EXCEPT !.insns = j \in found]]]

Item == fb.items[fb.at]
Settle(item, action) == [item EXCEPT !.action = action, !.confirmed = action = "confirmed"]
\* The gate is done with an item: on to the next.
NextItem(action) ==
  [fb EXCEPT !.items[fb.at] = Settle(Item, action), !.at = @ + 1, !.runs = 0, !.reproduced = 0]

\* replay_gate: an item without a snapshot is left as it is.
SkipItem == /\ fb.phase = "gate" /\ fb.at <= Len(fb.items) /\ Item.action # "replay-confirm"
            /\ fb' = NextItem(Item.action)
PackagingFails == /\ fb.phase = "gate" /\ fb.at <= Len(fb.items)
                  /\ Item.action = "replay-confirm" /\ fb.runs = 0
                  /\ fb' = NextItem("transient")

\* A mutant: one reproduction is enough.
OnceIsEnough(reproduced) ==
  IF reproduced > 0 THEN "confirmed" ELSE "not-reproduced"

\* What replay_confirm makes of its counts.
Verdict(reproduced) ==
  IF reproduced = ReplayN THEN "confirmed" ELSE IF reproduced > 0 THEN "transient" ELSE "not-reproduced"

Replaying == fb.phase = "gate" /\ fb.at <= Len(fb.items) /\ Item.action = "replay-confirm"
\* One run of the runner: it prints a failure or does not ...
Replay ==
  /\ Replaying /\ fb.runs < ReplayN
  /\ \/ fb' = [fb EXCEPT !.runs = @ + 1, !.reproduced = @ + 1]
     \/ fb' = [fb EXCEPT !.runs = @ + 1, !.failures = @ \union {fb.at}]
\* ... or it times out, which ends the replays of this item.
ReplayTimesOut ==
  /\ Replaying /\ fb.runs < ReplayN
  /\ fb' = [NextItem(Verdict(fb.reproduced)) EXCEPT !.failures = @ \union {fb.at}]
ReplaysEnd ==
  /\ Replaying /\ fb.runs = ReplayN
  /\ fb' = NextItem(Verdict(fb.reproduced))

\* reseed takes the confirmed items whose instructions are known.
Reseeds(item) == item.confirmed /\ item.hash # Unhashed /\ item.insns
Reseed ==
  /\ fb.phase = "gate" /\ fb.at > Len(fb.items)
  /\ fb' = [fb EXCEPT !.phase = "done", !.seeds = {i.hash : i \in {i \in ToSet(fb.items) : Reseeds(i)}}]

FbNext == Extract \/ SkipItem \/ PackagingFails \/ Replay \/ ReplayTimesOut \/ ReplaysEnd \/ Reseed
FbSpec == FbInit /\ [][FbNext]_fb

-----------------------------------------------------------------------------
\* A seed comes from a hit of the scan that failed again in every replay: a hit
\* that passed once, timed out or could not be found is never amplified.
SeedsReproduced ==
  \A h \in fb.seeds : \E j \in 1..Len(fb.items) :
    /\ fb.items[j].hash = h /\ h \in Found
    /\ j \notin fb.failures /\ fb.items[j].action = "confirmed"
=============================================================================
