------------------------------ MODULE ToolsProofs ------------------------------
(***************************************************************************)
(* Proofs about five of the tools of MCTools: the partition, the replay    *)
(* gate of the feedback, the vault of the SDC pipeline, the counters of    *)
(* the PMU proxy and the snap maker.                                       *)
(***************************************************************************)
EXTENDS MCTools, SpanUtilProofs, FiniteSetTheorems

-----------------------------------------------------------------------------
(* Sequences given entry by entry *)

\* A function over 1..n with values of S is a sequence over S of length n.
LEMMA EntriesAreSeq ==
  ASSUME NEW S, NEW n \in Nat, NEW f, f = [j \in 1..n |-> f[j]], \A j \in 1..n : f[j] \in S
  PROVE  f \in Seq(S) /\ Len(f) = n
OBVIOUS

-----------------------------------------------------------------------------
(* The partition of SpanUtil, joined again *)

\* What has been joined is the part of the vector up to where the next span starts.
SpanInv ==
  /\ vector \in Seq(Nat) /\ count \in Nat /\ taken \in 0..count
  /\ count = 0 => vector = <<>> /\ joined = <<>>
  /\ count # 0 => /\ spans = PartitionEvenly(vector, count)
                  /\ joined = SubSeq(vector, 1, StartAt(Len(vector), count, taken))

\* Before the call there is no vector and nothing is joined.
LEMMA SpanInitial == SpanInit => SpanInv
BY DEF SpanInit, SpanInv

\* A prefix and what follows it are a longer prefix.
LEMMA PrefixGrows ==
  ASSUME NEW S, NEW v \in Seq(S), NEW a \in Nat, NEW b \in Nat, a + b <= Len(v)
  PROVE  SubSeq(v, 1, a) \o SubSeq(v, a + 1, a + b) = SubSeq(v, 1, a + b)
<1> DEFINE s == SubSeq(v, 1, a)
           t == SubSeq(v, a + 1, a + b)
           u == SubSeq(v, 1, a + b)
<1>1. Len(v) \in Nat
  OBVIOUS
<1>2. s \in Seq(S) /\ Len(s) = a /\ \A k \in 1..a : s[k] = v[k]
  BY <1>1
<1>3. t \in Seq(S) /\ Len(t) = b /\ \A k \in 1..b : t[k] = v[a + k]
  BY <1>1
<1>4. u \in Seq(S) /\ Len(u) = a + b /\ \A k \in 1..(a + b) : u[k] = v[k]
  BY <1>1
<1> HIDE DEF s, t, u
<1>5. s \o t \in Seq(S) /\ Len(s \o t) = a + b
  <2>1. s \in Seq(S) /\ t \in Seq(S) /\ Len(s) = a /\ Len(t) = b
    BY <1>2, <1>3
  <2> QED
    BY <2>1
<1>6. ASSUME NEW k \in 1..(a + b) PROVE (s \o t)[k] = u[k]
  <2>0. s \in Seq(S) /\ t \in Seq(S) /\ Len(s) = a /\ Len(t) = b
    BY <1>2, <1>3
  <2>1. CASE k <= a
    <3>1. k \in 1..a
      BY <2>1
    <3>2. (s \o t)[k] = s[k]
      BY <2>0, <3>1
    <3> QED
      BY <1>2, <1>4, <3>1, <3>2
  <2>2. CASE k > a
    <3>1. k - a \in 1..b /\ a + (k - a) = k
      BY <2>2
    <3>2. (s \o t)[k] = t[k - a]
      <4>1. k \in Nat /\ k > Len(s) /\ k <= Len(s) + Len(t)
        BY <2>0, <2>2
      <4>2. (s \o t)[k] = t[k - Len(s)]
        BY <2>0, <4>1
      <4> QED
        BY <2>0, <4>2
    <3>3. u[k] = v[k]
      BY <1>4
    <3>4. t[k - a] = v[a + (k - a)]
      BY <1>3, <3>1
    <3> QED
      BY <3>1, <3>2, <3>3, <3>4
  <2> QED
    <3> HIDE DEF s, t, u
    <3>1. k <= a \/ k > a
      OBVIOUS
    <3> QED
      BY <2>1, <2>2, <3>1
<1> QED
  BY <1>4, <1>5, <1>6 DEF s, t, u

\* The call gives the partition; every span taken makes the prefix longer.
LEMMA SpanStep == SpanInv /\ [SpanNext]_spanvars => SpanInv'
<1> SUFFICES ASSUME SpanInv, [SpanNext]_spanvars PROVE SpanInv'
  OBVIOUS
<1>1. CASE Partition
  <2>1. PICK len \in 0..MaxLen : vector' = [i \in 1..len |-> i]
    BY <1>1 DEF Partition
  <2>2. /\ count = 0 /\ count' \in 1..MaxSpans /\ spans' = PartitionEvenly(vector', count')
        /\ joined' = joined /\ taken' = taken
    BY <1>1 DEF Partition
  <2>3. count' \in Nat \ {0} /\ len \in Nat
    BY <2>2, SpanAssumption
  <2>4. vector' \in Seq(Nat) /\ Len(vector') = len
    BY <2>1, <2>3
  <2>5. taken' = 0 /\ joined' = <<>>
    BY <2>2 DEF SpanInv
  <2>6. StartAt(Len(vector'), count', taken') = 0
    BY <2>3, <2>4, <2>5, SpansMeetEnds
  <2>7. joined' = SubSeq(vector', 1, 0)
    BY <2>4, <2>5
  <2> QED
    BY <2>2, <2>3, <2>4, <2>5, <2>6, <2>7 DEF SpanInv
<1>2. CASE TakeSpan
  <2> DEFINE start(i) == StartAt(Len(vector), count, i)
             size == SpanSize(Len(vector), count, taken)
  <2>1. /\ taken < count /\ joined' = joined \o spans[taken + 1] /\ taken' = taken + 1
        /\ vector' = vector /\ count' = count /\ spans' = spans
    BY <1>2 DEF TakeSpan
  <2>2. /\ vector \in Seq(Nat) /\ Len(vector) \in Nat /\ count \in Nat \ {0} /\ taken \in Nat
        /\ taken + 1 \in 1..count /\ taken' \in 0..count /\ (taken + 1) - 1 = taken
    BY <2>1 DEF SpanInv
  <2>3. /\ start(taken) \in Nat /\ size \in Nat /\ start(taken + 1) = start(taken) + size
        /\ start(taken) + size <= Len(vector)
    BY <2>1, <2>2, SpanFits, SpanSizes
  <2>4. spans[taken + 1] = SubSeq(vector, start(taken) + 1, start(taken) + size)
    <3> DEFINE i == taken + 1
               len == Len(vector)
    <3>1. i \in 1..count /\ i - 1 = taken /\ len \in Nat
      BY <2>2
    <3>2. PartitionEvenly(vector, count)[i]
            = SubSeq(vector, StartAt(len, count, i - 1) + 1,
                     StartAt(len, count, i - 1) + SpanSize(len, count, i - 1))
      <4> HIDE DEF i
      <4> QED
        BY <2>2, <3>1, SpanIs
    <3>3. spans = PartitionEvenly(vector, count)
      BY <2>2 DEF SpanInv
    <3> HIDE DEF i
    <3> QED
      BY <3>1, <3>2, <3>3
  <2>5. joined = SubSeq(vector, 1, start(taken))
    BY <2>2 DEF SpanInv
  <2> HIDE DEF start, size
  <2>6. joined' = SubSeq(vector, 1, start(taken + 1))
    <3>1. SubSeq(vector, 1, start(taken)) \o SubSeq(vector, start(taken) + 1, start(taken) + size)
            = SubSeq(vector, 1, start(taken) + size)
      BY <2>2, <2>3, PrefixGrows
    <3> QED
      BY <2>1, <2>3, <2>4, <2>5, <3>1
  <2> QED
    BY <2>1, <2>2, <2>6 DEF SpanInv, start
<1>3. CASE UNCHANGED spanvars
  BY <1>3 DEF SpanInv, spanvars
<1> QED
  BY <1>1, <1>2, <1>3 DEF SpanNext

\* What is joined is a prefix, and the spans are those of the partition.
LEMMA SpanInvIsEven == SpanInv => PartitionIsEven
<1> SUFFICES ASSUME SpanInv PROVE PartitionIsEven
  OBVIOUS
<1>1. CASE count = 0
  BY <1>1 DEF SpanInv, PartitionIsEven, SpansCoverVector, SpansEven
<1>2. CASE count # 0
  <2> DEFINE start(i) == StartAt(Len(vector), count, i)
  <2>1. /\ vector \in Seq(Nat) /\ Len(vector) \in Nat /\ count \in Nat \ {0} /\ taken \in Nat
        /\ spans = PartitionEvenly(vector, count)
        /\ joined = SubSeq(vector, 1, start(taken))
    BY <1>2 DEF SpanInv
  <2>2. SpansEven
    <3>1. ASSUME NEW i \in 1..count, NEW j \in 1..count, i < j
          PROVE  /\ Len(spans[i]) - Len(spans[j]) \in {0, 1}
                 /\ Len(vector) < j => spans[j] = <<>>
      BY <2>1, <3>1, SpansDiffer
    <3> QED
      BY <3>1 DEF SpansEven
  <2>3. start(taken) \in Nat /\ start(taken) <= Len(vector)
    <3>1. CASE taken = count
      BY <2>1, <3>1, SpansMeetEnds
    <3>2. CASE taken # count
      <4>1. taken < count
        BY <2>1, <3>2 DEF SpanInv
      <4>2. /\ start(taken) \in Nat /\ SpanSize(Len(vector), count, taken) \in Nat
            /\ start(taken) + SpanSize(Len(vector), count, taken) <= Len(vector)
        BY <2>1, <4>1, SpanFits
      <4> HIDE DEF start
      <4> QED
        BY <2>1, <4>2
    <3> QED
      BY <3>1, <3>2
  <2>4. taken = count => start(taken) = Len(vector)
    BY <2>1, SpansMeetEnds
  <2> HIDE DEF start
  <2>5. Len(joined) = start(taken)
    BY <2>1, <2>3
  <2>6. vector = SubSeq(vector, 1, Len(vector))
    BY <2>1
  <2>7. SpansCoverVector
    BY <2>1, <2>4, <2>5, <2>6 DEF SpansCoverVector
  <2> QED
    BY <2>2, <2>7 DEF PartitionIsEven
<1> QED
  BY <1>1, <1>2

\* The spans of PartitionEvenly are even, the larger ones first, and end to end they are the
\* vector: for every length of the vector and every number of spans.
THEOREM PartitionStaysEven == Spec => []PartitionIsEven
<1>1. Init => SpanInv
  BY SpanInitial DEF Init
<1>2. SpanInv /\ [Next]_vars => SpanInv'
  <2>1. Next => [SpanNext]_spanvars
    BY DEF Next
  <2>2. vars' = vars => spanvars' = spanvars
    BY DEF vars
  <2> QED
    BY <2>1, <2>2, SpanStep
<1> QED
  BY <1>1, <1>2, SpanInvIsEven, PTL DEF Spec

-----------------------------------------------------------------------------
(* Feedback *)

\* An item of the report, and where it stands when the gate comes to it.
Items == [hash : Hashes \union {Unhashed}, device : STRING,
          action : {"replay-confirm", "quarantine", "confirmed", "transient", "not-reproduced"},
          insns : BOOLEAN, confirmed : BOOLEAN]
Unseen(i) ==
  /\ i.action \in {"replay-confirm", "quarantine"} /\ ~i.confirmed
  /\ i.action = "replay-confirm" => i.hash \in Found
Genuine(j) ==
  fb.items[j].confirmed =>
    fb.items[j].action = "confirmed" /\ fb.items[j].hash \in Found /\ j \notin fb.failures

FbType == [phase : {"scan", "gate", "done"}, items : Seq(Items), at : Nat \ {0}, runs : Nat,
           reproduced : Nat, failures : SUBSET Nat, seeds : SUBSET (Hashes \union {Unhashed})]

\* The items before "at" are settled, those from it on have not failed, but for what the
\* replays of this one have shown.
FbInv ==
  /\ fb \in FbType
  /\ fb.runs <= ReplayN /\ fb.reproduced <= fb.runs
  /\ \A j \in fb.failures : j <= fb.at
  /\ fb.at \in fb.failures => fb.reproduced < fb.runs
  /\ \A j \in 1..Len(fb.items) : IF j < fb.at THEN Genuine(j) ELSE Unseen(fb.items[j])
  /\ fb.phase = "scan" => fb.at = 1 /\ fb.failures = {}
  /\ fb.phase # "done" => fb.seeds = {}
  /\ SeedsReproduced

\* The scan starts with no item and no seed.
LEMMA FbInitial == FbInit => FbInv
<1> SUFFICES ASSUME FbInit PROVE FbInv
  OBVIOUS
<1>1. /\ fb.phase = "scan" /\ fb.items = <<>> /\ fb.at = 1 /\ fb.runs = 0 /\ fb.reproduced = 0
      /\ fb.failures = {} /\ fb.seeds = {}
  BY DEF FbInit
<1>2. fb \in FbType
  BY DEF FbInit, FbType
<1> QED
  BY <1>1, <1>2, ReplayAssumption DEF FbInv, SeedsReproduced

\* The verdict on an item, and whether its instructions are known, leave the rest alone.
LEMMA ItemChanges ==
  ASSUME NEW i \in Items, NEW b \in BOOLEAN
  PROVE  /\ [i EXCEPT !.insns = b] \in Items
         /\ [i EXCEPT !.insns = b].confirmed = i.confirmed
         /\ [i EXCEPT !.insns = b].action = i.action
         /\ [i EXCEPT !.insns = b].hash = i.hash
BY DEF Items

\* A settled item is confirmed exactly when that is its action.
LEMMA ItemSettles ==
  ASSUME NEW i \in Items, NEW a \in {"quarantine", "confirmed", "transient", "not-reproduced"}
  PROVE  /\ Settle(i, a) \in Items /\ Settle(i, a).hash = i.hash /\ Settle(i, a).action = a
         /\ Settle(i, a).confirmed <=> a = "confirmed"
<1>1. (a = "confirmed") \in BOOLEAN
  OBVIOUS
<1>2. ASSUME NEW b \in BOOLEAN
      PROVE  LET n == [i EXCEPT !.action = a, !.confirmed = b]
             IN  n \in Items /\ n.hash = i.hash /\ n.action = a /\ n.confirmed = b
  BY DEF Items
<1> QED
  BY <1>1, <1>2 DEF Settle

\* A report made of the scan's hits.
LEMMA ReportItems ==
  ASSUME NEW hits \in Reports, NEW j \in 1..Len(hits), NEW b \in BOOLEAN
  PROVE  /\ [build_feedback_report(hits)[j] EXCEPT !.insns = b] \in Items
         /\ Unseen([build_feedback_report(hits)[j] EXCEPT !.insns = b])
<1> DEFINE r == build_feedback_report(hits)[j]
<1> SUFFICES [r EXCEPT !.insns = b] \in Items /\ Unseen([r EXCEPT !.insns = b])
  OBVIOUS
<1>1. hits[j] \in [hash : Hashes \union {Unhashed}, device : STRING]
  <2> DEFINE Hits == [hash : Hashes \union {Unhashed}, device : STRING]
  <2>1. hits \in Seq(Hits)
    BY ReplayAssumption
  <2> HIDE DEF Hits
  <2>2. hits[j] \in Hits
    BY <2>1
  <2> QED
    BY <2>2 DEF Hits
<1>2. r = [hash |-> hits[j].hash, device |-> hits[j].device,
           action |-> Action(hits[j]), insns |-> FALSE, confirmed |-> FALSE]
  BY DEF build_feedback_report
<1>3. /\ Action(hits[j]) \in {"replay-confirm", "quarantine"}
      /\ Action(hits[j]) = "replay-confirm" => hits[j].hash \in Found
  BY DEF Action
<1>4. r \in Items /\ Unseen(r)
  BY <1>1, <1>2, <1>3 DEF Items, Unseen
<1> HIDE DEF r
<1> QED
  BY <1>4, ItemChanges DEF Unseen

\* To go to the next item settles this one and leaves the others.
LEMMA NextItemFacts ==
  ASSUME FbInv, fb.phase = "gate", fb.at <= Len(fb.items),
         NEW a \in {"quarantine", "confirmed", "transient", "not-reproduced"},
         NEW next, next = NextItem(a)
  PROVE  /\ next \in FbType /\ next.phase = "gate" /\ next.at = fb.at + 1 /\ next.runs = 0
         /\ next.reproduced = 0 /\ next.seeds = fb.seeds /\ next.failures = fb.failures
         /\ Len(next.items) = Len(fb.items)
         /\ \A j \in 1..Len(fb.items) : j # fb.at => next.items[j] = fb.items[j]
         /\ next.items[fb.at].action = a /\ (next.items[fb.at].confirmed <=> a = "confirmed")
         /\ next.items[fb.at].hash = Item.hash
<1> DEFINE n == Settle(Item, a)
           items == [fb.items EXCEPT ![fb.at] = n]
<1>0. /\ fb \in FbType /\ fb.items \in Seq(Items) /\ fb.at \in Nat \ {0} /\ fb.at \in 1..Len(fb.items)
  BY DEF FbInv, FbType
<1>1. Item \in Items
  BY <1>0 DEF Item
<1>2. n \in Items /\ n.hash = Item.hash /\ n.action = a /\ (n.confirmed <=> a = "confirmed")
  BY <1>1, ItemSettles
<1>3. next = [fb EXCEPT !.items = items, !.at = fb.at + 1, !.runs = 0, !.reproduced = 0]
  BY <1>0 DEF NextItem
<1> HIDE DEF n
<1>4. /\ items \in Seq(Items) /\ Len(items) = Len(fb.items) /\ items[fb.at] = n
      /\ \A j \in 1..Len(fb.items) : j # fb.at => items[j] = fb.items[j]
  BY <1>0, <1>2
<1> HIDE DEF items
<1>5. next \in FbType
  <2>1. fb.at + 1 \in Nat \ {0} /\ 0 \in Nat
    BY <1>0
  <2> HIDE DEF Items
  <2> QED
    BY <1>0, <1>3, <1>4, <2>1 DEF FbType
<1>6. /\ next.phase = "gate" /\ next.at = fb.at + 1 /\ next.runs = 0
      /\ next.reproduced = 0 /\ next.seeds = fb.seeds /\ next.failures = fb.failures
      /\ next.items = items
  BY <1>0, <1>3 DEF FbType
<1> QED
  BY <1>2, <1>4, <1>5, <1>6

\* The items of a report are unconfirmed, and only a hash that was found is to be replayed.
LEMMA ExtractKeeps == FbInv /\ Extract => FbInv'
<1> SUFFICES ASSUME FbInv, Extract PROVE FbInv'
  OBVIOUS
<1> PICK hits \in Reports :
      \E found \in SUBSET {j \in 1..Len(build_feedback_report(hits)) :
                             build_feedback_report(hits)[j].action = "replay-confirm"} :
        fb' = [fb EXCEPT !.phase = IF hits = <<>> THEN "done" ELSE "gate",
                         !.items = [j \in 1..Len(build_feedback_report(hits)) |->
                                      [build_feedback_report(hits)[j] EXCEPT !.insns = j \in found]]]
  BY DEF Extract
<1>1. PICK found :
        fb' = [fb EXCEPT !.phase = IF hits = <<>> THEN "done" ELSE "gate",
                         !.items = [j \in 1..Len(build_feedback_report(hits)) |->
                                      [build_feedback_report(hits)[j] EXCEPT !.insns = j \in found]]]
  OBVIOUS
<1> DEFINE items == [j \in 1..Len(build_feedback_report(hits)) |->
                       [build_feedback_report(hits)[j] EXCEPT !.insns = j \in found]]
<1>2. Len(hits) \in Nat /\ Len(build_feedback_report(hits)) = Len(hits)
  BY ReplayAssumption DEF build_feedback_report
<1>3. ASSUME NEW j \in 1..Len(hits) PROVE items[j] \in Items /\ Unseen(items[j])
  <2> DEFINE known == j \in found
  <2>1. known \in BOOLEAN
    OBVIOUS
  <2>2. items[j] = [build_feedback_report(hits)[j] EXCEPT !.insns = known]
    BY <1>2, <1>3
  <2> HIDE DEF known, items
  <2> QED
    BY <1>3, <2>1, <2>2, ReportItems
<1>4. items \in Seq(Items) /\ Len(items) = Len(hits)
  <2>1. \A j \in 1..Len(hits) : items[j] \in Items
    BY <1>3
  <2>2. items = [j \in 1..Len(hits) |-> items[j]]
    BY <1>2
  <2> HIDE DEF items, Items
  <2> QED
    BY <1>2, <2>1, <2>2, EntriesAreSeq
<1>5. \A j \in 1..Len(items) : Unseen(items[j])
  BY <1>3, <1>4
<1>6. fb \in FbType /\ fb.phase = "scan"
  BY DEF FbInv, Extract
<1>7. /\ fb'.phase \in {"done", "gate"} /\ fb'.items = items /\ fb'.at = 1 /\ fb'.failures = {}
      /\ fb'.seeds = {} /\ fb'.runs = fb.runs /\ fb'.reproduced = fb.reproduced
  <2> HIDE DEF items
  <2>1. fb' = [fb EXCEPT !.phase = IF hits = <<>> THEN "done" ELSE "gate", !.items = items]
    BY <1>1 DEF items
  <2> QED
    BY <1>6, <2>1 DEF FbInv, FbType
<1>8. fb' \in FbType
  <2> HIDE DEF items
  <2>1. fb' = [fb EXCEPT !.phase = IF hits = <<>> THEN "done" ELSE "gate", !.items = items]
    BY <1>1 DEF items
  <2> HIDE DEF Items
  <2> QED
    BY <1>4, <1>6, <2>1 DEF FbType
<1> HIDE DEF items
<1> QED
  BY <1>4, <1>5, <1>7, <1>8 DEF FbInv, SeedsReproduced

\* The gate settles an item: it is genuine if no replay of it failed to reproduce it.
LEMMA NextItemKeeps ==
  ASSUME FbInv, fb.phase = "gate", fb.at <= Len(fb.items),
         NEW a \in {"quarantine", "confirmed", "transient", "not-reproduced"},
         a = "confirmed" => Item.hash \in Found /\ fb.at \notin fb.failures,
         NEW F \in {fb.failures, fb.failures \union {fb.at}},
         F # fb.failures => a # "confirmed",
         fb' = [NextItem(a) EXCEPT !.failures = F]
  PROVE  FbInv'
<1> DEFINE next == NextItem(a)
<1>1. /\ next \in FbType /\ next.phase = "gate" /\ next.at = fb.at + 1 /\ next.runs = 0
      /\ next.reproduced = 0 /\ next.seeds = fb.seeds
      /\ Len(next.items) = Len(fb.items)
      /\ \A j \in 1..Len(fb.items) : j # fb.at => next.items[j] = fb.items[j]
      /\ next.items[fb.at].action = a /\ (next.items[fb.at].confirmed <=> a = "confirmed")
      /\ next.items[fb.at].hash = Item.hash
  BY NextItemFacts
<1> HIDE DEF next
<1>2. F \in SUBSET Nat /\ fb.at \in Nat \ {0} /\ fb.items \in Seq(Items)
  BY DEF FbInv, FbType
<1>3. fb' = [next EXCEPT !.failures = F]
  BY DEF next
<1>4. /\ fb' \in FbType /\ fb'.phase = "gate" /\ fb'.at = fb.at + 1 /\ fb'.runs = 0
      /\ fb'.reproduced = 0 /\ fb'.seeds = {} /\ fb'.failures = F /\ fb'.items = next.items
  <2> HIDE DEF Items
  <2>1. fb'.seeds = next.seeds /\ next.seeds = {}
    BY <1>1, <1>3 DEF FbType, FbInv
  <2> QED
    BY <1>1, <1>2, <1>3, <2>1 DEF FbType
<1>5. \A j \in F : j <= fb.at
  BY <1>2 DEF FbInv
<1>6. ASSUME NEW j \in 1..Len(fb.items)
      PROVE  IF j < fb.at + 1 THEN Genuine(j)' ELSE Unseen(fb.items[j]) /\ next.items[j] = fb.items[j]
  <2>1. CASE j = fb.at
    BY <1>1, <1>2, <1>4, <2>1 DEF Genuine
  <2>2. CASE j < fb.at
    BY <1>1, <1>2, <1>4, <2>2 DEF Genuine, FbInv
  <2>3. CASE j > fb.at
    BY <1>1, <1>2, <2>3 DEF FbInv
  <2> QED
    BY <1>2, <2>1, <2>2, <2>3
<1>7. \A j \in 1..Len(fb'.items) : IF j < fb'.at THEN Genuine(j)' ELSE Unseen(fb'.items[j])
  BY <1>1, <1>4, <1>6
<1> QED
  BY <1>2, <1>4, <1>5, <1>7, ReplayAssumption DEF FbInv, SeedsReproduced

\* No step of the scan or of the gate breaks the invariant.
LEMMA FbStep == FbInv /\ [FbNext]_fb => FbInv'
<1> SUFFICES ASSUME FbInv, [FbNext]_fb PROVE FbInv'
  OBVIOUS
<1>0. /\ fb \in FbType /\ fb.items \in Seq(Items) /\ fb.at \in Nat \ {0} /\ fb.runs \in Nat
      /\ fb.reproduced \in Nat /\ fb.failures \in SUBSET Nat
  BY DEF FbInv, FbType
<1>a. ASSUME fb.phase = "gate", fb.at <= Len(fb.items)
      PROVE  Item \in Items /\ Unseen(Item)
  BY <1>0, <1>a DEF FbInv, Item
<1>b. ASSUME NEW a, fb.phase = "gate", fb.at <= Len(fb.items) PROVE
        NextItem(a) = [NextItem(a) EXCEPT !.failures = fb.failures]
  BY <1>0 DEF NextItem, FbType
<1>1. CASE Extract
  BY <1>1, ExtractKeeps
<1>2. CASE SkipItem
  <2>1. /\ fb.phase = "gate" /\ fb.at <= Len(fb.items) /\ fb' = NextItem(Item.action)
        /\ Item.action # "replay-confirm"
    BY <1>2 DEF SkipItem
  <2>2. Item.action \in {"quarantine", "confirmed", "transient", "not-reproduced"}
    BY <1>a, <2>1 DEF Items
  <2>3. Item.action # "confirmed"
    BY <1>a, <2>1 DEF Unseen
  <2> QED
    BY <1>b, <2>1, <2>2, <2>3, NextItemKeeps
<1>3. CASE PackagingFails
  BY <1>3, <1>b, NextItemKeeps DEF PackagingFails
<1>4. CASE Replay
  <2>1. /\ fb.runs + 1 <= ReplayN /\ fb.at <= Len(fb.items) /\ fb.phase = "gate"
        /\ \/ fb' = [fb EXCEPT !.runs = @ + 1, !.reproduced = @ + 1]
           \/ fb' = [fb EXCEPT !.runs = @ + 1, !.failures = @ \union {fb.at}]
    BY <1>0, <1>4, ReplayAssumption DEF Replay, Replaying
  <2>2. fb.runs + 1 \in Nat /\ fb.reproduced + 1 \in Nat /\ fb.failures \union {fb.at} \in SUBSET Nat
    BY <1>0
  <2> HIDE DEF Items
  <2>3. /\ fb' \in FbType /\ fb'.phase = "gate" /\ fb'.items = fb.items /\ fb'.at = fb.at
        /\ fb'.seeds = fb.seeds /\ fb'.runs = fb.runs + 1
        /\ \/ fb'.reproduced = fb.reproduced + 1 /\ fb'.failures = fb.failures
           \/ fb'.reproduced = fb.reproduced /\ fb'.failures = fb.failures \union {fb.at}
    BY <1>0, <2>1, <2>2 DEF FbType
  <2>4. \A j \in 1..Len(fb.items) : IF j < fb.at THEN Genuine(j)' ELSE Unseen(fb.items[j])
    BY <1>0, <2>3 DEF FbInv, Genuine
  <2>5. \A j \in fb'.failures : j <= fb'.at
    BY <1>0, <2>3 DEF FbInv
  <2>6. fb'.at \in fb'.failures => fb'.reproduced < fb'.runs
    BY <1>0, <2>3 DEF FbInv
  <2>7. fb'.reproduced <= fb'.runs
    BY <1>0, <2>3 DEF FbInv
  <2>8. fb'.seeds = {}
    BY <2>1, <2>3 DEF FbInv
  <2> QED
    BY <2>1, <2>3, <2>4, <2>5, <2>6, <2>7, <2>8 DEF FbInv, SeedsReproduced
<1>5. CASE ReplayTimesOut
  <2>1. /\ fb.phase = "gate" /\ fb.at <= Len(fb.items) /\ fb.runs < ReplayN
        /\ fb' = [NextItem(Verdict(fb.reproduced)) EXCEPT !.failures = fb.failures \union {fb.at}]
    <3>1. fb.phase = "gate" /\ fb.at <= Len(fb.items) /\ fb.runs < ReplayN
      BY <1>5 DEF ReplayTimesOut, Replaying
    <3>2. NextItem(Verdict(fb.reproduced)).failures = fb.failures
      BY <1>0 DEF NextItem, FbType
    <3> QED
      BY <1>5, <3>1, <3>2 DEF ReplayTimesOut
  <2>2. Verdict(fb.reproduced) \in {"transient", "not-reproduced"}
    BY <1>0, <2>1, ReplayAssumption DEF Verdict, FbInv
  <2> QED
    BY <2>1, <2>2, NextItemKeeps
<1>6. CASE ReplaysEnd
  <2>1. /\ fb.phase = "gate" /\ fb.at <= Len(fb.items) /\ fb.runs = ReplayN
        /\ Item.action = "replay-confirm" /\ fb' = NextItem(Verdict(fb.reproduced))
    BY <1>6 DEF ReplaysEnd, Replaying
  <2>2. Verdict(fb.reproduced) \in {"confirmed", "transient", "not-reproduced"}
    BY DEF Verdict
  <2>3. Verdict(fb.reproduced) = "confirmed" => fb.reproduced = fb.runs
    BY <2>1 DEF Verdict
  <2>4. Item.hash \in Found
    BY <1>a, <2>1 DEF Unseen
  <2>5. Verdict(fb.reproduced) = "confirmed" => fb.at \notin fb.failures
    BY <1>0, <2>3 DEF FbInv
  <2> QED
    BY <1>b, <2>1, <2>2, <2>4, <2>5, NextItemKeeps
<1>7. CASE Reseed
  <2> DEFINE seeds == {i.hash : i \in {i \in ToSet(fb.items) : Reseeds(i)}}
  <2>1. fb.phase = "gate" /\ fb.at > Len(fb.items)
        /\ fb' = [fb EXCEPT !.phase = "done", !.seeds = seeds]
    BY <1>7 DEF Reseed
  <2>2. ASSUME NEW h \in seeds
        PROVE  \E j \in 1..Len(fb.items) : fb.items[j].hash = h /\ fb.items[j].confirmed
    BY <1>0 DEF Reseeds, ToSet
  <2>3. seeds \in SUBSET (Hashes \union {Unhashed})
    <3>1. ASSUME NEW j \in 1..Len(fb.items) PROVE fb.items[j].hash \in Hashes \union {Unhashed}
      <4>1. fb.items[j] \in Items
        BY <1>0
      <4> QED
        BY <4>1 DEF Items
    <3> QED
      BY <2>2, <3>1
  <2> HIDE DEF seeds, Items
  <2>4. /\ fb' \in FbType /\ fb'.phase = "done" /\ fb'.seeds = seeds /\ fb'.items = fb.items
        /\ fb'.at = fb.at /\ fb'.runs = fb.runs /\ fb'.reproduced = fb.reproduced
        /\ fb'.failures = fb.failures
    BY <1>0, <2>1, <2>3 DEF FbType
  <2>5. \A j \in 1..Len(fb.items) : Genuine(j) /\ Genuine(j)'
    BY <1>0, <2>1, <2>4 DEF FbInv, Genuine
  <2>6. SeedsReproduced'
    BY <2>2, <2>4, <2>5 DEF SeedsReproduced, Genuine
  <2> QED
    BY <1>0, <2>1, <2>4, <2>5, <2>6 DEF FbInv
<1>8. CASE UNCHANGED fb
  BY <1>8 DEF FbInv, Genuine, SeedsReproduced
<1> QED
  BY <1>1, <1>2, <1>3, <1>4, <1>5, <1>6, <1>7, <1>8 DEF FbNext

\* feedback.py gives only seeds whose failure every replay showed again: for every report,
\* every number of replays and every outcome of theirs.
THEOREM SeedsAreReproduced == FbSpec => []SeedsReproduced
<1>1. FbInv => SeedsReproduced
  BY DEF FbInv
<1> QED
  BY FbInitial, FbStep, <1>1, PTL DEF FbSpec

-----------------------------------------------------------------------------
(* The SDC pipeline: rows in order *)

\* Of two rows one comes first, and its rank is the smaller one.
LEMMA RankType ==
  ASSUME NEW rows, NEW S \in SUBSET Nat, IsFiniteSet(S), NEW j \in S, rows[j].score \in Int
  PROVE  Rank(rows, S, j) \in 1..Cardinality(S)
<1> DEFINE B == {i \in S : NoLater(rows, i, j)}
<1>1. B \in SUBSET S /\ j \in B
  BY DEF NoLater
<1>2. /\ IsFiniteSet(B) /\ Cardinality(B) \in Nat /\ Cardinality(S) \in Nat
      /\ Cardinality(B) <= Cardinality(S)
  BY <1>1, FS_Subset, FS_CardinalityType
<1>3. Cardinality(B) # 0
  BY <1>1, <1>2, FS_EmptySet
<1> HIDE DEF B
<1>4. Cardinality(B) \in 1..Cardinality(S)
  BY <1>2, <1>3
<1> QED
  BY <1>4 DEF Rank, B

\* The row that comes first has the smaller rank: what comes before it comes before the other.
LEMMA EarlierRanks ==
  ASSUME NEW rows, NEW S \in SUBSET Nat, IsFiniteSet(S), \A i \in S : rows[i].score \in Int,
         NEW a \in S, NEW b \in S, a # b, NoLater(rows, a, b)
  PROVE  Rank(rows, S, a) < Rank(rows, S, b)
<1> DEFINE A == {i \in S : NoLater(rows, i, a)}
           B == {i \in S : NoLater(rows, i, b)}
<1>1. A \in SUBSET B
  <2> SUFFICES ASSUME NEW i \in S, NoLater(rows, i, a) PROVE NoLater(rows, i, b)
    OBVIOUS
  <2>1. /\ i \in Nat /\ a \in Nat /\ b \in Nat
        /\ rows[i].score \in Int /\ rows[a].score \in Int /\ rows[b].score \in Int
    OBVIOUS
  <2> QED
    BY <2>1 DEF NoLater
<1>2. b \in B /\ b \notin A
  <2>1. a \in Nat /\ b \in Nat /\ rows[a].score \in Int /\ rows[b].score \in Int
    OBVIOUS
  <2> QED
    BY <2>1 DEF NoLater
<1>3. IsFiniteSet(B)
  BY FS_Subset
<1> HIDE DEF A, B
<1>4. Cardinality(A) < Cardinality(B)
  <2>1. /\ IsFiniteSet(A) /\ Cardinality(A) \in Nat /\ Cardinality(B) \in Nat
        /\ Cardinality(A) <= Cardinality(B)
        /\ Cardinality(B) = Cardinality(A) => B = A
    BY <1>1, <1>3, FS_Subset, FS_CardinalityType
  <2> QED
    BY <1>2, <2>1
<1> QED
  BY <1>4 DEF Rank, A, B

\* No two rows have the same rank: one of them comes first.
LEMMA RanksDiffer ==
  ASSUME NEW rows, NEW S \in SUBSET Nat, IsFiniteSet(S), \A i \in S : rows[i].score \in Int,
         NEW a \in S, NEW b \in S, Rank(rows, S, a) = Rank(rows, S, b)
  PROVE  a = b
<1> SUFFICES ASSUME a # b PROVE FALSE
  OBVIOUS
<1>1. NoLater(rows, a, b) \/ NoLater(rows, b, a)
  <2>1. a \in Nat /\ b \in Nat /\ rows[a].score \in Int /\ rows[b].score \in Int
    OBVIOUS
  <2> QED
    BY <2>1 DEF NoLater
<1>2. Rank(rows, S, a) \in Nat /\ Rank(rows, S, b) \in Nat
  BY RankType
<1> QED
  BY <1>1, <1>2, EarlierRanks

\* Every rank is taken: there are as many ranks as rows.
LEMMA RankTaken ==
  ASSUME NEW rows, NEW S \in SUBSET Nat, IsFiniteSet(S), \A i \in S : rows[i].score \in Int,
         NEW k \in 1..Cardinality(S)
  PROVE  \E j \in S : Rank(rows, S, j) = k
<1> SUFFICES ASSUME \A j \in S : Rank(rows, S, j) # k PROVE FALSE
  OBVIOUS
<1> DEFINE n == Cardinality(S)
           T == (1..n) \ {k}
           f == [j \in S |-> Rank(rows, S, j)]
<1>1. n \in Nat
  BY FS_CardinalityType
<1>2. IsFiniteSet(1..n) /\ Cardinality(1..n) = n
  BY <1>1, FS_Interval
<1>3. IsFiniteSet(T) /\ Cardinality(T) = n - 1
  BY <1>2, FS_RemoveElement
<1>4. f \in [S -> T]
  BY RankType
<1>5. \E x, y \in S : x # y /\ f[x] = f[y]
  <2> HIDE DEF f, T
  <2>1. Cardinality(T) < Cardinality(S)
    BY <1>1, <1>3
  <2> QED
    BY <1>3, <1>4, <2>1, FS_PigeonHole
<1> QED
  BY <1>5, RanksDiffer

\* What is sorted: the row of every rank.
LEMMA SortedRows ==
  ASSUME NEW rows, NEW S \in SUBSET Nat, IsFiniteSet(S), \A i \in S : rows[i].score \in Int
  PROVE  /\ \A k \in 1..Cardinality(S) :
              \E j \in S : Sorted(rows, S)[k] = rows[j] /\ Rank(rows, S, j) = k
         /\ \A j \in S : Sorted(rows, S)[Rank(rows, S, j)] = rows[j]
<1> DEFINE at(k) == CHOOSE j \in S : Rank(rows, S, j) = k
<1>1. ASSUME NEW k \in 1..Cardinality(S)
      PROVE  at(k) \in S /\ Rank(rows, S, at(k)) = k /\ Sorted(rows, S)[k] = rows[at(k)]
  <2>1. \E j \in S : Rank(rows, S, j) = k
    BY RankTaken
  <2> QED
    BY <2>1 DEF Sorted
<1> HIDE DEF at
<1>2. ASSUME NEW j \in S PROVE Sorted(rows, S)[Rank(rows, S, j)] = rows[j]
  <2>1. Rank(rows, S, j) \in 1..Cardinality(S)
    BY RankType
  <2> DEFINE k == Rank(rows, S, j)
  <2>2. at(k) \in S /\ Rank(rows, S, at(k)) = k /\ Sorted(rows, S)[k] = rows[at(k)]
    BY <1>1, <2>1
  <2>3. at(k) = j
    BY <2>2, RanksDiffer
  <2> QED
    BY <2>2, <2>3
<1> QED
  BY <1>1, <1>2

\* "top" is the first m of the rows S, sorted.
TopOf(T, rows, S, m, top) ==
  /\ rows \in Seq(T) /\ \A t \in T : t.score \in Int
  /\ S \in SUBSET (DOMAIN rows) /\ m \in Nat /\ top = Firsts(Sorted(rows, S), m)

\* The first rows of the sorted ones are rows.
LEMMA FirstSorted ==
  ASSUME NEW T, NEW rows, NEW S, NEW m, NEW top, TopOf(T, rows, S, m, top)
  PROVE  /\ IsFiniteSet(S) /\ S \in SUBSET Nat /\ \A i \in S : rows[i].score \in Int
         /\ top \in Seq(T)
         /\ Len(top) = IF Cardinality(S) <= m THEN Cardinality(S) ELSE m
         /\ Cardinality(S) \in Nat
         /\ \A k \in 1..Len(top) : top[k] = Sorted(rows, S)[k]
<1> DEFINE n == Cardinality(S)
           all == Sorted(rows, S)
<1> /\ rows \in Seq(T) /\ \A t \in T : t.score \in Int
    /\ S \in SUBSET (DOMAIN rows) /\ m \in Nat /\ top = Firsts(Sorted(rows, S), m)
  BY DEF TopOf
<1>1. DOMAIN rows = 1..Len(rows) /\ Len(rows) \in Nat
  OBVIOUS
<1>2. IsFiniteSet(S) /\ S \in SUBSET Nat
  <2>1. 1 \in Int /\ Len(rows) \in Int
    BY <1>1
  <2>2. IsFiniteSet(1..Len(rows))
    BY <2>1, FS_Interval
  <2> QED
    BY <1>1, <2>2, FS_Subset
<1>3. \A i \in S : rows[i] \in T /\ rows[i].score \in Int
  BY <1>1
<1>4. n \in Nat
  BY <1>2, FS_CardinalityType
<1>5. \A k \in 1..n : \E j \in S : all[k] = rows[j]
  BY <1>2, <1>3, SortedRows
<1>6. all \in Seq(T) /\ Len(all) = n
  <2>1. \A k \in 1..n : all[k] \in T
    BY <1>3, <1>5
  <2>2. all = [k \in 1..n |-> all[k]]
    BY DEF Sorted
  <2> HIDE DEF all, n
  <2> QED
    BY <1>4, <2>1, <2>2
<1> HIDE DEF all, n
<1>7. top = IF n <= m THEN all ELSE SubSeq(all, 1, m)
  BY <1>6 DEF Firsts, all
<1>8. top \in Seq(T) /\ Len(top) = (IF n <= m THEN n ELSE m) /\ \A k \in 1..Len(top) : top[k] = all[k]
  BY <1>4, <1>6, <1>7
<1> QED
  BY <1>2, <1>3, <1>4, <1>8 DEF all, n

\* The k-th of the first rows is the row of rank k.
LEMMA FirstSortedAt ==
  ASSUME NEW T, NEW rows, NEW S, NEW m, NEW top, TopOf(T, rows, S, m, top),
         NEW k \in 1..Len(top)
  PROVE  \E j \in S : top[k] = rows[j] /\ Rank(rows, S, j) = k
<1>1. /\ IsFiniteSet(S) /\ S \in SUBSET Nat /\ \A i \in S : rows[i].score \in Int
      /\ Len(top) = IF Cardinality(S) <= m THEN Cardinality(S) ELSE m
      /\ Cardinality(S) \in Nat
  BY FirstSorted
<1>2. top[k] = Sorted(rows, S)[k]
  <2>1. \A i \in 1..Len(top) : top[i] = Sorted(rows, S)[i]
    BY FirstSorted
  <2> QED
    BY <2>1
<1>3. k \in 1..Cardinality(S)
  BY <1>1
<1> QED
  BY <1>1, <1>2, <1>3, SortedRows

-----------------------------------------------------------------------------
(* The invariant *)

Assessments == [ident : Contents, score : Scores, validated : BOOLEAN]
Rows == [cand : Cands, score : Scores]
Files(recs) == [lines : Seq(recs), end : {"newline", "open", "bad"}]
Writings == {NotWriting} \union [to : {"candidates"}, rec : Cands]
              \union [to : {"assessments"}, rec : Assessments]
Places == {"down", "unreadable", "seeding", "choose", "mutate", "put", "assess", "validate", "done"}
Processes == [pc : Places, gen : Int, with : Settings \union {NoSettings}, pool : Seq(Cands),
         left : Seq(Cands) \union Seq(Names) \union Seq(Rows), children : Seq(Cands),
         rows : Seq(Rows), chosen : Seq(Names), heard : SUBSET Names, goldens : SUBSET Contents,
         final : Seq(Assessments), kills : Int]
Vaults == [cands : Seq(Cands), assess : Seq(Assessments), children : [Contents -> SUBSET Contents],
           loaded : Nat]
SdcTypeOK ==
  /\ candFile \in Files(Cands) /\ assessFile \in Files(Assessments)
  /\ vault \in Vaults
  /\ writing \in Writings /\ run \in Processes

Live == run.pc \notin {"down", "unreadable"}

\* Every candidate comes after its parent.
Descends(cands) ==
  \A j \in 1..Len(cands) :
    cands[j].parent = None \/ \E i \in 1..(j - 1) : cands[i].ident = cands[j].parent

\* A file that can be read is the index without the record under way.
CandsMatch ==
  Readable(candFile) =>
    vault.cands = IF writing.to = "candidates" THEN Append(candFile.lines, writing.rec)
                  ELSE candFile.lines
AssessMatch ==
  Readable(assessFile) =>
    Unvalidated(vault.assess) = IF writing.to = "assessments" THEN Append(assessFile.lines, writing.rec)
                                ELSE assessFile.lines

DiskInv ==
  /\ LineageOnDisk /\ Descends(vault.cands)
  /\ AssessedIsStored /\ Idents(vault.assess) \subseteq Idents(vault.cands)
  /\ \A j \in 1..Len(assessFile.lines) : ~ assessFile.lines[j].validated
  /\ IF Live THEN CandsMatch /\ AssessMatch ELSE writing = NotWriting /\ vault = NoVault

\* What the process holds came from the index or is about to go there.
Known == Idents(vault.cands)
Parented(c) == c.parent = None \/ c.parent \in Known
SeedingInv ==
  run.pc = "seeding" =>
    /\ run.left \in Seq(Cands) /\ \A c \in ToSet(run.left) : c.parent = None
    /\ \A c \in ToSet(SeedList) : c.ident \in Known \/ c.ident \in Idents(run.left)
PoolInv ==
  run.pc \in {"choose", "mutate", "put", "assess", "validate"} =>
    \A c \in ToSet(run.pool) : c.ident \in Known
ChildInv ==
  /\ \A c \in ToSet(run.children) : Parented(c)
  /\ run.pc = "mutate" => run.left \in Seq(Names)
  /\ run.pc = "put" =>
       /\ run.left \in Seq(Cands) /\ \A c \in ToSet(run.left) : Parented(c)
       /\ \A c \in ToSet(run.children) : c.ident \in Known \/ c.ident \in Idents(run.left)
RowInv ==
  /\ run.pc = "assess" =>
       /\ run.left \in Seq(Rows) /\ \A r \in ToSet(run.left) : r.cand.ident \in Known
       /\ \A r \in ToSet(run.rows) : r.cand.ident \in Known
  /\ run.pc = "validate" => run.left \in Seq(Cands)
RunInv == SeedingInv /\ PoolInv /\ ChildInv /\ RowInv

SdcInv == SdcTypeOK /\ DiskInv /\ RunInv /\ FinalTopIsBest

\* The candidates that were read come first; the children are those of the others.
ChildrenInv == vault.loaded <= Len(vault.cands) /\ ChildrenSinceOpening

\* Between two appends no record is under way, and the files are the index.
LEMMA SdcInvIsFaithful == SdcInv /\ ChildrenInv => VaultIsFaithful
<1> SUFFICES ASSUME SdcInv, ChildrenInv PROVE VaultIsFaithful
  OBVIOUS
<1>1. ReopeningIsFaithful
  <2> SUFFICES ASSUME Live, writing = NotWriting
               PROVE  /\ Readable(candFile) => candFile.lines = vault.cands
                      /\ Readable(assessFile) => assessFile.lines = Unvalidated(vault.assess)
    BY DEF ReopeningIsFaithful, Live
  <2>1. writing.to # "candidates" /\ writing.to # "assessments"
    BY DEF NotWriting, None
  <2> QED
    BY <2>1 DEF SdcInv, DiskInv, CandsMatch, AssessMatch
<1> QED
  BY <1>1 DEF SdcInv, DiskInv, ChildrenInv, VaultIsFaithful

\* An empty directory and no process.
LEMMA SdcInitial == SdcInit => SdcInv
<1> SUFFICES ASSUME SdcInit PROVE SdcInv
  OBVIOUS
<1>1. /\ candFile = EmptyFile /\ assessFile = EmptyFile /\ vault = NoVault
      /\ writing = NotWriting /\ run = Down(0)
  BY DEF SdcInit
<1>2. SdcTypeOK
  BY <1>1 DEF SdcTypeOK, Files, Writings, Processes, Places, EmptyFile, NoVault,
              NoChildren, Vaults, Down
<1>3. DiskInv
  BY <1>1 DEF DiskInv, LineageOnDisk, Descends, AssessedIsStored, Idents, ToSet, Live,
              EmptyFile, NoVault, Down
<1>4. RunInv /\ FinalTopIsBest
  BY <1>1 DEF RunInv, SeedingInv, PoolInv, ChildInv, RowInv, FinalTopIsBest, ToSet, Down
<1> QED
  BY <1>2, <1>3, <1>4 DEF SdcInv

-----------------------------------------------------------------------------
(* Steps of the process alone *)

\* A step that leaves the files and the index alone leaves what relates them alone.
LEMMA DiskStays ==
  ASSUME SdcInv, UNCHANGED <<candFile, assessFile, vault, writing>>, Live, Live'
  PROVE  DiskInv'
<1> USE DEF SdcInv, DiskInv
<1>1. LineageOnDisk' /\ Descends(vault.cands)' /\ AssessedIsStored'
  BY DEF LineageOnDisk, Descends, AssessedIsStored, Readable
<1>2. CandsMatch' /\ AssessMatch'
  BY DEF CandsMatch, AssessMatch, Readable, Unvalidated
<1> QED
  BY <1>1, <1>2

\* The types of a step that changes the process alone.
LEMMA TypesStay ==
  ASSUME SdcInv, UNCHANGED <<candFile, assessFile, vault, writing>>, run' \in Processes
  PROVE  SdcTypeOK'
BY DEF SdcInv, SdcTypeOK

\* When every seed is stored, the pool is the seeds.
LEMMA StartRunKeeps == SdcInv /\ StartRun => SdcInv'
<1> SUFFICES ASSUME SdcInv, StartRun PROVE SdcInv'
  OBVIOUS
<1>1. /\ run.pc = "seeding" /\ run.left = <<>> /\ run \in Processes
      /\ run' = [run EXCEPT !.pc = "choose", !.pool = SeedList, !.gen = 1]
      /\ UNCHANGED <<candFile, assessFile, vault, writing>>
  BY DEF StartRun, At, SdcInv, SdcTypeOK
<1>2. /\ run' \in Processes /\ run'.pc = "choose" /\ run'.pool = SeedList
      /\ run'.left = run.left /\ run'.children = run.children
  <2>1. SeedList \in Seq(Cands) /\ 1 \in Int
    BY PipelineAssumption
  <2> QED
    BY <1>1, <2>1 DEF Processes, Places
<1>3. DiskInv' /\ SdcTypeOK'
  BY <1>1, <1>2, DiskStays, TypesStay DEF Live
<1>4. Idents(run.left) = {}
  BY <1>1 DEF Idents, ToSet
<1>5. RunInv'
  BY <1>1, <1>2, <1>4 DEF RunInv, SeedingInv, PoolInv, ChildInv, RowInv, SdcInv, Known, Parented
<1> QED
  BY <1>2, <1>3, <1>5 DEF SdcInv, FinalTopIsBest

\* Work for every mutator chosen.
LEMMA WorkType ==
  ASSUME NEW chosen \in Seq(Names)
  PROVE  Work(chosen) \in Seq(Names)
<1> DEFINE n == Len(chosen) * PerGenMutations
<1>1. n \in Nat /\ Len(chosen) \in Nat /\ PerGenMutations \in Nat
  BY PipelineAssumption
<1>2. ASSUME NEW j \in 1..n PROVE 1 + ((j - 1) \div PerGenMutations) \in 1..Len(chosen)
  <2>1. PerGenMutations # 0 /\ j \in Nat /\ j - 1 \in Nat /\ j - 1 < n
    BY <1>1
  <2> DEFINE q == (j - 1) \div PerGenMutations
  <2>2. q \in Nat /\ q * PerGenMutations <= j - 1
    BY <1>1, <2>1
  <2>3. q < Len(chosen)
    <3> SUFFICES ASSUME q >= Len(chosen) PROVE FALSE
      BY <1>1, <2>2
    <3> HIDE DEF q
    <3>1. q * PerGenMutations >= Len(chosen) * PerGenMutations
      BY <1>1, <2>2
    <3> QED
      BY <1>1, <2>1, <2>2, <3>1
  <2> HIDE DEF q
  <2> QED
    BY <1>1, <2>2, <2>3 DEF q
<1>3. \A j \in 1..n : chosen[1 + ((j - 1) \div PerGenMutations)] \in Names
  BY <1>2
<1>4. Work(chosen) = [j \in 1..n |-> chosen[1 + ((j - 1) \div PerGenMutations)]]
  BY DEF Work
<1> HIDE DEF n
<1>5. \A j \in 1..n : Work(chosen)[j] \in Names
  BY <1>3, <1>4
<1>6. Work(chosen) = [j \in 1..n |-> Work(chosen)[j]]
  BY <1>4
<1> QED
  BY <1>1, <1>5, <1>6, EntriesAreSeq

\* The choice of the mutators leaves pool and children alone.
LEMMA ChooseKeeps == SdcInv /\ Choose => SdcInv'
<1> SUFFICES ASSUME SdcInv, Choose PROVE SdcInv'
  OBVIOUS
<1>1. PICK c \in choose_mutators :
        run' = [run EXCEPT !.pc = "mutate", !.chosen = c, !.left = Work(c), !.rows = <<>>, !.heard = {}]
  BY DEF Choose
<1>2. /\ run.pc = "choose" /\ run \in Processes
      /\ UNCHANGED <<candFile, assessFile, vault, writing>>
  BY DEF Choose, At, SdcInv, SdcTypeOK
<1>3. c \in Seq(Names)
  <2>1. \A m \in ToSet(Mutators) : <<m>> \in Seq(Names)
    BY PipelineAssumption DEF ToSet
  <2> QED
    BY <2>1, PipelineAssumption DEF choose_mutators
<1>4. Work(c) \in Seq(Names)
  BY <1>3, WorkType
<1>5. /\ run' \in Processes /\ run'.pc = "mutate" /\ run'.pool = run.pool
      /\ run'.left = Work(c) /\ run'.children = run.children
  <2>1. <<>> \in Seq(Rows)
    OBVIOUS
  <2> QED
    BY <1>1, <1>2, <1>3, <1>4, <2>1 DEF Processes, Places
<1>6. DiskInv' /\ SdcTypeOK'
  BY <1>2, <1>5, DiskStays, TypesStay DEF Live
<1>7. RunInv'
  BY <1>2, <1>4, <1>5 DEF RunInv, SeedingInv, PoolInv, ChildInv, RowInv, SdcInv, Known, Parented
<1> QED
  BY <1>5, <1>6, <1>7 DEF SdcInv, FinalTopIsBest

\* A child descends from a member of the pool.
LEMMA MutateKeeps == SdcInv /\ Mutate => SdcInv'
<1> SUFFICES ASSUME SdcInv, Mutate PROVE SdcInv'
  OBVIOUS
<1>1. /\ run.pc = "mutate" /\ run.left # <<>> /\ run \in Processes
      /\ UNCHANGED <<candFile, assessFile, vault, writing>>
  BY DEF Mutate, At, SdcInv, SdcTypeOK
<1>2. run.left \in Seq(Names) /\ Head(run.left) \in Names /\ Tail(run.left) \in Seq(Names)
  <2>1. run.left \in Seq(Names)
    BY <1>1 DEF SdcInv, RunInv, ChildInv
  <2> QED
    BY <1>1, <2>1
<1>3. run.pool \in Seq(Cands) /\ run.children \in Seq(Cands)
  BY <1>1 DEF Processes
<1>4. CASE run' = [run EXCEPT !.left = Tail(@)]
  <2>1. /\ run' \in Processes /\ run'.pc = "mutate" /\ run'.pool = run.pool
        /\ run'.left = Tail(run.left) /\ run'.children = run.children
    BY <1>1, <1>2, <1>4 DEF Processes
  <2>2. DiskInv' /\ SdcTypeOK'
    BY <1>1, <2>1, DiskStays, TypesStay DEF Live
  <2>3. RunInv'
    BY <1>1, <1>2, <2>1 DEF RunInv, SeedingInv, PoolInv, ChildInv, RowInv, SdcInv, Known, Parented
  <2> QED
    BY <2>1, <2>2, <2>3 DEF SdcInv, FinalTopIsBest
<1>5. CASE \E parent \in ToSet(run.pool) : \E c \in mutate(Head(run.left), parent) :
             run' = [run EXCEPT !.left = Tail(@), !.children = Append(@, c)]
  <2>1. PICK parent \in ToSet(run.pool) : \E c \in mutate(Head(run.left), parent) :
               run' = [run EXCEPT !.left = Tail(@), !.children = Append(@, c)]
    BY <1>5
  <2>2. PICK c \in mutate(Head(run.left), parent) :
               run' = [run EXCEPT !.left = Tail(@), !.children = Append(@, c)]
    BY <2>1
  <2>3. parent \in Cands /\ parent.ident \in Known
    <3>1. parent \in Cands
      BY <1>3 DEF ToSet
    <3> QED
      BY <1>1, <3>1 DEF SdcInv, RunInv, PoolInv
  <2>4. c \in Cands /\ c.parent = parent.ident
    <3> DEFINE m == Head(run.left)
    <3>1. PICK i \in Contents : c = Child(m, parent, i)
      BY <2>2, PipelineAssumption DEF mutate
    <3> DEFINE b == parent.fs001 \/ m \in Tagging
    <3>2. b \in BOOLEAN
      OBVIOUS
    <3>3. Mutated(m) \in Origins
      BY <1>2 DEF Origins
    <3>4. c = [ident |-> i, parent |-> parent.ident, origin |-> Mutated(m), fs001 |-> b]
      BY <3>1 DEF Child
    <3> HIDE DEF b
    <3> QED
      BY <2>3, <3>2, <3>3, <3>4 DEF Cands
  <2>5. Append(run.children, c) \in Seq(Cands)
    BY <1>3, <2>4
  <2>6. /\ run' \in Processes /\ run'.pc = "mutate" /\ run'.pool = run.pool
        /\ run'.left = Tail(run.left) /\ run'.children = Append(run.children, c)
    BY <1>1, <1>2, <2>2, <2>5 DEF Processes
  <2>7. DiskInv' /\ SdcTypeOK'
    BY <1>1, <2>6, DiskStays, TypesStay DEF Live
  <2>8. \A x \in ToSet(run'.children) : x \in ToSet(run.children) \/ x = c
    BY <1>3, <2>4, <2>6 DEF ToSet
  <2>9. \A x \in ToSet(run'.children) : Parented(x)
    BY <2>3, <2>4, <2>8 DEF SdcInv, RunInv, ChildInv, Parented
  <2>10. RunInv'
    BY <1>1, <1>2, <2>6, <2>9 DEF RunInv, SeedingInv, PoolInv, ChildInv, RowInv, SdcInv, Known, Parented
  <2> QED
    BY <2>6, <2>7, <2>10 DEF SdcInv, FinalTopIsBest
<1> QED
  BY <1>4, <1>5 DEF Mutate

\* All children are put into the vault before one of them is assessed.
LEMMA MutateDoneKeeps == SdcInv /\ MutateDone => SdcInv'
<1> SUFFICES ASSUME SdcInv, MutateDone PROVE SdcInv'
  OBVIOUS
<1>1. /\ run.pc = "mutate" /\ run \in Processes
      /\ run' = [run EXCEPT !.pc = "put", !.left = run.children]
      /\ UNCHANGED <<candFile, assessFile, vault, writing>>
  BY DEF MutateDone, At, SdcInv, SdcTypeOK
<1>2. /\ run' \in Processes /\ run'.pc = "put" /\ run'.pool = run.pool
      /\ run'.left = run.children /\ run'.children = run.children /\ run.children \in Seq(Cands)
  BY <1>1 DEF Processes, Places
<1>3. DiskInv' /\ SdcTypeOK'
  BY <1>1, <1>2, DiskStays, TypesStay DEF Live
<1>4. \A c \in ToSet(run.children) : c.ident \in Idents(run.children)
  BY DEF Idents
<1>5. RunInv'
  BY <1>1, <1>2, <1>4 DEF RunInv, SeedingInv, PoolInv, ChildInv, RowInv, SdcInv, Known, Parented
<1> QED
  BY <1>2, <1>3, <1>5 DEF SdcInv, FinalTopIsBest

\* The rows are those of the children, which are stored by now.
LEMMA AssessKeeps == SdcInv /\ Assess => SdcInv'
<1> SUFFICES ASSUME SdcInv, Assess PROVE SdcInv'
  OBVIOUS
<1>1. PICK s \in [1..Len(run.children) -> Scores] :
        LET rows == [j \in 1..Len(run.children) |-> Row(run.children[j], s[j])]
        IN  run' = [run EXCEPT !.pc = "assess", !.rows = rows, !.left = rows, !.children = <<>>]
  BY DEF Assess
<1> DEFINE rows == [j \in 1..Len(run.children) |-> Row(run.children[j], s[j])]
<1>2. /\ run.pc = "put" /\ run.left = <<>> /\ run \in Processes
      /\ run' = [run EXCEPT !.pc = "assess", !.rows = rows, !.left = rows, !.children = <<>>]
      /\ UNCHANGED <<candFile, assessFile, vault, writing>>
  BY <1>1 DEF Assess, At, SdcInv, SdcTypeOK
<1>3. run.children \in Seq(Cands) /\ Len(run.children) \in Nat
  BY <1>2 DEF Processes
<1>4. ASSUME NEW j \in 1..Len(run.children)
      PROVE  rows[j] \in Rows /\ rows[j].cand = run.children[j]
  <2>1. run.children[j] \in Cands /\ s[j] \in Scores
    BY <1>3
  <2> QED
    BY <2>1 DEF Row, Rows
<1>5. rows \in Seq(Rows) /\ Len(rows) = Len(run.children)
  <2>1. rows = [j \in 1..Len(run.children) |-> rows[j]]
    OBVIOUS
  <2>2. \A j \in 1..Len(run.children) : rows[j] \in Rows
    BY <1>4
  <2> HIDE DEF rows
  <2> QED
    BY <1>3, <2>1, <2>2, EntriesAreSeq
<1>6. \A c \in ToSet(run.children) : c.ident \in Known
  BY <1>2 DEF SdcInv, RunInv, ChildInv, Idents, ToSet
<1>7. \A r \in ToSet(rows) : r.cand.ident \in Known
  <2> SUFFICES ASSUME NEW j \in 1..Len(run.children) PROVE rows[j].cand.ident \in Known
    BY <1>5 DEF ToSet
  <2>1. run.children[j] \in ToSet(run.children)
    BY <1>3 DEF ToSet
  <2> QED
    BY <1>4, <1>6, <2>1
<1> HIDE DEF rows
<1>8. /\ run' \in Processes /\ run'.pc = "assess" /\ run'.pool = run.pool
      /\ run'.left = rows /\ run'.rows = rows /\ run'.children = <<>>
  <2>1. <<>> \in Seq(Cands)
    OBVIOUS
  <2> QED
    BY <1>2, <1>5, <2>1 DEF Processes, Places
<1>9. DiskInv' /\ SdcTypeOK'
  BY <1>2, <1>8, DiskStays, TypesStay DEF Live
<1>10. RunInv'
  <2>1. ToSet(run'.children) = {}
    BY <1>8 DEF ToSet
  <2>2. Known' = Known
    BY <1>2 DEF Known
  <2> QED
    BY <1>2, <1>5, <1>7, <1>8, <2>1, <2>2 DEF RunInv, SeedingInv, PoolInv, ChildInv, RowInv, SdcInv
<1> QED
  BY <1>8, <1>9, <1>10 DEF SdcInv, FinalTopIsBest

\* A run that has begun has its settings.
SettingsInv == Live => run.with \in Settings

\* A process keeps the settings it was started with.
LEMMA SettingsStay == SdcTypeOK /\ SettingsInv /\ [SdcNext]_sdcvars => SettingsInv'
<1> SUFFICES ASSUME run \in Processes, SettingsInv, [SdcNext]_sdcvars PROVE SettingsInv'
  BY DEF SdcTypeOK
<1>1. CASE OpenVault
  BY <1>1 DEF OpenVault, SettingsInv, Live, Processes
<1>2. CASE Kill
  BY <1>2 DEF Kill, SettingsInv, Live, Down
<1>3. ASSUME Live, run'.with = run.with PROVE SettingsInv'
  BY <1>3 DEF SettingsInv, Live
<1>4. CASE AppendLine \/ UNCHANGED sdcvars
  BY <1>4 DEF AppendLine, sdcvars, SettingsInv, Live
<1>5. CASE PutSeed \/ StartRun \/ Choose \/ MutateDone
  BY <1>3, <1>5 DEF PutSeed, StartRun, Choose, MutateDone, At, Live, Processes
<1>6. CASE Mutate
  BY <1>3, <1>6 DEF Mutate, At, Live, Processes
<1>7. CASE PutChild \/ PutAssessment \/ Validate \/ Observe \/ FinalTop
  BY <1>3, <1>7 DEF PutChild, PutAssessment, Validate, Observe, FinalTop, At, Live, Processes
<1>8. CASE Assess
  BY <1>3, <1>8 DEF Assess, At, Live, Processes
<1>9. CASE Filter
  BY <1>3, <1>9 DEF Filter, At, Live, Processes
<1> QED
  BY <1>1, <1>2, <1>4, <1>5, <1>6, <1>7, <1>8, <1>9 DEF SdcNext

\* A filter selects rows.
LEMMA SelectedRows ==
  ASSUME NEW filt \in {"weighted", "pareto", "random"}, NEW rows \in Seq(Rows), NEW k \in Nat,
         NEW chosen \in select(filt, rows, k)
  PROVE  chosen \in Seq(Rows) /\ \A j \in 1..Len(chosen) : \E i \in DOMAIN rows : chosen[j] = rows[i]
<1>1. \A r \in Rows : r.score \in Int
  BY PipelineAssumption DEF Rows
<1>2. ASSUME NEW S \in SUBSET (DOMAIN rows), chosen = Firsts(Sorted(rows, S), k)
      PROVE  chosen \in Seq(Rows) /\ \A j \in 1..Len(chosen) : \E i \in DOMAIN rows : chosen[j] = rows[i]
  <2> TopOf(Rows, rows, S, k, chosen)
    BY <1>1, <1>2 DEF TopOf
  <2>1. chosen \in Seq(Rows)
    BY FirstSorted
  <2>2. \A j \in 1..Len(chosen) : \E i \in S : chosen[j] = rows[i]
    <3> SUFFICES ASSUME NEW j \in 1..Len(chosen) PROVE \E i \in S : chosen[j] = rows[i]
      OBVIOUS
    <3>1. \E i \in S : chosen[j] = rows[i] /\ Rank(rows, S, i) = j
      BY FirstSortedAt
    <3> QED
      BY <3>1
  <2> QED
    BY <2>1, <2>2
<1>3. CASE filt \in {"weighted", "pareto"}
  <2> DEFINE S == IF filt = "weighted" THEN DOMAIN rows
                  ELSE {j \in DOMAIN rows : \A i \in DOMAIN rows : rows[i].score <= rows[j].score}
  <2>1. chosen = Firsts(Sorted(rows, S), k)
    BY <1>3 DEF select
  <2>2. S \in SUBSET (DOMAIN rows)
    OBVIOUS
  <2> HIDE DEF S
  <2> QED
    BY <1>2, <2>1, <2>2
<1>4. CASE filt = "random"
  <2>1. CASE Len(rows) <= k
    BY <1>4, <2>1 DEF select
  <2>2. CASE ~ (Len(rows) <= k)
    <3>1. chosen \in {[j \in 1..k |-> rows[pick[j]]] :
              pick \in {p \in [1..k -> 1..Len(rows)] : \A i, j \in 1..k : p[i] = p[j] => i = j}}
      BY <1>4, <2>2 DEF select
    <3>2. PICK pick \in [1..k -> 1..Len(rows)] : chosen = [j \in 1..k |-> rows[pick[j]]]
      BY <3>1
    <3>3. \A j \in 1..k : chosen[j] = rows[pick[j]] /\ pick[j] \in DOMAIN rows /\ rows[pick[j]] \in Rows
      BY <3>2
    <3>4. chosen = [j \in 1..k |-> chosen[j]]
      BY <3>2
    <3>5. chosen \in Seq(Rows) /\ Len(chosen) = k
      BY <1>2, <3>3, <3>4, EntriesAreSeq
    <3> QED
      BY <3>3, <3>5
  <2> QED
    BY <2>1, <2>2
<1> QED
  BY <1>3, <1>4

\* The next pool is chosen among the rows, or is the pool there was.
LEMMA FilterKeeps == SdcInv /\ SettingsInv /\ Filter => SdcInv'
<1> SUFFICES ASSUME SdcInv, SettingsInv, Filter PROVE SdcInv'
  OBVIOUS
<1> DEFINE pool(rows) == IF run.rows = <<>> THEN run.pool ELSE [j \in 1..Len(rows) |-> rows[j].cand]
           left(rows) == IF run.rows = <<>> THEN <<>> ELSE Firsts(pool(rows), ValidateTopK)
<1>1. PICK rows \in select(run.with.filt, run.rows, TopK) :
        run' = [run EXCEPT !.pc = "validate", !.pool = pool(rows), !.left = left(rows)]
  BY DEF Filter
<1>2. /\ run.pc = "assess" /\ run \in Processes /\ run.rows \in Seq(Rows)
      /\ UNCHANGED <<candFile, assessFile, vault, writing>>
  BY DEF Filter, At, SdcInv, SdcTypeOK, Processes
<1>3. rows \in Seq(Rows) /\ \A j \in 1..Len(rows) : \E i \in DOMAIN run.rows : rows[j] = run.rows[i]
  <2>1. run.with \in Settings
    BY <1>2 DEF SettingsInv, Live
  <2>2. run.with.filt \in {"weighted", "pareto", "random"} /\ TopK \in Nat
    BY <2>1, PipelineAssumption
  <2> QED
    BY <1>2, <2>2, SelectedRows
<1>4. pool(rows) \in Seq(Cands) /\ \A c \in ToSet(pool(rows)) : c.ident \in Known
  <2>1. CASE run.rows = <<>>
    BY <1>2, <2>1 DEF SdcInv, RunInv, PoolInv, Processes
  <2>2. CASE run.rows # <<>>
    <3>1. ASSUME NEW j \in 1..Len(rows) PROVE rows[j].cand \in Cands /\ rows[j].cand.ident \in Known
      <4>1. rows[j] \in Rows /\ rows[j] \in ToSet(run.rows)
        BY <1>2, <1>3 DEF ToSet
      <4> QED
        BY <1>2, <4>1 DEF Rows, SdcInv, RunInv, RowInv
    <3> DEFINE p == [j \in 1..Len(rows) |-> rows[j].cand]
    <3>2. pool(rows) = p
      BY <2>2
    <3>3. p \in Seq(Cands)
      BY <1>3, <3>1
    <3>4. DOMAIN p = 1..Len(rows) /\ \A j \in 1..Len(rows) : p[j] = rows[j].cand
      OBVIOUS
    <3> HIDE DEF p
    <3> QED
      BY <3>1, <3>2, <3>3, <3>4 DEF ToSet
  <2> QED
    BY <2>1, <2>2
<1> HIDE DEF pool
<1>5. left(rows) \in Seq(Cands)
  BY <1>4, PipelineAssumption DEF Firsts
<1> HIDE DEF left
<1>6. /\ run' \in Processes /\ run'.pc = "validate" /\ run'.pool = pool(rows)
      /\ run'.left = left(rows) /\ run'.children = run.children
  BY <1>1, <1>2, <1>4, <1>5 DEF Processes, Places
<1>7. DiskInv' /\ SdcTypeOK'
  BY <1>2, <1>6, DiskStays, TypesStay DEF Live
<1>8. RunInv'
  BY <1>2, <1>4, <1>5, <1>6 DEF RunInv, SeedingInv, PoolInv, ChildInv, RowInv, SdcInv, Known, Parented
<1> QED
  BY <1>6, <1>7, <1>8 DEF SdcInv, FinalTopIsBest

\* The feedback to the policy touches nothing that is stored.
LEMMA ObserveKeeps == SdcInv /\ Observe => SdcInv'
<1> SUFFICES ASSUME SdcInv, Observe PROVE SdcInv'
  OBVIOUS
<1> DEFINE heard == {m \in ToSet(run.chosen) : \E r \in ToSet(run.rows) : r.cand.origin = <<"mutate", m>>}
<1>1. /\ run.pc = "validate" /\ run \in Processes
      /\ run' = [run EXCEPT !.pc = "choose", !.gen = @ + 1, !.heard = heard]
      /\ UNCHANGED <<candFile, assessFile, vault, writing>>
  BY DEF Observe, At, SdcInv, SdcTypeOK
<1>2. heard \in SUBSET Names
  <2>1. run.chosen \in Seq(Names)
    BY <1>1 DEF Processes
  <2> QED
    BY <2>1 DEF ToSet
<1>3. run.gen + 1 \in Int
  BY <1>1 DEF Processes
<1> HIDE DEF heard
<1>4. /\ run' \in Processes /\ run'.pc = "choose" /\ run'.pool = run.pool
      /\ run'.children = run.children
  BY <1>1, <1>2, <1>3 DEF Processes, Places
<1>5. DiskInv' /\ SdcTypeOK'
  BY <1>1, <1>4, DiskStays, TypesStay DEF Live
<1>6. RunInv'
  BY <1>1, <1>4 DEF RunInv, SeedingInv, PoolInv, ChildInv, RowInv, SdcInv, Known, Parented
<1> QED
  BY <1>4, <1>5, <1>6 DEF SdcInv, FinalTopIsBest

\* What is chosen at the end: the best of the vault that may be.
LEMMA FinalTopKeeps == SdcInv /\ FinalTop => SdcInv'
<1> SUFFICES ASSUME SdcInv, FinalTop PROVE SdcInv'
  OBVIOUS
<1> DEFINE rows == vault.assess
           D == DOMAIN rows
           S == Finalists
           top == Firsts(Sorted(rows, S), MaxFinal)
<1>1. /\ run.pc = "choose" /\ run \in Processes
      /\ run' = [run EXCEPT !.pc = "done", !.rows = <<>>, !.final = top]
      /\ UNCHANGED <<candFile, assessFile, vault, writing>>
  BY DEF FinalTop, At, SdcInv, SdcTypeOK
<1>2. rows \in Seq(Assessments)
  BY DEF SdcInv, SdcTypeOK, Vaults
<1>3. S \in SUBSET D /\ D = 1..Len(rows) /\ Len(rows) \in Nat
  BY <1>2 DEF Finalists, top_by
<1>4. TopOf(Assessments, rows, S, MaxFinal, top)
  BY <1>2, <1>3, PipelineAssumption DEF TopOf, Assessments
<1>5. /\ IsFiniteSet(S) /\ S \in SUBSET Nat /\ \A i \in S : rows[i].score \in Int
      /\ top \in Seq(Assessments) /\ Cardinality(S) \in Nat
      /\ Len(top) = IF Cardinality(S) <= MaxFinal THEN Cardinality(S) ELSE MaxFinal
      /\ \A k \in 1..Len(top) : top[k] = Sorted(rows, S)[k]
  <2> HIDE DEF rows, S, top
  <2> QED
    BY <1>4, FirstSorted
<1>6. IsFiniteSet(D) /\ D \in SUBSET Nat /\ \A i \in D : rows[i].score \in Int
  <2>1. 1 \in Int /\ Len(rows) \in Int
    BY <1>3
  <2>2. IsFiniteSet(1..Len(rows))
    BY <2>1, FS_Interval
  <2>3. \A i \in D : rows[i].score \in Int
    <3> SUFFICES ASSUME NEW i \in D PROVE rows[i].score \in Int
      OBVIOUS
    <3>1. rows[i] \in Assessments
      BY <1>2, <1>3
    <3> QED
      BY <3>1, PipelineAssumption DEF Assessments
  <2> QED
    BY <1>3, <2>2, <2>3
<1>7. ASSUME NEW k \in 1..Len(top)
      PROVE  \E j \in S : top[k] = rows[j] /\ Rank(rows, S, j) = k
  <2> HIDE DEF rows, S, top
  <2> QED
    BY <1>4, FirstSortedAt
<1> HIDE DEF top
<1>8. /\ run' \in Processes /\ run'.pc = "done" /\ run'.final = top /\ run'.children = run.children
  <2>1. <<>> \in Seq(Rows)
    OBVIOUS
  <2> QED
    BY <1>1, <1>5, <2>1 DEF Processes, Places
<1>9. DiskInv' /\ SdcTypeOK'
  BY <1>1, <1>8, DiskStays, TypesStay DEF Live
<1>10. RunInv'
  BY <1>1, <1>8 DEF RunInv, SeedingInv, PoolInv, ChildInv, RowInv, SdcInv, Known, Parented
<1>11. ASSUME NEW a \in ToSet(top) PROVE ~ (Stored(a.ident).fs001 /\ a.ident \notin Loads)
  <2>1. PICK k \in 1..Len(top) : a = top[k]
    BY <1>5 DEF ToSet
  <2>2. PICK j \in S : a = rows[j]
    BY <1>7, <2>1
  <2>3. a.ident \in Known /\ ~ Falsified(Stored(a.ident))
    BY <2>2 DEF Finalists, Known
  <2>4. Stored(a.ident).ident = a.ident
    BY <2>3 DEF Stored, Known, Idents
  <2> QED
    BY <2>3, <2>4 DEF Falsified
<1>12. ASSUME NEW a \in ToSet(rows), NEW b \in ToSet(top), a.score > b.score,
              ~ Falsified(Stored(a.ident))
       PROVE  a \in ToSet(top)
  <2>1. PICK kb \in 1..Len(top) : b = top[kb]
    BY <1>5 DEF ToSet
  <2>2. PICK jb \in S : b = rows[jb] /\ Rank(rows, S, jb) = kb
    BY <1>7, <2>1
  <2>3. PICK ja \in D : a = rows[ja]
    BY DEF ToSet
  <2>4. jb \in D /\ ja # jb /\ NoLater(rows, ja, jb)
    <3>1. rows[ja].score > rows[jb].score /\ rows[jb].score \in Int /\ rows[ja].score \in Int
      BY <1>3, <1>6, <1>12, <2>2, <2>3
    <3> QED
      BY <1>3, <3>1 DEF NoLater
  <2> HIDE DEF rows, D, S
  <2>5. Rank(rows, D, ja) < Rank(rows, D, jb)
    BY <1>6, <2>3, <2>4, EarlierRanks
  <2>6. ja \in S
    <3>1. Rank(rows, D, ja) \in 1..Cardinality(D) /\ Rank(rows, D, jb) \in 1..Cardinality(D)
      BY <1>6, <2>3, <2>4, RankType
    <3>2. Rank(rows, D, jb) <= MaxListed
      BY <2>2 DEF S, Finalists, top_by, rows, D
    <3>3. Cardinality(D) \in Nat
      BY <1>6, FS_CardinalityType
    <3>4. Rank(rows, D, ja) <= MaxListed
      BY <2>5, <3>1, <3>2, <3>3, PipelineAssumption
    <3>5. a.ident \in Idents(vault.cands)
      BY <2>3 DEF SdcInv, DiskInv, Idents, rows
    <3> QED
      BY <1>12, <2>3, <3>4, <3>5 DEF S, Finalists, top_by, rows, D
  <2>7. Rank(rows, S, ja) < Rank(rows, S, jb)
    BY <1>5, <2>2, <2>4, <2>6, EarlierRanks
  <2>8. Rank(rows, S, ja) \in 1..Cardinality(S)
    BY <1>5, <2>6, RankType
  <2> DEFINE ka == Rank(rows, S, ja)
  <2>9. ka \in 1..Len(top)
    BY <1>5, <2>1, <2>2, <2>7, <2>8
  <2>10. Sorted(rows, S)[ka] = rows[ja]
    BY <1>5, <2>6, SortedRows
  <2>11. top[ka] = a
    BY <1>5, <2>3, <2>9, <2>10
  <2> QED
    BY <1>5, <2>9, <2>11 DEF ToSet
<1>13. FinalTopIsBest'
  <2>1. \A a : Stored(a)' = Stored(a)
    BY <1>1 DEF Stored
  <2> QED
    BY <1>1, <1>8, <1>11, <1>12, <2>1 DEF FinalTopIsBest
<1> QED
  BY <1>8, <1>9, <1>10, <1>13 DEF SdcInv

-----------------------------------------------------------------------------
(* Steps of the vault *)

\* A sequence is its first element and the others.
LEMMA HeadAndTail ==
  ASSUME NEW T, NEW s \in Seq(T), s # <<>>
  PROVE  /\ Head(s) \in T /\ Head(s) \in ToSet(s) /\ Tail(s) \in Seq(T)
         /\ ToSet(s) = {Head(s)} \union ToSet(Tail(s))
<1>1. /\ Head(s) \in T /\ Tail(s) \in Seq(T) /\ Len(s) \in Nat \ {0} /\ Head(s) = s[1]
      /\ Len(Tail(s)) = Len(s) - 1 /\ \A j \in 1..(Len(s) - 1) : Tail(s)[j] = s[j + 1]
  OBVIOUS
<1>2. Head(s) \in ToSet(s)
  BY <1>1 DEF ToSet
<1>3. ToSet(Tail(s)) \subseteq ToSet(s)
  <2> SUFFICES ASSUME NEW j \in 1..Len(Tail(s)) PROVE Tail(s)[j] \in ToSet(s)
    BY <1>1 DEF ToSet
  <2>1. Tail(s)[j] = s[j + 1] /\ j + 1 \in 1..Len(s)
    BY <1>1
  <2> QED
    BY <2>1 DEF ToSet
<1>4. ToSet(s) \subseteq {Head(s)} \union ToSet(Tail(s))
  <2> SUFFICES ASSUME NEW j \in 1..Len(s), j # 1 PROVE s[j] \in ToSet(Tail(s))
    BY <1>1 DEF ToSet
  <2>1. j - 1 \in 1..(Len(s) - 1) /\ (j - 1) + 1 = j
    BY <1>1
  <2>2. Tail(s)[j - 1] = s[j] /\ j - 1 \in DOMAIN Tail(s)
    BY <1>1, <2>1
  <2> QED
    BY <2>2 DEF ToSet
<1> QED
  BY <1>1, <1>2, <1>3, <1>4

\* A record more is an ident more.
LEMMA IdentsAppend ==
  ASSUME NEW T, NEW s \in Seq(T), NEW r \in T
  PROVE  Idents(Append(s, r)) = Idents(s) \union {r.ident}
<1>1. /\ Append(s, r) \in Seq(T) /\ Len(Append(s, r)) = Len(s) + 1 /\ Len(s) \in Nat
      /\ Append(s, r)[Len(s) + 1] = r /\ \A j \in 1..Len(s) : Append(s, r)[j] = s[j]
  OBVIOUS
<1> DEFINE t == Append(s, r)
<1> HIDE DEF t
<1>2. ToSet(t) = ToSet(s) \union {r}
  BY <1>1 DEF ToSet, t
<1> QED
  BY <1>2 DEF Idents, t

\* A candidate whose parent is there can be added.
LEMMA DescendsAppend ==
  ASSUME NEW s \in Seq(Cands), Descends(s), NEW c \in Cands,
         c.parent = None \/ c.parent \in Idents(s)
  PROVE  Descends(Append(s, c))
<1>1. /\ Append(s, c) \in Seq(Cands) /\ Len(Append(s, c)) = Len(s) + 1 /\ Len(s) \in Nat
      /\ Append(s, c)[Len(s) + 1] = c /\ \A j \in 1..Len(s) : Append(s, c)[j] = s[j]
  OBVIOUS
<1> DEFINE t == Append(s, c)
<1> HIDE DEF t
<1>2. ASSUME NEW j \in 1..Len(t)
      PROVE  t[j].parent = None \/ \E i \in 1..(j - 1) : t[i].ident = t[j].parent
  <2>1. CASE j = Len(s) + 1
    BY <1>1, <2>1 DEF Idents, ToSet, t
  <2>2. CASE j # Len(s) + 1
    <3>1. j \in 1..Len(s) /\ t[j] = s[j] /\ \A i \in 1..(j - 1) : t[i] = s[i]
      BY <1>1, <2>2 DEF t
    <3> QED
      BY <3>1 DEF Descends
  <2> QED
    BY <2>1, <2>2
<1> QED
  BY <1>2 DEF Descends, t

\* What the assessments are but for their validation.
LEMMA UnvalidatedType ==
  ASSUME NEW s \in Seq(Assessments)
  PROVE  /\ Unvalidated(s) \in Seq(Assessments) /\ Len(Unvalidated(s)) = Len(s)
         /\ \A j \in 1..Len(s) : /\ Unvalidated(s)[j] = [s[j] EXCEPT !.validated = FALSE]
                                 /\ Unvalidated(s)[j].ident = s[j].ident
                                 /\ ~ Unvalidated(s)[j].validated
<1> DEFINE u == Unvalidated(s)
<1>1. ASSUME NEW j \in 1..Len(s)
      PROVE  /\ u[j] \in Assessments /\ u[j] = [s[j] EXCEPT !.validated = FALSE]
             /\ u[j].ident = s[j].ident /\ ~ u[j].validated
  <2>1. s[j] \in Assessments
    OBVIOUS
  <2>2. u[j] = [s[j] EXCEPT !.validated = FALSE]
    BY DEF Unvalidated
  <2> QED
    BY <2>1, <2>2 DEF Assessments
<1>2. u = [j \in 1..Len(s) |-> u[j]] /\ Len(s) \in Nat
  BY DEF Unvalidated
<1> HIDE DEF u
<1>3. u \in Seq(Assessments) /\ Len(u) = Len(s)
  BY <1>1, <1>2, EntriesAreSeq
<1> QED
  BY <1>1, <1>3 DEF u

\* A new assessment is not validated.
LEMMA UnvalidatedAppend ==
  ASSUME NEW s \in Seq(Assessments), NEW a \in Assessments, ~ a.validated
  PROVE  Unvalidated(Append(s, a)) = Append(Unvalidated(s), a)
<1> DEFINE t == Append(s, a)
           u == Unvalidated(s)
           v == Unvalidated(t)
           w == Append(u, a)
           n == Len(s)
<1>1. /\ t \in Seq(Assessments) /\ Len(t) = n + 1 /\ n \in Nat
      /\ t[n + 1] = a /\ \A j \in 1..n : t[j] = s[j]
  OBVIOUS
<1>2. u \in Seq(Assessments) /\ Len(u) = n /\ \A j \in 1..n : u[j] = [s[j] EXCEPT !.validated = FALSE]
  BY UnvalidatedType
<1> HIDE DEF t
<1>3. /\ v \in Seq(Assessments) /\ Len(v) = n + 1
      /\ \A j \in 1..(n + 1) : v[j] = [t[j] EXCEPT !.validated = FALSE]
  BY <1>1, UnvalidatedType
<1>4. [a EXCEPT !.validated = FALSE] = a
  BY DEF Assessments
<1> HIDE DEF u, v, n
<1>5. w \in Seq(Assessments) /\ Len(w) = n + 1 /\ w[n + 1] = a /\ \A j \in 1..n : w[j] = u[j]
  BY <1>1, <1>2
<1> HIDE DEF w
<1>6. ASSUME NEW j \in 1..(n + 1) PROVE v[j] = w[j]
  <2>1. CASE j = n + 1
    BY <1>1, <1>3, <1>4, <1>5, <2>1
  <2>2. CASE j # n + 1
    <3>1. j \in 1..n
      BY <1>1, <2>2
    <3>2. v[j] = [t[j] EXCEPT !.validated = FALSE] /\ t[j] = s[j]
      BY <1>1, <1>3, <3>1
    <3>3. w[j] = u[j] /\ u[j] = [s[j] EXCEPT !.validated = FALSE]
      BY <1>2, <1>5, <3>1
    <3> QED
      BY <3>2, <3>3
  <2> QED
    BY <2>1, <2>2
<1>7. v = w
  BY <1>3, <1>5, <1>6
<1> QED
  BY <1>7 DEF t, u, v, w

\* A new child is added to those of its parent.
LEMMA LinkedType ==
  ASSUME NEW links \in [Contents -> SUBSET Contents], NEW c \in Cands
  PROVE  /\ Linked(links, c) \in [Contents -> SUBSET Contents]
         /\ \A i \in Contents :
              Linked(links, c)[i] = links[i] \union {x \in {c.ident} : i = c.parent}
<1>1. c.ident \in Contents
  BY DEF Cands
<1>2. ASSUME NEW i \in Contents
      PROVE  /\ Linked(links, c)[i] = links[i] \union {x \in {c.ident} : i = c.parent}
             /\ Linked(links, c)[i] \in SUBSET Contents
  BY <1>1 DEF Linked
<1> QED
  BY <1>1, <1>2 DEF Linked

\* A candidate is put into the index: its parent is there.
LEMMA PutCandidateKeeps ==
  ASSUME SdcInv, Live, Live', writing = NotWriting, NEW c \in Cands, Parented(c),
         put_candidate(c), UNCHANGED <<candFile, assessFile>>, run' \in Processes
  PROVE  SdcTypeOK' /\ DiskInv' /\ Known' = Known \union {c.ident}
<1>1. /\ vault.cands \in Seq(Cands) /\ vault.assess \in Seq(Assessments)
      /\ vault \in Vaults
      /\ candFile.lines \in Seq(Cands)
  BY DEF SdcInv, SdcTypeOK, Files, Vaults
<1>2. CASE c.ident \in Known
  <2>1. UNCHANGED <<candFile, assessFile, vault, writing>>
    BY <1>2 DEF put_candidate, Known
  <2> QED
    BY <1>2, <2>1, DiskStays, TypesStay DEF Known
<1>3. CASE c.ident \notin Known
  <2>1. /\ vault' = [vault EXCEPT !.cands = Append(@, c), !.children = Linked(@, c)]
        /\ writing' = [to |-> "candidates", rec |-> c]
    BY <1>3 DEF put_candidate, Known
  <2>2. /\ vault'.cands = Append(vault.cands, c) /\ vault'.assess = vault.assess
        /\ vault' \in Vaults
    <3>1. Append(vault.cands, c) \in Seq(Cands)
      BY <1>1
    <3>2. Linked(vault.children, c) \in [Contents -> SUBSET Contents]
      BY <1>1, LinkedType DEF Vaults
    <3> QED
      BY <1>1, <2>1, <3>1, <3>2 DEF Vaults
  <2>3. SdcTypeOK'
    BY <2>1, <2>2 DEF SdcInv, SdcTypeOK, Writings
  <2>4. Known' = Known \union {c.ident}
    BY <1>1, <2>2, IdentsAppend DEF Known
  <2>5. Descends(vault.cands)'
    BY <1>1, <2>2, DescendsAppend DEF SdcInv, DiskInv, Parented, Known
  <2>6. CandsMatch'
    <3>1. Readable(candFile) => vault.cands = candFile.lines
      BY DEF SdcInv, DiskInv, CandsMatch, NotWriting, None
    <3> QED
      BY <2>1, <2>2, <3>1 DEF CandsMatch, Readable
  <2>7. AssessMatch'
    <3>1. Readable(assessFile) => Unvalidated(vault.assess) = assessFile.lines
      BY DEF SdcInv, DiskInv, AssessMatch, NotWriting, None
    <3> QED
      BY <2>1, <2>2, <3>1 DEF AssessMatch, Readable, Unvalidated
  <2>8. LineageOnDisk' /\ AssessedIsStored' /\ Idents(vault.assess)' \subseteq Idents(vault.cands)'
    BY <2>2, <2>4 DEF SdcInv, DiskInv, LineageOnDisk, AssessedIsStored, Readable, Known
  <2> QED
    BY <2>3, <2>4, <2>5, <2>6, <2>7, <2>8 DEF SdcInv, DiskInv
<1> QED
  BY <1>2, <1>3

\* An assessment is put into the index: its candidate is there.
LEMMA PutAssessmentKeeps ==
  ASSUME SdcInv, Live, Live', writing = NotWriting, NEW a \in Assessments, a.ident \in Known,
         ~ a.validated, put_assessment(a), UNCHANGED <<candFile, assessFile>>, run' \in Processes
  PROVE  SdcTypeOK' /\ DiskInv' /\ Known' = Known
<1>1. /\ vault.cands \in Seq(Cands) /\ vault.assess \in Seq(Assessments)
      /\ vault \in Vaults
  BY DEF SdcInv, SdcTypeOK, Files, Vaults
<1>2. CASE a.ident \in Idents(vault.assess)
  <2>1. UNCHANGED <<candFile, assessFile, vault, writing>>
    BY <1>2 DEF put_assessment
  <2> QED
    BY <1>2, <2>1, DiskStays, TypesStay DEF Known
<1>3. CASE a.ident \notin Idents(vault.assess)
  <2>1. /\ vault' = [vault EXCEPT !.assess = Append(@, a)]
        /\ writing' = [to |-> "assessments", rec |-> a]
    BY <1>3 DEF put_assessment
  <2>2. /\ vault'.assess = Append(vault.assess, a) /\ vault'.cands = vault.cands
        /\ vault' \in Vaults
    <3>1. Append(vault.assess, a) \in Seq(Assessments)
      BY <1>1
    <3> QED
      BY <1>1, <2>1, <3>1 DEF Vaults
  <2>3. SdcTypeOK'
    BY <2>1, <2>2 DEF SdcInv, SdcTypeOK, Writings
  <2>4. Known' = Known
    BY <2>2 DEF Known
  <2>5. CandsMatch'
    <3>1. Readable(candFile) => vault.cands = candFile.lines
      BY DEF SdcInv, DiskInv, CandsMatch, NotWriting, None
    <3> QED
      BY <2>1, <2>2, <3>1 DEF CandsMatch, Readable
  <2>6. AssessMatch'
    <3>1. Readable(assessFile) => Unvalidated(vault.assess) = assessFile.lines
      BY DEF SdcInv, DiskInv, AssessMatch, NotWriting, None
    <3>2. Unvalidated(Append(vault.assess, a)) = Append(Unvalidated(vault.assess), a)
      BY <1>1, UnvalidatedAppend
    <3> QED
      BY <2>1, <2>2, <3>1, <3>2 DEF AssessMatch, Readable
  <2>7. Idents(vault'.assess) = Idents(vault.assess) \union {a.ident}
    BY <1>1, <2>2, IdentsAppend
  <2>8. LineageOnDisk' /\ AssessedIsStored' /\ Descends(vault.cands)'
        /\ Idents(vault.assess)' \subseteq Idents(vault.cands)'
    BY <2>2, <2>4, <2>7 DEF SdcInv, DiskInv, LineageOnDisk, AssessedIsStored, Readable, Known, Descends
  <2> QED
    BY <2>3, <2>4, <2>5, <2>6, <2>8 DEF SdcInv, DiskInv
<1> QED
  BY <1>2, <1>3

\* A seed has no parent.
LEMMA PutSeedKeeps == SdcInv /\ PutSeed => SdcInv'
<1> SUFFICES ASSUME SdcInv, PutSeed PROVE SdcInv'
  OBVIOUS
<1> DEFINE c == Head(run.left)
<1>1. /\ run.pc = "seeding" /\ run.left # <<>> /\ writing = NotWriting /\ run \in Processes
      /\ put_candidate(c) /\ run' = [run EXCEPT !.left = Tail(@)]
      /\ UNCHANGED <<candFile, assessFile>>
  BY DEF PutSeed, At, SdcInv, SdcTypeOK
<1>2. run.left \in Seq(Cands) /\ \A x \in ToSet(run.left) : x.parent = None
  BY <1>1 DEF SdcInv, RunInv, SeedingInv
<1>3. /\ c \in Cands /\ c \in ToSet(run.left) /\ Tail(run.left) \in Seq(Cands)
      /\ ToSet(run.left) = {c} \union ToSet(Tail(run.left))
  BY <1>1, <1>2, HeadAndTail
<1> HIDE DEF c
<1>4. /\ run' \in Processes /\ run'.pc = "seeding" /\ run'.left = Tail(run.left)
      /\ run'.children = run.children
  BY <1>1, <1>3 DEF Processes
<1>5. SdcTypeOK' /\ DiskInv' /\ Known' = Known \union {c.ident}
  BY <1>1, <1>2, <1>3, <1>4, PutCandidateKeeps DEF Live, Parented
<1>6. Idents(run.left) = {c.ident} \union Idents(run'.left)
  BY <1>3, <1>4 DEF Idents
<1>7. RunInv'
  BY <1>1, <1>2, <1>3, <1>4, <1>5, <1>6
     DEF RunInv, SeedingInv, PoolInv, ChildInv, RowInv, SdcInv, Parented
<1> QED
  BY <1>4, <1>5, <1>7 DEF SdcInv, FinalTopIsBest

\* The parent of a child was in the pool, so it is stored.
LEMMA PutChildKeeps == SdcInv /\ PutChild => SdcInv'
<1> SUFFICES ASSUME SdcInv, PutChild PROVE SdcInv'
  OBVIOUS
<1> DEFINE c == Head(run.left)
<1>1. /\ run.pc = "put" /\ run.left # <<>> /\ writing = NotWriting /\ run \in Processes
      /\ put_candidate(c) /\ run' = [run EXCEPT !.left = Tail(@)]
      /\ UNCHANGED <<candFile, assessFile>>
  BY DEF PutChild, At, SdcInv, SdcTypeOK
<1>2. run.left \in Seq(Cands) /\ \A x \in ToSet(run.left) : Parented(x)
  BY <1>1 DEF SdcInv, RunInv, ChildInv
<1>3. /\ c \in Cands /\ c \in ToSet(run.left) /\ Tail(run.left) \in Seq(Cands)
      /\ ToSet(run.left) = {c} \union ToSet(Tail(run.left))
  BY <1>1, <1>2, HeadAndTail
<1> HIDE DEF c
<1>4. /\ run' \in Processes /\ run'.pc = "put" /\ run'.left = Tail(run.left)
      /\ run'.children = run.children /\ run'.pool = run.pool
  BY <1>1, <1>3 DEF Processes
<1>5. SdcTypeOK' /\ DiskInv' /\ Known' = Known \union {c.ident}
  BY <1>1, <1>2, <1>3, <1>4, PutCandidateKeeps DEF Live
<1>6. Idents(run.left) = {c.ident} \union Idents(run'.left)
  BY <1>3, <1>4 DEF Idents
<1>7. RunInv'
  BY <1>1, <1>2, <1>3, <1>4, <1>5, <1>6
     DEF RunInv, SeedingInv, PoolInv, ChildInv, RowInv, SdcInv, Parented
<1> QED
  BY <1>4, <1>5, <1>7 DEF SdcInv, FinalTopIsBest

\* The candidate of an assessment is stored.
LEMMA PutAssessmentStepKeeps == SdcInv /\ PutAssessment => SdcInv'
<1> SUFFICES ASSUME SdcInv, PutAssessment PROVE SdcInv'
  OBVIOUS
<1> DEFINE r == Head(run.left)
<1>1. /\ run.pc = "assess" /\ run.left # <<>> /\ writing = NotWriting /\ run \in Processes
      /\ put_assessment(Assessment(r)) /\ run' = [run EXCEPT !.left = Tail(@)]
      /\ UNCHANGED <<candFile, assessFile>>
  BY DEF PutAssessment, At, SdcInv, SdcTypeOK
<1>2. run.left \in Seq(Rows) /\ \A x \in ToSet(run.left) : x.cand.ident \in Known
  BY <1>1 DEF SdcInv, RunInv, RowInv
<1>3. /\ r \in Rows /\ r \in ToSet(run.left) /\ Tail(run.left) \in Seq(Rows)
      /\ ToSet(run.left) = {r} \union ToSet(Tail(run.left))
  BY <1>1, <1>2, HeadAndTail
<1> HIDE DEF r
<1>4. /\ run' \in Processes /\ run'.pc = "assess" /\ run'.left = Tail(run.left)
      /\ run'.children = run.children /\ run'.pool = run.pool /\ run'.rows = run.rows
  BY <1>1, <1>3 DEF Processes
<1>5. /\ Assessment(r) \in Assessments /\ Assessment(r).ident \in Known
      /\ ~ Assessment(r).validated
  BY <1>2, <1>3 DEF Assessment, Assessments, Rows, Cands
<1>6. SdcTypeOK' /\ DiskInv' /\ Known' = Known
  BY <1>1, <1>4, <1>5, PutAssessmentKeeps DEF Live
<1>7. RunInv'
  BY <1>1, <1>2, <1>3, <1>4, <1>6
     DEF RunInv, SeedingInv, PoolInv, ChildInv, RowInv, SdcInv, Parented
<1> QED
  BY <1>4, <1>6, <1>7 DEF SdcInv, FinalTopIsBest

\* The validation of an assessment stays in the index.
LEMMA ValidatedType ==
  ASSUME NEW s \in Seq(Assessments), NEW i
  PROVE  /\ Validated(s, i) \in Seq(Assessments)
         /\ Unvalidated(Validated(s, i)) = Unvalidated(s)
         /\ Idents(Validated(s, i)) = Idents(s)
<1> DEFINE v == Validated(s, i)
           n == Len(s)
<1>1. n \in Nat /\ DOMAIN s = 1..n /\ v = [j \in 1..n |-> v[j]]
  BY DEF Validated
<1>2. ASSUME NEW j \in 1..n
      PROVE  /\ v[j] \in Assessments /\ v[j].ident = s[j].ident
             /\ [v[j] EXCEPT !.validated = FALSE] = [s[j] EXCEPT !.validated = FALSE]
  <2>1. s[j] \in Assessments
    OBVIOUS
  <2>2. v[j] = IF s[j].ident = i THEN [s[j] EXCEPT !.validated = TRUE] ELSE s[j]
    BY <1>1 DEF Validated
  <2> HIDE DEF v
  <2> QED
    BY <2>1, <2>2 DEF Assessments
<1> HIDE DEF v, n
<1>3. v \in Seq(Assessments) /\ Len(v) = n
  <2>1. \A j \in 1..n : v[j] \in Assessments
    BY <1>2
  <2> QED
    BY <1>1, <2>1, EntriesAreSeq
<1>4. Unvalidated(v) = Unvalidated(s)
  BY <1>2, <1>3 DEF Unvalidated, n
<1>5. Idents(v) = Idents(s)
  <2>1. Idents(v) \subseteq Idents(s)
    <3> SUFFICES ASSUME NEW j \in 1..n PROVE v[j].ident \in Idents(s)
      BY <1>1, <1>3 DEF Idents, ToSet
    <3> QED
      BY <1>1, <1>2 DEF Idents, ToSet
  <2>2. Idents(s) \subseteq Idents(v)
    <3> SUFFICES ASSUME NEW j \in 1..n PROVE s[j].ident \in Idents(v)
      BY <1>1, <1>3 DEF Idents, ToSet
    <3> QED
      BY <1>1, <1>2, <1>3 DEF Idents, ToSet
  <2> QED
    BY <2>1, <2>2
<1> QED
  BY <1>3, <1>4, <1>5 DEF v

\* Validation changes neither the idents of the index nor what its lines would be.
LEMMA ValidateKeeps == SdcInv /\ Validate => SdcInv'
<1> SUFFICES ASSUME SdcInv, Validate PROVE SdcInv'
  OBVIOUS
<1> DEFINE c == Head(run.left)
<1>1. /\ run.pc = "validate" /\ run.left # <<>> /\ run \in Processes
      /\ UNCHANGED <<candFile, assessFile, writing>>
      /\ \/ /\ vault' = [vault EXCEPT !.assess = Validated(@, c.ident)]
            /\ run' = [run EXCEPT !.left = Tail(@), !.goldens = @ \union {c.ident}]
         \/ vault' = vault /\ run' = [run EXCEPT !.left = Tail(@)]
  BY DEF Validate, At, SdcInv, SdcTypeOK
<1>2. run.left \in Seq(Cands)
  BY <1>1 DEF SdcInv, RunInv, RowInv
<1>3. /\ c \in Cands /\ Tail(run.left) \in Seq(Cands) /\ c.ident \in Contents
  <2>1. c \in Cands /\ Tail(run.left) \in Seq(Cands)
    BY <1>1, <1>2, HeadAndTail
  <2> HIDE DEF c
  <2> QED
    BY <2>1 DEF Cands
<1> HIDE DEF c
<1>4. /\ run' \in Processes /\ run'.pc = "validate" /\ run'.left = Tail(run.left)
      /\ run'.children = run.children /\ run'.pool = run.pool
  <2>1. run.goldens \union {c.ident} \in SUBSET Contents
    BY <1>1, <1>3 DEF Processes
  <2> QED
    BY <1>1, <1>3, <2>1 DEF Processes
<1>5. /\ vault'.cands = vault.cands /\ Unvalidated(vault'.assess) = Unvalidated(vault.assess)
      /\ Idents(vault'.assess) = Idents(vault.assess)
      /\ vault' \in Vaults
  <2>1. /\ vault \in Vaults
        /\ vault.assess \in Seq(Assessments)
    BY DEF SdcInv, SdcTypeOK, Vaults
  <2>2. /\ Validated(vault.assess, c.ident) \in Seq(Assessments)
        /\ Unvalidated(Validated(vault.assess, c.ident)) = Unvalidated(vault.assess)
        /\ Idents(Validated(vault.assess, c.ident)) = Idents(vault.assess)
    BY <2>1, ValidatedType
  <2> QED
    BY <1>1, <2>1, <2>2 DEF Vaults
<1>6. SdcTypeOK'
  BY <1>1, <1>4, <1>5 DEF SdcInv, SdcTypeOK
<1>7. DiskInv'
  <2>1. LineageOnDisk' /\ Descends(vault.cands)' /\ AssessedIsStored'
    BY <1>1, <1>5 DEF LineageOnDisk, Descends, AssessedIsStored, Readable, SdcInv, DiskInv
  <2>2. CandsMatch' /\ AssessMatch'
    <3>1. CandsMatch /\ AssessMatch
      BY <1>1 DEF SdcInv, DiskInv, Live
    <3>2. Unvalidated(vault.assess)' = Unvalidated(vault.assess)
      BY <1>5 DEF Unvalidated
    <3> QED
      BY <1>1, <1>5, <3>1, <3>2 DEF CandsMatch, AssessMatch, Readable
  <2>3. Idents(vault.assess)' \subseteq Idents(vault.cands)'
    BY <1>5 DEF SdcInv, DiskInv
  <2> QED
    BY <1>1, <1>4, <2>1, <2>2, <2>3 DEF DiskInv, Live, SdcInv
<1>8. RunInv'
  BY <1>1, <1>2, <1>3, <1>4, <1>5
     DEF RunInv, SeedingInv, PoolInv, ChildInv, RowInv, SdcInv, Parented, Known
<1> QED
  BY <1>4, <1>6, <1>7, <1>8 DEF SdcInv, FinalTopIsBest
-----------------------------------------------------------------------------
(* Appends, kills, and the next process *)

\* What a file is after an append, whole or cut off: what can be read of it was
\* there before, or is the line that was written to a file that could be read.
LEMMA FilesGrow ==
  ASSUME NEW T, NEW f \in Files(T), NEW rec \in T, NEW new \in AppendedInPart(f, rec)
  PROVE  /\ new \in Files(T)
         /\ new.lines = f.lines \/ (Readable(f) /\ new.lines = Append(f.lines, rec))
         /\ Readable(new) => Readable(f)
<1>1. /\ f.lines \in Seq(T) /\ f.end \in {"newline", "open", "bad"}
      /\ f = [lines |-> f.lines, end |-> f.end]
  BY DEF Files
<1>2. Append(f.lines, rec) \in Seq(T)
  BY <1>1
<1>3. \/ new = f
      \/ new = [lines |-> f.lines, end |-> "bad"]
      \/ f.end = "newline" /\ new = [lines |-> Append(f.lines, rec), end |-> "newline"]
      \/ f.end = "newline" /\ new = [lines |-> Append(f.lines, rec), end |-> "open"]
  <2>1. [f EXCEPT !.end = "bad"] = [lines |-> f.lines, end |-> "bad"]
    BY <1>1
  <2>2. f.end = "newline" =>
          [f EXCEPT !.lines = Append(@, rec)] = [lines |-> Append(f.lines, rec), end |-> "newline"]
    BY <1>1
  <2> QED
    BY <2>1, <2>2 DEF AppendedInPart, Appended
<1> QED
  BY <1>1, <1>2, <1>3 DEF Files, Readable

\* A whole append.
LEMMA AppendedFile ==
  ASSUME NEW T, NEW f \in Files(T), NEW rec \in T
  PROVE  /\ Appended(f, rec) \in AppendedInPart(f, rec)
         /\ Readable(Appended(f, rec)) =>
              Readable(f) /\ Appended(f, rec).lines = Append(f.lines, rec)
<1>1. Appended(f, rec) \in AppendedInPart(f, rec)
  BY DEF AppendedInPart
<1>2. f = [lines |-> f.lines, end |-> f.end]
  BY DEF Files
<1> QED
  BY <1>1, <1>2 DEF Appended, Readable


\* The candidates on disk after an append of the record under way.
LEMMA CandidateOnDisk ==
  ASSUME SdcInv, Live, writing.to = "candidates", UNCHANGED assessFile,
         candFile' \in AppendedInPart(candFile, writing.rec)
  PROVE  /\ candFile' \in Files(Cands) /\ LineageOnDisk' /\ AssessedIsStored'
         /\ \A j \in 1..Len(assessFile'.lines) : ~ assessFile'.lines[j].validated
<1> DEFINE c == writing.rec
           old == candFile.lines
<1>1. /\ candFile \in Files(Cands) /\ old \in Seq(Cands) /\ c \in Cands
  BY DEF SdcInv, SdcTypeOK, Files, Writings, NotWriting, None
<1>2. /\ candFile' \in Files(Cands) /\ (Readable(candFile') => Readable(candFile))
      /\ candFile'.lines = old \/ (Readable(candFile) /\ candFile'.lines = Append(old, c))
  BY <1>1, FilesGrow
<1>3. /\ LineageOnDisk /\ AssessedIsStored /\ CandsMatch /\ Descends(vault.cands)
      /\ \A j \in 1..Len(assessFile.lines) : ~ assessFile.lines[j].validated
  BY DEF SdcInv, DiskInv
<1> HIDE DEF c, old
<1>4. LineageOnDisk'
  <2>1. Descends(old)
    BY <1>3 DEF LineageOnDisk, Descends, old
  <2>2. Readable(candFile) => Descends(Append(old, c))
    BY <1>3 DEF CandsMatch, c, old
  <2>3. Descends(candFile'.lines)
    BY <1>2, <2>1, <2>2
  <2> QED
    BY <2>3 DEF LineageOnDisk, Descends
<1>5. AssessedIsStored'
  <2>1. Idents(old) \subseteq Idents(candFile'.lines)
    <3>1. Idents(Append(old, c)) = Idents(old) \union {c.ident}
      BY <1>1, IdentsAppend
    <3> QED
      BY <1>2, <3>1
  <2>2. Readable(candFile)' => Readable(candFile)
    BY <1>2 DEF Readable
  <2>3. Idents(assessFile.lines)' = Idents(assessFile.lines)
    OBVIOUS
  <2>4. Idents(candFile.lines)' = Idents(candFile'.lines)
    OBVIOUS
  <2> QED
    BY <1>3, <2>1, <2>2, <2>3, <2>4 DEF AssessedIsStored, old
<1> QED
  BY <1>2, <1>3, <1>4, <1>5

\* The assessments on disk after an append of the record under way.
LEMMA AssessmentOnDisk ==
  ASSUME SdcInv, Live, writing.to = "assessments", UNCHANGED candFile,
         assessFile' \in AppendedInPart(assessFile, writing.rec)
  PROVE  /\ assessFile' \in Files(Assessments) /\ LineageOnDisk' /\ AssessedIsStored'
         /\ \A j \in 1..Len(assessFile'.lines) : ~ assessFile'.lines[j].validated
<1> DEFINE a == writing.rec
           old == assessFile.lines
           all == Append(old, a)
<1>1. /\ assessFile \in Files(Assessments) /\ old \in Seq(Assessments) /\ a \in Assessments
      /\ vault.assess \in Seq(Assessments)
  BY DEF SdcInv, SdcTypeOK, Files, Vaults, Writings, NotWriting, None
<1>2. /\ assessFile' \in Files(Assessments)
      /\ \/ assessFile'.lines = old
         \/ Readable(assessFile) /\ assessFile'.lines = all
  BY <1>1, FilesGrow
<1>3. /\ LineageOnDisk /\ AssessedIsStored /\ CandsMatch /\ AssessMatch
      /\ Idents(vault.assess) \subseteq Idents(vault.cands)
      /\ \A j \in 1..Len(old) : ~ old[j].validated
  BY DEF SdcInv, DiskInv
<1>4. Readable(candFile) => vault.cands = candFile.lines
  BY <1>3 DEF CandsMatch
<1>5. Readable(assessFile) => Unvalidated(vault.assess) = all
  BY <1>3 DEF AssessMatch
<1>6. /\ Unvalidated(vault.assess) \in Seq(Assessments)
      /\ Len(Unvalidated(vault.assess)) = Len(vault.assess)
      /\ \A j \in 1..Len(vault.assess) :
           /\ Unvalidated(vault.assess)[j].ident = vault.assess[j].ident
           /\ ~ Unvalidated(vault.assess)[j].validated
  BY <1>1, UnvalidatedType
<1> HIDE DEF a, old, all
<1>7. ASSUME Readable(assessFile)
      PROVE  Idents(all) \subseteq Idents(vault.assess) /\ \A j \in 1..Len(all) : ~ all[j].validated
  <2>1. /\ all \in Seq(Assessments) /\ Len(all) = Len(vault.assess)
        /\ \A j \in 1..Len(vault.assess) : all[j].ident = vault.assess[j].ident /\ ~ all[j].validated
    BY <1>5, <1>6, <1>7
  <2> QED
    BY <1>1, <2>1 DEF Idents, ToSet
<1>8. \A j \in 1..Len(assessFile'.lines) : ~ assessFile'.lines[j].validated
  BY <1>2, <1>3, <1>7
<1>9. AssessedIsStored'
  <2>1. ASSUME Readable(candFile) PROVE Idents(assessFile'.lines) \subseteq Idents(candFile.lines)
    BY <1>2, <1>3, <1>4, <1>7, <2>1 DEF AssessedIsStored, old
  <2>2. /\ Readable(candFile)' = Readable(candFile)
        /\ Idents(candFile.lines)' = Idents(candFile.lines)
        /\ Idents(assessFile.lines)' = Idents(assessFile'.lines)
    BY DEF Readable
  <2> QED
    BY <2>1, <2>2 DEF AssessedIsStored
<1>10. LineageOnDisk'
  BY <1>3 DEF LineageOnDisk
<1> QED
  BY <1>2, <1>8, <1>9, <1>10

\* A whole append ends the writing: the file is the index again, if it can be read.
LEMMA AppendLineKeeps == SdcInv /\ AppendLine => SdcInv'
<1> SUFFICES ASSUME SdcInv, AppendLine PROVE SdcInv'
  OBVIOUS
<1>1. /\ writing # NotWriting /\ writing' = NotWriting /\ UNCHANGED <<vault, run>>
      /\ \/ /\ writing.to = "candidates" /\ candFile' = Appended(candFile, writing.rec)
            /\ UNCHANGED assessFile
         \/ /\ writing.to = "assessments" /\ assessFile' = Appended(assessFile, writing.rec)
            /\ UNCHANGED candFile
  BY DEF AppendLine
<1>2. Live /\ Live'
  BY <1>1 DEF SdcInv, DiskInv, Live
<1>3. NotWriting.to # "candidates" /\ NotWriting.to # "assessments"
  BY DEF NotWriting, None
<1>4. /\ candFile \in Files(Cands) /\ assessFile \in Files(Assessments) /\ CandsMatch /\ AssessMatch
  BY <1>2 DEF SdcInv, SdcTypeOK, DiskInv
<1>5. /\ candFile' \in Files(Cands) /\ assessFile' \in Files(Assessments)
      /\ LineageOnDisk' /\ AssessedIsStored'
      /\ \A j \in 1..Len(assessFile'.lines) : ~ assessFile'.lines[j].validated
      /\ CandsMatch' /\ AssessMatch'
  <2>1. CASE writing.to = "candidates"
    <3>1. candFile' = Appended(candFile, writing.rec) /\ UNCHANGED assessFile
      BY <1>1, <2>1
    <3>2. writing.rec \in Cands
      BY <1>1, <2>1 DEF SdcInv, SdcTypeOK, Writings
    <3>3. /\ candFile' \in AppendedInPart(candFile, writing.rec)
          /\ Readable(candFile') =>
               Readable(candFile) /\ candFile'.lines = Append(candFile.lines, writing.rec)
      BY <1>4, <3>1, <3>2, AppendedFile
    <3>4. CandsMatch'
      BY <1>1, <1>3, <1>4, <2>1, <3>3 DEF CandsMatch, Readable
    <3>5. AssessMatch'
      BY <1>1, <1>3, <1>4, <2>1, <3>1 DEF AssessMatch, Readable
    <3> QED
      BY <1>2, <1>4, <2>1, <3>1, <3>3, <3>4, <3>5, CandidateOnDisk
  <2>2. CASE writing.to = "assessments"
    <3>1. assessFile' = Appended(assessFile, writing.rec) /\ UNCHANGED candFile
      BY <1>1, <2>2
    <3>2. writing.rec \in Assessments
      BY <1>1, <2>2 DEF SdcInv, SdcTypeOK, Writings
    <3>3. /\ assessFile' \in AppendedInPart(assessFile, writing.rec)
          /\ Readable(assessFile') =>
               Readable(assessFile) /\ assessFile'.lines = Append(assessFile.lines, writing.rec)
      BY <1>4, <3>1, <3>2, AppendedFile
    <3>4. AssessMatch'
      BY <1>1, <1>3, <1>4, <2>2, <3>3 DEF AssessMatch, Readable
    <3>5. CandsMatch'
      BY <1>1, <1>3, <1>4, <2>2, <3>1 DEF CandsMatch, Readable
    <3> QED
      BY <1>2, <1>4, <2>2, <3>1, <3>3, <3>4, <3>5, AssessmentOnDisk
  <2> QED
    BY <1>1, <2>1, <2>2
<1>6. SdcTypeOK'
  BY <1>1, <1>5 DEF SdcInv, SdcTypeOK, Writings
<1>7. DiskInv'
  BY <1>1, <1>2, <1>5 DEF DiskInv, SdcInv, Descends
<1>8. RunInv'
  BY <1>1 DEF RunInv, SeedingInv, PoolInv, ChildInv, RowInv, SdcInv, Known, Parented
<1>9. FinalTopIsBest'
  BY <1>1 DEF FinalTopIsBest, Stored, SdcInv
<1> QED
  BY <1>6, <1>7, <1>8, <1>9 DEF SdcInv

\* A kill leaves what an append left, and no index.
LEMMA KillKeeps == SdcInv /\ Kill => SdcInv'
<1> SUFFICES ASSUME SdcInv, Kill PROVE SdcInv'
  OBVIOUS
<1>1. /\ Live /\ run' = Down(run.kills + 1) /\ vault' = NoVault /\ writing' = NotWriting
  BY DEF Kill, Live
<1>2. /\ candFile' \in Files(Cands) /\ assessFile' \in Files(Assessments)
      /\ LineageOnDisk' /\ AssessedIsStored'
      /\ \A j \in 1..Len(assessFile'.lines) : ~ assessFile'.lines[j].validated
  <2>1. CASE writing = NotWriting
    <3>1. UNCHANGED <<candFile, assessFile>>
      BY <2>1 DEF Kill
    <3> QED
      BY <3>1 DEF SdcInv, SdcTypeOK, DiskInv, LineageOnDisk, AssessedIsStored, Readable
  <2>2. CASE writing # NotWriting /\ writing.to = "candidates"
    <3>1. UNCHANGED assessFile /\ candFile' \in AppendedInPart(candFile, writing.rec)
      BY <2>2 DEF Kill
    <3>2. assessFile' \in Files(Assessments)
      BY <3>1 DEF SdcInv, SdcTypeOK
    <3> QED
      BY <1>1, <2>2, <3>1, <3>2, CandidateOnDisk
  <2>3. CASE writing # NotWriting /\ writing.to = "assessments"
    <3>1. UNCHANGED candFile /\ assessFile' \in AppendedInPart(assessFile, writing.rec)
      BY <2>3 DEF Kill
    <3>2. candFile' \in Files(Cands)
      BY <3>1 DEF SdcInv, SdcTypeOK
    <3> QED
      BY <1>1, <2>3, <3>1, <3>2, AssessmentOnDisk
  <2> QED
    BY <2>1, <2>2, <2>3 DEF Kill
<1>3. run' \in Processes /\ run'.pc = "down" /\ run'.children = <<>>
  <2>1. run.kills + 1 \in Int
    BY DEF SdcInv, SdcTypeOK, Processes
  <2> QED
    BY <1>1, <2>1 DEF Down, Processes, Places
<1>4. SdcTypeOK'
  BY <1>1, <1>2, <1>3 DEF SdcTypeOK, NoVault, NoChildren, Vaults, Writings
<1>5. DiskInv'
  <2>1. Descends(vault.cands)' /\ Idents(vault.assess)' \subseteq Idents(vault.cands)'
    BY <1>1 DEF Descends, NoVault, Idents, ToSet
  <2> QED
    BY <1>1, <1>2, <1>3, <2>1 DEF DiskInv, Live
<1>6. RunInv' /\ FinalTopIsBest'
  BY <1>3 DEF RunInv, SeedingInv, PoolInv, ChildInv, RowInv, FinalTopIsBest, ToSet
<1> QED
  BY <1>4, <1>5, <1>6 DEF SdcInv

\* The next process reads what the ones before it left.
LEMMA OpenVaultKeeps == SdcInv /\ OpenVault => SdcInv'
<1> SUFFICES ASSUME SdcInv, OpenVault PROVE SdcInv'
  OBVIOUS
<1>1. /\ run.pc = "down" /\ run \in Processes /\ UNCHANGED <<candFile, assessFile, writing>>
      /\ writing = NotWriting /\ vault = NoVault
  BY DEF OpenVault, At, SdcInv, SdcTypeOK, DiskInv, Live
<1>2. CASE ~ (Readable(candFile) /\ Readable(assessFile))
  <2>1. vault' = vault /\ run' = [run EXCEPT !.pc = "unreadable"]
    BY <1>2 DEF OpenVault
  <2>2. run' \in Processes /\ run'.pc = "unreadable" /\ run'.children = run.children
    BY <1>1, <2>1 DEF Processes, Places
  <2>3. SdcTypeOK'
    BY <1>1, <2>1, <2>2 DEF SdcInv, SdcTypeOK
  <2>4. DiskInv'
    BY <1>1, <2>1, <2>2 DEF SdcInv, DiskInv, LineageOnDisk, AssessedIsStored, Readable, Descends, Live
  <2>5. RunInv'
    BY <1>1, <2>1, <2>2 DEF RunInv, SeedingInv, PoolInv, ChildInv, RowInv, SdcInv, Known, Parented
  <2> QED
    BY <2>2, <2>3, <2>4, <2>5 DEF SdcInv, FinalTopIsBest
<1>3. CASE Readable(candFile) /\ Readable(assessFile)
  <2>1. /\ vault' = [cands |-> candFile.lines, assess |-> assessFile.lines,
                     children |-> NoChildren, loaded |-> Len(candFile.lines)]
        /\ \E w \in Settings : run' = [run EXCEPT !.pc = "seeding", !.left = SeedList, !.with = w]
    BY <1>3 DEF OpenVault
  <2>2. /\ run' \in Processes /\ run'.pc = "seeding" /\ run'.left = SeedList /\ run'.children = run.children
    <3>1. PICK w \in Settings : run' = [run EXCEPT !.pc = "seeding", !.left = SeedList, !.with = w]
      BY <2>1
    <3>2. SeedList \in Seq(Cands)
      BY PipelineAssumption
    <3> QED
      BY <1>1, <3>1, <3>2 DEF Processes, Places
  <2>3. candFile \in Files(Cands) /\ assessFile \in Files(Assessments)
    BY DEF SdcInv, SdcTypeOK
  <2>4. SdcTypeOK'
    BY <1>1, <2>1, <2>2, <2>3 DEF SdcTypeOK, Files, Writings, Vaults, NoChildren
  <2>5. Unvalidated(assessFile.lines) = assessFile.lines
    <3> DEFINE s == assessFile.lines
               u == Unvalidated(s)
    <3>1. s \in Seq(Assessments)
      BY <2>3 DEF Files
    <3>2. /\ u \in Seq(Assessments) /\ Len(u) = Len(s)
          /\ \A j \in 1..Len(s) : u[j] = [s[j] EXCEPT !.validated = FALSE]
      BY <3>1, UnvalidatedType
    <3>3. ASSUME NEW j \in 1..Len(s) PROVE u[j] = s[j]
      <4>1. s[j] \in Assessments /\ ~ s[j].validated
        BY <3>1 DEF SdcInv, DiskInv
      <4>2. [s[j] EXCEPT !.validated = FALSE] = s[j]
        BY <4>1 DEF Assessments
      <4> QED
        BY <3>2, <4>2
    <3> HIDE DEF s, u
    <3>4. u = s
      BY <3>1, <3>2, <3>3
    <3> QED
      BY <3>4 DEF s, u
  <2>6. DiskInv'
    <3>1. CandsMatch' /\ AssessMatch'
      <4>1. Unvalidated(vault.assess)' = Unvalidated(assessFile.lines)
        BY <2>1
      <4>2. NotWriting.to # "candidates" /\ NotWriting.to # "assessments"
        BY DEF NotWriting, None
      <4> QED
        BY <1>1, <2>1, <2>5, <4>1, <4>2 DEF CandsMatch, AssessMatch
    <3>2. LineageOnDisk' /\ AssessedIsStored'
      BY <1>1 DEF SdcInv, DiskInv, LineageOnDisk, AssessedIsStored, Readable
    <3>3. Descends(vault.cands)'
      BY <2>1 DEF SdcInv, DiskInv, LineageOnDisk, Descends
    <3>4. Idents(vault.assess)' \subseteq Idents(vault.cands)'
      BY <1>3, <2>1 DEF SdcInv, DiskInv, AssessedIsStored
    <3>5. \A j \in 1..Len(assessFile'.lines) : ~ assessFile'.lines[j].validated
      BY <1>1 DEF SdcInv, DiskInv
    <3> QED
      BY <1>1, <2>2, <3>1, <3>2, <3>3, <3>4, <3>5 DEF DiskInv, Live
  <2>7. RunInv'
    <3>1. Known = {}
      BY <1>1 DEF Known, NoVault, Idents, ToSet
    <3>2. \A c \in ToSet(run.children) : c.parent = None \/ c.parent \in Known'
      BY <3>1 DEF SdcInv, RunInv, ChildInv, Parented
    <3>3. \A c \in ToSet(SeedList) : c.ident \in Idents(run'.left) /\ c.parent = None
      BY <2>2, PipelineAssumption DEF Idents
    <3>4. run'.left \in Seq(Cands)
      BY <2>2, PipelineAssumption
    <3> QED
      BY <2>2, <3>2, <3>3, <3>4 DEF RunInv, SeedingInv, PoolInv, ChildInv, RowInv, Known, Parented
  <2> QED
    BY <2>2, <2>4, <2>6, <2>7 DEF SdcInv, FinalTopIsBest
<1> QED
  BY <1>2, <1>3

-----------------------------------------------------------------------------
(* The index of children *)

\* A record appended to the candidates of this process is one more to look among.
LEMMA SinceAppend ==
  ASSUME NEW s \in Seq(Cands), NEW c \in Cands, NEW n \in Nat, n <= Len(s), NEW i,
         NEW t, t = Append(s, c)
  PROVE  {t[j].ident : j \in {k \in (n + 1)..Len(t) : t[k].parent = i}}
           = {s[j].ident : j \in {k \in (n + 1)..Len(s) : s[k].parent = i}}
               \union {x \in {c.ident} : i = c.parent}
<1> DEFINE Old == {k \in (n + 1)..Len(s) : s[k].parent = i}
           New == {k \in (n + 1)..Len(t) : t[k].parent = i}
<1>1. Len(s) \in Nat /\ Len(t) = Len(s) + 1 /\ t[Len(s) + 1] = c
  OBVIOUS
<1>2. \A k \in (n + 1)..Len(s) : t[k] = s[k]
  BY <1>1
<1>3. ASSUME NEW k \in New PROVE k \in Old \/ (k = Len(s) + 1 /\ c.parent = i)
  BY <1>1, <1>2
<1>4. \A k \in Old : k \in New /\ t[k].ident = s[k].ident
  BY <1>1, <1>2
<1>5. c.parent = i => Len(s) + 1 \in New
  BY <1>1
<1> HIDE DEF Old, New
<1>6. {t[j].ident : j \in New} = {s[j].ident : j \in Old} \union {x \in {c.ident} : i = c.parent}
  BY <1>1, <1>3, <1>4, <1>5
<1> QED
  BY <1>6 DEF Old, New

\* A candidate that is stored is linked, and no other.
LEMMA PutCandidateLinks ==
  ASSUME SdcInv, ChildrenInv, NEW c \in Cands, put_candidate(c)
  PROVE  ChildrenInv'
<1>1. /\ vault \in Vaults /\ vault.cands \in Seq(Cands) /\ vault.loaded \in Nat
      /\ vault.children \in [Contents -> SUBSET Contents]
  BY DEF SdcInv, SdcTypeOK, Vaults
<1>2. CASE vault' = vault
  BY <1>2 DEF ChildrenInv, ChildrenSinceOpening
<1>3. CASE vault' # vault
  <2>1. vault' = [vault EXCEPT !.cands = Append(@, c), !.children = Linked(@, c)]
    BY <1>3 DEF put_candidate
  <2>2. /\ vault'.cands = Append(vault.cands, c) /\ vault'.loaded = vault.loaded
        /\ vault'.children = Linked(vault.children, c)
    BY <1>1, <2>1 DEF Vaults
  <2>3. vault'.loaded <= Len(vault'.cands)
    BY <1>1, <2>2 DEF ChildrenInv
  <2>4. ASSUME NEW i \in Contents
        PROVE  vault'.children[i] =
                 {vault'.cands[j].ident : j \in {k \in (vault'.loaded + 1)..Len(vault'.cands) :
                                                 vault'.cands[k].parent = i}}
    <3>1. vault'.children[i] = vault.children[i] \union {x \in {c.ident} : i = c.parent}
      BY <1>1, <2>2, LinkedType
    <3>2. vault.children[i] =
            {vault.cands[j].ident : j \in {k \in (vault.loaded + 1)..Len(vault.cands) :
                                            vault.cands[k].parent = i}}
      BY DEF ChildrenInv, ChildrenSinceOpening
    <3>3. vault.loaded <= Len(vault.cands)
      BY DEF ChildrenInv
    <3>4. {vault'.cands[j].ident : j \in {k \in (vault.loaded + 1)..Len(vault'.cands) :
                                           vault'.cands[k].parent = i}}
            = vault.children[i] \union {x \in {c.ident} : i = c.parent}
      BY <1>1, <2>2, <3>2, <3>3, SinceAppend
    <3> QED
      BY <2>2, <3>1, <3>4
  <2> QED
    BY <2>3, <2>4 DEF ChildrenInv, ChildrenSinceOpening
<1> QED
  BY <1>2, <1>3

\* A new index has no children; every other step but these leaves candidates and children.
LEMMA ChildrenKept == SdcInv /\ ChildrenInv /\ [SdcNext]_sdcvars => ChildrenInv'
<1> SUFFICES ASSUME SdcInv, ChildrenInv, [SdcNext]_sdcvars PROVE ChildrenInv'
  OBVIOUS
<1>1. vault \in Vaults /\ run \in Processes /\ candFile.lines \in Seq(Cands)
  BY DEF SdcInv, SdcTypeOK, Files
<1>2. CASE /\ vault'.cands = vault.cands /\ vault'.children = vault.children
           /\ vault'.loaded = vault.loaded
  BY <1>2 DEF ChildrenInv, ChildrenSinceOpening
<1>3. CASE PutSeed
  <2>1. Head(run.left) \in Cands
    BY <1>3, HeadAndTail DEF PutSeed, At, SdcInv, RunInv, SeedingInv
  <2> QED
    BY <1>3, <2>1, PutCandidateLinks DEF PutSeed
<1>4. CASE PutChild
  <2>1. Head(run.left) \in Cands
    BY <1>4, HeadAndTail DEF PutChild, At, SdcInv, RunInv, ChildInv
  <2> QED
    BY <1>4, <2>1, PutCandidateLinks DEF PutChild
<1>5. ASSUME NEW s, vault'.cands = s, Len(s) \in Nat, vault'.children = NoChildren,
             vault'.loaded = Len(s)
      PROVE  ChildrenInv'
  <2>1. (Len(s) + 1)..Len(s) = {}
    BY <1>5
  <2> QED
    BY <1>5, <2>1 DEF ChildrenInv, ChildrenSinceOpening, NoChildren
<1>6. CASE OpenVault
  <2>1. CASE vault' = vault
    BY <1>2, <2>1
  <2>2. CASE vault' = [cands |-> candFile.lines, assess |-> assessFile.lines,
                       children |-> NoChildren, loaded |-> Len(candFile.lines)]
    <3>1. Len(candFile.lines) \in Nat
      BY <1>1
    <3>2. /\ vault'.cands = candFile.lines /\ vault'.children = NoChildren
          /\ vault'.loaded = Len(candFile.lines)
      BY <2>2
    <3> QED
      BY <1>5, <3>1, <3>2
  <2> QED
    BY <1>6, <2>1, <2>2 DEF OpenVault
<1>7. CASE Kill
  <2>1. Len(<<>>) = 0 /\ vault' = NoVault
    BY <1>7 DEF Kill
  <2> QED
    BY <1>5, <2>1 DEF NoVault
<1>8. CASE PutAssessment
  BY <1>1, <1>2, <1>8 DEF PutAssessment, put_assessment, Vaults
<1>9. CASE Validate
  BY <1>1, <1>2, <1>9 DEF Validate, Vaults
<1>10. CASE \/ UNCHANGED sdcvars \/ AppendLine \/ StartRun \/ Choose \/ Mutate \/ MutateDone
            \/ Assess \/ Filter \/ Observe \/ FinalTop
  BY <1>2, <1>10 DEF sdcvars, AppendLine, StartRun, Choose, Mutate, MutateDone, Assess, Filter,
                     Observe, FinalTop
<1> QED
  BY <1>3, <1>4, <1>6, <1>7, <1>8, <1>9, <1>10 DEF SdcNext

-----------------------------------------------------------------------------
\* No step of the pipeline, a kill and the start of the next process included, breaks the
\* invariant.
LEMMA SdcStep == SdcInv /\ SettingsInv /\ [SdcNext]_sdcvars => SdcInv' /\ SettingsInv'
<1> SUFFICES ASSUME SdcInv, SettingsInv, [SdcNext]_sdcvars PROVE SdcInv' /\ SettingsInv'
  OBVIOUS
<1>1. SettingsInv'
  BY SettingsStay DEF SdcInv
<1>2. SdcInv'
  <2>1. CASE UNCHANGED sdcvars
    BY <2>1 DEF sdcvars, SdcInv, SdcTypeOK, DiskInv, RunInv, FinalTopIsBest, LineageOnDisk,
                AssessedIsStored, Descends, Readable, CandsMatch, AssessMatch, Unvalidated, Live,
                SeedingInv, PoolInv, ChildInv, RowInv, Known, Parented, Stored
  <2> QED
    BY <2>1, OpenVaultKeeps, AppendLineKeeps, PutSeedKeeps, StartRunKeeps, ChooseKeeps, MutateKeeps,
       MutateDoneKeeps, PutChildKeeps, AssessKeeps, PutAssessmentStepKeeps, FilterKeeps,
       ValidateKeeps, ObserveKeeps, FinalTopKeeps, KillKeeps DEF SdcNext
<1> QED
  BY <1>1, <1>2

\* Vault and pipeline: wherever processes are killed, the candidates on disk come after their
\* parents, the assessments belong to them, the files are what the process knows of both,
\* the index of children is that of its own candidates, and the final list is the best of
\* the index: for every set of candidates, mutators, scores and settings.
THEOREM VaultStaysFaithful == SdcSpec => []VaultIsFaithful
<1>1. SdcInit => SdcInv /\ SettingsInv /\ ChildrenInv
  <2>1. SdcInit => ChildrenInv
    BY DEF SdcInit, NoVault, NoChildren, ChildrenInv, ChildrenSinceOpening
  <2> QED
    BY <2>1, SdcInitial DEF SdcInit, SettingsInv, Live, Down
<1>2. SdcInv /\ SettingsInv /\ ChildrenInv /\ [SdcNext]_sdcvars
        => SdcInv' /\ SettingsInv' /\ ChildrenInv'
  BY SdcStep, ChildrenKept
<1>3. SdcInv /\ ChildrenInv => VaultIsFaithful
  BY SdcInvIsFaithful
<1> QED
  BY <1>1, <1>2, <1>3, PTL DEF SdcSpec

-----------------------------------------------------------------------------
(* The counter reads of PerfEventFuzzer *)

Samples == [kind : {"first", "other", "last"}, run : Nat, multiplexed : BOOLEAN]
RunPairs == Nat \X Nat

FuzzRecords ==
  [at : {"start", "loop", "trace", "execute", "cleanup", "returned", "crashed"},
   status : {"ok", "error"}, left : Nat, final : BOOLEAN, run : Nat,
   execution : Executions \union {<<>>}]

FuzzTypeOK ==
  /\ work_queue \in Seq(SUBSET Events) /\ callback_counter \in Nat
  /\ callback_status \in {"ok", "error"}
  /\ group = Closed \/ \E g \in SUBSET Events : group = {g}
  /\ buffer = Closed \/ \E samples \in Seq(Samples) : buffer = {samples}
  /\ measurements \in [Events -> Seq(RunPairs)] /\ open_runs \in [Events -> Seq(RunPairs)]
  /\ fuzz \in FuzzRecords
  /\ fuzz.at # "start" => fuzz.execution \in Executions
  /\ fuzz.at = "execute" => fuzz.left > 0

\* An error of the callback is one of FuzzOneInput once the tracing has returned.
ErrorInv ==
  callback_status = "error" /\ fuzz.at \notin {"trace", "execute"} => fuzz.status = "error"

\* What was counted of an event is what was run while it was open, in the ring for the
\* group that is open and in measurements for all others.
MeasuredInv ==
  /\ group = Closed => buffer = Closed
  /\ callback_status = "ok" /\ fuzz.status = "ok" =>
       /\ buffer = Closed => group = Closed
       /\ \A e \in Events :
            IF \E g \in group : e \in g THEN \A samples \in buffer : Counts(samples) = open_runs[e]
            ELSE measurements[e] = open_runs[e]

\* The last tracing finds no group to come, and its one callback closes the last group.
LastInv ==
  /\ fuzz.at \in {"start", "loop"} => ~ fuzz.final
  /\ fuzz.at \in {"cleanup", "returned", "crashed"} => fuzz.final
  /\ fuzz.final =>
       /\ fuzz.left <= 1 /\ (fuzz.at = "execute" => fuzz.left = 1)
       /\ fuzz.status = "ok" =>
            /\ callback_counter = 0 /\ work_queue = <<>>
            /\ fuzz.at # "trace" \/ fuzz.left = 0 => group = Closed /\ buffer = Closed
  /\ NothingLeftOpen /\ CrashNeedsError

FuzzInv == FuzzTypeOK /\ ErrorInv /\ MeasuredInv /\ LastInv

-----------------------------------------------------------------------------
(* What Counts computes, by the least-number principle *)

Takes(s, k) == k \in Pairs(s) /\ ~ s[k].multiplexed
Taken(s, k) == <<s[k - 1].run, s[k].run>>

\* c is what the loop over the samples has after each of the first n.
CountsTo(s, n, c) ==
  c = [k \in 0..n |-> IF k = 0 THEN <<>>
                      ELSE IF Takes(s, k) THEN Append(c[k - 1], Taken(s, k)) ELSE c[k - 1]]

\* The loop has such values, and they are sequences of pairs.
LEMMA CountsExist ==
  ASSUME NEW s \in Seq(Samples), NEW n \in Nat
  PROVE  \E c \in [0..n -> Seq(RunPairs)] : CountsTo(s, n, c)
<1> DEFINE T == {m \in Nat : ~ \E c \in [0..m -> Seq(RunPairs)] : CountsTo(s, m, c)}
<1>1. T = {}
  <2> SUFFICES ASSUME T # {} PROVE FALSE
    OBVIOUS
  <2>1. PICK m \in T : \A j \in T : m <= j
    <3>1. T \in SUBSET Nat
      OBVIOUS
    <3> HIDE DEF T
    <3> QED
      BY <3>1, LeastNumber
  <2>2. m # 0
    <3>1. CountsTo(s, 0, [k \in 0..0 |-> <<>>])
      BY DEF CountsTo
    <3>2. [k \in 0..0 |-> <<>>] \in [0..0 -> Seq(RunPairs)]
      OBVIOUS
    <3> QED
      BY <3>1, <3>2
  <2>3. m - 1 \in Nat /\ m - 1 \notin T
    BY <2>1, <2>2, SMTT(30)
  <2>4. PICK c \in [0..(m - 1) -> Seq(RunPairs)] : CountsTo(s, m - 1, c)
    BY <2>3
  <2> DEFINE newest == IF Takes(s, m) THEN Append(c[m - 1], Taken(s, m)) ELSE c[m - 1]
             d == [k \in 0..m |-> IF k < m THEN c[k] ELSE newest]
  <2>5. newest \in Seq(RunPairs)
    <3>1. c[m - 1] \in Seq(RunPairs)
      BY <2>3, <2>4
    <3>2. Takes(s, m) => Taken(s, m) \in RunPairs
      <4>1. Takes(s, m) => m \in 1..Len(s) /\ m - 1 \in 1..Len(s)
        BY DEF Takes, Pairs
      <4>2. Takes(s, m) => s[m] \in Samples /\ s[m - 1] \in Samples
        BY <4>1
      <4>3. Takes(s, m) => s[m].run \in Nat /\ s[m - 1].run \in Nat
        BY <4>2 DEF Samples
      <4> QED
        BY <4>3 DEF Taken, RunPairs
    <3> QED
      BY <3>1, <3>2
  <2>6. d \in [0..m -> Seq(RunPairs)]
    <3> HIDE DEF newest
    <3>1. \A k \in 0..m : k < m => c[k] \in Seq(RunPairs)
      BY <2>3, <2>4
    <3> QED
      BY <2>5, <3>1
  <2>7. CountsTo(s, m, d)
    <3> SUFFICES ASSUME NEW k \in 0..m
                 PROVE  d[k] = IF k = 0 THEN <<>>
                               ELSE IF Takes(s, k) THEN Append(d[k - 1], Taken(s, k)) ELSE d[k - 1]
      BY DEF CountsTo
    <3>1. CASE k = m
      <4>1. d[m] = newest /\ d[m - 1] = c[m - 1]
        BY <2>1, <2>2, <2>3
      <4> QED
        BY <2>2, <3>1, <4>1
    <3>2. CASE k # m
      <4>1. k \in 0..(m - 1) /\ k < m /\ (k # 0 => k - 1 \in 0..m /\ k - 1 < m)
        BY <2>3, <3>2
      <4>2. c[k] = IF k = 0 THEN <<>>
                   ELSE IF Takes(s, k) THEN Append(c[k - 1], Taken(s, k)) ELSE c[k - 1]
        BY <2>4, <4>1 DEF CountsTo
      <4>3. d[k] = c[k] /\ (k # 0 => d[k - 1] = c[k - 1])
        BY <4>1
      <4> QED
        BY <4>2, <4>3
    <3> QED
      BY <3>1, <3>2
  <2> QED
    BY <2>1, <2>6, <2>7
<1> QED
  BY <1>1

\* Where two sequences begin alike, so do their counts.
LEMMA CountsAgree ==
  ASSUME NEW s, NEW t, NEW n \in Nat, NEW m \in Nat, n <= m,
         NEW c, CountsTo(s, n, c), NEW d, CountsTo(t, m, d),
         \A k \in 1..n : /\ Takes(s, k) <=> Takes(t, k)
                         /\ Takes(s, k) => Taken(s, k) = Taken(t, k)
  PROVE  \A k \in 0..n : c[k] = d[k]
<1> DEFINE T == {k \in 0..n : c[k] # d[k]}
<1>1. T = {}
  <2> SUFFICES ASSUME T # {} PROVE FALSE
    OBVIOUS
  <2>1. PICK k \in T : \A j \in T : k <= j
    <3>1. T \in SUBSET Nat
      OBVIOUS
    <3> HIDE DEF T
    <3> QED
      BY <3>1, LeastNumber
  <2>2. k \in 0..n /\ k \in 0..m
    BY <2>1
  <2>3. /\ c[k] = IF k = 0 THEN <<>>
                  ELSE IF Takes(s, k) THEN Append(c[k - 1], Taken(s, k)) ELSE c[k - 1]
        /\ d[k] = IF k = 0 THEN <<>>
                  ELSE IF Takes(t, k) THEN Append(d[k - 1], Taken(t, k)) ELSE d[k - 1]
    BY <2>2 DEF CountsTo
  <2>4. k # 0
    BY <2>1, <2>3
  <2>5. k - 1 \in 0..n /\ k - 1 \notin T /\ k \in 1..n
    BY <2>1, <2>2, <2>4
  <2>6. c[k - 1] = d[k - 1]
    BY <2>5
  <2> QED
    BY <2>1, <2>3, <2>4, <2>5, <2>6
<1> QED
  BY <1>1

\* Counts is what the loop has at the end.
LEMMA CountsIs ==
  ASSUME NEW s \in Seq(Samples), NEW c, CountsTo(s, Len(s), c)
  PROVE  Counts(s) = c[Len(s)]
<1> DEFINE g == CHOOSE f : CountsTo(s, Len(s), f)
<1>1. Counts(s) = g[Len(s)]
  BY DEF Counts, CountsTo, Takes, Taken
<1>2. CountsTo(s, Len(s), g)
  OBVIOUS
<1> HIDE DEF g
<1>3. Len(s) \in Nat /\ Len(s) \in 0..Len(s)
  OBVIOUS
<1>4. \A k \in 0..Len(s) : c[k] = g[k]
  BY <1>2, <1>3, CountsAgree
<1> QED
  BY <1>1, <1>3, <1>4

\* The samples of an execution: the kinds it leaves, all of one run.
Left(x, r, mux) == [k \in DOMAIN x |-> [kind |-> x[k], run |-> r, multiplexed |-> mux]]

\* A clean execution adds one pair to what a ring counts, any other one none.
LEMMA CountsGrow ==
  ASSUME NEW s \in Seq(Samples), NEW x \in Executions, NEW r \in Nat, NEW mux \in BOOLEAN
  PROVE  /\ s \o Left(x, r, mux) \in Seq(Samples)
         /\ Counts(s \o Left(x, r, mux)) =
              IF Clean(x) /\ ~ mux THEN Append(Counts(s), <<r, r>>) ELSE Counts(s)
<1> DEFINE t == Left(x, r, mux)
           u == s \o t
           n == Len(s)
           l == Len(x)
<1>1. /\ x \in Seq({"first", "other", "last"})
      /\ \A k \in 1..l : x[k] = "last" => k > 1 /\ \A j \in 1..l : x[j] = "last" => j = k
  BY FuzzAssumption
<1>2. /\ t \in Seq(Samples) /\ Len(t) = l
      /\ \A k \in 1..l : t[k] = [kind |-> x[k], run |-> r, multiplexed |-> mux]
  <2>1. DOMAIN x = 1..l /\ l \in Nat /\ \A k \in 1..l : x[k] \in {"first", "other", "last"}
    BY <1>1
  <2>2. \A k \in 1..l : [kind |-> x[k], run |-> r, multiplexed |-> mux] \in Samples
    BY <2>1 DEF Samples
  <2> QED
    BY <2>1, <2>2 DEF Left
<1>3. /\ n \in Nat /\ l \in Nat /\ u \in Seq(Samples) /\ Len(u) = n + l
      /\ \A k \in 1..n : u[k] = s[k]
      /\ \A k \in 1..l : u[n + k] = t[k]
  <2> HIDE DEF t
  <2> QED
    BY <1>1, <1>2, SMTT(30)
<1> HIDE DEF t, u, n, l
<1>4. PICK c : CountsTo(s, n, c)
  BY <1>3, CountsExist
<1>5. PICK d : CountsTo(u, n + l, d)
  <2>1. n + l \in Nat
    BY <1>3
  <2> QED
    BY <1>3, <2>1, CountsExist
<1>6. Counts(s) = c[n] /\ Counts(u) = d[n + l]
  BY <1>3, <1>4, <1>5, CountsIs DEF n
<1>7. c[n] = d[n]
  <2>1. ASSUME NEW k \in 1..n
        PROVE  (Takes(s, k) <=> Takes(u, k)) /\ (Takes(s, k) => Taken(s, k) = Taken(u, k))
    <3>1. k \in 1..Len(s) /\ k \in 1..Len(u) /\ u[k] = s[k] /\ (k > 1 => u[k - 1] = s[k - 1])
      BY <1>3 DEF n
    <3> QED
      BY <3>1 DEF Takes, Taken, Pairs
  <2>2. n \in Nat /\ n \in 0..n /\ n <= n + l /\ n + l \in Nat
    BY <1>3
  <2> DEFINE all == n + l
  <2>3. CountsTo(u, all, d) /\ all \in Nat /\ n <= all
    BY <1>5, <2>2
  <2> HIDE DEF all
  <2>4. \A k \in 0..n : c[k] = d[k]
    BY <1>4, <2>1, <2>2, <2>3, CountsAgree
  <2> QED
    BY <2>2, <2>4
\* Which samples of the execution count.
<1>8. ASSUME NEW k \in 1..l
      PROVE  /\ Takes(u, n + k) <=> ~ mux /\ k > 1 /\ x[k] = "last" /\ x[k - 1] = "first"
             /\ Takes(u, n + k) => Taken(u, n + k) = <<r, r>>
  <2> DEFINE m == n + k
  <2>1. /\ m \in 1..Len(u) /\ k \in Nat /\ m = n + k
        /\ k > 1 => k - 1 \in 1..l /\ n + (k - 1) = m - 1 /\ m > 1
    BY <1>3
  <2> HIDE DEF m
  <2>2. u[m] = t[k] /\ (k > 1 => u[m - 1] = t[k - 1])
    <3>1. u[n + k] = t[k] /\ (k - 1 \in 1..l => u[n + (k - 1)] = t[k - 1])
      BY <1>3
    <3> QED
      BY <2>1, <3>1
  <2>3. u[m].kind = x[k] /\ u[m].run = r /\ u[m].multiplexed = mux
    BY <1>2, <2>2
  <2>4. k > 1 => u[m - 1].kind = x[k - 1] /\ u[m - 1].run = r
    BY <1>2, <2>1, <2>2
  <2>5. Takes(u, m) <=> /\ m \in 1..Len(u) /\ u[m].kind = "last" /\ m > 1
                        /\ u[m - 1].kind = "first" /\ ~ u[m].multiplexed
    BY DEF Takes, Pairs
  <2>6. Takes(u, m) => k > 1
    <3>1. k = 1 => x[k] # "last"
      BY <1>1
    <3> QED
      BY <2>1, <2>3, <2>5, <3>1
  <2>7. Takes(u, m) <=> ~ mux /\ k > 1 /\ x[k] = "last" /\ x[k - 1] = "first"
    BY <2>1, <2>3, <2>4, <2>5, <2>6
  <2>8. Takes(u, m) => Taken(u, m) = <<r, r>>
    BY <2>3, <2>4, <2>6 DEF Taken
  <2> QED
    BY <2>7, <2>8 DEF m
<1> DEFINE Counted(j) == ~ mux /\ \E k \in 2..j : x[k] = "last" /\ x[k - 1] = "first"
           Want(j) == IF Counted(j) THEN Append(c[n], <<r, r>>) ELSE c[n]
           Wrong(j) == d[n + j] # Want(j)
           T == {j \in 0..l : Wrong(j)}
<1>9. T = {}
  <2> SUFFICES ASSUME T # {} PROVE FALSE
    OBVIOUS
  <2>1. PICK j \in T : \A i \in T : j <= i
    <3>1. T \in SUBSET Nat
      OBVIOUS
    <3> HIDE DEF T
    <3> QED
      BY <3>1, LeastNumber
  <2>2. j \in 0..l /\ j \in Nat
    BY <1>3, <2>1
  <2>3. j # 0
    <3>1. ~ Counted(0) /\ n + 0 = n
      BY <1>3
    <3>2. 0 \notin T
      <4> HIDE DEF Counted
      <4>1. ~ Wrong(0)
        BY <1>7, <3>1
      <4> HIDE DEF Wrong
      <4> QED
        BY <4>1
    <3> QED
      BY <2>1, <3>2
  <2>4. /\ j - 1 \in 0..l /\ j \in 1..l /\ n + j \in 0..(n + l) /\ n + j # 0
        /\ n + (j - 1) = n + j - 1
        /\ j - 1 \notin T
    <3>1. /\ j - 1 \in 0..l /\ j \in 1..l /\ n + j \in 0..(n + l) /\ n + j # 0
          /\ n + (j - 1) = n + j - 1
          /\ ~ (j <= j - 1)
      BY <1>3, <2>2, <2>3
    <3> HIDE DEF T
    <3> QED
      BY <2>1, <3>1
  <2> DEFINE m == n + j
  <2>0. m \in 0..(n + l) /\ m # 0 /\ n + (j - 1) = m - 1
    BY <1>3, <2>4
  <2> HIDE DEF m
  <2>5. d[m - 1] = Want(j - 1)
    <3> HIDE DEF Want
    <3>1. ~ Wrong(j - 1)
      <4> HIDE DEF Wrong
      <4> QED
        BY <2>4
    <3>2. d[n + (j - 1)] = Want(j - 1)
      BY <3>1
    <3> QED
      BY <2>0, <3>2
  <2>6. d[m] = IF Takes(u, m) THEN Append(d[m - 1], Taken(u, m)) ELSE d[m - 1]
    <3>1. \A i \in 0..(n + l) : i # 0 =>
            d[i] = IF Takes(u, i) THEN Append(d[i - 1], Taken(u, i)) ELSE d[i - 1]
      BY <1>5 DEF CountsTo
    <3> QED
      BY <2>0, <3>1
  <2>7. Counted(j) <=> Counted(j - 1) \/ Takes(u, m)
    <3>1. Takes(u, m) <=> ~ mux /\ j > 1 /\ x[j] = "last" /\ x[j - 1] = "first"
      BY <1>8, <2>4 DEF m
    <3>2. \A k : k \in 2..j <=> k \in 2..(j - 1) \/ (k = j /\ j > 1)
      BY <2>2
    <3> QED
      BY <3>1, <3>2
  <2>8. ~ (Counted(j - 1) /\ Takes(u, m))
    <3>1. ASSUME NEW k \in 2..(j - 1), x[k] = "last", Takes(u, m) PROVE FALSE
      <4>1. k \in 1..l /\ k # j /\ j \in 1..l
        BY <1>3, <2>2, <2>4
      <4>2. x[j] = "last"
        BY <1>8, <3>1, <4>1 DEF m
      <4> QED
        BY <1>1, <3>1, <4>1, <4>2
    <3>2. Counted(j - 1) => \E k \in 2..(j - 1) : x[k] = "last"
      OBVIOUS
    <3> HIDE DEF Counted
    <3> QED
      BY <3>1, <3>2
  <2>9. Takes(u, m) => Taken(u, m) = <<r, r>>
    BY <1>8, <2>4 DEF m
  <2>10. d[m] = Want(j)
    <3> HIDE DEF Counted
    <3> QED
      BY <2>5, <2>6, <2>7, <2>8, <2>9
  <2>11. Wrong(j)
    <3> HIDE DEF Wrong
    <3> QED
      BY <2>1
  <2> QED
    <3> HIDE DEF Want
    <3> QED
      BY <2>10, <2>11 DEF m
<1>10. Counted(l) <=> Clean(x) /\ ~ mux
  <2>1. ASSUME Clean(x) PROVE \E k \in 2..l : x[k] = "last" /\ x[k - 1] = "first"
    <3>1. PICK k \in 1..(Len(x) - 1) : x[k] = "first" /\ x[k + 1] = "last"
      BY <2>1 DEF Clean
    <3>2. k + 1 \in 2..l /\ (k + 1) - 1 = k
      BY <1>3 DEF l
    <3> QED
      BY <3>1, <3>2
  <2>2. ASSUME NEW k \in 2..l, x[k] = "last", x[k - 1] = "first" PROVE Clean(x)
    <3> DEFINE i == k - 1
    <3>1. i \in 1..(Len(x) - 1) /\ i + 1 = k
      BY <1>3 DEF l
    <3>2. x[i] = "first" /\ x[i + 1] = "last"
      BY <2>2, <3>1
    <3> HIDE DEF i
    <3> QED
      BY <3>1, <3>2 DEF Clean
  <2> QED
    BY <2>1, <2>2
<1>11. d[n + l] = Want(l)
  <2>1. l \in 0..l
    BY <1>3
  <2>2. ~ Wrong(l)
    <3> HIDE DEF Wrong
    <3> QED
      BY <1>9, <2>1
  <2> HIDE DEF Want
  <2> QED
    BY <2>2
<1> HIDE DEF Counted
<1> QED
  BY <1>3, <1>6, <1>10, <1>11 DEF t, u

\* What a ring counts are pairs of runs, none in an empty one.
LEMMA CountsType ==
  /\ \A s \in Seq(Samples) : Counts(s) \in Seq(RunPairs)
  /\ <<>> \in Seq(Samples) /\ Counts(<<>>) = <<>>
<1>1. ASSUME NEW s \in Seq(Samples) PROVE Counts(s) \in Seq(RunPairs)
  <2>1. Len(s) \in Nat /\ Len(s) \in 0..Len(s)
    OBVIOUS
  <2>2. PICK c \in [0..Len(s) -> Seq(RunPairs)] : CountsTo(s, Len(s), c)
    BY <2>1, CountsExist
  <2> QED
    BY <2>1, <2>2, CountsIs
<1>2. <<>> \in Seq(Samples) /\ Len(<<>>) = 0
  OBVIOUS
<1>3. CountsTo(<<>>, 0, [k \in 0..0 |-> <<>>])
  BY DEF CountsTo
<1>4. Counts(<<>>) = <<>>
  BY <1>2, <1>3, CountsIs
<1> QED
  BY <1>1, <1>2, <1>4

LEMMA FuzzInitial == FuzzInit => FuzzInv
<1> SUFFICES ASSUME FuzzInit PROVE FuzzInv
  OBVIOUS
<1>1. FuzzTypeOK
  BY DEF FuzzInit, FuzzTypeOK, FuzzRecords, NoPairs, Closed
<1>2. ErrorInv /\ MeasuredInv /\ LastInv
  BY DEF FuzzInit, ErrorInv, MeasuredInv, LastInv, NoPairs, Closed, NothingLeftOpen, CrashNeedsError
<1> QED
  BY <1>1, <1>2 DEF FuzzInv

\* The groups that are queued again are sets of events.
LEMMA RequeuedType ==
  ASSUME NEW events \in SUBSET Events, NEW opened \in SUBSET events
  PROVE  Requeued(events, opened) \in Seq(SUBSET Events)
<1> DEFINE rest == events \ opened
           single == [e \in rest |-> {e}]
           T == {{e} : e \in rest}
<1>1. IsFiniteSet(rest)
  BY FuzzAssumption, FS_Subset
<1>2. single \in Bijection(rest, T)
  BY DEF Bijection, Injection, Surjection, IsInjective
<1>3. ExistsBijection(rest, T)
  BY <1>2 DEF ExistsBijection
<1>4. IsFiniteSet(T)
  <2> HIDE DEF rest, T
  <2> QED
    BY <1>1, <1>3, FS_Bijection
<1> HIDE DEF T
<1>5. Cardinality(T) \in Nat /\ ExistsBijection(1..Cardinality(T), T)
  BY <1>4, FS_CardinalityType
<1>6. \E f \in [1..Cardinality(T) -> T] : IsInjective(f)
  BY <1>5 DEF ExistsBijection, Bijection, Injection
<1>7. SetToSeq(T) \in [1..Cardinality(T) -> T]
  BY <1>6 DEF SetToSeq
<1>8. SetToSeq(T) \in Seq(T)
  BY <1>5, <1>7
<1>9. T \subseteq SUBSET Events
  BY DEF T
<1> QED
  BY <1>8, <1>9 DEF Requeued, T

LEMMA BeginStep ==
  ASSUME FuzzInv, FuzzOneInput \/ StartTracing \/ StartLastTracing
  PROVE  FuzzInv'
<1> USE DEF FuzzInv
<1>1. CASE FuzzOneInput
  <2>1. FuzzTypeOK'
    <3>1. PICK queue \in ScheduledEvents, execution \in Executions :
            /\ work_queue' = queue
            /\ fuzz' = [fuzz EXCEPT !.at = "loop", !.execution = execution]
      BY <1>1 DEF FuzzOneInput
    <3>2. queue \in Seq(SUBSET Events)
      BY FuzzAssumption
    <3> QED
      BY <1>1, <3>1, <3>2 DEF FuzzOneInput, FuzzTypeOK, FuzzRecords
  <2>2. fuzz'.at = "loop" /\ fuzz'.status = fuzz.status /\ fuzz'.final = fuzz.final
    BY <1>1 DEF FuzzOneInput, FuzzTypeOK, FuzzRecords
  <2>3. ErrorInv' /\ MeasuredInv' /\ LastInv'
    BY <1>1, <2>2 DEF FuzzOneInput, ErrorInv, MeasuredInv, LastInv, NothingLeftOpen, CrashNeedsError
  <2> QED
    BY <2>1, <2>3
<1>2. CASE StartTracing
  <2>1. FuzzTypeOK'
    <3>1. measurements_per_event * Len(work_queue) \in Nat
      BY FuzzAssumption DEF FuzzTypeOK, FuzzRecords
    <3> QED
      BY <1>2, <3>1 DEF StartTracing, FuzzTypeOK, FuzzRecords
  <2>2. fuzz'.at = "trace" /\ fuzz'.status = fuzz.status /\ fuzz'.final = fuzz.final
    BY <1>2 DEF StartTracing, FuzzTypeOK, FuzzRecords
  <2>3. ErrorInv' /\ MeasuredInv' /\ LastInv'
    BY <1>2, <2>2 DEF StartTracing, ErrorInv, MeasuredInv, LastInv, NothingLeftOpen, CrashNeedsError
  <2> QED
    BY <2>1, <2>3
<1>3. CASE StartLastTracing
  <2>1. FuzzTypeOK'
    BY <1>3 DEF StartLastTracing, FuzzTypeOK, FuzzRecords
  <2>2. /\ fuzz'.at = "trace" /\ fuzz'.left = 1 /\ fuzz'.final = TRUE
        /\ fuzz'.status = IF callback_counter # 0 THEN "error" ELSE fuzz.status
    BY <1>3 DEF StartLastTracing, FuzzTypeOK, FuzzRecords
  <2>3. ErrorInv' /\ MeasuredInv' /\ LastInv'
    BY <1>3, <2>2 DEF StartLastTracing, ErrorInv, MeasuredInv, LastInv, NothingLeftOpen, CrashNeedsError
  <2> QED
    BY <2>1, <2>3
<1> QED
  BY <1>1, <1>2, <1>3

LEMMA EndStep ==
  ASSUME FuzzInv, TracingEnds \/ CleanUp
  PROVE  FuzzInv'
<1> USE DEF FuzzInv
<1>1. CASE TracingEnds
  <2>1. PICK failed \in BOOLEAN :
          /\ ~ failed => fuzz.at = "trace" /\ fuzz.left = 0
          /\ fuzz' = [fuzz EXCEPT !.at = IF fuzz.final THEN "cleanup" ELSE "loop", !.left = 0,
                                  !.status = IF failed \/ callback_status = "error" THEN "error" ELSE @]
    BY <1>1 DEF TracingEnds
  <2>2. /\ fuzz'.at = IF fuzz.final THEN "cleanup" ELSE "loop"
        /\ fuzz'.left = 0 /\ fuzz'.final = fuzz.final
        /\ fuzz'.status = IF failed \/ callback_status = "error" THEN "error" ELSE fuzz.status
    BY <2>1 DEF FuzzTypeOK, FuzzRecords
  <2>3. FuzzTypeOK'
    BY <1>1, <2>1 DEF TracingEnds, FuzzTypeOK, FuzzRecords
  <2>4. ErrorInv'
    BY <1>1, <2>2 DEF TracingEnds, ErrorInv
  <2>5. MeasuredInv'
    BY <1>1, <2>2 DEF TracingEnds, MeasuredInv
  <2>6. fuzz'.status = "ok" => fuzz.status = "ok" /\ fuzz.at = "trace" /\ fuzz.left = 0
    BY <2>1, <2>2
  <2>7. LastInv'
    <3>1. UNCHANGED <<work_queue, group, buffer, callback_counter>>
      BY <1>1 DEF TracingEnds
    <3>2. fuzz'.at \in {"loop", "cleanup"} /\ (fuzz'.at = "cleanup" <=> fuzz'.final)
      BY <2>2
    <3>3. fuzz.final /\ fuzz'.status = "ok" =>
            callback_counter = 0 /\ work_queue = <<>> /\ group = Closed /\ buffer = Closed
      BY <2>6 DEF LastInv
    <3> QED
      BY <2>2, <3>1, <3>2, <3>3 DEF LastInv, NothingLeftOpen, CrashNeedsError
  <2> QED
    BY <2>3, <2>4, <2>5, <2>7
<1>2. CASE CleanUp
  <2>1. /\ fuzz'.at = IF work_queue' = <<>> /\ callback_counter' = 0 THEN "returned" ELSE "crashed"
        /\ fuzz'.left = fuzz.left /\ fuzz'.final = fuzz.final /\ fuzz'.status = fuzz.status
    BY <1>2 DEF CleanUp, FuzzTypeOK, FuzzRecords
  <2>2. FuzzTypeOK'
    <3>1. /\ work_queue' \in {work_queue, <<>>} /\ callback_counter' \in {callback_counter, 0}
          /\ group' \in {group, Closed} /\ buffer' \in {buffer, Closed}
          /\ UNCHANGED <<callback_status, measurements, open_runs>>
      BY <1>2 DEF CleanUp
    <3>2. \E at \in {"returned", "crashed"} : fuzz' = [fuzz EXCEPT !.at = at]
      BY <1>2 DEF CleanUp
    <3>3. /\ fuzz' \in FuzzRecords
          /\ fuzz'.execution = fuzz.execution
      BY <3>2 DEF FuzzTypeOK, FuzzRecords
    <3>4. fuzz.at = "cleanup"
      BY <1>2 DEF CleanUp
    <3>5. work_queue' \in Seq(SUBSET Events) /\ callback_counter' \in Nat
      <4>1. work_queue \in Seq(SUBSET Events) /\ callback_counter \in Nat
        BY DEF FuzzTypeOK
      <4>2. <<>> \in Seq(SUBSET Events) /\ 0 \in Nat
        OBVIOUS
      <4> QED
        BY <3>1, <4>1, <4>2
    <3>6. /\ group' = Closed \/ \E g \in SUBSET Events : group' = {g}
          /\ buffer' = Closed \/ \E samples \in Seq(Samples) : buffer' = {samples}
      BY <3>1 DEF FuzzTypeOK, FuzzRecords
    <3>7. fuzz'.execution \in Executions /\ fuzz'.at # "execute"
      BY <3>2, <3>3, <3>4 DEF FuzzTypeOK, FuzzRecords
    <3> QED
      BY <3>1, <3>3, <3>5, <3>6, <3>7 DEF FuzzTypeOK
  <2>3. CASE fuzz.status = "ok"
    BY <1>2, <2>1, <2>2, <2>3
       DEF CleanUp, ErrorInv, MeasuredInv, LastInv, NothingLeftOpen, CrashNeedsError
  <2>4. CASE fuzz.status # "ok"
    BY <1>2, <2>1, <2>2, <2>4
       DEF CleanUp, ErrorInv, MeasuredInv, LastInv, NothingLeftOpen, CrashNeedsError, FuzzTypeOK, FuzzRecords
  <2> QED
    BY <2>3, <2>4
<1> QED
  BY <1>1, <1>2

\* The next group starts with an empty ring; everything else is left as it was measured.
LEMMA CallbackStep ==
  ASSUME FuzzInv, HarnessTracerCallback
  PROVE  FuzzInv'
<1> USE DEF FuzzInv
<1>1. /\ fuzz.at = "trace" /\ fuzz.left > 0 /\ fuzz' = [fuzz EXCEPT !.at = "execute"]
      /\ fuzz'.at = "execute" /\ fuzz'.status = fuzz.status /\ fuzz'.final = fuzz.final
      /\ fuzz'.left = fuzz.left
  BY DEF HarnessTracerCallback, FuzzTypeOK, FuzzRecords
<1>2. ErrorInv'
  BY <1>1 DEF ErrorInv
<1>3. fuzz' \in FuzzRecords
      /\ fuzz'.execution \in Executions /\ fuzz'.left > 0 /\ fuzz'.at = "execute"
  BY <1>1 DEF FuzzTypeOK, FuzzRecords
<1>4. fuzz.final => fuzz.left = 1
  BY <1>1 DEF LastInv, FuzzTypeOK, FuzzRecords
<1>5. CASE callback_counter > 0
  <2>1. /\ callback_counter' = callback_counter - 1
        /\ UNCHANGED <<work_queue, group, buffer, callback_status, measurements, open_runs, failures>>
    BY <1>5 DEF HarnessTracerCallback
  <2>2. FuzzTypeOK'
    <3>1. callback_counter' \in Nat
      BY <1>5, <2>1 DEF FuzzTypeOK, FuzzRecords
    <3> QED
      BY <1>3, <2>1, <3>1 DEF FuzzTypeOK
  <2>3. MeasuredInv'
    BY <1>1, <2>1 DEF MeasuredInv
  <2>4. LastInv'
    BY <1>1, <1>4, <1>5, <2>1 DEF LastInv, NothingLeftOpen, CrashNeedsError
  <2> QED
    BY <1>2, <2>2, <2>3, <2>4
<1>6. CASE ~ (callback_counter > 0)
  <2>1. OpenNext(work_queue, callback_status)
    BY <1>6 DEF HarnessTracerCallback
  <2>2. /\ buffer = Closed => measurements' = measurements
        /\ \A samples \in buffer : buffer # Closed => measurements' = Collected(samples)
    <3>1. IF buffer # Closed THEN \E samples \in buffer : measurements' = Collected(samples)
          ELSE UNCHANGED measurements
      BY <1>6 DEF HarnessTracerCallback, Collects
    <3>2. \A s, t \in buffer : s = t
      BY DEF FuzzTypeOK, FuzzRecords, Closed
    <3> QED
      BY <3>1, <3>2
  <2>3. measurements' \in [Events -> Seq(RunPairs)]
    <3>1. CASE buffer = Closed
      BY <2>2, <3>1 DEF FuzzTypeOK, FuzzRecords
    <3>2. CASE buffer # Closed
      <4>1. PICK s \in Seq(Samples) : buffer = {s}
        BY <3>2 DEF FuzzTypeOK, FuzzRecords
      <4>2. measurements' = Collected(s)
        BY <2>2, <3>2, <4>1
      <4> QED
        BY <4>2, CountsType DEF Collected, FuzzTypeOK, FuzzRecords
    <3> QED
      BY <3>1, <3>2
\* What is collected is what was run of every event.
  <2>4. callback_status = "ok" /\ fuzz.status = "ok" => \A e \in Events : measurements'[e] = open_runs[e]
    <3> SUFFICES ASSUME callback_status = "ok", fuzz.status = "ok", NEW e \in Events
                 PROVE  measurements'[e] = open_runs[e]
      OBVIOUS
    <3>1. IF \E g \in group : e \in g THEN \A samples \in buffer : Counts(samples) = open_runs[e]
          ELSE measurements[e] = open_runs[e]
      BY DEF MeasuredInv
    <3>2. CASE buffer = Closed
      <4>1. group = Closed /\ measurements' = measurements
        BY <2>2, <3>2 DEF MeasuredInv
      <4> QED
        BY <3>1, <4>1 DEF Closed
    <3>3. CASE buffer # Closed
      <4>1. PICK s \in Seq(Samples) : buffer = {s}
        BY <3>3 DEF FuzzTypeOK, FuzzRecords
      <4>2. measurements' = Collected(s)
        BY <2>2, <3>3, <4>1
      <4>3. measurements'[e] = IF \E g \in group : e \in g THEN Counts(s) ELSE measurements[e]
        BY <4>2 DEF Collected
      <4> QED
        BY <3>1, <4>1, <4>3
    <3> QED
      BY <3>2, <3>3
  <2>5. CASE work_queue = <<>>
    <3>1. /\ work_queue' = work_queue /\ group' = Closed /\ buffer' = Closed
          /\ callback_status' = callback_status
          /\ UNCHANGED <<callback_counter, open_runs, failures>>
      BY <2>1, <2>5 DEF OpenNext
    <3>2. FuzzTypeOK'
      BY <1>3, <2>3, <3>1 DEF FuzzTypeOK
    <3>3. MeasuredInv'
      BY <1>1, <2>4, <3>1 DEF MeasuredInv, Closed
    <3>4. LastInv'
      BY <1>1, <1>4, <3>1 DEF LastInv, NothingLeftOpen, CrashNeedsError
    <3> QED
      BY <1>2, <3>2, <3>3, <3>4
  <2>6. CASE work_queue # <<>>
    <3>1. ~ (fuzz.final /\ fuzz.status = "ok")
      BY <2>6 DEF LastInv
    <3>2. callback_counter' = measurements_per_event - 1 /\ callback_counter' \in Nat
      BY <2>1, <2>6, FuzzAssumption DEF OpenNext
    <3>3. LastInv'
      BY <1>1, <1>4, <3>1 DEF LastInv, NothingLeftOpen, CrashNeedsError
    <3>4. Head(work_queue) \in SUBSET Events /\ Tail(work_queue) \in Seq(SUBSET Events)
      BY <2>6 DEF FuzzTypeOK, FuzzRecords
    <3>5. CASE /\ work_queue' = Tail(work_queue) /\ group' = Closed /\ buffer' = Closed
               /\ callback_status' = "error" /\ UNCHANGED open_runs
      <4>1. FuzzTypeOK'
        BY <1>3, <2>3, <3>2, <3>4, <3>5 DEF FuzzTypeOK
      <4>2. MeasuredInv'
        BY <3>5 DEF MeasuredInv
      <4> QED
        BY <1>2, <3>3, <4>1, <4>2
    <3>6. ASSUME NEW opened \in SUBSET Head(work_queue),
                 work_queue' = Tail(work_queue) \o Requeued(Head(work_queue), opened),
                 group' = {opened},
                 open_runs' = [e \in Events |-> IF e \in opened THEN <<>> ELSE open_runs[e]],
                 \/ buffer' = {<<>>} /\ callback_status' = callback_status
                 \/ buffer' = Closed /\ callback_status' = "error"
          PROVE  FuzzInv'
      <4>1. Requeued(Head(work_queue), opened) \in Seq(SUBSET Events)
        BY <3>4, RequeuedType
      <4>2. FuzzTypeOK'
        <5>1. work_queue' \in Seq(SUBSET Events)
          BY <3>4, <3>6, <4>1
        <5>2. open_runs' \in [Events -> Seq(RunPairs)]
          BY <3>6 DEF FuzzTypeOK, FuzzRecords
        <5>3. buffer' = Closed \/ \E samples \in Seq(Samples) : buffer' = {samples}
          BY <3>6, CountsType
        <5>4. group' = Closed \/ \E g \in SUBSET Events : group' = {g}
          BY <3>4, <3>6
        <5>5. callback_status' \in {"ok", "error"}
          BY <3>6 DEF FuzzTypeOK, FuzzRecords
        <5> QED
          BY <1>3, <2>3, <3>2, <5>1, <5>2, <5>3, <5>4, <5>5 DEF FuzzTypeOK
      <4>3. MeasuredInv'
        <5>1. group' # Closed
          BY <3>6 DEF Closed
        <5>2. CASE callback_status' = "error"
          BY <5>1, <5>2 DEF MeasuredInv
        <5>3. CASE callback_status' # "error"
          <6>1. buffer' = {<<>>} /\ callback_status' = callback_status /\ callback_status' = "ok"
            BY <3>6, <4>2, <5>3 DEF FuzzTypeOK, FuzzRecords
          <6>2. ASSUME NEW e \in Events, fuzz.status = "ok"
                PROVE  IF e \in opened THEN open_runs'[e] = <<>> ELSE measurements'[e] = open_runs'[e]
            BY <2>4, <3>6, <6>1, <6>2
          <6>3. (\E g \in group' : TRUE) /\ \A g \in group' : g = opened
            BY <3>6
          <6> QED
            BY <1>1, <3>6, <5>1, <6>1, <6>2, CountsType DEF MeasuredInv, Closed
        <5> QED
          BY <5>2, <5>3
      <4> QED
        BY <1>2, <3>3, <4>2, <4>3
    <3> QED
      BY <2>1, <2>6, <3>5, <3>6 DEF OpenNext
  <2> QED
    BY <2>5, <2>6
<1> QED
  BY <1>5, <1>6

\* An execution adds to the ring what it adds to the runs of the events that are open.
LEMMA ExecuteStep ==
  ASSUME FuzzInv, Execute
  PROVE  FuzzInv'
<1> USE DEF FuzzInv
<1>1. /\ fuzz.at = "execute" /\ UNCHANGED <<work_queue, group, callback_counter, callback_status, measurements>>
      /\ fuzz' = [fuzz EXCEPT !.at = "trace", !.left = @ - 1,
                              !.run = (@ + 1) % (2 * measurements_per_event)]
  BY DEF Execute
<1>2. /\ fuzz'.at = "trace" /\ fuzz'.left = fuzz.left - 1 /\ fuzz'.status = fuzz.status
      /\ fuzz'.final = fuzz.final
  BY <1>1 DEF FuzzTypeOK, FuzzRecords
<1> DEFINE x == fuzz.execution
           r == fuzz.run
<1>3. x \in Executions /\ r \in Nat /\ fuzz.left \in Nat
  BY <1>1 DEF FuzzTypeOK, FuzzRecords
<1>4. PICK mux \in BOOLEAN :
        /\ buffer' = {samples \o Left(x, r, mux) : samples \in buffer}
        /\ open_runs' = IF buffer # Closed /\ Clean(x) /\ ~ mux
                        THEN [e \in Events |-> IF \E g \in group : e \in g
                               THEN Append(open_runs[e], <<r, r>>) ELSE open_runs[e]]
                        ELSE open_runs
  BY DEF Execute, Left
<1>5. fuzz.left > 0
  BY <1>1 DEF FuzzTypeOK, FuzzRecords
<1>6. FuzzTypeOK'
  <2>1. fuzz' \in FuzzRecords
    <3>1. fuzz.left - 1 \in Nat
      BY <1>3, <1>5
    <3>2. (r + 1) % (2 * measurements_per_event) \in Nat
      <4> DEFINE period == 2 * measurements_per_event
      <4>1. period \in Nat \ {0}
        BY FuzzAssumption
      <4> HIDE DEF period
      <4>2. (r + 1) % period \in Nat
        BY <1>3, <4>1
      <4> QED
        BY <4>2 DEF period
    <3> QED
      BY <1>1, <3>1, <3>2 DEF FuzzTypeOK, FuzzRecords
  <2>2. fuzz'.execution \in Executions
    BY <1>1, <1>3 DEF FuzzTypeOK, FuzzRecords
  <2>3. buffer' = Closed \/ \E samples \in Seq(Samples) : buffer' = {samples}
    <3>1. CASE buffer = Closed
      BY <1>4, <3>1 DEF Closed
    <3>2. CASE buffer # Closed
      <4>1. PICK s \in Seq(Samples) : buffer = {s}
        BY <3>2 DEF FuzzTypeOK, FuzzRecords
      <4>2. buffer' = {s \o Left(x, r, mux)}
        BY <1>4, <4>1
      <4> QED
        BY <1>3, <4>2, CountsGrow
    <3> QED
      BY <3>1, <3>2
  <2>4. open_runs' \in [Events -> Seq(RunPairs)]
    <3>1. <<r, r>> \in RunPairs
      BY <1>3 DEF RunPairs
    <3>2. \A e \in Events : Append(open_runs[e], <<r, r>>) \in Seq(RunPairs)
      BY <3>1 DEF FuzzTypeOK, FuzzRecords
    <3> DEFINE longer == [e \in Events |-> IF \E g \in group : e \in g
                                           THEN Append(open_runs[e], <<r, r>>) ELSE open_runs[e]]
    <3>3. open_runs \in [Events -> Seq(RunPairs)]
      BY DEF FuzzTypeOK
    <3>4. longer \in [Events -> Seq(RunPairs)]
      BY <3>2, <3>3
    <3>5. CASE buffer # Closed /\ Clean(x) /\ ~ mux
      <4>1. open_runs' = longer
        BY <1>4, <3>5
      <4> HIDE DEF longer
      <4> QED
        BY <3>4, <4>1
    <3>6. CASE ~ (buffer # Closed /\ Clean(x) /\ ~ mux)
      <4>1. open_runs' = open_runs
        BY <1>4, <3>6
      <4> QED
        BY <3>3, <4>1
    <3> QED
      BY <3>5, <3>6
  <2> QED
    BY <1>1, <1>2, <2>1, <2>2, <2>3, <2>4 DEF FuzzTypeOK
<1>7. MeasuredInv'
  <2>1. buffer' = Closed <=> buffer = Closed
    BY <1>4 DEF Closed
  <2>2. ASSUME callback_status = "ok", fuzz.status = "ok", NEW e \in Events
        PROVE  IF \E g \in group : e \in g THEN \A samples \in buffer' : Counts(samples) = open_runs'[e]
               ELSE measurements[e] = open_runs'[e]
    <3>1. IF \E g \in group : e \in g THEN \A samples \in buffer : Counts(samples) = open_runs[e]
          ELSE measurements[e] = open_runs[e]
      BY <2>2 DEF MeasuredInv
    <3>2. CASE buffer = Closed
      BY <1>4, <2>1, <3>1, <3>2 DEF Closed
    <3>3. CASE buffer # Closed
      <4>1. PICK s \in Seq(Samples) : buffer = {s}
        BY <3>3 DEF FuzzTypeOK, FuzzRecords
      <4>2. buffer' = {s \o Left(x, r, mux)}
        BY <1>4, <4>1
      <4>3. Counts(s \o Left(x, r, mux)) =
              IF Clean(x) /\ ~ mux THEN Append(Counts(s), <<r, r>>) ELSE Counts(s)
        BY <1>3, CountsGrow
      <4>4. open_runs'[e] = IF Clean(x) /\ ~ mux /\ \E g \in group : e \in g
                            THEN Append(open_runs[e], <<r, r>>) ELSE open_runs[e]
        BY <1>4, <3>3 DEF FuzzTypeOK, FuzzRecords
      <4> QED
        BY <3>1, <4>1, <4>2, <4>3, <4>4
    <3> QED
      BY <3>2, <3>3
  <2> QED
    BY <1>1, <1>2, <2>1, <2>2 DEF MeasuredInv
<1>8. ErrorInv' /\ LastInv'
  <2>1. buffer = Closed => buffer' = Closed
    BY <1>4 DEF Closed
  <2>2. fuzz.final => fuzz.left = 1 /\ fuzz'.left = 0
    BY <1>1, <1>2 DEF LastInv
  <2> QED
    BY <1>1, <1>2, <2>1, <2>2 DEF ErrorInv, LastInv, NothingLeftOpen, CrashNeedsError
<1> QED
  BY <1>6, <1>7, <1>8

LEMMA FuzzStep == FuzzInv /\ [FuzzNext]_fuzzvars => FuzzInv'
<1> SUFFICES ASSUME FuzzInv, [FuzzNext]_fuzzvars PROVE FuzzInv'
  OBVIOUS
<1>1. CASE FuzzOneInput \/ StartTracing \/ StartLastTracing
  BY <1>1, BeginStep
<1>2. CASE HarnessTracerCallback
  BY <1>2, CallbackStep
<1>3. CASE Execute
  BY <1>3, ExecuteStep
<1>4. CASE TracingEnds \/ CleanUp
  BY <1>4, EndStep
<1>5. CASE UNCHANGED fuzzvars
  BY <1>5 DEF fuzzvars, FuzzInv, FuzzTypeOK, FuzzRecords, ErrorInv, MeasuredInv, LastInv, NothingLeftOpen,
       CrashNeedsError
<1> QED
  BY <1>1, <1>2, <1>3, <1>4, <1>5 DEF FuzzNext

\* MeasurementIsSound, for every list of events, schedule and number of measurements, and
\* whatever fails to open or to run: when PerfEventFuzzer::FuzzOneInput succeeds, every event
\* was counted over exactly the executions during which it was open, however often it was
\* queued again; nothing stays open, and its state is destroyed with work left only after
\* an error.
THEOREM MeasurementStaysSound == FuzzSpec => []MeasurementIsSound
<1>1. FuzzInv => MeasurementIsSound
  <2> SUFFICES ASSUME FuzzInv PROVE EveryOpenRunCounts
    BY DEF FuzzInv, LastInv, MeasurementIsSound
  <2> SUFFICES ASSUME fuzz.at = "returned", fuzz.status = "ok" PROVE measurements = open_runs
    BY DEF EveryOpenRunCounts
  <2>1. callback_status = "ok"
    BY DEF FuzzInv, FuzzTypeOK, FuzzRecords, ErrorInv
  <2>2. group = {}
    BY DEF FuzzInv, LastInv, NothingLeftOpen, Closed
  <2>3. \A e \in Events : measurements[e] = open_runs[e]
    BY <2>1, <2>2 DEF FuzzInv, MeasuredInv
  <2> QED
    BY <2>3 DEF FuzzInv, FuzzTypeOK, FuzzRecords
<1> QED
  BY <1>1, FuzzInitial, FuzzStep, PTL DEF FuzzSpec

-----------------------------------------------------------------------------
(* The snap maker: what it guarantees for any pages, end states, limits and candidates *)

USE MakerAssumption, ProgramsAssumption

\* What every call of the driver returns, whatever the candidate does.
LEMMA PlayFacts ==
  ASSUME MakerTypeOK, NEW limit \in Nat, NEW shown \in Plays(limit)
  PROVE  /\ shown.ends \in Ends \union {"page_fault", "interrupted"}
         /\ shown.added \subseteq Pages /\ IsFiniteSet(shown.added)
         /\ Cardinality(shown.added) \in 0..limit
         /\ shown.ends = "page_fault" => shown.at \in Pages \ pages
<1>1. CASE shown \in Outside
  <2>1. shown.ends \in {"interrupted", "killed", "signal"} /\ shown.added = {}
    BY <1>1 DEF Outside, Run
  <2> QED
    BY <2>1, FS_EmptySet DEF Ends
<1>2. CASE shown \in Runs(limit)
  <2> PICK b \in program.runs :
        LET missing == b.touches \ pages
        IN  shown \in IF Cardinality(missing) <= limit
                    THEN {Run(ends, missing, "none") : ends \in EndsOf(b)}
                    ELSE {r \in [ends : {"page_fault"}, added : SUBSET missing,
                                 at : missing] :
                            Cardinality(r.added) = limit /\ r.at \notin r.added}
    BY <1>2 DEF Runs
  <2> DEFINE missing == b.touches \ pages
  <2>1. b \in Behaviours
    BY DEF MakerTypeOK, AllPrograms
  <2>2. missing \subseteq Pages \ pages /\ IsFiniteSet(missing)
    BY <2>1, FS_Subset DEF Behaviours
  <2>3. CASE Cardinality(missing) <= limit
    <3>1. PICK ends \in EndsOf(b) : shown = Run(ends, missing, "none")
      BY <2>3
    <3>2. ends \in Ends
      BY <2>1 DEF EndsOf, Ends, Behaviours
    <3>3. shown.ends = ends /\ shown.added = missing
      BY <3>1 DEF Run
    <3>4. Cardinality(missing) \in Nat
      BY <2>2, FS_CardinalityType
    <3>5. shown.ends # "page_fault"
      BY <3>2, <3>3 DEF Ends
    <3> QED
      BY <2>2, <2>3, <3>2, <3>3, <3>4, <3>5
  <2>4. CASE ~(Cardinality(missing) <= limit)
    <3>1. /\ shown \in [ends : {"page_fault"}, added : SUBSET missing, at : missing]
          /\ Cardinality(shown.added) = limit
      BY <2>4
    <3> QED
      BY <2>2, <3>1, FS_Subset
  <2> QED
    BY <2>3, <2>4
<1> QED
  BY <1>1, <1>2 DEF Plays

\* A run that reaches the endpoint shows a behaviour of the candidate, with the
\* pages it was missing, as long as the endpoint is where it was.
LEMMA EndReached ==
  ASSUME MakerTypeOK, ~endpoint_moved, NEW limit \in Nat,
         NEW shown \in Plays(limit), shown.ends \in FinalStates
  PROVE  \E b \in program.runs :
           b.ends = shown.ends /\ shown.added = b.touches \ pages
<1>1. shown \notin Outside
  BY DEF Outside, Run
<1> PICK b \in program.runs :
      LET missing == b.touches \ pages
      IN  shown \in IF Cardinality(missing) <= limit
                  THEN {Run(ends, missing, "none") : ends \in EndsOf(b)}
                  ELSE {r \in [ends : {"page_fault"}, added : SUBSET missing,
                               at : missing] :
                          Cardinality(r.added) = limit /\ r.at \notin r.added}
  BY <1>1 DEF Plays, Runs
<1>2. PICK ends \in EndsOf(b) : shown = Run(ends, b.touches \ pages, "none")
  OBVIOUS
<1> QED
  BY <1>2 DEF EndsOf, Run

LEMMA LimitType == RunnerLimit \in Nat /\ RunnerLimit <= max_pages_to_add
BY DEF RunnerLimit
-----------------------------------------------------------------------------
(***************************************************************************)
(* Types.  That plays stays within its bound needs to know that a snapshot *)
(* is verified only while attempts are left.                               *)
(***************************************************************************)
AttemptsInv ==
  /\ stage \in {"make", "record"} => plays = <<>>
  /\ stage = "verify" => Len(plays) < num_verify_attempts
  /\ stage \in {"trace", "made"} => Len(plays) = num_verify_attempts

TypeInv == MakerTypeOK /\ AttemptsInv

LEMMA TypeInit == MakerInit => TypeInv
<1> SUFFICES ASSUME MakerInit PROVE TypeInv
  OBVIOUS
<1>1. program \in AllPrograms
  BY DEF MakerInit
<1>2. pages \subseteq Pages
  BY <1>1 DEF MakerInit, AllPrograms
<1>3. plays \in Seq(Ends \union {"page_fault", "interrupted"}) /\ Len(plays) = 0
  BY DEF MakerInit
<1>4. maker_options \in Options /\ endpoint_moved \in BOOLEAN /\ disturbed \in BOOLEAN
  BY DEF MakerInit
<1>5. stage = "make" /\ end_state = "none" /\ pages_added = 0 /\ plays = <<>>
  BY DEF MakerInit
<1>6. AttemptsInv
  BY <1>5 DEF AttemptsInv
<1> QED
  BY <1>1, <1>2, <1>3, <1>4, <1>5, <1>6 DEF TypeInv, MakerTypeOK, Stages

LEMMA MakeTyped == TypeInv /\ Make => TypeInv'
<1> SUFFICES ASSUME TypeInv, Make PROVE TypeInv'
  OBVIOUS
<1> USE DEF TypeInv, MakerTypeOK, AttemptsInv, Stages
<1> PICK shown \in Plays(RunnerLimit) :
      /\ MakeReachesEnd(shown) \/ MakeAddsPage(shown) \/ MakeGivesUp(shown)
      /\ Notes(shown, RunnerLimit)
  BY DEF Make
<1>1. /\ UNCHANGED <<maker_options, program, plays>> /\ stage = "make"
      /\ disturbed' \in BOOLEAN
  BY DEF Make, Notes
<1>2. /\ shown.added \subseteq Pages
      /\ shown.ends = "page_fault" => shown.at \in Pages
  BY PlayFacts, LimitType
<1>3. CASE MakeReachesEnd(shown)
  BY <1>1, <1>2, <1>3 DEF MakeReachesEnd, Grown
<1>4. CASE MakeAddsPage(shown)
  BY <1>1, <1>2, <1>4 DEF MakeAddsPage, AddsPage
<1>5. CASE MakeGivesUp(shown)
  BY <1>1, <1>5 DEF MakeGivesUp, Rejects
<1> QED
  BY <1>3, <1>4, <1>5

LEMMA RecordTyped == TypeInv /\ Record => TypeInv'
<1> SUFFICES ASSUME TypeInv, Record PROVE TypeInv'
  OBVIOUS
<1> USE DEF TypeInv, MakerTypeOK, AttemptsInv, Stages
<1>1. /\ UNCHANGED <<maker_options, program, plays, pages, pages_added>>
      /\ stage = "record" /\ disturbed' \in BOOLEAN
      /\ end_state' \in FinalStates \union {"none"}
      /\ endpoint_moved' \in BOOLEAN /\ stage' \in {"verify", "rejected"}
  BY DEF Record, Notes, Rejects
<1> QED
  BY <1>1

LEMMA VerifyTyped == TypeInv /\ Verify => TypeInv'
<1> SUFFICES ASSUME TypeInv, Verify PROVE TypeInv'
  OBVIOUS
<1> USE DEF TypeInv, MakerTypeOK, AttemptsInv, Stages
<1> PICK shown \in Plays(0) :
      /\ plays' = Append(plays, shown.ends)
      /\ stage' = IF RunSucceeds(shown)
                  THEN IF Len(plays') = num_verify_attempts THEN "trace"
                       ELSE "verify"
                  ELSE IF maker_options.verbose /\ ~HasPlayerResult(shown) THEN "aborted"
                       ELSE "rejected"
      /\ Notes(shown, 0)
  BY DEF Verify
<1>1. shown.ends \in Ends \union {"page_fault", "interrupted"}
  BY PlayFacts
<1>2. /\ plays' \in Seq(Ends \union {"page_fault", "interrupted"})
      /\ Len(plays') = Len(plays) + 1
  BY <1>1
<1>3. stage = "verify" /\ disturbed' \in BOOLEAN
      /\ UNCHANGED <<maker_options, program, pages, pages_added, end_state, endpoint_moved>>
  BY DEF Verify, Notes
<1>4. /\ stage' \in {"trace", "verify", "aborted", "rejected"}
      /\ stage' = "trace" => Len(plays') = num_verify_attempts
      /\ stage' = "verify" => Len(plays') # num_verify_attempts
  OBVIOUS
<1> QED
  BY <1>2, <1>3, <1>4

LEMMA TypeStep == TypeInv /\ [MakerNext]_maker_vars => TypeInv'
<1> SUFFICES ASSUME TypeInv, [MakerNext]_maker_vars PROVE TypeInv'
  OBVIOUS
<1>1. CASE SnapifyFails
  BY <1>1 DEF SnapifyFails, Rejects, TypeInv, MakerTypeOK, AttemptsInv, Stages
<1>2. CASE Trace
  BY <1>2 DEF Trace, Notes, TypeInv, MakerTypeOK, AttemptsInv, Stages
<1>3. CASE UNCHANGED maker_vars
  BY <1>3 DEF maker_vars, TypeInv, MakerTypeOK, AttemptsInv
<1> QED
  BY <1>1, <1>2, <1>3, MakeTyped, RecordTyped, VerifyTyped DEF MakerNext

LEMMA TypeHolds == MakerSpec => []TypeInv
BY TypeInit, TypeStep, PTL DEF MakerSpec

\* Every variable keeps its type; MakeLoop's counter stays within the limit and
\* no more plays are made than asked for.
THEOREM MakerTypeCorrect == MakerSpec => []MakerTypeOK
BY TypeHolds, PTL DEF TypeInv
-----------------------------------------------------------------------------
(***************************************************************************)
(* The pages of the snapshot.  PagesAreUsable is kept by the stages after  *)
(* Make because they leave the pages alone; in Make it needs the counter   *)
(* to be an upper bound of the pages gained so far, which in the default   *)
(* mode are none.                                                          *)
(***************************************************************************)
Gained == Cardinality(pages \ program.pages)

GrowthInv ==
  /\ program.pages \subseteq pages
  /\ stage = "make" =>
       /\ Gained <= pages_added
       /\ ~maker_options.compatibility_mode => pages = program.pages
  /\ PagesAreUsable

\* One more page is at most one page gained, several are at most their number.
LEMMA GainedSize ==
  ASSUME MakerTypeOK
  PROVE  /\ Gained \in Nat
         /\ \A page \in Pages :
              Cardinality((pages \union {page}) \ program.pages) <= Gained + 1
<1>1. IsFiniteSet(pages \ program.pages)
  BY FS_Subset DEF MakerTypeOK
<1>2. Gained \in Nat
  BY <1>1, FS_CardinalityType DEF Gained
<1>3. ASSUME NEW page \in Pages
      PROVE  Cardinality((pages \union {page}) \ program.pages) <= Gained + 1
  <2> DEFINE more == (pages \ program.pages) \union {page}
  <2>1. IsFiniteSet(more) /\ Cardinality(more) \in {Gained, Gained + 1}
    BY <1>1, FS_AddElement DEF Gained
  <2>2. (pages \union {page}) \ program.pages \subseteq more
    OBVIOUS
  <2> HIDE DEF more
  <2>3. Cardinality((pages \union {page}) \ program.pages) <= Cardinality(more)
    BY <2>1, <2>2, FS_Subset
  <2>4. Cardinality((pages \union {page}) \ program.pages) \in Nat
    BY <2>1, <2>2, FS_Subset, FS_CardinalityType
  <2> QED
    BY <1>2, <2>1, <2>3, <2>4
<1> QED
  BY <1>2, <1>3

LEMMA GrowthInit == MakerInit => GrowthInv
<1> SUFFICES ASSUME MakerInit PROVE GrowthInv
  OBVIOUS
<1>1. stage = "make" /\ pages = program.pages /\ pages_added = 0
  BY DEF MakerInit
<1>2. pages \ program.pages = {}
  BY <1>1
<1>3. Gained = 0
  BY <1>2, FS_EmptySet DEF Gained
<1> QED
  BY <1>1, <1>3 DEF GrowthInv, PagesAreUsable

LEMMA MakeGrows == MakerTypeOK /\ GrowthInv /\ Make => GrowthInv'
<1> SUFFICES ASSUME MakerTypeOK, GrowthInv, Make PROVE GrowthInv'
  OBVIOUS
<1> PICK shown \in Plays(RunnerLimit) :
      MakeReachesEnd(shown) \/ MakeAddsPage(shown) \/ MakeGivesUp(shown)
  BY DEF Make
<1>1. /\ UNCHANGED <<maker_options, program>> /\ stage = "make"
      /\ program.pages \subseteq pages
      /\ Gained <= pages_added
      /\ ~maker_options.compatibility_mode => pages = program.pages
  BY DEF Make, GrowthInv
<1>2. /\ Gained \in Nat /\ pages_added \in 0..max_pages_to_add
      /\ \A page \in Pages :
           Cardinality((pages \union {page}) \ program.pages) <= Gained + 1
  BY GainedSize DEF MakerTypeOK
<1>3. /\ IsFiniteSet(shown.added) /\ Cardinality(shown.added) \in 0..max_pages_to_add
      /\ shown.ends = "page_fault" => shown.at \in Pages
  BY PlayFacts, LimitType
<1>4. CASE MakeReachesEnd(shown)
  <2>1. /\ pages' = Grown(shown) /\ stage' = "record"
        /\ Grown(shown) \intersect Reserved = {} /\ Conforms(Grown(shown))
    BY <1>4 DEF MakeReachesEnd, ReachesEnd
  <2>2. Cardinality(Grown(shown) \ program.pages) <= max_pages_to_add
    <3>1. CASE maker_options.compatibility_mode
      BY <1>1, <1>2, <3>1 DEF Grown, Gained
    <3>2. CASE ~maker_options.compatibility_mode
      <4>1. Grown(shown) \ program.pages \subseteq shown.added
        BY <1>1, <3>2 DEF Grown
      <4>2. /\ Cardinality(Grown(shown) \ program.pages) <= Cardinality(shown.added)
            /\ Cardinality(Grown(shown) \ program.pages) \in Nat
        BY <1>3, <4>1, FS_Subset, FS_CardinalityType
      <4> QED
        BY <1>3, <4>2
    <3> QED
      BY <3>1, <3>2
  <2>3. Conforms(pages)'
    BY <1>1, <2>1 DEF Conforms
  <2>4. program.pages \subseteq Grown(shown)
    BY <1>1 DEF Grown
  <2> QED
    BY <1>1, <2>1, <2>2, <2>3, <2>4 DEF GrowthInv, PagesAreUsable
<1>5. CASE MakeAddsPage(shown)
  <2>1. /\ stage' = "make" /\ pages' = pages \union {shown.at}
        /\ pages_added' = pages_added + 1
        /\ maker_options.compatibility_mode /\ shown.at \in Pages
    BY <1>1, <1>3, <1>5 DEF MakeAddsPage, AddsPage
  <2>2. Cardinality((pages \union {shown.at}) \ program.pages) <= Gained + 1
    BY <1>2, <2>1
  <2>3. Gained' <= pages_added'
    <3>1. Gained' = Cardinality((pages \union {shown.at}) \ program.pages)
      BY <1>1, <2>1 DEF Gained
    <3>2. Cardinality((pages \union {shown.at}) \ program.pages) \in Nat
      <4>1. IsFiniteSet((pages \union {shown.at}) \ program.pages)
        BY <2>1, FS_Subset DEF MakerTypeOK
      <4> QED
        BY <4>1, FS_CardinalityType
    <3> QED
      BY <1>1, <1>2, <2>1, <2>2, <3>1, <3>2
  <2> QED
    BY <1>1, <2>1, <2>3 DEF GrowthInv, PagesAreUsable
<1>6. CASE MakeGivesUp(shown)
  BY <1>1, <1>6 DEF MakeGivesUp, Rejects, GrowthInv, PagesAreUsable
<1> QED
  BY <1>4, <1>5, <1>6

\* Past Make the pages stay as they are.
LEMMA PagesStay ==
  ASSUME MakerTypeOK, GrowthInv, stage # "make",
         UNCHANGED <<maker_options, program, pages>>, stage' # "make",
         stage = "rejected" => stage' = "rejected"
  PROVE  GrowthInv'
<1>1. program'.pages \subseteq pages'
  BY DEF GrowthInv
<1>2. CASE stage = "rejected"
  BY <1>1, <1>2 DEF GrowthInv, PagesAreUsable
<1>3. CASE stage # "rejected"
  BY <1>1, <1>3 DEF MakerTypeOK, Stages, GrowthInv, PagesAreUsable, Conforms
<1> QED
  BY <1>2, <1>3

LEMMA GrowthStep == TypeInv /\ GrowthInv /\ [MakerNext]_maker_vars => GrowthInv'
<1> SUFFICES ASSUME TypeInv, GrowthInv, [MakerNext]_maker_vars PROVE GrowthInv'
  OBVIOUS
<1>1. MakerTypeOK
  BY DEF TypeInv
<1>2. CASE SnapifyFails
  BY <1>2 DEF SnapifyFails, Rejects, GrowthInv, PagesAreUsable
<1>3. CASE Make
  BY <1>1, <1>3, MakeGrows
<1>4. CASE Record
  BY <1>1, <1>4, PagesStay DEF Record, Rejects
<1>5. CASE Verify
  <2>1. /\ stage = "verify" /\ UNCHANGED <<maker_options, program, pages>>
        /\ stage' \in {"trace", "verify", "aborted", "rejected"}
    BY <1>5 DEF Verify
  <2> QED
    BY <1>1, <2>1, PagesStay
<1>6. CASE Trace
  BY <1>1, <1>6, PagesStay DEF Trace
<1>7. CASE UNCHANGED maker_vars
  BY <1>7 DEF maker_vars, GrowthInv, PagesAreUsable, Gained, Conforms
<1> QED
  BY <1>2, <1>3, <1>4, <1>5, <1>6, <1>7 DEF MakerNext

\* Whoever added them, the pages a made snapshot maps are ones it may have, and
\* no more than the limit were added.
THEOREM MadePagesAreUsable == MakerSpec => []PagesAreUsable
<1>1. GrowthInv => PagesAreUsable
  BY DEF GrowthInv
<1> QED
  BY TypeHolds, GrowthInit, GrowthStep, <1>1, PTL DEF MakerSpec
-----------------------------------------------------------------------------
(***************************************************************************)
(* The recorded end state.  MadeIsReproduced says of the end what holds    *)
(* from the recording on: the state was reached on the pages of the        *)
(* snapshot, and so far every play ended in it.                            *)
(***************************************************************************)
Reached ==
  \/ endpoint_moved
  \/ \E b \in program.runs : b.ends = end_state /\ b.touches \subseteq pages
AllPlaysEnd ==
  \A i \in DOMAIN plays : plays[i] \in {end_state, "exit_0", "interrupted"}

RecordInv ==
  /\ stage \in {"make", "record"} => ~endpoint_moved
  /\ stage \in {"verify", "trace", "made"} => Reached /\ AllPlaysEnd

LEMMA RecordInvMake == RecordInv /\ Make => RecordInv'
BY DEF RecordInv, Make, MakeReachesEnd, MakeAddsPage, MakeGivesUp, Rejects

LEMMA RecordInvRecord == TypeInv /\ RecordInv /\ Record => RecordInv'
<1> SUFFICES ASSUME TypeInv, RecordInv, Record PROVE RecordInv'
  OBVIOUS
<1>1. /\ stage = "record" /\ ~endpoint_moved /\ plays = <<>>
      /\ UNCHANGED <<program, plays, pages>>
  BY DEF RecordInv, Record, Rejects, TypeInv, AttemptsInv
<1>2. AllPlaysEnd'
  BY <1>1 DEF AllPlaysEnd
<1> PICK shown \in Plays(0) :
      \/ /\ shown.ends \in FinalStates
         /\ end_state' = shown.ends /\ endpoint_moved' = FALSE
         /\ stage' = "verify"
      \/ end_state' \in FinalStates /\ endpoint_moved' = TRUE /\ stage' = "verify"
      \/ stage' = "rejected"
  BY DEF Record, Rejects
<1>3. CASE shown.ends \in FinalStates /\ end_state' = shown.ends /\ stage' = "verify"
  <2>1. PICK b \in program.runs :
          b.ends = shown.ends /\ shown.added = b.touches \ pages
    BY <1>1, <1>3, EndReached DEF TypeInv
  <2>2. IsFiniteSet(shown.added) /\ Cardinality(shown.added) = 0
    BY PlayFacts DEF TypeInv
  <2>3. shown.added = {}
    BY <2>2, FS_EmptySet
  <2>4. b.touches \subseteq pages
    BY <2>1, <2>3
  <2> QED
    BY <1>1, <1>2, <1>3, <2>1, <2>4 DEF RecordInv, Reached
<1>4. CASE endpoint_moved' = TRUE /\ stage' = "verify"
  BY <1>2, <1>4 DEF RecordInv, Reached
<1>5. CASE stage' = "rejected"
  BY <1>5 DEF RecordInv
<1> QED
  BY <1>3, <1>4, <1>5

LEMMA RecordInvVerify == TypeInv /\ RecordInv /\ Verify => RecordInv'
<1> SUFFICES ASSUME TypeInv, RecordInv, Verify PROVE RecordInv'
  OBVIOUS
<1> PICK shown \in Plays(0) :
      /\ plays' = Append(plays, shown.ends)
      /\ stage' \in {"trace", "verify"} => RunSucceeds(shown)
      /\ stage' \in {"trace", "verify", "aborted", "rejected"}
  BY DEF Verify
<1>1. /\ stage = "verify" /\ Reached /\ AllPlaysEnd
      /\ UNCHANGED <<program, pages, end_state, endpoint_moved>>
  BY DEF Verify, RecordInv
<1>2. Reached'
  BY <1>1 DEF Reached
<1>3. ASSUME RunSucceeds(shown) PROVE AllPlaysEnd'
  <2>1. plays \in Seq(Ends \union {"page_fault", "interrupted"})
    BY DEF TypeInv, MakerTypeOK
  <2>2. shown.ends \in {end_state, "exit_0", "interrupted"}
    BY <1>3 DEF RunSucceeds
  <2>3. shown.ends \in Ends \union {"page_fault", "interrupted"}
    BY PlayFacts DEF TypeInv
  <2>4. ASSUME NEW i \in DOMAIN plays'
        PROVE  plays'[i] \in {end_state, "exit_0", "interrupted"}
    <3>1. /\ DOMAIN plays = 1..Len(plays) /\ Len(plays) \in Nat
          /\ DOMAIN plays' = 1..(Len(plays) + 1)
      BY <2>1, <2>3
    <3>2. CASE i = Len(plays) + 1
      BY <2>1, <2>2, <2>3, <3>2
    <3>3. CASE i \in 1..Len(plays)
      BY <1>1, <2>1, <2>3, <3>1, <3>3 DEF AllPlaysEnd
    <3> QED
      BY <2>4, <3>1, <3>2, <3>3
  <2> QED
    BY <1>1, <2>4 DEF AllPlaysEnd
<1> QED
  BY <1>1, <1>2, <1>3 DEF RecordInv

LEMMA RecordInvStep == TypeInv /\ RecordInv /\ [MakerNext]_maker_vars => RecordInv'
<1> SUFFICES ASSUME TypeInv, RecordInv, [MakerNext]_maker_vars PROVE RecordInv'
  OBVIOUS
<1>1. CASE SnapifyFails
  BY <1>1 DEF SnapifyFails, Rejects, RecordInv
<1>2. CASE Trace
  BY <1>2 DEF Trace, RecordInv, Reached, AllPlaysEnd
<1>3. CASE UNCHANGED maker_vars
  BY <1>3 DEF maker_vars, RecordInv, Reached, AllPlaysEnd
<1> QED
  BY <1>1, <1>2, <1>3, RecordInvMake, RecordInvRecord, RecordInvVerify DEF MakerNext

\* A made snapshot reached the recorded state on its own pages and again in each
\* of the plays asked for, up to a program that ends the process with code 0 and
\* an interrupt from the terminal.
THEOREM MadeWasReproduced == MakerSpec => []MadeIsReproduced
<1>1. MakerInit => RecordInv
  BY DEF MakerInit, RecordInv
<1>2. TypeInv /\ RecordInv => MadeIsReproduced
  BY DEF TypeInv, AttemptsInv, RecordInv, Reached, AllPlaysEnd, MadeIsReproduced
<1> QED
  BY TypeHolds, RecordInvStep, <1>1, <1>2, PTL DEF MakerSpec
-----------------------------------------------------------------------------
(***************************************************************************)
(* Deterministic candidates.  The two limits must not be in each other's   *)
(* way: beyond RunnerPageLimit the runner gives up on a candidate   *)
(* that the maker alone would mend.                                        *)
(***************************************************************************)
DetInv ==
  \A b \in program.runs : program.runs = {b} /\ ~disturbed =>
    /\ stage = "make" =>
         /\ pages \subseteq program.pages \union b.touches
         /\ Gained = pages_added
    /\ stage \in {"make", "record"} => end_state = "none"
    /\ stage \in {"record", "verify", "trace", "made"} =>
         /\ pages = program.pages \union b.touches
         /\ b.ends \in FinalStates
    /\ stage \in {"verify", "trace", "made"} =>
         end_state = b.ends /\ ~endpoint_moved
    /\ stage \in {"trace", "made"} => b.ends \notin NoStack
    /\ stage = "made" => ~program.banned
    /\ stage = "rejected" => ~Fixable(b)
    /\ stage # "aborted"

\* The one run of a deterministic candidate that nothing disturbs.
LEMMA OnlyRun ==
  ASSUME NEW b \in program.runs, program.runs = {b}, ~endpoint_moved,
         NEW limit, NEW shown \in Runs(limit)
  PROVE  \/ /\ Cardinality(b.touches \ pages) <= limit
            /\ shown.ends = b.ends /\ shown.added = b.touches \ pages
         \/ /\ ~(Cardinality(b.touches \ pages) <= limit)
            /\ shown.ends = "page_fault" /\ shown.at \in b.touches \ pages
<1> DEFINE missing == b.touches \ pages
<1>1. shown \in IF Cardinality(missing) <= limit
              THEN {Run(ends, missing, "none") : ends \in EndsOf(b)}
              ELSE {r \in [ends : {"page_fault"}, added : SUBSET missing,
                           at : missing] :
                      Cardinality(r.added) = limit /\ r.at \notin r.added}
  BY DEF Runs
<1>2. CASE Cardinality(missing) <= limit
  BY <1>1, <1>2 DEF Run, EndsOf
<1>3. CASE ~(Cardinality(missing) <= limit)
  BY <1>1, <1>3
<1> QED
  BY <1>2, <1>3

\* With no page to add, a run finds all its pages or faults.
LEMMA OnlyRunOnItsPages ==
  ASSUME MakerTypeOK, NEW b \in program.runs, program.runs = {b},
         ~endpoint_moved, NEW shown \in Runs(0)
  PROVE  \/ b.touches \subseteq pages /\ shown.ends = b.ends
         \/ /\ ~(b.touches \subseteq pages)
            /\ shown.ends = "page_fault" /\ shown.at \in b.touches \ pages
<1>1. b.touches \subseteq Pages
  BY DEF MakerTypeOK, AllPrograms, Behaviours
<1>2. IsFiniteSet(b.touches \ pages)
  BY <1>1, FS_Subset
<1>3. Cardinality(b.touches \ pages) \in Nat
  BY <1>2, FS_CardinalityType
<1>4. Cardinality(b.touches \ pages) <= 0 <=> b.touches \ pages = {}
  BY <1>2, <1>3, FS_EmptySet
<1> QED
  BY <1>4, OnlyRun

\* Make in compatibility mode: the loop stops at the pages the candidate touches,
\* at a reserved one among them, or at the limit.
LEMMA DetMakeCompatible ==
  ASSUME TypeInv, GrowthInv, DetInv, Make, maker_options.compatibility_mode,
         NEW b \in program.runs, program.runs = {b}, ~endpoint_moved,
         ~disturbed'
  PROVE  \/ /\ stage' = "make" /\ pages' \subseteq program.pages \union b.touches
            /\ Gained' = pages_added'
         \/ /\ stage' = "record" /\ b.ends \in FinalStates
            /\ pages' = program.pages \union b.touches
         \/ stage' = "rejected" /\ ~Fixable(b)
<1> PICK shown \in Plays(RunnerLimit) :
      /\ MakeReachesEnd(shown) \/ MakeAddsPage(shown) \/ MakeGivesUp(shown)
      /\ Notes(shown, RunnerLimit)
  BY DEF Make
<1>1. /\ shown \in Runs(0) /\ ~disturbed
  BY DEF Notes, RunnerLimit, MakerTypeOK, TypeInv
<1>2. /\ stage = "make" /\ MakerTypeOK /\ UNCHANGED <<maker_options, program>>
      /\ pages \subseteq program.pages \union b.touches
      /\ program.pages \subseteq pages /\ Gained = pages_added
  BY <1>1 DEF Make, DetInv, GrowthInv, TypeInv
<1>3. Grown(shown) = pages
  BY DEF Grown
<1>4. b.touches \subseteq Pages /\ b.ends \in Ends /\ program.pages \subseteq Pages
  BY <1>2 DEF MakerTypeOK, AllPrograms, Behaviours
<1>5. CASE b.touches \subseteq pages /\ shown.ends = b.ends
  <2>1. pages = program.pages \union b.touches
    BY <1>2, <1>5
  <2>2. CASE MakeReachesEnd(shown)
    BY <1>3, <1>5, <2>1, <2>2 DEF MakeReachesEnd, ReachesEnd
  <2>3. ~MakeAddsPage(shown)
    BY <1>4, <1>5 DEF MakeAddsPage, AddsPage, Ends
  <2>4. CASE MakeGivesUp(shown)
    BY <1>3, <1>5, <2>1, <2>4 DEF MakeGivesUp, Rejects, ReachesEnd, Fixable
  <2> QED
    BY <2>2, <2>3, <2>4
<1>6. CASE /\ ~(b.touches \subseteq pages)
           /\ shown.ends = "page_fault" /\ shown.at \in b.touches \ pages
  <2> DEFINE more == (pages \ program.pages) \union {shown.at}
  <2>1. /\ IsFiniteSet(pages \ program.pages) /\ Gained \in Nat
        /\ shown.at \notin pages \ program.pages
    BY <1>2, <1>6, FS_Subset, GainedSize DEF MakerTypeOK
  <2>2. IsFiniteSet(more) /\ Cardinality(more) = Gained + 1
    BY <2>1, FS_AddElement DEF Gained
  <2>3. ~MakeReachesEnd(shown)
    BY <1>6 DEF MakeReachesEnd, ReachesEnd
  <2>4. CASE MakeAddsPage(shown)
    <3>1. /\ stage' = "make" /\ pages' = pages \union {shown.at}
          /\ pages_added' = pages_added + 1
      BY <1>2, <2>4 DEF MakeAddsPage
    <3>2. pages' \ program'.pages = more
      BY <1>2, <1>6, <3>1
    <3> QED
      BY <1>2, <1>6, <2>2, <3>1, <3>2 DEF Gained
  <2>5. CASE MakeGivesUp(shown) /\ shown.at \in Reserved
    BY <1>6, <2>5 DEF MakeGivesUp, Rejects, Fixable
  <2>6. CASE MakeGivesUp(shown) /\ shown.at \notin Reserved
    <3>1. ~(pages_added < max_pages_to_add) /\ stage' = "rejected"
      BY <1>6, <2>6 DEF MakeGivesUp, Rejects, AddsPage
    <3>2. more \subseteq b.touches \ program.pages
      BY <1>2, <1>6
    <3>3. IsFiniteSet(b.touches \ program.pages)
      BY <1>4, FS_Subset
    <3> HIDE DEF more
    <3>4. /\ Cardinality(more) <= Cardinality(b.touches \ program.pages)
          /\ Cardinality(b.touches \ program.pages) \in Nat
      BY <3>2, <3>3, FS_Subset, FS_CardinalityType
    <3>5. ~(Cardinality(b.touches \ program.pages) <= max_pages_to_add)
      BY <1>2, <2>1, <2>2, <3>1, <3>4 DEF MakerTypeOK
    <3> QED
      BY <3>1, <3>5 DEF Fixable
  <2> QED
    BY <2>3, <2>4, <2>5, <2>6
<1> QED
  BY <1>1, <1>2, <1>5, <1>6, OnlyRunOnItsPages

\* Make in the default mode: one run, for which the runner adds all pages or gives
\* up at the limit.
LEMMA DetMakeDefault ==
  ASSUME max_pages_to_add <= RunnerPageLimit,
         TypeInv, GrowthInv, Make, ~maker_options.compatibility_mode,
         NEW b \in program.runs, program.runs = {b}, ~endpoint_moved,
         ~disturbed'
  PROVE  \/ /\ stage' = "record" /\ b.ends \in FinalStates
            /\ pages' = program.pages \union b.touches
         \/ stage' = "rejected" /\ ~Fixable(b)
<1> PICK shown \in Plays(RunnerLimit) :
      /\ MakeReachesEnd(shown) \/ MakeAddsPage(shown) \/ MakeGivesUp(shown)
      /\ Notes(shown, RunnerLimit)
  BY DEF Make
<1>1. shown \in Runs(RunnerLimit) /\ RunnerLimit = max_pages_to_add
  BY DEF Notes, RunnerLimit
<1>2. /\ UNCHANGED <<maker_options, program>> /\ pages = program.pages
      /\ MakerTypeOK /\ stage = "make"
  BY DEF Make, GrowthInv, TypeInv
<1>3. ~MakeAddsPage(shown)
  BY DEF MakeAddsPage, AddsPage
<1>4. CASE shown.ends = b.ends /\ shown.added = b.touches \ pages
  <2>1. Grown(shown) = program.pages \union b.touches
    BY <1>2, <1>4 DEF Grown
  <2>2. CASE MakeReachesEnd(shown)
    BY <1>4, <2>1, <2>2 DEF MakeReachesEnd, ReachesEnd
  <2>3. CASE MakeGivesUp(shown)
    BY <1>4, <2>1, <2>3 DEF MakeGivesUp, Rejects, ReachesEnd, Fixable
  <2> QED
    BY <1>3, <2>2, <2>3
<1>5. CASE /\ ~(Cardinality(b.touches \ pages) <= max_pages_to_add)
           /\ shown.ends = "page_fault"
  <2>1. ~MakeReachesEnd(shown)
    BY <1>5 DEF MakeReachesEnd, ReachesEnd
  <2> QED
    BY <1>2, <1>3, <1>5, <2>1 DEF MakeGivesUp, Rejects, Fixable
<1> QED
  BY <1>1, <1>4, <1>5, OnlyRun

LEMMA DetMake ==
  max_pages_to_add <= RunnerPageLimit
  /\ TypeInv /\ GrowthInv /\ RecordInv /\ DetInv /\ Make => DetInv'
<1> SUFFICES ASSUME max_pages_to_add <= RunnerPageLimit,
                    TypeInv, GrowthInv, RecordInv, DetInv, Make
             PROVE  DetInv'
  OBVIOUS
<1>1. /\ stage = "make" /\ ~endpoint_moved /\ program' = program
      /\ UNCHANGED maker_options
      /\ disturbed => disturbed'
  BY DEF Make, Notes, RecordInv
<1>2. end_state' = end_state
  BY DEF Make, MakeReachesEnd, MakeAddsPage, MakeGivesUp, Rejects
<1> SUFFICES ASSUME NEW b \in program.runs, program.runs = {b}, ~disturbed'
             PROVE  /\ stage' = "make" =>
                         /\ pages' \subseteq program.pages \union b.touches
                         /\ Gained' = pages_added'
                    /\ stage' \in {"make", "record"} => end_state' = "none"
                    /\ stage' \in {"record", "verify", "trace", "made"} =>
                         /\ pages' = program.pages \union b.touches
                         /\ b.ends \in FinalStates
                    /\ stage' \in {"make", "record", "rejected"}
                    /\ stage' = "rejected" => ~Fixable(b)
  BY <1>1 DEF DetInv, Fixable, Conforms
<1>3. end_state' = "none"
  BY <1>1, <1>2 DEF DetInv
<1>4. CASE maker_options.compatibility_mode
  BY <1>1, <1>3, <1>4, DetMakeCompatible
<1>5. CASE ~maker_options.compatibility_mode
  BY <1>1, <1>3, <1>5, DetMakeDefault
<1> QED
  BY <1>4, <1>5

\* Past Make a deterministic candidate finds its pages, so it ends in its state
\* whenever it is run.
LEMMA DetSucceeds ==
  ASSUME TypeInv, DetInv, stage \in {"record", "verify", "trace"},
         NEW b \in program.runs, program.runs = {b}, ~endpoint_moved,
         NEW shown \in Plays(0), Notes(shown, 0), ~disturbed'
  PROVE  ~disturbed /\ shown.ends = b.ends /\ b.ends \in FinalStates
<1>1. shown \in Runs(0) /\ ~disturbed
  BY DEF Notes
<1>2. b.touches \subseteq pages /\ b.ends \in FinalStates
  BY <1>1 DEF DetInv
<1> QED
  BY <1>1, <1>2, OnlyRunOnItsPages DEF TypeInv

LEMMA DetRecord == TypeInv /\ RecordInv /\ DetInv /\ Record => DetInv'
<1> SUFFICES ASSUME TypeInv, RecordInv, DetInv, Record PROVE DetInv'
  OBVIOUS
<1>1. /\ stage = "record" /\ ~endpoint_moved
      /\ UNCHANGED <<maker_options, program, pages>>
  BY DEF Record, Rejects, RecordInv
<1> SUFFICES ASSUME NEW b \in program.runs, program.runs = {b}, ~disturbed'
             PROVE  /\ stage' = "verify" /\ end_state' = b.ends
                    /\ ~endpoint_moved' /\ b.ends \in FinalStates
                    /\ pages = program.pages \union b.touches
  BY <1>1 DEF DetInv, Fixable, Conforms
<1> PICK shown \in Plays(0) :
      /\ \/ /\ shown.ends \in FinalStates
            /\ end_state' = shown.ends /\ endpoint_moved' = FALSE
            /\ stage' = "verify"
         \/ shown.ends = "runaway"
         \/ shown.ends \notin FinalStates \union {"runaway"}
      /\ Notes(shown, 0)
  BY DEF Record
<1>2. ~disturbed /\ shown.ends = b.ends /\ b.ends \in FinalStates
  BY <1>1, DetSucceeds
<1> QED
  BY <1>1, <1>2 DEF DetInv

LEMMA DetVerify == TypeInv /\ RecordInv /\ DetInv /\ Verify => DetInv'
<1> SUFFICES ASSUME TypeInv, RecordInv, DetInv, Verify PROVE DetInv'
  OBVIOUS
<1>1. /\ stage = "verify" /\ CanSnapify
      /\ UNCHANGED <<maker_options, program, pages, end_state, endpoint_moved>>
  BY DEF Verify
<1> SUFFICES ASSUME NEW b \in program.runs, program.runs = {b}, ~disturbed'
             PROVE  /\ stage' \in {"verify", "trace"} /\ end_state = b.ends
                    /\ ~endpoint_moved /\ b.ends \in FinalStates \ NoStack
                    /\ pages = program.pages \union b.touches
  BY <1>1 DEF DetInv
<1> PICK shown \in Plays(0) :
      /\ RunSucceeds(shown) => stage' \in {"verify", "trace"}
      /\ Notes(shown, 0)
  BY DEF Verify
<1>2. ~disturbed
  BY DEF Notes
<1>3. /\ end_state = b.ends /\ ~endpoint_moved
      /\ pages = program.pages \union b.touches
  BY <1>1, <1>2 DEF DetInv
<1>4. shown.ends = b.ends /\ b.ends \in FinalStates
  BY <1>1, <1>3, DetSucceeds
<1>5. RunSucceeds(shown)
  BY <1>3, <1>4 DEF RunSucceeds
<1> QED
  BY <1>1, <1>3, <1>4, <1>5 DEF CanSnapify

LEMMA DetTrace == TypeInv /\ RecordInv /\ DetInv /\ Trace => DetInv'
<1> SUFFICES ASSUME TypeInv, RecordInv, DetInv, Trace PROVE DetInv'
  OBVIOUS
<1>1. /\ stage = "trace"
      /\ UNCHANGED <<maker_options, program, pages, end_state, endpoint_moved>>
  BY DEF Trace
<1> SUFFICES ASSUME NEW b \in program.runs, program.runs = {b}, ~disturbed'
             PROVE  /\ end_state = b.ends
                    /\ ~endpoint_moved /\ b.ends \in FinalStates \ NoStack
                    /\ pages = program.pages \union b.touches
                    /\ stage' = IF program.banned THEN "rejected" ELSE "made"
  BY <1>1 DEF DetInv, Fixable
<1> PICK shown \in Plays(0) :
      /\ stage' = IF RunSucceeds(shown) /\ ~program.banned THEN "made" ELSE "rejected"
      /\ Notes(shown, 0)
  BY DEF Trace
<1>2. ~disturbed
  BY DEF Notes
<1>3. /\ end_state = b.ends /\ ~endpoint_moved /\ b.ends \notin NoStack
      /\ pages = program.pages \union b.touches
  BY <1>1, <1>2 DEF DetInv
<1>4. shown.ends = b.ends /\ b.ends \in FinalStates
  BY <1>1, <1>3, DetSucceeds
<1> QED
  BY <1>3, <1>4 DEF RunSucceeds

LEMMA DetSnapifyFails ==
  TypeInv /\ GrowthInv /\ DetInv /\ SnapifyFails => DetInv'
<1> SUFFICES ASSUME TypeInv, GrowthInv, DetInv, SnapifyFails PROVE DetInv'
  OBVIOUS
<1>1. /\ stage \in {"make", "record", "verify"} /\ ~CanSnapify
      /\ stage' = "rejected" /\ UNCHANGED <<maker_options, program, disturbed>>
  BY DEF SnapifyFails, Rejects
<1> SUFFICES ASSUME NEW b \in program.runs, program.runs = {b}, ~disturbed
             PROVE  ~Fixable(b)
  BY <1>1 DEF DetInv, Fixable, Conforms
<1>2. pages \subseteq program.pages \union b.touches
  BY <1>1 DEF DetInv
<1>3. end_state \in {"none", b.ends}
  BY <1>1 DEF DetInv
<1> QED
  BY <1>1, <1>2, <1>3 DEF CanSnapify, Fixable

LEMMA DetInit == MakerInit => DetInv
<1> SUFFICES ASSUME MakerInit PROVE DetInv
  OBVIOUS
<1>1. /\ stage = "make" /\ pages = program.pages /\ pages_added = 0
      /\ end_state = "none"
  BY DEF MakerInit
<1>2. pages \ program.pages = {}
  BY <1>1
<1>3. Gained = 0
  BY <1>2, FS_EmptySet DEF Gained
<1> QED
  BY <1>1, <1>3 DEF DetInv

\* For every deterministic candidate that is not disturbed, and limits that agree,
\* the verdict of MakeSnapshot depends on the candidate alone, in both modes.
THEOREM DeterministicVerdict ==
  max_pages_to_add <= RunnerPageLimit => (MakerSpec => []VerdictIsRight)
<1> SUFFICES ASSUME max_pages_to_add <= RunnerPageLimit
             PROVE  MakerSpec => []VerdictIsRight
  OBVIOUS
<1>1. TypeInv /\ GrowthInv /\ RecordInv /\ DetInv /\ [MakerNext]_maker_vars => DetInv'
  <2> SUFFICES ASSUME TypeInv, GrowthInv, RecordInv, DetInv, [MakerNext]_maker_vars
               PROVE  DetInv'
    OBVIOUS
  <2>1. CASE UNCHANGED maker_vars
    BY <2>1 DEF maker_vars, DetInv, Gained, Fixable, Conforms
  <2> QED
    BY <2>1, DetSnapifyFails, DetMake, DetRecord, DetVerify, DetTrace DEF MakerNext
<1>2. TypeInv /\ GrowthInv /\ DetInv => VerdictIsRight
  <2> SUFFICES ASSUME TypeInv, GrowthInv, DetInv, NEW b \in program.runs,
                      Done, ~disturbed, program.runs = {b}
               PROVE  /\ (stage = "made") <=> Fixable(b)
                      /\ stage = "made" =>
                           /\ end_state = b.ends
                           /\ pages = program.pages \union b.touches
    BY DEF VerdictIsRight
  <2>1. CASE stage = "rejected"
    BY <2>1 DEF DetInv
  <2>2. CASE stage = "made"
    <3>1. /\ end_state = b.ends /\ pages = program.pages \union b.touches
          /\ ~program.banned /\ b.ends \in FinalStates \ NoStack
      BY <2>2 DEF DetInv
    <3>2. /\ pages \intersect Reserved = {} /\ Conforms(pages)
          /\ Cardinality(pages \ program.pages) <= max_pages_to_add
      BY <2>2 DEF GrowthInv, PagesAreUsable
    <3>3. pages \ program.pages = b.touches \ program.pages
      BY <3>1
    <3> QED
      BY <2>2, <3>1, <3>2, <3>3 DEF Fixable
  <2> QED
    BY <2>1, <2>2 DEF Done, DetInv
<1>3. MakerInit => RecordInv
  BY DEF MakerInit, RecordInv
<1> QED
  BY TypeHolds, GrowthInit, GrowthStep, RecordInvStep, DetInit, <1>1, <1>2, <1>3,
     PTL DEF MakerSpec
================================================================================
