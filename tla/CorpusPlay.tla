------------------------------ MODULE CorpusPlay ------------------------------
(***************************************************************************)
(* A corpus from snapshots to plays: the snapshots that share a shard are  *)
(* snapified and written to a file (simple_fix_tool.cc, snapify.cc, the    *)
(* generator), a runner loads, relocates and maps it (snap_corpus_util.cc, *)
(* runner.cc), and plays its snaps one after another in the same memory,   *)
(* until one of them ends otherwise than expected.                         *)
(*                                                                         *)
(* The file may be damaged before it is loaded and the CPU may be faulty.  *)
(***************************************************************************)
EXTENDS RelocatableSnaps, SnapGroup

CONSTANTS FaultyAt,    \* where a faulty CPU may leave a wrong byte
          Shards,      \* sequences of snapshots offered to one group
          GenOptions,  \* SnapifyOptions, which the generator shares
          Bases,       \* where the kernel may map the file
          Memory,      \* the addresses snaps may use
          MaxPlays

VARIABLES corpus_pc,   \* "make", "store", "load", "map", "play" or "rejected"
          shard,       \* the snapshots in the corpus,
          snapified,   \* and as they were given to the generator
          gen_options, strict, base,
          file,        \* what the generator wrote
          stored,      \* what is found when it is loaded: the image and the size
          corpus,      \* its objects where the runner has them
          memory,      \* of the runner, for the snaps
          last,        \* the last play
          executions

corpusvars == <<corpus_pc, shard, snapified, gen_options, strict, base, file, stored, corpus,
                memory, last, executions>>

NoFile == [size |-> 0, objects |-> {}, checksum |-> {}]
NoPlay == [snap |-> 0, right |-> TRUE, wrong |-> FALSE, outcome |-> "none", status |-> "none"]
kDamaged == 9    \* a byte that nothing expects, and
BadRegs == "bad" \* such a set of registers

CorpusInit ==
  /\ corpus_pc = "make" /\ shard = <<>> /\ snapified = <<>> 
  /\ gen_options = CHOOSE opts \in GenOptions : TRUE
  /\ strict = FALSE /\ base = 0
  /\ file = NoFile /\ stored = NoFile /\ corpus = {} /\ memory = [a \in Memory |-> 0]
  /\ last = NoPlay /\ executions = 0

-----------------------------------------------------------------------------
(* The file *)

\* What of the offered snapshots can be snapified and does not conflict.
Grouped(offered, opts) ==
  FoldLeft(LAMBDA g, s : IF CanSnapifyFor(s, opts) /\ CanAddSnapshot(g.group, s)
                         THEN [group |-> AddSnapshot(g.group, s), snaps |-> Append(g.snaps, s)]
                         ELSE g,
           [group |-> EmptyGroup, snaps |-> <<>>], offered).snaps

MakeCorpus ==
  /\ corpus_pc = "make"
  /\ gen_options' \in GenOptions
  /\ \E offered \in Shards : shard' = Grouped(offered, gen_options')
  /\ snapified' = [i \in DOMAIN shard' |-> SnapifiedFrom(shard'[i], gen_options')]
  /\ file' = GenerateRelocatableSnaps(snapified', gen_options')
  /\ corpus_pc' = "store"
  /\ UNCHANGED <<strict, base, stored, corpus, memory, last, executions>>

Spoilt(o) == [o EXCEPT !.val = IF o.kind = "data" THEN [o.val EXCEPT ![1] = kDamaged] ELSE BadRegs]

\* The file is kept whole, or loses its end, or a byte or a register changes.
StoreCorpus ==
  /\ corpus_pc = "store"
  /\ \/ stored' = file
     \/ stored' = [file EXCEPT !.size = @ - Word]
     \/ \E o \in {p \in file.objects : p.kind \in Deduped} :
          stored' = [file EXCEPT !.objects = (@ \ {o}) \cup {Spoilt(o)}]
  /\ corpus_pc' = "load"
  /\ UNCHANGED <<shard, snapified, gen_options, strict, base, file, corpus, memory, last,
                 executions>>

-----------------------------------------------------------------------------
(* The runner *)

LoadCorpusFromFile ==
  /\ corpus_pc = "load"
  /\ strict' \in BOOLEAN /\ base' \in Bases
  /\ IF RelocateCorpus(stored, base', stored.size, strict') = "kOk"
     THEN corpus_pc' = "map" /\ corpus' = Relocated(stored, base')
     ELSE corpus_pc' = "rejected" /\ UNCHANGED corpus
  /\ UNCHANGED <<shard, snapified, gen_options, file, stored, memory, last, executions>>

MappingsOf(snap) == Elements(corpus, snap.mappings, "mapping")
Writable(m) == "w" \in m.perms

CanDirectMap(m) ==
  /\ ~ Writable(m) /\ m.bytes.size = 1
  /\ \E b \in Range(Elements(corpus, m.bytes, "bytes")) :
       /\ ~ b.repeating /\ b.start = m.start /\ b.size = m.limit - m.start
       /\ b.elements % kPageSize = 0

SetBytes(mem, start, data) ==
  [a \in DOMAIN mem |-> IF a \in start..(start + Len(data) - 1) THEN data[a - start + 1] ELSE mem[a]]

\* Mutant: runs of zero are left alone, memory is zero to begin with.
SetupUnlessZero(mem, b) == IF \A i \in DOMAIN b.data : b.data[i] = 0 THEN mem
                           ELSE SetBytes(mem, b.start, b.data)
SetupMemoryBytes(mem, b) == SetBytes(mem, b.start, b.data)

\* The page is the file's own, or memory that is zero until it is filled: at once if
\* the snap may not write to it.
CreateMemoryMapping(mem, m) ==
  LET zero == [n \in 1..(m.limit - m.start) |-> 0]
  IN  IF CanDirectMap(m)
      THEN LET b == Elements(corpus, m.bytes, "bytes")[1]
           IN  SetBytes(mem, m.start, ValueAt(stored.objects, b.elements - base, "data", zero))
      ELSE FoldLeft(SetupMemoryBytes, SetBytes(mem, m.start, zero),
                    IF Writable(m) THEN <<>> ELSE BytesOf(corpus, m.bytes))

MapSnap(mem, snap) == FoldLeft(CreateMemoryMapping, mem, MappingsOf(snap))

\* What memory holds in a range of addresses.
Held(mem, start, limit) == [n \in 1..(limit - start) |-> mem[start + n - 1]]

VerifySnapChecksums(mem, snap) ==
  /\ \A m \in Range(MappingsOf(snap)) :
       ~ Writable(m) => m.checksum = Held(mem, m.start, m.limit)
  /\ snap.checksum = RegsOf(corpus, snap.regs)
  /\ snap.end_checksum = RegsOf(corpus, snap.end_regs)

MapCorpus ==
  /\ corpus_pc = "map"
  /\ memory' = FoldLeft(MapSnap, memory, SnapsOf(corpus))
  /\ corpus_pc' = IF strict /\ \E snap \in Range(SnapsOf(corpus)) :
                                 ~ VerifySnapChecksums(memory', snap)
                  THEN "rejected" ELSE "play"
  /\ UNCHANGED <<shard, snapified, gen_options, strict, base, file, stored, corpus, last,
                 executions>>

PrepareSnapMemory(mem, snap) ==
  FoldLeft(LAMBDA prepared, m : IF Writable(m)
                                THEN FoldLeft(SetupMemoryBytes, prepared, BytesOf(corpus, m.bytes))
                                ELSE prepared,
           mem, MappingsOf(snap))

EndSpotToOutcome(snap, end_regs, mem) ==
  IF end_regs # RegsOf(corpus, snap.end_regs) THEN "register_mismatch"
  ELSE IF \E b \in Range(BytesOf(corpus, snap.end_bytes)) :
            b.data # Held(mem, b.start, b.start + Len(b.data)) THEN "memory_mismatch"
  ELSE "as_expected"

\* The memory a snapshot starts from and what it does to it.
EndOf(s) == s.ends[CHOOSE i \in PickEndState(s, gen_options) : TRUE]
StartOf(s) == MergeExitSequence(Full(PermsIn(s.mappings), s.bytes), EndOf(s).address)
WritableIn(s) == {a \in DOMAIN PermsIn(s.mappings) : "w" \in PermsIn(s.mappings)[a]}
kNoFault == -1
kBadRegister == -2
kFaulty == 8    \* what the faulty CPU leaves in a byte

\* A play: a good CPU that starts from what the snapshot says does what its end state
\* says; otherwise a byte or the registers may come out wrong.
RunSnap(i) ==
  /\ corpus_pc = "play" /\ executions < MaxPlays /\ last.outcome \in {"none", "as_expected"}
  /\ LET snap == SnapsOf(corpus)[i]
         s == shard[i]
         prepared == PrepareSnapMemory(memory, snap)
         right == /\ Restrict(prepared, DOMAIN PermsIn(s.mappings)) = StartOf(s)
                  /\ RegsOf(corpus, snap.regs) = Sets(s.regs)
     IN  \E fault \in {kNoFault, kBadRegister} \cup (WritableIn(s) \cap FaultyAt) :
           LET end_regs == IF fault = kBadRegister THEN [gregs |-> BadRegs, fpregs |-> BadRegs]
                           ELSE Sets(EndOf(s).regs)
               outcome == EndSpotToOutcome(snap, end_regs, memory')
           IN  /\ memory' = [a \in Memory |-> IF a = fault THEN kFaulty
                                              ELSE IF a \in DOMAIN EndOf(s).bytes THEN EndOf(s).bytes[a]
                                              ELSE prepared[a]]
               /\ last' = [snap |-> i, right |-> right, wrong |-> fault # kNoFault,
                           outcome |-> outcome,
                           status |-> IF outcome = "as_expected" THEN "none"
                                      ELSE IF VerifySnapChecksums(memory', snap)
                                      THEN "match" ELSE "mismatch"]
  /\ executions' = executions + 1
  /\ UNCHANGED <<corpus_pc, shard, snapified, gen_options, strict, base, file, stored, corpus>>

CorpusNext ==
  \/ MakeCorpus \/ StoreCorpus \/ LoadCorpusFromFile \/ MapCorpus
  \/ \E i \in DOMAIN shard : RunSnap(i)

CorpusSpec == CorpusInit /\ [][CorpusNext]_corpusvars

-----------------------------------------------------------------------------
(* Properties *)

Written == {[at |-> o.at, limit |-> o.at + SizeAt(o), kind |-> o.kind] : o \in file.objects}
WithSets(s) == [s EXCEPT !.regs = Sets(@), !.end_regs = Sets(@)]

\* The two passes agree: what the second writes is where the first made room for it,
\* apart, in the file and aligned; a whole file is accepted wherever the kernel maps
\* it, and read through its moved pointers it is the snapshots that were written.
ImageIsRight ==
  /\ corpus_pc = "rejected" => stored # file
  /\ corpus_pc = "map" /\ stored = file =>
    /\ \A o, p \in Written : o # p => o.limit <= p.at \/ p.limit <= o.at
    /\ \A o \in Written : o.limit <= file.size /\ o.at % AlignmentOf(o.kind) = 0
    /\ [i \in DOMAIN shard |-> SnapToSnapshot(corpus, SnapsOf(corpus)[i])]
         = [i \in DOMAIN shard |-> WithSets(snapified[i])]

\* What a snap says of memory that is not written.
ReadOnlyBytes(s) ==
  {b \in Range(s.bytes) : \E m \in Range(s.mappings) :
     "w" \notin m.perms /\ b.start \in m.start..(m.limit - 1)}

\* Snaps played one after another in the same memory, their pages over those of the
\* others: each starts from exactly its own memory and fails if and only if the CPU
\* did something wrong.  Damage to what checksums cover is told, and none of it gets
\* past a strict runner.
PlaysAreRight ==
  last # NoPlay =>
    LET read == SnapToSnapshot(corpus, SnapsOf(corpus)[last.snap])
        meant == WithSets(snapified[last.snap])
    IN  /\ read = meant /\ EndOf(shard[last.snap]).complete =>
             /\ last.right /\ (last.outcome = "as_expected" <=> ~ last.wrong)
             /\ last.status # "mismatch"
        /\ \/ read.regs # meant.regs \/ read.end_regs # meant.end_regs
           \/ ReadOnlyBytes(read) # ReadOnlyBytes(meant)
           => last.status # "match"
        /\ strict => stored = file

\* From the snapshots to their plays nothing is lost or moved: the image is what was
\* written, and each play is of its own snapshot.
CorpusIsSound == ImageIsRight /\ PlaysAreRight

\* The playbook's criterion for a confirmed defect: a matching checksum rules out
\* that the corpus was damaged.
MatchRulesOutDamage == last.status = "match" => stored = file
=============================================================================
