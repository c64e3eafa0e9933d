---------------------------- MODULE ProgramMutator ----------------------------
(***************************************************************************)
(* fuzzer/program_batch_mutator.cc with program.cc, program_mutation_ops,  *)
(* program_mutator.h and the two encoders: one mutant of a program.        *)
(*                                                                         *)
(* An encoded instruction has an operation, a size and, if it is a direct  *)
(* branch, a displacement from its own start.  An instruction of a program *)
(* also knows the boundary its branch should go to; the two get out of     *)
(* step while the program is edited.  Boundaries count from 0.             *)
(***************************************************************************)
EXTENDS Integers, Sequences, FiniteSets, SequencesExt, FiniteSetsExt

CONSTANTS Operations,  \* of each: branch, the sizes it comes in, the one that encoding
                       \* gives it, and the least and greatest displacement from its end
          CorpusInputs,  \* sequences of instructions, and of sizes that are passed over
          Encodable,     \* what random bytes may decode to
          minimum_instructions, \* of DeleteInstruction
          max_len,
          MaxRepeats,           \* of one mutation
          kInvalid              \* kInvalidByteDisplacement, kInvalidInstructionBoundary

VARIABLES mutator_pc,    \* "input", "mutate", "limit", "fixup" or "output"
          insns,         \* instructions_: [encoded, displacement, boundary, offset]
          other,         \* of the program to cross over with
          byte_len,
          encodings_may_be_invalid,
          repeat,        \* mutations left, and whether they are of the crossing kind
          crossing,
          pass           \* of FixupEncodedDisplacements

mutvars == <<mutator_pc, insns, other, byte_len, encodings_may_be_invalid, repeat, crossing, pass>>

NoPass == [index |-> 0, offset |-> 0, stable |-> TRUE, iteration |-> 0, modified |-> FALSE]

MutatorInit ==
  /\ mutator_pc = "input" /\ insns = <<>> /\ other = <<>>
  /\ byte_len = 0 /\ encodings_may_be_invalid = TRUE
  /\ repeat = 0 /\ crossing = FALSE /\ pass = NoPass

-----------------------------------------------------------------------------
(* Encodings *)

Branches(encoded) == Operations[encoded.op].branch
InRange(op, size, displacement) ==
  displacement - size \in Operations[op].least..Operations[op].greatest

NewInstruction(encoded) ==
  [encoded |-> encoded, displacement |-> encoded.displacement, boundary |-> kInvalid, offset |-> 0]
Valid(insn) == insn.displacement # kInvalid

Boundaries(p) == 0..Len(p)
SizeUpTo(p, n) == FoldLeft(LAMBDA sum, i : sum + p[i].encoded.size, 0, [i \in 1..n |-> i])

\* FixupInvariants: one after the other, without holes.
LaidOut(p) == [i \in DOMAIN p |-> [p[i] EXCEPT !.offset = SizeUpTo(p, i - 1)]]

InstructionBoundaryToProgramByteOffset(p, boundary) ==
  IF boundary < Len(p) THEN p[boundary + 1].offset
  ELSE p[Len(p)].offset + p[Len(p)].encoded.size

ByteDistance(p, boundary, offset) ==
  LET d == InstructionBoundaryToProgramByteOffset(p, boundary) - offset
  IN  IF d < 0 THEN -d ELSE d
FindClosestInstructionBoundary(p, offset) ==
  CHOOSE b \in Boundaries(p) : \A c \in Boundaries(p) :
    \/ ByteDistance(p, b, offset) < ByteDistance(p, c, offset)
    \/ ByteDistance(p, b, offset) = ByteDistance(p, c, offset) /\ b <= c

Resolved(p, insn) ==
  IF Valid(insn) /\ insn.boundary = kInvalid
  THEN [insn EXCEPT !.boundary = FindClosestInstructionBoundary(p, insn.offset + insn.displacement)]
  ELSE insn

\* The constructor: instructions where they are in the input, branches to the nearest
\* boundaries, and only then the holes squeezed out.  An input is a sequence of
\* encodings; those with operation "rejected" are only skipped.
Parsed(input) ==
  LET At(i) == FoldLeft(LAMBDA sum, j : sum + input[j].size, 0, [j \in 1..(i - 1) |-> j])
      kept == SelectSeq([i \in DOMAIN input |-> i], LAMBDA i : input[i].op # "rejected")
      placed == [n \in DOMAIN kept |->
                   [NewInstruction(input[kept[n]]) EXCEPT !.offset = At(kept[n])]]
  IN  LaidOut([n \in DOMAIN placed |-> Resolved(placed, placed[n])])

-----------------------------------------------------------------------------
(* Edits of a program *)

AdjustInstructionIndexes(p, boundary, amount) ==
  [i \in DOMAIN p |-> IF Valid(p[i]) /\ p[i].boundary >= boundary
                      THEN [p[i] EXCEPT !.boundary = @ + amount] ELSE p[i]]

InsertInstructionBlock(p, boundary, steal_displacements, block) ==
  LET first == IF steal_displacements THEN boundary + 1 ELSE boundary
      adjusted == AdjustInstructionIndexes(p, first, Len(block))
  IN  LaidOut(SubSeq(adjusted, 1, boundary) \o block \o SubSeq(adjusted, boundary + 1, Len(p)))

RemoveInstruction(p, index) == LaidOut(RemoveAt(AdjustInstructionIndexes(p, index, -1), index))

SetInstructionBlock(p, index, block) ==
  [i \in DOMAIN p |-> IF i \in index..(index + Len(block) - 1) THEN block[i - index + 1] ELSE p[i]]

Edited(p) ==
  /\ insns' = p /\ byte_len' = SizeUpTo(p, Len(p)) /\ encodings_may_be_invalid' = TRUE

\* Random bytes, or bits flipped at random, until they decode.
GeneratedInstructions == {NewInstruction(encoded) : encoded \in Encodable}

\* What a new instruction may be directed to.
Randomized(insn, boundaries) ==
  IF Valid(insn) THEN {[insn EXCEPT !.boundary = b] : b \in boundaries} ELSE {insn}

\* The target of a branch that was not touched by the mutation is kept.
CopiedOrRandomized(original, mutated, boundaries) ==
  IF Valid(mutated) /\ mutated.displacement = original.displacement
  THEN {[mutated EXCEPT !.boundary = original.boundary]}
  ELSE Randomized(mutated, boundaries)

\* The branches of a copied block keep their shape, or go anywhere.
Shifted(block, index_offset, boundaries) ==
  LET Kept(insn) == insn.boundary + index_offset \in boundaries
      lost == {i \in DOMAIN block : Valid(block[i]) /\ ~Kept(block[i])}
  IN  {[i \in DOMAIN block |->
          IF i \in lost THEN [block[i] EXCEPT !.boundary = chosen[i]]
          ELSE IF Valid(block[i]) THEN [block[i] EXCEPT !.boundary = @ + index_offset]
          ELSE block[i]] : chosen \in [lost -> boundaries]}

-----------------------------------------------------------------------------
(* Mutations *)

InsertGeneratedInstruction ==
  \E new \in GeneratedInstructions, boundary \in Boundaries(insns), steal \in BOOLEAN :
    \E insn \in Randomized(new, 0..(Len(insns) + 1)) :
      Edited(InsertInstructionBlock(insns, boundary, steal, <<insn>>))

MutateInstruction ==
  \E i \in DOMAIN insns, mutated \in GeneratedInstructions :
    \E insn \in CopiedOrRandomized(insns[i], mutated, Boundaries(insns)) :
      Edited(SetInstructionBlock(insns, i, <<insn>>))

DeleteInstruction(minimum) ==
  /\ Len(insns) > minimum
  /\ \E i \in DOMAIN insns : Edited(RemoveInstruction(insns, i))

SwapInstructions ==
  \E a, b \in DOMAIN insns :
    /\ a # b
    /\ Edited([insns EXCEPT ![a] = insns[b], ![b] = insns[a]])

CrossoverInsert ==
  \E src \in DOMAIN other, boundary \in Boundaries(insns), steal \in BOOLEAN :
    \E last \in src..Len(other) :
      \E block \in Shifted(SubSeq(other, src, last), boundary - (src - 1),
                           0..(Len(insns) + last - src + 1)) :
        Edited(InsertInstructionBlock(insns, boundary, steal, block))

\* At most half of the program is overwritten.
CrossoverOverwrite ==
  \E src \in DOMAIN other, dst \in DOMAIN insns :
    \E last \in src..Len(other) :
      LET size == last - src + 1
      IN  /\ size <= Max({1, Len(insns) \div 2}) /\ dst + size - 1 <= Len(insns)
          /\ \E block \in Shifted(SubSeq(other, src, last), dst - src, Boundaries(insns)) :
               Edited(SetInstructionBlock(insns, dst, block))

-----------------------------------------------------------------------------
(* One mutant *)

\* Crossovers happen once.
Repetitions(cross) == IF cross THEN {1} ELSE 1..MaxRepeats

SelectMutation ==
  \/ crossing /\ (CrossoverInsert \/ CrossoverOverwrite)
  \/ ~crossing /\ (InsertGeneratedInstruction \/ MutateInstruction \/ SwapInstructions
                    \/ DeleteInstruction(minimum_instructions))

\* A mutation that fails is tried again until it succeeds or the limit is reached.
RetryMutation == SelectMutation \/ UNCHANGED <<insns, byte_len, encodings_may_be_invalid>>

\* Mutate and GenerateSingleOutput begin: a base, another, which matters to crossovers
\* only, and how often.
ReadInput ==
  /\ mutator_pc = "input"
  /\ crossing' \in BOOLEAN
  /\ \E base, with \in CorpusInputs :
       /\ insns' = Parsed(base) /\ other' = Parsed(with)
       /\ crossing' \/ with = base
  /\ byte_len' = SizeUpTo(insns', Len(insns')) /\ encodings_may_be_invalid' = TRUE
  /\ repeat' \in Repetitions(crossing')
  /\ mutator_pc' = "mutate"
  /\ UNCHANGED pass

MutateProgram ==
  /\ mutator_pc = "mutate" /\ repeat > 0
  /\ RetryMutation
  /\ repeat' = repeat - 1
  /\ UNCHANGED <<mutator_pc, other, crossing, pass>>

\* FinalizeProgram begins: something has to come out.
AddInstructionIfZeroLength ==
  /\ mutator_pc = "mutate" /\ repeat = 0
  /\ IF byte_len = 0 THEN InsertGeneratedInstruction
     ELSE UNCHANGED <<insns, byte_len, encodings_may_be_invalid>>
  /\ mutator_pc' = IF byte_len = 0 THEN mutator_pc ELSE "limit"
  /\ UNCHANGED <<other, repeat, crossing, pass>>

LimitProgramLength ==
  /\ mutator_pc = "limit" /\ byte_len > max_len
  /\ DeleteInstruction(0)
  /\ UNCHANGED <<mutator_pc, other, repeat, crossing, pass>>

\* After the limit was first looked at, or has changed what was fixed up before.
StartFixup ==
  /\ mutator_pc = "limit" /\ byte_len <= max_len /\ encodings_may_be_invalid
  /\ insns' = LaidOut(insns) /\ byte_len' = SizeUpTo(insns, Len(insns))
  /\ pass' = NoPass /\ mutator_pc' = "fixup"
  /\ UNCHANGED <<other, encodings_may_be_invalid, repeat, crossing>>

\* SyncByteDisplacements asks for this displacement.
Target(p, i) == InstructionBoundaryToProgramByteOffset(p, p[i].boundary) - p[i].offset

\* Encoding an instruction gives it its canonical size, and then the displacement
\* truncated to what its operation can hold.
Canonical(p, i) == [p EXCEPT ![i].encoded.size = Operations[p[i].encoded.op].canonical]
Fits(p, i, d) == InRange(p[i].encoded.op, Operations[p[i].encoded.op].canonical, d)
TryToReencodeInstructionDisplacements(p, i, d) ==
  /\ Fits(p, i, d)
  /\ insns' = [Canonical(p, i) EXCEPT ![i].displacement = d, ![i].encoded.displacement = d]

\* One instruction, where it is now.  While its displacement cannot be encoded
\* another boundary is tried.
FixupInstruction ==
  /\ mutator_pc = "fixup" /\ pass.index < Len(insns)
  /\ LET i == pass.index + 1
         p == [insns EXCEPT ![i].offset = pass.offset]
         moves == Valid(p[i]) /\ Target(p, i) # p[i].displacement
         Aimed(b) == [p EXCEPT ![i].boundary = b]
     IN  /\ \/ ~moves /\ insns' = p
            \/ moves /\ TryToReencodeInstructionDisplacements(p, i, Target(p, i))
            \/ /\ moves /\ ~Fits(p, i, Target(p, i))
               /\ \E b \in Boundaries(p) :
                    LET q == Aimed(b)
                    IN  TryToReencodeInstructionDisplacements(q, i, Target(Canonical(q, i), i))
         /\ pass' = [pass EXCEPT !.index = i, !.offset = @ + insns'[i].encoded.size,
                                 !.stable = @ /\ insns[i].offset = pass.offset,
                                 !.modified = @ \/ moves]
  /\ UNCHANGED <<mutator_pc, other, byte_len, encodings_may_be_invalid, repeat, crossing>>

\* Mutant: only the offsets are looked at, which do not show the last size.
OffsetsAreStable == pass.stable

\* Sizes did not change any more.
Stable == pass.stable /\ byte_len = pass.offset

EndFixupPass ==
  /\ mutator_pc = "fixup" /\ pass.index = Len(insns)
  /\ byte_len' = pass.offset
  /\ IF Stable
     THEN /\ encodings_may_be_invalid' = FALSE /\ pass' = pass
          /\ mutator_pc' = IF pass.modified THEN "limit" ELSE "output"
     ELSE /\ pass' = [NoPass EXCEPT !.iteration = pass.iteration + 1, !.modified = pass.modified]
          /\ UNCHANGED <<encodings_may_be_invalid, mutator_pc>>
  /\ UNCHANGED <<insns, other, repeat, crossing>>

\* The limit had nothing to do after a fixup.
ToBytes ==
  /\ mutator_pc = "limit" /\ byte_len <= max_len /\ ~encodings_may_be_invalid
  /\ mutator_pc' = "output"
  /\ UNCHANGED <<insns, other, byte_len, encodings_may_be_invalid, repeat, crossing, pass>>

MutatorNext ==
  \/ ReadInput \/ MutateProgram \/ AddInstructionIfZeroLength \/ LimitProgramLength
  \/ StartFixup \/ FixupInstruction \/ EndFixupPass \/ ToBytes

MutatorSpec == MutatorInit /\ [][MutatorNext]_mutvars

-----------------------------------------------------------------------------
(* Properties *)

\* CheckConsistency.
Consistent ==
  /\ \A i \in DOMAIN insns : IF Valid(insns[i]) THEN insns[i].boundary \in Boundaries(insns)
                             ELSE insns[i].boundary = kInvalid
  /\ mutator_pc # "fixup" => byte_len = SizeUpTo(insns, Len(insns))

ASSUME EncodingsAreReal ==
  \A e \in Encodable \cup UNION {Range(input) : input \in CorpusInputs} :
    e.op = "rejected" \/ /\ e.size \in Operations[e.op].sizes
                         /\ IF Branches(e) THEN InRange(e.op, e.size, e.displacement)
                            ELSE e.displacement = kInvalid

Encodings(p) == [i \in DOMAIN p |-> p[i].encoded]
FitsAlone == \A op \in DOMAIN Operations : \A size \in Operations[op].sizes : size <= max_len

\* Whatever is inserted, removed, swapped or copied, the mutant that comes out obeys
\* max_len, has an instruction if one fits, and read again it is the same program:
\* every branch was encoded for where it was meant to go, at sizes that encoding no
\* longer changes.  Until then the program is consistent, and every instruction is
\* made canonical once, which bounds the passes.
MutantsAreSound ==
  /\ Consistent
  /\ mutator_pc = "fixup" => pass.iteration <= Len(insns)
  /\ mutator_pc = "output" =>
       /\ ~ encodings_may_be_invalid /\ byte_len <= max_len
       /\ FitsAlone => insns # <<>>
       /\ Parsed(Encodings(insns)) = insns
       /\ \A i \in DOMAIN insns : Valid(insns[i]) =>
            /\ Target(insns, i) = insns[i].encoded.displacement
            /\ InRange(insns[i].encoded.op, insns[i].encoded.size, insns[i].encoded.displacement)
=============================================================================
