------------------------------- MODULE Snapify -------------------------------
(***************************************************************************)
(* snap/gen/snapify.cc with snap/gen/repeating_byte_runs.cc: a snapshot in *)
(* the form the runner plays.                                              *)
(*                                                                         *)
(* A snapshot maps a set of entries of MappedMemoryMap; its bytes are a    *)
(* function on some of the addresses, and so is what an end state says of  *)
(* them.  Of a snapified one, mappings and bytes are sequences by address. *)
(***************************************************************************)
EXTENDS MappedMemoryMap, SequencesExt

CONSTANTS kByteRunAlignmentSize, kMinRepeatingByteRunSize,
          ReservedMemoryMappings,  \* a set of addresses
          ExitSequence,            \* the bytes that leave a snap
          StackNeeded,             \* bytes of stack the exit pushes
          kAny                     \* PlatformId::kAny

\* The permissions of each mapped address.
PermsIn(mappings) ==
  [a \in UNION {Cells(m) : m \in mappings} |-> PermsOf(CHOOSE m \in mappings : P!Holds(m, a))]

\* f over mapped memory, zero where it says nothing (kZeroMappedBytes).
Full(perms, f) == [a \in DOMAIN perms |-> IF a \in DOMAIN f THEN f[a] ELSE 0]

-----------------------------------------------------------------------------
(* Lists of MemoryBytes *)

AlignUp(n, alignment) == ((n + alignment - 1) \div alignment) * alignment

MemoryBytes(mem, start, limit) ==
  [start |-> start, data |-> [i \in 1..(limit - start) |-> mem[start + i - 1]]]
Part(b, offset, size) ==
  [start |-> b.start + offset, data |-> SubSeq(b.data, offset + 1, offset + size)]

AllEqual(data) == \A i \in DOMAIN data : data[i] = data[1]
IsRepeatingByteRun(data) ==
  /\ Len(data) >= kMinRepeatingByteRunSize /\ Len(data) % kByteRunAlignmentSize = 0
  /\ AllEqual(data)

\* The bytes from offset on that equal the first of them.
RunSize(data, offset) ==
  Max({n \in 1..(Len(data) - offset) : AllEqual(SubSeq(data, offset + 1, offset + n))})

\* Runs that are long enough for themselves, rounded down to the alignment; the
\* others rounded up and joined.
GetRepeatingByteRuns(b) ==
  LET size == Len(b.data)
      Rounded(o, run) == IF run >= kMinRepeatingByteRunSize
                         THEN run - (run % kByteRunAlignmentSize)
                         ELSE AlignUp(run, kByteRunAlignmentSize)
      infos[o \in 0..size] ==
        IF o >= size THEN <<>>
        ELSE LET run == RunSize(b.data, o)
                 repeating == run >= kMinRepeatingByteRunSize
                 rest == infos[o + Rounded(o, run)]
             IN  IF ~ repeating /\ rest # <<>> /\ ~ rest[1].repeating
                 THEN <<[rest[1] EXCEPT !.offset = o, !.size = @ + Rounded(o, run)]>> \o Tail(rest)
                 ELSE <<[offset |-> o, size |-> Rounded(o, run), repeating |-> repeating]>> \o rest
  IN  [i \in DOMAIN infos[0] |-> Part(b, infos[0][i].offset, infos[0][i].size)]

\* The stretches of addresses with the same permissions, in order.
Stretches(perms) ==
  LET D == DOMAIN perms
      Joined(a, b) == a \in D /\ b \in D /\ perms[a] = perms[b]
  IN  SetToSortSeq({r \in [start : D, limit : {a + 1 : a \in D}] :
                      /\ r.start < r.limit
                      /\ \A a \in r.start..(r.limit - 2) : Joined(a, a + 1)
                      /\ ~ Joined(r.start - 1, r.start) /\ ~ Joined(r.limit - 1, r.limit)},
                   LAMBDA r, s : r.start < s.start)

\* memory_bytes_list and NormalizeMemoryBytes, then the runs where the
\* permissions are among the ones compressed.
SnapifyMemoryByteList(perms, mem, compressed) ==
  FlattenSeq([i \in DOMAIN Stretches(perms) |->
    LET r == Stretches(perms)[i]
        b == MemoryBytes(mem, r.start, r.limit)
    IN  IF perms[r.start] \in compressed THEN GetRepeatingByteRuns(b) ELSE <<b>>])

-----------------------------------------------------------------------------
(* Snapify *)

\* At most one index: the end state for the platform of the options.
PickEndState(s, opts) ==
  LET Fits(i) == opts.platform = kAny \/ opts.platform \in s.ends[i].platforms
      fitting == {i \in DOMAIN s.ends : Fits(i)}
  IN  IF opts.allow_undefined_end_state THEN {i \in DOMAIN s.ends : Len(s.ends) = 1}
      ELSE {i \in fitting : (\A j \in fitting : i <= j) /\ s.ends[i].complete}

CanSnapifyFor(s, opts) ==
  \E i \in PickEndState(s, opts) :
    LET end == s.ends[i]
        mapped == DOMAIN PermsIn(s.mappings)
    IN  /\ end.type = "instruction"
        /\ mapped \cap ReservedMemoryMappings = {}
        /\ end.address..(end.address + Len(ExitSequence) - 1) \subseteq mapped
        /\ \/ opts.allow_undefined_end_state /\ ~ end.complete
           \/ end.rsp >= StackNeeded /\ (end.rsp - StackNeeded)..(end.rsp - 1) \subseteq mapped

MergeExitSequence(mem, address) ==
  [a \in DOMAIN mem |-> IF a \in address..(address + Len(ExitSequence) - 1)
                        THEN ExitSequence[a - address + 1] ELSE mem[a]]

\* The memory an end state leaves: what it says, on top of the initial memory.
EndMemory(mem, end) == [a \in DOMAIN mem |-> IF a \in DOMAIN end.bytes THEN end.bytes[a] ELSE mem[a]]

\* The expected end state covers all that may be written.
WritableOnly(f, perms) == Restrict(f, {a \in DOMAIN perms : "w" \in perms[a]})

SnapifiedFrom(s, opts) ==
  LET end == s.ends[CHOOSE i \in PickEndState(s, opts) : TRUE]
      perms == PermsIn(s.mappings)
      mem == MergeExitSequence(Full(perms, s.bytes), end.address)
      final == WritableOnly(EndMemory(mem, end), perms)
      finally == IF opts.compress_repeating_bytes THEN Range(perms) ELSE {}
      initially == {p \in finally : opts.support_direct_mmap => "x" \notin p}
  IN  [id |-> s.id,
       mappings |-> [i \in DOMAIN Stretches(perms) |->
                       LET r == Stretches(perms)[i]
                       IN  [start |-> r.start, limit |-> r.limit, perms |-> perms[r.start]]],
       bytes |-> SnapifyMemoryByteList(perms, mem, initially),
       regs |-> s.regs,
       end_address |-> end.address,
       end_regs |-> end.regs,
       end_bytes |-> IF end.complete
                     THEN SnapifyMemoryByteList(Restrict(perms, DOMAIN final), final, finally)
                     ELSE <<>>]
=============================================================================
