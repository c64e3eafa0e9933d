------------------------------ MODULE Snapshot ------------------------------
(***************************************************************************)
(* common/snapshot.cc and common/snapshot_proto.cc: the builder of a       *)
(* snapshot (mappings, negative mappings, bytes, registers, end states),   *)
(* its normal form, when it is complete, and its conversion to a proto and *)
(* back.  A snapshot is a record; every operation is an operator on it,    *)
(* guarded by the can_... method its caller has to ask.                    *)
(***************************************************************************)
EXTENDS MappedMemoryMap, SequencesExt

CONSTANTS PageSize, kMaxAddress, StackSize,
          Mappings,    \* candidate mappings and negative mappings: entries of permissions
          Bytes,       \* candidate memory bytes: entries of byte values
          Registers,   \* candidate registers: records ip, sp
          EndStates,   \* candidate end states, see Undefined below
          Platforms,
          MaxMappings, MaxBytes, MaxEndStates \* bounds on the lists

VARIABLE snap

\* A range of addresses with a value for each.
IsRange(e) ==
  /\ e.start \in Nat /\ e.limit \in Nat /\ e.start < e.limit /\ e.limit <= kMaxAddress
  /\ e = P!Entry(e.start, e.limit, e.at)

\* The types of the arguments; a mapping has one set of permissions.
ASSUME SnapshotAssumption ==
  /\ PageSize \in Nat \ {0, 1} /\ kMaxAddress \in Nat
  /\ IsFiniteSet(Mappings) /\ IsFiniteSet(Bytes)
  /\ \A e \in Mappings : IsRange(e) /\ \A k \in Cells(e) : e.at[k] = PermsOf(e)
  /\ \A b \in Bytes : IsRange(b)
  /\ \A e \in EndStates :
       /\ e = [endpoint |-> e.endpoint, registers |-> e.registers, bytes |-> e.bytes,
               platforms |-> e.platforms]
       /\ \A b \in e.bytes : IsRange(b)
       /\ e.endpoint.type = "segv" => e.endpoint.address \in Nat

AllWith(map, s, l, perm) == \A k \in s..(l - 1) : perm \in PermsAt(map, k)
AddMapping(map, e) == P!Add(map, e.start, e.limit, e.at)

NoRegisters == {}   \* otherwise the set of one record
EmptySnapshot == [mappings |-> {}, map |-> {}, negatives |-> {}, negmap |-> {},
                  bytes |-> {}, registers |-> NoRegisters, ends |-> <<>>]

\* An end state of which only the endpoint is known.
Undefined(e) == e.registers = NoRegisters

-----------------------------------------------------------------------------
(* What may be added *)

PageAligned(e) == e.start % PageSize = 0 /\ e.limit % PageSize = 0

CanAddMapping(s, e) ==
  /\ PermsOf(e) # {} /\ PageAligned(e)
  /\ P!Find(s.map, e.start, e.limit) = {}
  /\ PermsOf(e) \cap SomePerms(s.negmap, e.start, e.limit) = {}

\* The last page is excluded by one byte: its limit is not an address.
CanAddNegative(s, e, overlapOk) ==
  /\ PermsOf(e) # {}
  /\ e.start % PageSize = 0 /\ (e.limit % PageSize = 0 \/ e.limit = kMaxAddress)
  /\ overlapOk \/ P!Find(s.negmap, e.start, e.limit) = {}
  /\ PermsOf(e) \cap SomePerms(s.map, e.start, e.limit) = {}

CanAddBytes(s, b) ==
  P!Covers(s.map, b.start, b.limit) /\ \A c \in s.bytes : Cells(c) \cap Cells(b) = {}

CanSetRegisters(s, r) ==
  /\ "x" \in PermsAt(s.map, r.ip)
  /\ r.sp >= StackSize /\ AllWith(s.map, r.sp - StackSize, r.sp, "w")

Negatived(s, k) == P!Covered(s.negmap, k)
                     \/ (k = kMaxAddress /\ P!Covered(s.negmap, kMaxAddress - 1))
DataEquals(e, f) == [e EXCEPT !.platforms = {}] = [f EXCEPT !.platforms = {}]

CanAddEnd(s, e, unmappedOk, duplicateOk) ==
  /\ IF e.endpoint.type = "instruction"
     THEN e.endpoint.ip < kMaxAddress /\ (unmappedOk \/ "x" \in PermsAt(s.map, e.endpoint.ip))
     ELSE LET Known(k) == \/ P!Covered(s.map, k)
                          \/ e.endpoint.type = "segv" /\ Negatived(s, k)
          IN  /\ e.endpoint.address = 0 \/ Known(e.endpoint.address)
              /\ unmappedOk \/ Known(e.endpoint.ip)
  /\ Undefined(e) => e.bytes = {}
  /\ \A b \in e.bytes : AllWith(s.map, b.start, b.limit, "w")
  /\ duplicateOk \/ \A i \in DOMAIN s.ends : ~ DataEquals(s.ends[i], e)

-----------------------------------------------------------------------------
(* What adding does *)

WithMapping(s, e) == [s EXCEPT !.mappings = @ \cup {e}, !.map = AddMapping(@, e)]
WithNegative(s, e) == [s EXCEPT !.negatives = @ \cup {e}, !.negmap = AddMapping(@, e)]
WithBytes(s, b) == [s EXCEPT !.bytes = @ \cup {b}]
WithEnd(s, e) == [s EXCEPT !.ends = Append(@, e)]

\* The pieces of an overlapping mapping come back as the ranges of the map.
WithOverlapping(s, e) ==
  IF P!Find(s.negmap, e.start, e.limit) = {} THEN WithNegative(s, e)
  ELSE LET map == AddMapping(s.negmap, e)
       IN  [s EXCEPT !.negmap = map, !.negatives = map]

\* The page a SIGSEGV end state needs without permissions, if it needs one.
NegativeFor(e) ==
  LET page == (e.endpoint.address \div PageSize) * PageSize
      limit == IF e.endpoint.address >= kMaxAddress - PageSize + 1
               THEN page + PageSize - 1 ELSE page + PageSize
      perms == CASE e.endpoint.cause = "exec" -> {"x"}
                 [] e.endpoint.cause = "write" -> {"w"}
                 [] e.endpoint.cause = "read" -> {"r", "w", "x"}
  IN  IF e.endpoint.type = "segv" /\ e.endpoint.cause \in {"exec", "write", "read"}
      THEN {P!Entry(page, limit, P!Flat(page, limit, perms))} ELSE {}

\* xs added to s one after the other, or not at all.
AddAll(s, xs, Can(_, _), With(_, _)) ==
  FoldSet(LAMBDA x, r : IF r.ok /\ Can(r.s, x) THEN [ok |-> TRUE, s |-> With(r.s, x)]
                        ELSE [r EXCEPT !.ok = FALSE], s, xs)

\* A snapshot built anew from its parts, in the order the proto is read.
CanAddNewNegative(s, e) == CanAddNegative(s, e, FALSE)
Rebuilt(mappings, s) ==
  LET r1 == AddAll([ok |-> TRUE, s |-> EmptySnapshot], mappings, CanAddMapping, WithMapping)
      r2 == AddAll(r1, s.negatives, CanAddNewNegative, WithNegative)
      r3 == AddAll(r2, s.bytes, CanAddBytes, WithBytes)
      r4 == [ok |-> r3.ok /\ (\A r \in s.registers : CanSetRegisters(r3.s, r)),
             s |-> [r3.s EXCEPT !.registers = s.registers]]
  IN  FoldLeft(LAMBDA r, e : IF r.ok /\ CanAddEnd(r.s, e, FALSE, FALSE)
                             THEN [ok |-> TRUE, s |-> WithEnd(r.s, e)]
                             ELSE [r EXCEPT !.ok = FALSE], r4, s.ends)

-----------------------------------------------------------------------------
(* Normal form *)

\* Mutant: pieces are joined across mappings.
JoinedBytes(map, B) ==
  LET Written == UNION {Cells(b) : b \in B}
      Follows(k) == k - 1 \in Written
      Ends == {k \in Written : k + 1 \notin Written \/ ~ Follows(k + 1)}
      value == [k \in Written |-> (CHOOSE b \in B : k \in Cells(b)).at[k]]
  IN  {P!Entry(k, Min({j \in Ends : j >= k}) + 1, value) : k \in {k \in Written : ~ Follows(k)}}

\* Bytes in one piece wherever they touch and have the same permissions.
NormalBytes(map, B) ==
  LET Written == UNION {Cells(b) : b \in B}
      Follows(k) == k - 1 \in Written /\ PermsAt(map, k - 1) = PermsAt(map, k)
      Ends == {k \in Written : k + 1 \notin Written \/ ~ Follows(k + 1)}
      value == [k \in Written |-> (CHOOSE b \in B : k \in Cells(b)).at[k]]
  IN  {P!Entry(k, Min({j \in Ends : j >= k}) + 1, value) : k \in {k \in Written : ~ Follows(k)}}

NormalizeMappings(s) == [s EXCEPT !.mappings = s.map, !.negatives = s.negmap]
NormalEnd(map, e) == [e EXCEPT !.bytes = NormalBytes(map, @)]
NormalizeBytes(s) ==
  [s EXCEPT !.bytes = NormalBytes(s.map, @),
            !.ends = [i \in DOMAIN @ |-> NormalEnd(s.map, @[i])]]
NormalizeAll(s) == NormalizeBytes(NormalizeMappings(s))

-----------------------------------------------------------------------------
(* Completeness and the proto *)

EndComplete(e, state) ==
  IF state = "normal" THEN ~ Undefined(e) /\ e.platforms # {}
  ELSE Undefined(e) /\ e.bytes = {} /\ e.platforms = {}

\* Mutant: end states are not checked against the mappings again.
HasParts(s, state) ==
  /\ s.mappings # {} /\ s.bytes # {} /\ s.registers # NoRegisters
  /\ (\E i \in DOMAIN s.ends : NegativeFor(s.ends[i]) # {}) = (s.negatives # {})
  /\ state = "normal" => s.ends # <<>>
  /\ \A i \in DOMAIN s.ends :
       EndComplete(s.ends[i], state)

IsComplete(s, state) ==
  /\ s.mappings # {} /\ s.bytes # {} /\ s.registers # NoRegisters
  /\ (\E i \in DOMAIN s.ends : NegativeFor(s.ends[i]) # {}) = (s.negatives # {})
  /\ state = "normal" => s.ends # <<>>
  /\ \A i \in DOMAIN s.ends :
       /\ EndComplete(s.ends[i], state)
       /\ state # "making" => CanAddEnd(s, s.ends[i], FALSE, TRUE)

IsCompleteSomeState(s) == \E state \in {"normal", "undefined", "making"} : IsComplete(s, state)

\* The lists are all a proto keeps.
ToProto(s) == [mappings |-> s.mappings, negatives |-> s.negatives, bytes |-> s.bytes,
               registers |-> s.registers, ends |-> s.ends]
FromProto(p) ==
  LET r == Rebuilt(p.mappings, p)
  IN  [r EXCEPT !.ok = @ /\ p.registers # NoRegisters /\ IsCompleteSomeState(r.s)]

\* operator==: the maps and not the lists they are made of, end states as a set.
SameSnapshot(s, t) ==
  /\ s.map = t.map /\ s.negmap = t.negmap /\ s.bytes = t.bytes
  /\ s.registers = t.registers
  /\ Len(s.ends) = Len(t.ends) /\ Range(s.ends) \subseteq Range(t.ends)

-----------------------------------------------------------------------------
(* The operations *)

SnapInit == snap = EmptySnapshot

\* The end states that are not in D, in their order.
Without(ends, D) ==
  FoldLeft(LAMBDA kept, e : IF e \in D THEN kept ELSE Append(kept, e), <<>>, ends)

Lists(S, n) == UNION {kSubset(i, S) : i \in 0..n}
Adding(s, xs, Can(_, _), With(_, _)) == AddAll([ok |-> TRUE, s |-> s], xs, Can, With)

add_memory_mapping(e) ==
  /\ Cardinality(snap.mappings) < MaxMappings /\ CanAddMapping(snap, e)
  /\ snap' = WithMapping(snap, e)

\* Mutant: only the mappings themselves are checked.
put_memory_mappings(E) ==
  /\ Rebuilt(E, [snap EXCEPT !.ends = <<>>]).ok
  /\ snap' = [snap EXCEPT !.mappings = E, !.map = MapOf(E)]

set_memory_mappings(E) ==
  /\ Rebuilt(E, snap).ok
  /\ snap' = [snap EXCEPT !.mappings = E, !.map = MapOf(E)]

set_negative_memory_mappings(E) ==
  LET r == Adding([snap EXCEPT !.negatives = {}, !.negmap = {}], E, CanAddNewNegative, WithNegative)
  IN  r.ok /\ snap' = r.s

AddNegativeMemoryMappingsFor(e) ==
  \E n \in NegativeFor(e) :
    CanAddNegative(snap, n, TRUE) /\ snap' = WithOverlapping(snap, n)

add_memory_bytes(b) ==
  /\ Cardinality(snap.bytes) < MaxBytes /\ CanAddBytes(snap, b)
  /\ snap' = WithBytes(snap, b)

ReplaceMemoryBytes(B) ==
  LET r == Adding([snap EXCEPT !.bytes = {}], B, CanAddBytes, WithBytes)
  IN  r.ok /\ snap' = r.s

set_registers(r) == CanSetRegisters(snap, r) /\ snap' = [snap EXCEPT !.registers = {r}]

add_expected_end_state(e, unmappedOk) ==
  /\ Len(snap.ends) < MaxEndStates /\ CanAddEnd(snap, e, unmappedOk, FALSE)
  /\ snap' = WithEnd(snap, e)

set_expected_end_states(e) ==
  /\ CanAddEnd([snap EXCEPT !.ends = <<>>], e, FALSE, FALSE)
  /\ snap' = [snap EXCEPT !.ends = <<e>>]

add_platform_to_expected_end_state(i, p) ==
  snap' = [snap EXCEPT !.ends[i].platforms = @ \cup {p}]

remove_expected_end_state(i) == snap' = [snap EXCEPT !.ends = RemoveAt(@, i)]

limit_end_states_to_platform(p) ==
  snap' = [snap EXCEPT !.ends = Without(@, {e \in Range(@) : p \notin e.platforms})]

TryRemoveUndefinedEndStates ==
  /\ \E i \in DOMAIN snap.ends : EndComplete(snap.ends[i], "normal")
  /\ snap' = [snap EXCEPT !.ends = Without(@, {e \in Range(@) : EndComplete(e, "undefined")})]

Normalize == snap' = NormalizeAll(snap)

SnapNext ==
  \/ \E e \in Mappings : add_memory_mapping(e)
  \/ \E E \in Lists(Mappings, MaxMappings) :
       set_memory_mappings(E) \/ set_negative_memory_mappings(E)
  \/ \E b \in Bytes : add_memory_bytes(b)
  \/ \E B \in Lists(Bytes, MaxBytes) : ReplaceMemoryBytes(B)
  \/ \E r \in Registers : set_registers(r)
  \/ \E e \in EndStates : \/ AddNegativeMemoryMappingsFor(e) \/ set_expected_end_states(e)
                          \/ \E ok \in BOOLEAN : add_expected_end_state(e, ok)
  \/ \E p \in Platforms : \/ limit_end_states_to_platform(p)
                          \/ \E i \in DOMAIN snap.ends : add_platform_to_expected_end_state(i, p)
  \/ \E i \in DOMAIN snap.ends : remove_expected_end_state(i)
  \/ TryRemoveUndefinedEndStates
  \/ Normalize

SnapSpec == SnapInit /\ [][SnapNext]_snap

-----------------------------------------------------------------------------
(* Properties *)

\* The maps that equality and every check look at say the same as the lists that
\* are stored; mappings are disjoint, bytes are disjoint and mapped, no address
\* has a permission that it must not have.
ListsAgreeWithMaps ==
  /\ snap.map = MapOf(snap.mappings) /\ snap.negmap = MapOf(snap.negatives)
  /\ P!Disjoint(snap.mappings) /\ P!Disjoint(snap.negatives) /\ P!Disjoint(snap.bytes)
  /\ P!Canonical(snap.map)
  /\ \A b \in snap.bytes : P!Covers(snap.map, b.start, b.limit)
  /\ \A k \in 0..kMaxAddress : PermsAt(snap.map, k) \cap PermsAt(snap.negmap, k) = {}

\* The bytes an end state expects to change stay writable, whatever replaces the
\* mappings or splits and joins the bytes.
EndBytesWritable ==
  \A i \in DOMAIN snap.ends : \A b \in snap.ends[i].bytes :
    AllWith(snap.map, b.start, b.limit, "w")

\* After any sequence of edits a snapshot says the same in its lists and its maps, and
\* its bytes and end states still fit its mappings.
SnapshotConsistent == ListsAgreeWithMaps /\ EndBytesWritable

Twin(i, j) == i # j /\ DataEquals(snap.ends[i], snap.ends[j])

\* A complete snapshot survives the proto: what is read is the snapshot written,
\* with the same completeness, provided it is not one still in the making and no
\* two of its end states have become equal.
RoundTrip ==
  /\ IsComplete(snap, "normal") \/ IsComplete(snap, "undefined")
  /\ ~ \E i, j \in DOMAIN snap.ends : Twin(i, j)
  => LET r == FromProto(ToProto(snap))
     IN  r.ok /\ SameSnapshot(snap, r.s) /\ r.s.mappings = snap.mappings

Content(B) == [k \in UNION {Cells(b) : b \in B} |-> (CHOOSE b \in B : k \in Cells(b)).at[k]]

\* Normalising changes no byte and no permission, is done after one pass, leaves no
\* pieces that could be one, and a snapshot as complete as it was.
NormalFormIsSame ==
  LET n == NormalizeAll(snap)
  IN  /\ Content(n.bytes) = Content(snap.bytes) /\ MapOf(n.mappings) = snap.map
      /\ NormalizeAll(n) = n
      /\ \A b \in n.bytes : \A k, j \in Cells(b) : PermsAt(n.map, k) = PermsAt(n.map, j)
      /\ \A b, c \in n.bytes :
           b.limit = c.start => PermsAt(n.map, b.start) # PermsAt(n.map, c.start)
      /\ \A state \in {"normal", "undefined", "making"} :
           IsComplete(n, state) = IsComplete(snap, state)

\* A snapshot that is normalised, or written as a proto and read, is the same snapshot.
FormsAreSame == RoundTrip /\ NormalFormIsSame
=============================================================================
