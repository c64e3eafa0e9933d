---------------------------- MODULE MemoryState ----------------------------
(***************************************************************************)
(* common/memory_state.cc on common/mapped_memory_map.cc and               *)
(* common/memory_bytes_set.cc: what is mapped with which permissions, and  *)
(* which bytes are known, in three range maps; and the commands that lead  *)
(* from this state to that of a snapshot.                                  *)
(***************************************************************************)
EXTENDS MappedMemoryMap, FiniteSetsExt

CONSTANTS Limit,      \* addresses are 0..(Limit - 1)
          GivenPerms, \* permissions that are given to mappings, a subset of Rwx
          Unknown,    \* what is known of a byte never written
          Snapshots,  \* made by Snapshot below
          Patterns,   \* byte values that may be written
          kMinSkipOverBytes

VARIABLES mapped,   \* mapped_memory_map_
          written_memory,  \* written_memory_set_
          bytes     \* written_memory_bytes_

memvars == <<mapped, written_memory, bytes>>

ByteAdd(old, new) == new
NothingLeft(old, gone) == {}
Always(a, b) == TRUE
B == INSTANCE RangeMap WITH Added <- ByteAdd, Remaining <- NothingLeft, CanMerge <- Always

\* What a snapshot keeps of its mappings: the lists and the maps made of them.
SnapshotOf(mappings, negatives, b) ==
  [mappings |-> mappings, negatives |-> negatives,
   map |-> MapOf(mappings), negative |-> MapOf(negatives), bytes |-> b]

\* Disjoint entries of the address space.
EntryList(E) ==
  P!Disjoint(E) /\ \A e \in E : /\ e.start \in 0..Limit /\ e.limit \in 0..Limit /\ e.start < e.limit
                                /\ e = P!Entry(e.start, e.limit, e.at)

\* The mappings of a snapshot give some permission, and what is mapped is none of them;
\* its bytes are known and lie in its mappings.
MappingList(E) ==
  EntryList(E) /\ \A e \in E : /\ e = Ranged(e, PermsOf(e))
                               /\ PermsOf(e) \subseteq Rwx /\ PermsOf(e) # {}
IsSnapshot(snap) ==
  /\ snap = SnapshotOf(snap.mappings, snap.negatives, snap.bytes)
  /\ MappingList(snap.mappings) /\ MappingList(snap.negatives) /\ EntryList(snap.bytes)
  /\ \A b \in snap.bytes : \A k \in b.start..(b.limit - 1) :
       b.at[k] # Unknown /\ P!Covered(snap.mappings, k)

ASSUME MemoryAssumption ==
  /\ Limit \in Nat /\ kMinSkipOverBytes \in Nat \ {0}
  /\ Rwx # {} /\ kMapped \notin Rwx /\ GivenPerms \subseteq Rwx
  /\ \A snap \in Snapshots : IsSnapshot(snap)

-----------------------------------------------------------------------------
(* The operations *)

MemoryInit == mapped = {} /\ written_memory = {} /\ bytes = {}

Ranges == {r \in (0..Limit) \X (0..Limit) : r[1] < r[2]}

\* DCHECKs that the range was not mapped.
AddNewMemoryMapping(s, l, p) ==
  /\ p # {} /\ P!Find(mapped, s, l) = {}
  /\ mapped' = AddPerms(mapped, s, l, p \cup {kMapped})
  /\ UNCHANGED <<written_memory, bytes>>

SetMemoryMappingEmptyPermsOk(s, l, p) ==
  /\ mapped' = SetPerms(mapped, s, l, p \cup {kMapped})
  /\ UNCHANGED <<written_memory, bytes>>

RemoveRanges(set, E) == B!ChangeRangeMap(set, E, "remove")

\* Mutant: the set of written addresses keeps what is unmapped.
RemoveMemoryMappingBytes(s, l) ==
  /\ mapped' = RemovePerms(mapped, s, l, AllPlusMapped)
  /\ bytes' = RemoveRanges(bytes, {P!Entry(s, l, P!Flat(s, l, {}))})
  /\ UNCHANGED written_memory

RemoveMemoryMapping(s, l) ==
  /\ mapped' = RemovePerms(mapped, s, l, AllPlusMapped)
  /\ written_memory' = RemoveRanges(written_memory, {P!Entry(s, l, P!Flat(s, l, {}))})
  /\ bytes' = RemoveRanges(bytes, {P!Entry(s, l, P!Flat(s, l, {}))})

Extra(snap) == RemoveRangesOf(mapped, snap.map, AllPlusMapped)

RemoveMemoryMappingsNotIn(snap) ==
  /\ mapped' = P!ChangeRangeMap(mapped, AllRanged(Extra(snap), AllPlusMapped), "remove")
  /\ written_memory' = RemoveRanges(written_memory, Extra(snap))
  /\ bytes' = RemoveRanges(bytes, Extra(snap))

ClearMemoryMappingsPermsNotIn(snap) ==
  /\ mapped' = P!ChangeRangeMap(mapped, AllRanged(Extra(snap), Rwx), "remove")
  /\ UNCHANGED <<written_memory, bytes>>

Put(set, E) == B!ChangeRangeMap(set, E, "add")
Members(E) == {B!Entry(e.start, e.limit, B!Flat(e.start, e.limit, TRUE)) : e \in E}

\* DCHECKs that the range is mapped.
SetMemoryBytes(s, l, f) ==
  /\ P!Covers(mapped, s, l)
  /\ written_memory' = Put(written_memory, Members({B!Entry(s, l, f)}))
  /\ bytes' = Put(bytes, {B!Entry(s, l, f)})
  /\ UNCHANGED mapped

ForgetMemoryBytes(s, l) ==
  /\ bytes' = RemoveRanges(bytes, {B!Entry(s, l, B!Flat(s, l, 0))})
  /\ UNCHANGED <<mapped, written_memory>>

\* Mutant: negative mappings count inside of the snapshot's own too.
UnfilteredNegative(snap) == snap.negative

\* The negative mappings outside of the snapshot's own, and what the state maps
\* with permissions that these forbid.
FilteredNegative(snap) ==
  RemoveRangesOf(snap.negative, snap.map, AllPlusMapped)
Forbidden(map, snap) == Intersection(map, FilteredNegative(snap))

\* SetMemoryMapping for each of the mappings, in the order of their keys.
SetMappings(map, mappings) ==
  LET changed[S \in SUBSET mappings] ==
        IF S = {} THEN map
        ELSE SetPerms(changed[S \ {P!Last(S)}], P!Last(S).start, P!Last(S).limit,
                      PermsOf(P!Last(S)) \cup {kMapped})
  IN  changed[mappings]

SetInitialState(snap, zeroing) ==
  LET new == RemoveRangesOf(snap.map, mapped, AllPlusMapped)
      zeros == IF zeroing
               THEN {B!Entry(e.start, e.limit, B!Flat(e.start, e.limit, 0)) : e \in new} ELSE {}
      set == SetMappings(mapped, snap.mappings)
  IN  /\ mapped' = P!ChangeRangeMap(set, Forbidden(set, snap), "remove")
      /\ written_memory' = Put(Put(written_memory, Members(zeros)), Members(snap.bytes))
      /\ bytes' = Put(Put(bytes, zeros), snap.bytes)

-----------------------------------------------------------------------------
(* The readers that produce commands *)

Cmd(action, e, p) == [action |-> action, start |-> e.start, limit |-> e.limit, perms |-> p]

DeltaMemoryMapping(m, added) ==
  LET p == PermsOf(m) \cup added \cup {kMapped}
  IN  IF mapped = {} THEN {Cmd("map", m, p \ {kMapped})}
      ELSE {Cmd(IF PermsOf(d) = p THEN "map" ELSE "protect", d, p \ {kMapped}) :
              d \in Difference(m.start, m.limit, p, mapped)}

DeltaMemoryMappings(snap, added) ==
  (UNION {DeltaMemoryMapping(m, added) : m \in snap.mappings})
    \cup {Cmd("protect", d, CommonPerms(mapped, d.start, d.limit) \ (PermsOf(d) \cup {kMapped})) :
            d \in Forbidden(mapped, snap)}

DeltaMemoryMappingsExact(snap, added, unmap) ==
  (UNION {DeltaMemoryMapping(m, added) : m \in snap.mappings})
    \cup IF unmap THEN {Cmd("unmap", d, {}) : d \in Extra(snap)}
         ELSE {Cmd("protect", d, {}) : d \in {d \in Extra(snap) : PermsOf(d) \cap Rwx # {}}}

\* The bytes of b that differ from the known ones or are not known, in chunks
\* that skip no fewer than kMinSkipOverBytes bytes.
DeltaMemoryBytes(b) ==
  LET Differs == {k \in b.start..(b.limit - 1) :
                    ~ B!Covered(bytes, k) \/ B!At(bytes, k) # b.at[k]}
      Skipped(i, j) == {k \in Differs : i < k /\ k < j} = {} /\ j - (i + 1) >= kMinSkipOverBytes
      First == {i \in Differs : \A k \in Differs : k < i => \E j \in Differs : j < i /\ Skipped(j, i)}
      Last == {i \in Differs : \A k \in Differs : i < k => \E j \in Differs : i < j /\ Skipped(i, j)}
  IN  {B!Entry(i, Min({j \in Last : j >= i}) + 1, b.at) : i \in First}

-----------------------------------------------------------------------------

MemoryNext ==
  \/ \E r \in Ranges :
       \/ \E p \in SUBSET GivenPerms : \/ AddNewMemoryMapping(r[1], r[2], p)
                                \/ SetMemoryMappingEmptyPermsOk(r[1], r[2], p)
       \/ RemoveMemoryMapping(r[1], r[2])
       \/ \E f \in Patterns : SetMemoryBytes(r[1], r[2], f)
       \/ ForgetMemoryBytes(r[1], r[2])
  \/ \E snap \in Snapshots : \/ RemoveMemoryMappingsNotIn(snap)
                             \/ ClearMemoryMappingsPermsNotIn(snap)
                             \/ \E z \in BOOLEAN : SetInitialState(snap, z)

MemorySpec == MemoryInit /\ [][MemoryNext]_memvars

-----------------------------------------------------------------------------
(* Properties *)

InSpace(map) ==
  P!Disjoint(map) /\ \A e \in map : 0 <= e.start /\ e.start < e.limit /\ e.limit <= Limit

\* Entries stay disjoint and inside the address space, and no neighbours are left
\* that could be one entry: operator== of the maps compares entries, so two equal
\* states would otherwise compare different.
MapsCanonical ==
  /\ InSpace(mapped) /\ InSpace(written_memory) /\ InSpace(bytes)
  /\ P!Canonical(mapped) /\ B!Canonical(written_memory) /\ B!Canonical(bytes)
  /\ \A e \in mapped : \A k \in DOMAIN e.at : e.at[k] = PermsOf(e) /\ kMapped \in e.at[k]

\* A byte is known only where it was written, and written only where memory is
\* mapped: what RemoveMemoryMapping unmaps it must forget in both.
BytesAreMapped ==
  \A k \in 0..(Limit - 1) : /\ B!Covered(bytes, k) => B!Covered(written_memory, k)
                            /\ B!Covered(written_memory, k) => P!Covered(mapped, k)

\* The three maps stay in normal form and agree, after any sequence of operations.
MapsConsistent == MapsCanonical /\ BytesAreMapped

ByteAt(map, k) == IF B!Covered(map, k) THEN B!At(map, k) ELSE Unknown

\* The permissions of address k after the commands.
After(cmds, k) ==
  LET here == {c \in cmds : P!Holds(c, k)}
  IN  IF here = {} THEN PermsAt(mapped, k)
      ELSE LET c == CHOOSE c \in here : TRUE
           IN  IF c.action = "unmap" THEN {} ELSE c.perms \cup {kMapped}

\* Commands are disjoint, map only what is not mapped, and protect or unmap only
\* what is.
Executable(cmds) ==
  /\ P!Disjoint(cmds)
  /\ \A c \in cmds : \A k \in c.start..(c.limit - 1) :
       (c.action = "map") = ~ P!Covered(mapped, k)

\* The commands for a snapshot give every address of it its permissions, those
\* added included, from any state; the exact ones leave nothing else mapped, or
\* nothing else accessible; the others take away what the snapshot forbids and
\* grant nothing outside of it.
DeltaReachesSnapshot ==
  \A snap \in Snapshots, added \in SUBSET GivenPerms :
    LET own == snap.map
        some == DeltaMemoryMappings(snap, added)
    IN  /\ Executable(some)
        /\ \A k \in 0..(Limit - 1) :
             IF P!Covered(own, k) THEN After(some, k) = P!At(own, k) \cup added \cup {kMapped}
             ELSE /\ After(some, k) \subseteq PermsAt(mapped, k)
                  /\ After(some, k) \cap PermsAt(snap.negative, k) = {}
        /\ \A unmap \in BOOLEAN :
             LET all == DeltaMemoryMappingsExact(snap, added, unmap)
             IN  /\ Executable(all)
                 /\ \A k \in 0..(Limit - 1) :
                      IF P!Covered(own, k) THEN After(all, k) = P!At(own, k) \cup added \cup {kMapped}
                      ELSE After(all, k) \subseteq (IF unmap THEN {} ELSE {kMapped})

\* The bytes to write for a snapshot lead to its bytes, begin and end with a byte
\* that has to change, and leave out every stretch long enough to skip.
DeltaBytesAreMinimal ==
  \A snap \in Snapshots : \A b \in snap.bytes :
    LET delta == DeltaMemoryBytes(b)
        Changes(k) == ByteAt(bytes, k) # b.at[k]
    IN  /\ P!Disjoint(delta)
        /\ \A k \in b.start..(b.limit - 1) : ~ P!Covered(delta, k) => ~ Changes(k)
        /\ \A d \in delta :
             /\ b.start <= d.start /\ d.limit <= b.limit
             /\ Changes(d.start) /\ Changes(d.limit - 1)
             /\ \A e \in delta : d.limit <= e.start => e.start - d.limit >= kMinSkipOverBytes
             /\ \A k \in d.start..(d.limit - kMinSkipOverBytes) :
                  \E j \in k..(k + kMinSkipOverBytes - 1) : Changes(j)

\* From any state, the commands and the bytes for a snapshot are executable, lead to its
\* memory, and are no more than that takes.
DeltaIsRight == DeltaReachesSnapshot /\ DeltaBytesAreMinimal

SnapshotImages == {[perms |-> [k \in 0..(Limit - 1) |-> PermsAt(s.map, k)],
                    negative |-> [k \in 0..(Limit - 1) |-> PermsAt(s.negative, k)],
                    bytes |-> [k \in 0..(Limit - 1) |-> ByteAt(s.bytes, k)]] : s \in Snapshots}

\* What the maps say address by address.
Image == INSTANCE AddressSpace WITH
  perms <- [k \in 0..(Limit - 1) |-> PermsAt(mapped, k)],
  byte <- [k \in 0..(Limit - 1) |-> ByteAt(bytes, k)],
  Images <- SnapshotImages

\* Every operation on the ranges does to each address what it says, and nothing to
\* the others.
RefinesAddressSpace == Image!ImageSpec
=============================================================================
