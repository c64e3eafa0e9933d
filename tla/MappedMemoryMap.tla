--------------------------- MODULE MappedMemoryMap ---------------------------
(***************************************************************************)
(* common/mapped_memory_map.{h,cc} with common/memory_perms.h: which       *)
(* addresses are mapped with which permissions, as a range map of sets of  *)
(* permissions.                                                            *)
(***************************************************************************)
EXTENDS Integers

CONSTANT Rwx  \* MemoryPerms::All()

\* "mapped" is a permission of its own, kept apart from those that give access.
kMapped == "mapped"
AllPlusMapped == Rwx \cup {kMapped}

PermsAdd(old, new) == old \cup new
PermsLeft(old, gone) == {old \ gone} \ {{}}
SamePerms(a, b) == a = b
P == INSTANCE RangeMap WITH Added <- PermsAdd, Remaining <- PermsLeft, CanMerge <- SamePerms

\* An entry has one value: its permissions.
PermsOf(e) == e.at[e.start]
Cells(e) == e.start..(e.limit - 1)
PermsAt(map, k) == IF P!Covered(map, k) THEN P!At(map, k) ELSE {}

AddPerms(map, s, l, p) == P!Add(map, s, l, P!Flat(s, l, p))
RemovePerms(map, s, l, p) == P!Remove(map, s, l, P!Flat(s, l, p))
SetPerms(map, s, l, p) == AddPerms(RemovePerms(map, s, l, AllPlusMapped), s, l, p)

\* The range of e with the permissions p.
Ranged(e, p) == P!Entry(e.start, e.limit, P!Flat(e.start, e.limit, p))
AllRanged(E, p) == {Ranged(e, p) : e \in E}

RemoveRangesOf(x, y, p) ==
  P!ChangeRangeMap(x, AllRanged({e \in y : P!Find(x, e.start, e.limit) # {}}, p), "remove")

\* The permissions common to x and y, and those of p on [s, l) that the map y lacks.
Intersection(x, y) ==
  LET common == UNION {{Ranged(c, PermsOf(c) \cap PermsOf(e)) : c \in P!Clipped(x, e.start, e.limit)} :
                         e \in y}
  IN  P!ChangeRangeMap({}, {c \in common : PermsOf(c) # {}}, "add")
Difference(s, l, p, y) ==
  LET lacking == {Ranged(c, p \ PermsOf(c)) : c \in {c \in P!Clipped(y, s, l) : PermsOf(c) # p}}
      gaps == {P!Entry(g[1], g[2], P!Flat(g[1], g[2], p)) : g \in P!Gaps(y, s, l)}
  IN  P!ChangeRangeMap({}, lacking \cup gaps, "add")

\* Perms over a range, joined by kOr and by kAnd.
SomePerms(map, s, l) == UNION {PermsOf(e) : e \in P!Find(map, s, l)}
CommonPerms(map, s, l) ==
  IF P!Covers(map, s, l)
  THEN {p \in AllPlusMapped : \A e \in P!Find(map, s, l) : p \in PermsOf(e)}
  ELSE {}

\* A list of mappings as a map.
MapOf(mappings) == P!ChangeRangeMap({}, mappings, "add")
=============================================================================
