-------------------------- MODULE MemoryStateProofs --------------------------
(***************************************************************************)
(* Theorems about MemoryState for an address space of any size and any     *)
(* snapshots whose lists are as can_add_* admits them: its three maps stay *)
(* in normal form and agree, its operations on ranges implement those of   *)
(* AddressSpace on single addresses, and the commands and bytes that it    *)
(* gives for a snapshot lead to its memory.  Every operation of            *)
(* MappedMemoryMap and of the sets of bytes is first shown to do to each   *)
(* address what it says, by the theorems of RangeMapProofs.                *)
(* And Snapshot: its lists and maps agree after any sequence of edits.     *)
(***************************************************************************)
EXTENDS MCData, FiniteSetTheorems, TLAPS

PL == INSTANCE RangeMapProofs WITH Added <- PermsAdd, Remaining <- PermsLeft, CanMerge <- SamePerms
BL == INSTANCE RangeMapProofs WITH Added <- ByteAdd, Remaining <- NothingLeft, CanMerge <- Always

\* The maps of the two instances are those of the modules that the model uses.
LEMMA SamePermsMaps ==
  /\ \A m, k : P!Covered(m, k) <=> PL!Covered(m, k)
  /\ \A m, k : P!At(m, k) = PL!At(m, k)
  /\ \A m : P!Canonical(m) <=> PL!Canonical(m)
  /\ \A m : P!Disjoint(m) <=> PL!Disjoint(m)
  /\ \A m, s, l, f : P!Add(m, s, l, f) = PL!Add(m, s, l, f)
  /\ \A m, s, l, f : P!Remove(m, s, l, f) = PL!Remove(m, s, l, f)
  /\ \A m, E, mode : P!ChangeRangeMap(m, E, mode) = PL!ChangeRangeMap(m, E, mode)
<1>1. \A m, k : P!Covered(m, k) <=> PL!Covered(m, k)
  BY DEF P!Covered, PL!Covered, P!Holds, PL!Holds
<1>2. \A m, k : P!At(m, k) = PL!At(m, k)
  BY DEF P!At, PL!At, P!Holds, PL!Holds
<1>3. \A m : P!Canonical(m) <=> PL!Canonical(m)
  BY DEF P!Canonical, PL!Canonical
<1>4. \A m : P!Disjoint(m) <=> PL!Disjoint(m)
  BY DEF P!Disjoint, PL!Disjoint
<1>5. \A m, s, l, f : P!Add(m, s, l, f) = PL!Add(m, s, l, f)
  BY DEF P!Add, PL!Add, P!AddedTo, PL!AddedTo, P!Untouched, PL!Untouched, P!Rest, PL!Rest,
         P!Affected, PL!Affected, P!Shared, PL!Shared, P!Gaps, PL!Gaps, P!Find, PL!Find,
         P!Entry, PL!Entry, P!Merge, PL!Merge, P!Joined, PL!Joined, P!Runs, PL!Runs,
         P!Joints, PL!Joints, P!At, PL!At, P!Holds, PL!Holds
<1>6. \A m, s, l, f : P!Remove(m, s, l, f) = PL!Remove(m, s, l, f)
  BY DEF P!Remove, PL!Remove, P!RemovedFrom, PL!RemovedFrom, P!Untouched, PL!Untouched, P!Rest, PL!Rest,
         P!Affected, PL!Affected, P!Shared, PL!Shared, P!Find, PL!Find,
         P!Entry, PL!Entry, P!Merge, PL!Merge, P!Joined, PL!Joined, P!Runs, PL!Runs,
         P!Joints, PL!Joints, P!At, PL!At, P!Holds, PL!Holds
<1>7. \A m, E, mode : P!ChangeRangeMap(m, E, mode) = PL!ChangeRangeMap(m, E, mode)
  BY DEF P!ChangeRangeMap, PL!ChangeRangeMap, P!Change, PL!Change, P!Last, PL!Last,
         P!Add, PL!Add, P!AddedTo, PL!AddedTo, P!Remove, PL!Remove, P!RemovedFrom, PL!RemovedFrom,
         P!Untouched, PL!Untouched, P!Rest, PL!Rest,
         P!Affected, PL!Affected, P!Shared, PL!Shared, P!Gaps, PL!Gaps, P!Find, PL!Find,
         P!Entry, PL!Entry, P!Merge, PL!Merge, P!Joined, PL!Joined, P!Runs, PL!Runs,
         P!Joints, PL!Joints, P!At, PL!At, P!Holds, PL!Holds
<1> QED
  BY <1>1, <1>2, <1>3, <1>4, <1>5, <1>6, <1>7

LEMMA SameBytesMaps ==
  /\ \A m, k : B!Covered(m, k) <=> BL!Covered(m, k)
  /\ \A m, k : B!At(m, k) = BL!At(m, k)
  /\ \A m : B!Canonical(m) <=> BL!Canonical(m)
  /\ \A m : B!Disjoint(m) <=> BL!Disjoint(m)
  /\ \A m, s, l, f : B!Add(m, s, l, f) = BL!Add(m, s, l, f)
  /\ \A m, s, l, f : B!Remove(m, s, l, f) = BL!Remove(m, s, l, f)
  /\ \A m, E, mode : B!ChangeRangeMap(m, E, mode) = BL!ChangeRangeMap(m, E, mode)
<1>1. \A m, k : B!Covered(m, k) <=> BL!Covered(m, k)
  BY DEF B!Covered, BL!Covered, B!Holds, BL!Holds
<1>2. \A m, k : B!At(m, k) = BL!At(m, k)
  BY DEF B!At, BL!At, B!Holds, BL!Holds
<1>3. \A m : B!Canonical(m) <=> BL!Canonical(m)
  BY DEF B!Canonical, BL!Canonical
<1>4. \A m : B!Disjoint(m) <=> BL!Disjoint(m)
  BY DEF B!Disjoint, BL!Disjoint
<1>5. \A m, s, l, f : B!Add(m, s, l, f) = BL!Add(m, s, l, f)
  BY DEF B!Add, BL!Add, B!AddedTo, BL!AddedTo, B!Untouched, BL!Untouched, B!Rest, BL!Rest,
         B!Affected, BL!Affected, B!Shared, BL!Shared, B!Gaps, BL!Gaps, B!Find, BL!Find,
         B!Entry, BL!Entry, B!Merge, BL!Merge, B!Joined, BL!Joined, B!Runs, BL!Runs,
         B!Joints, BL!Joints, B!At, BL!At, B!Holds, BL!Holds
<1>6. \A m, s, l, f : B!Remove(m, s, l, f) = BL!Remove(m, s, l, f)
  BY DEF B!Remove, BL!Remove, B!RemovedFrom, BL!RemovedFrom, B!Untouched, BL!Untouched, B!Rest, BL!Rest,
         B!Affected, BL!Affected, B!Shared, BL!Shared, B!Find, BL!Find,
         B!Entry, BL!Entry, B!Merge, BL!Merge, B!Joined, BL!Joined, B!Runs, BL!Runs,
         B!Joints, BL!Joints, B!At, BL!At, B!Holds, BL!Holds
<1>7. \A m, E, mode : B!ChangeRangeMap(m, E, mode) = BL!ChangeRangeMap(m, E, mode)
  BY DEF B!ChangeRangeMap, BL!ChangeRangeMap, B!Change, BL!Change, B!Last, BL!Last,
         B!Add, BL!Add, B!AddedTo, BL!AddedTo, B!Remove, BL!Remove, B!RemovedFrom, BL!RemovedFrom,
         B!Untouched, BL!Untouched, B!Rest, BL!Rest,
         B!Affected, BL!Affected, B!Shared, BL!Shared, B!Gaps, BL!Gaps, B!Find, BL!Find,
         B!Entry, BL!Entry, B!Merge, BL!Merge, B!Joined, BL!Joined, B!Runs, BL!Runs,
         B!Joints, BL!Joints, B!At, BL!At, B!Holds, BL!Holds
<1> QED
  BY <1>1, <1>2, <1>3, <1>4, <1>5, <1>6, <1>7

-----------------------------------------------------------------------------
(* Maps of permissions, address by address *)

\* The entries of m lie in the address space and give some permission each.
PermsMap(m) ==
  /\ PL!IsMap(m) /\ PL!OneValue(m)
  /\ \A e \in m : 0 <= e.start /\ e.limit <= Limit /\ PermsOf(e) \subseteq AllPlusMapped /\ PermsOf(e) # {}

\* What PermsMap says of an address.
LEMMA PermsMapIs ==
  ASSUME NEW m, PermsMap(m), NEW k \in Int
  PROVE  /\ PL!Covered(m, k) <=> PermsAt(m, k) # {}
         /\ PermsAt(m, k) = IF PL!Covered(m, k) THEN PL!At(m, k) ELSE {}
         /\ PermsAt(m, k) \subseteq AllPlusMapped
         /\ PermsAt(m, k) # {} => 0 <= k /\ k < Limit
<1>1. PermsAt(m, k) = IF PL!Covered(m, k) THEN PL!At(m, k) ELSE {}
  BY SamePermsMaps DEF PermsAt
<1>2. ASSUME NEW e \in m, PL!Holds(e, k)
      PROVE  /\ PL!Covered(m, k) /\ PL!At(m, k) = PermsOf(e)
             /\ PermsOf(e) \subseteq AllPlusMapped /\ PermsOf(e) # {} /\ 0 <= k /\ k < Limit
  <2>1. PL!IsMap(m) /\ PL!OneValue(m)
    BY DEF PermsMap
  <2>2. PL!Covered(m, k) /\ PL!At(m, k) = e.at[k]
    BY <1>2, <2>1, PL!AtIs
  <2>3. e.start \in Int /\ e.limit \in Int /\ e.start < e.limit /\ PL!Holds(e, e.start)
    BY <2>1 DEF PL!IsMap, PL!IsEntry, PL!Holds
  <2>4. e.at[k] = e.at[e.start]
    BY <1>2, <2>1, <2>3 DEF PL!OneValue
  <2>5. 0 <= e.start /\ e.limit <= Limit /\ PermsOf(e) \subseteq AllPlusMapped /\ PermsOf(e) # {}
    BY DEF PermsMap
  <2>6. 0 <= k /\ k < Limit
    BY <1>2, <2>3, <2>5, MemoryAssumption DEF PL!Holds
  <2> QED
    BY <2>2, <2>4, <2>5, <2>6 DEF PermsOf
<1>3. PL!Covered(m, k) => \E e \in m : PL!Holds(e, k)
  BY DEF PL!Covered
<1> QED
  BY <1>1, <1>2, <1>3

\* A map is a map of permissions if its addresses have them.
LEMMA PermsMapFrom ==
  ASSUME NEW m, PL!IsMap(m), PL!OneValue(m),
         \A k \in Int : PL!Covered(m, k) =>
           0 <= k /\ k < Limit /\ PL!At(m, k) \subseteq AllPlusMapped /\ PL!At(m, k) # {}
  PROVE  PermsMap(m)
<1> SUFFICES ASSUME NEW e \in m
             PROVE  0 <= e.start /\ e.limit <= Limit /\ PermsOf(e) \subseteq AllPlusMapped /\ PermsOf(e) # {}
  BY DEF PermsMap
<1>1. /\ e.start \in Int /\ e.limit \in Int /\ e.start < e.limit /\ e.limit - 1 \in Int
      /\ PL!Holds(e, e.start) /\ PL!Holds(e, e.limit - 1)
  BY DEF PL!IsMap, PL!IsEntry, PL!Holds
<1>2. PL!Covered(m, e.start) /\ PL!Covered(m, e.limit - 1) /\ PL!At(m, e.start) = PermsOf(e)
  BY <1>1, PL!AtIs DEF PermsOf
<1>3. e.limit - 1 < Limit
  BY <1>1, <1>2
<1> QED
  BY <1>1, <1>2, <1>3, MemoryAssumption

LEMMA PermsBounded ==
  ASSUME NEW m, PermsMap(m)
  PROVE  PL!Bounded(m)
<1>1. \A e \in m : 0 <= e.start /\ e.start < Limit
  BY MemoryAssumption DEF PermsMap, PL!IsMap, PL!IsEntry
<1> QED
  BY <1>1, MemoryAssumption DEF PL!Bounded

LEMMA PermsMerge == PL!SameMerge
BY DEF PL!SameMerge, SamePerms

\* Sums and rests of maps of permissions.
LEMMA SumOfPerms ==
  ASSUME NEW m, PermsMap(m), NEW E, PermsMap(E), NEW r, PL!IsSum(r, m, E)
  PROVE  /\ PermsMap(r) /\ (PL!Canonical(m) => PL!Canonical(r))
         /\ \A k \in Int : PermsAt(r, k) = PermsAt(m, k) \cup PermsAt(E, k)
<1>1. PL!IsMap(r) /\ PL!OneValue(r) /\ (PL!Canonical(m) => PL!Canonical(r))
  BY PermsMerge DEF PL!IsSum, PermsMap
<1>2. ASSUME NEW k \in Int
      PROVE  /\ PL!Covered(r, k) <=> PermsAt(m, k) \cup PermsAt(E, k) # {}
             /\ PL!Covered(r, k) => PL!At(r, k) = PermsAt(m, k) \cup PermsAt(E, k)
  <2>1. /\ PL!Covered(m, k) <=> PermsAt(m, k) # {}
        /\ PermsAt(m, k) = IF PL!Covered(m, k) THEN PL!At(m, k) ELSE {}
        /\ PL!Covered(E, k) <=> PermsAt(E, k) # {}
        /\ PermsAt(E, k) = IF PL!Covered(E, k) THEN PL!At(E, k) ELSE {}
    BY PermsMapIs
  <2>2. /\ PL!Covered(r, k) <=> PL!Covered(m, k) \/ PL!Covered(E, k)
        /\ PL!Covered(r, k) =>
             PL!At(r, k) = IF ~ PL!Covered(E, k) THEN PL!At(m, k)
                           ELSE IF PL!Covered(m, k) THEN PermsAdd(PL!At(m, k), PL!At(E, k)) ELSE PL!At(E, k)
    BY DEF PL!IsSum
  <2> QED
    BY <2>1, <2>2 DEF PermsAdd
<1>3. \A k \in Int : PermsAt(r, k) = PermsAt(m, k) \cup PermsAt(E, k)
  BY <1>2, SamePermsMaps DEF PermsAt
<1>4. PermsMap(r)
  <2>1. ASSUME NEW k \in Int, PL!Covered(r, k)
        PROVE  0 <= k /\ k < Limit /\ PL!At(r, k) \subseteq AllPlusMapped /\ PL!At(r, k) # {}
    BY <1>2, <2>1, PermsMapIs
  <2> QED
    BY <1>1, <2>1, PermsMapFrom
<1> QED
  BY <1>1, <1>3, <1>4

LEMMA RestOfPerms ==
  ASSUME NEW m, PermsMap(m), NEW E, PermsMap(E), NEW r, PL!IsRest(r, m, E)
  PROVE  /\ PermsMap(r) /\ (PL!Canonical(m) => PL!Canonical(r))
         /\ \A k \in Int : PermsAt(r, k) = PermsAt(m, k) \ PermsAt(E, k)
<1>1. PL!IsMap(r) /\ PL!OneValue(r) /\ (PL!Canonical(m) => PL!Canonical(r))
  BY PermsMerge DEF PL!IsRest, PermsMap
<1>2. ASSUME NEW k \in Int
      PROVE  /\ PL!Covered(r, k) <=> PermsAt(m, k) \ PermsAt(E, k) # {}
             /\ PL!Covered(r, k) => PL!At(r, k) = PermsAt(m, k) \ PermsAt(E, k)
  <2>1. /\ PL!Covered(m, k) <=> PermsAt(m, k) # {}
        /\ PermsAt(m, k) = IF PL!Covered(m, k) THEN PL!At(m, k) ELSE {}
        /\ PL!Covered(E, k) <=> PermsAt(E, k) # {}
        /\ PermsAt(E, k) = IF PL!Covered(E, k) THEN PL!At(E, k) ELSE {}
    BY PermsMapIs
  <2>2. /\ PL!Covered(r, k) <=>
             PL!Covered(m, k) /\ (PL!Covered(E, k) => PermsLeft(PL!At(m, k), PL!At(E, k)) # {})
        /\ PL!Covered(r, k) =>
             PL!At(r, k) = IF PL!Covered(E, k) THEN CHOOSE x \in PermsLeft(PL!At(m, k), PL!At(E, k)) : TRUE
                           ELSE PL!At(m, k)
    BY DEF PL!IsRest
  <2>3. \A a, b : /\ PermsLeft(a, b) # {} <=> a \ b # {}
                  /\ PermsLeft(a, b) # {} => (CHOOSE x \in PermsLeft(a, b) : TRUE) = a \ b
    BY DEF PermsLeft
  <2> QED
    BY <2>1, <2>2, <2>3
<1>3. \A k \in Int : PermsAt(r, k) = PermsAt(m, k) \ PermsAt(E, k)
  BY <1>2, SamePermsMaps DEF PermsAt
<1>4. PermsMap(r)
  <2>1. ASSUME NEW k \in Int, PL!Covered(r, k)
        PROVE  0 <= k /\ k < Limit /\ PL!At(r, k) \subseteq AllPlusMapped /\ PL!At(r, k) # {}
    BY <1>2, <2>1, PermsMapIs
  <2> QED
    BY <1>1, <2>1, PermsMapFrom
<1> QED
  BY <1>1, <1>3, <1>4

-----------------------------------------------------------------------------
(* The operations of MappedMemoryMap *)

LEMMA NoPerms == PermsMap({}) /\ PL!Canonical({}) /\ \A k \in Int : PermsAt({}, k) = {}
BY SamePermsMaps DEF PermsMap, PermsAt, PL!IsMap, PL!OneValue, PL!Disjoint, PL!Canonical, PL!Covered

LEMMA PermsAdded ==
  ASSUME NEW m, PermsMap(m), NEW E, PermsMap(E), NEW r, r = P!ChangeRangeMap(m, E, "add")
  PROVE  /\ PermsMap(r) /\ (P!Canonical(m) => P!Canonical(r))
         /\ \A k \in Int : PermsAt(r, k) = PermsAt(m, k) \cup PermsAt(E, k)
<1>1. PL!IsMap(m) /\ PL!IsMap(E) /\ PL!Bounded(E)
  BY PermsBounded DEF PermsMap
<1>2. PL!IsSum(PL!ChangeRangeMap(m, E, "add"), m, E)
  BY <1>1, PL!AddRangeMapIsPointwise
<1>3. PL!IsSum(r, m, E)
  BY <1>2, SamePermsMaps
<1> QED
  BY <1>3, SumOfPerms, SamePermsMaps

LEMMA PermsRemoved ==
  ASSUME NEW m, PermsMap(m), NEW E, PermsMap(E), NEW r, r = P!ChangeRangeMap(m, E, "remove")
  PROVE  /\ PermsMap(r) /\ (P!Canonical(m) => P!Canonical(r))
         /\ \A k \in Int : PermsAt(r, k) = PermsAt(m, k) \ PermsAt(E, k)
<1>1. PL!IsMap(m) /\ PL!IsMap(E) /\ PL!Bounded(E) /\ PL!AllAlike(m, E)
  BY PermsBounded, PermsMerge DEF PermsMap, PL!AllAlike
<1>2. PL!IsRest(PL!ChangeRangeMap(m, E, "remove"), m, E)
  BY <1>1, PL!RemoveRangeMapIsPointwise
<1>3. PL!IsRest(r, m, E)
  BY <1>2, SamePermsMaps
<1> QED
  BY <1>3, RestOfPerms, SamePermsMaps

\* An entry of one value.
LEMMA FlatEntry ==
  ASSUME NEW s \in Int, NEW l \in Int, s < l, NEW p, NEW e, e = P!Entry(s, l, P!Flat(s, l, p))
  PROVE  /\ PL!IsEntry(e) /\ e.start = s /\ e.limit = l /\ e.at = P!Flat(s, l, p) /\ PermsOf(e) = p
         /\ \A k \in Int : PL!Holds(e, k) => e.at[k] = p
<1> DEFINE f == P!Flat(s, l, p)
<1>1. f = [k \in s..(l - 1) |-> p]
  BY DEF P!Flat
<1>2. \A k \in s..(l - 1) : f[k] = p
  BY <1>1
<1>3. [k \in s..(l - 1) |-> f[k]] = f
  BY <1>1
<1> HIDE DEF f
<1>4. e = [start |-> s, limit |-> l, at |-> f]
  BY <1>3 DEF P!Entry, f
<1>5. e.start = s /\ e.limit = l /\ e.at = f
  BY <1>4
<1>6. PL!IsEntry(e)
  BY <1>3, <1>4, <1>5 DEF PL!IsEntry, PL!Entry
<1>7. \A k \in Int : PL!Holds(e, k) => e.at[k] = p
  BY <1>2, <1>5 DEF PL!Holds
<1>8. PermsOf(e) = p
  BY <1>2, <1>5 DEF PermsOf
<1> QED
  BY <1>5, <1>6, <1>7, <1>8 DEF f

LEMMA OneRange ==
  ASSUME NEW s \in 0..Limit, NEW l \in 0..Limit, s < l, NEW p, p \subseteq AllPlusMapped, p # {},
         NEW e, e = P!Entry(s, l, P!Flat(s, l, p))
  PROVE  /\ PermsMap({e})
         /\ \A k \in Int : PermsAt({e}, k) = IF s <= k /\ k < l THEN p ELSE {}
<1>1. s \in Int /\ l \in Int /\ 0 <= s /\ l <= Limit
  BY MemoryAssumption
<1>2. /\ PL!IsEntry(e) /\ e.start = s /\ e.limit = l /\ PermsOf(e) = p
      /\ \A k \in Int : PL!Holds(e, k) => e.at[k] = p
  BY <1>1, FlatEntry
<1>3. PL!IsMap({e}) /\ PL!OneValue({e})
  BY <1>2 DEF PL!IsMap, PL!Disjoint, PL!OneValue
<1>4. PermsMap({e})
  BY <1>1, <1>2, <1>3 DEF PermsMap
<1>5. ASSUME NEW k \in Int PROVE PermsAt({e}, k) = IF s <= k /\ k < l THEN p ELSE {}
  <2>1. PL!Holds(e, k) <=> s <= k /\ k < l
    BY <1>2 DEF PL!Holds
  <2>2. PL!Holds(e, k) => PL!At({e}, k) = e.at[k] /\ PL!Covered({e}, k)
    BY <1>3, PL!AtIs
  <2>3. PL!Covered({e}, k) => PL!Holds(e, k)
    BY DEF PL!Covered
  <2> QED
    BY <1>2, <2>1, <2>2, <2>3, SamePermsMaps DEF PermsAt
<1> QED
  BY <1>4, <1>5

LEMMA AddPermsIs ==
  ASSUME NEW m, PermsMap(m), NEW s \in 0..Limit, NEW l \in 0..Limit, s < l,
         NEW p, p \subseteq AllPlusMapped, p # {}, NEW r, r = AddPerms(m, s, l, p)
  PROVE  /\ PermsMap(r) /\ (P!Canonical(m) => P!Canonical(r))
         /\ \A k \in Int : PermsAt(r, k) = IF s <= k /\ k < l THEN PermsAt(m, k) \cup p ELSE PermsAt(m, k)
<1> DEFINE e == P!Entry(s, l, P!Flat(s, l, p))
<1>1. /\ PermsMap({e})
      /\ \A k \in Int : PermsAt({e}, k) = IF s <= k /\ k < l THEN p ELSE {}
  BY OneRange
<1>2. e.start = s /\ e.limit = l /\ e.at = P!Flat(s, l, p)
  <2>1. s \in Int /\ l \in Int
    BY MemoryAssumption
  <2> QED
    BY <2>1, FlatEntry
<1>3. r = PL!Add(m, e.start, e.limit, e.at)
  BY <1>2, SamePermsMaps DEF AddPerms
<1> HIDE DEF e
<1>4. PL!IsMap({e}) /\ {e} \ {e} = {} /\ e \in {e}
  BY <1>1 DEF PermsMap
<1>5. PL!IsSum(m, m, {})
  BY DEF PL!IsSum, PL!Covered, PermsMap
<1>6. PL!IsSum(m, m, {e} \ {e})
  BY <1>4, <1>5
<1>7. PL!IsSum(r, m, {e})
  BY <1>3, <1>4, <1>6, PL!AddLast
<1>8. /\ PermsMap(r) /\ (P!Canonical(m) => P!Canonical(r))
      /\ \A k \in Int : PermsAt(r, k) = PermsAt(m, k) \cup PermsAt({e}, k)
  BY <1>1, <1>7, SumOfPerms, SamePermsMaps
<1> QED
  BY <1>1, <1>8

LEMMA RemovePermsIs ==
  ASSUME NEW m, PermsMap(m), NEW s \in 0..Limit, NEW l \in 0..Limit, s < l,
         NEW p, p \subseteq AllPlusMapped, p # {}, NEW r, r = RemovePerms(m, s, l, p)
  PROVE  /\ PermsMap(r) /\ (P!Canonical(m) => P!Canonical(r))
         /\ \A k \in Int : PermsAt(r, k) = IF s <= k /\ k < l THEN PermsAt(m, k) \ p ELSE PermsAt(m, k)
<1> DEFINE e == P!Entry(s, l, P!Flat(s, l, p))
<1>1. /\ PermsMap({e})
      /\ \A k \in Int : PermsAt({e}, k) = IF s <= k /\ k < l THEN p ELSE {}
  BY OneRange
<1>2. e.start = s /\ e.limit = l /\ e.at = P!Flat(s, l, p)
  <2>1. s \in Int /\ l \in Int
    BY MemoryAssumption
  <2> QED
    BY <2>1, FlatEntry
<1>3. r = PL!Remove(m, e.start, e.limit, e.at)
  BY <1>2, SamePermsMaps DEF RemovePerms
<1> HIDE DEF e
<1>4. PL!IsMap({e}) /\ {e} \ {e} = {} /\ e \in {e} /\ PL!AllAlike(m, {e})
  BY <1>1, PermsMerge DEF PermsMap, PL!AllAlike
<1>5. PL!IsRest(m, m, {})
  BY DEF PL!IsRest, PL!Covered, PermsMap
<1>6. PL!IsRest(m, m, {e} \ {e})
  BY <1>4, <1>5
<1>7. PL!IsRest(r, m, {e})
  BY <1>3, <1>4, <1>6, PL!RemoveLast
<1>8. /\ PermsMap(r) /\ (P!Canonical(m) => P!Canonical(r))
      /\ \A k \in Int : PermsAt(r, k) = PermsAt(m, k) \ PermsAt({e}, k)
  BY <1>1, <1>7, RestOfPerms, SamePermsMaps
<1> QED
  BY <1>1, <1>8

LEMMA SetPermsIs ==
  ASSUME NEW m, PermsMap(m), NEW s \in 0..Limit, NEW l \in 0..Limit, s < l,
         NEW p, p \subseteq AllPlusMapped, p # {}, NEW r, r = SetPerms(m, s, l, p)
  PROVE  /\ PermsMap(r) /\ (P!Canonical(m) => P!Canonical(r))
         /\ \A k \in Int : PermsAt(r, k) = IF s <= k /\ k < l THEN p ELSE PermsAt(m, k)
<1> DEFINE cleared == RemovePerms(m, s, l, AllPlusMapped)
<1>1. AllPlusMapped # {} /\ AllPlusMapped \subseteq AllPlusMapped
  BY DEF AllPlusMapped
<1>2. /\ PermsMap(cleared) /\ (P!Canonical(m) => P!Canonical(cleared))
      /\ \A k \in Int : PermsAt(cleared, k) = IF s <= k /\ k < l THEN PermsAt(m, k) \ AllPlusMapped
                                              ELSE PermsAt(m, k)
  BY <1>1, RemovePermsIs
<1>3. r = AddPerms(cleared, s, l, p)
  BY DEF SetPerms
<1> HIDE DEF cleared
<1>4. /\ PermsMap(r) /\ (P!Canonical(cleared) => P!Canonical(r))
      /\ \A k \in Int : PermsAt(r, k) = IF s <= k /\ k < l THEN PermsAt(cleared, k) \cup p
                                        ELSE PermsAt(cleared, k)
  BY <1>2, <1>3, AddPermsIs
<1>5. \A k \in Int : PermsAt(m, k) \ AllPlusMapped = {}
  BY PermsMapIs
<1> QED
  BY <1>2, <1>4, <1>5

-----------------------------------------------------------------------------
(* Maps made of maps *)

\* Entries of one value of which no two hold the same address.
LEMMA EntriesApart ==
  ASSUME NEW U, \A u \in U : PL!IsEntry(u) /\ \A k \in Int : PL!Holds(u, k) => u.at[k] = PermsOf(u),
         \A u, v \in U : \A k \in Int : PL!Holds(u, k) /\ PL!Holds(v, k) => u = v
  PROVE  PL!IsMap(U) /\ PL!OneValue(U)
<1>1. \A u \in U : u.start \in Int /\ u.limit \in Int /\ u.start < u.limit
  BY DEF PL!IsEntry
<1>2. PL!Disjoint(U)
  <2> SUFFICES ASSUME NEW u \in U, NEW v \in U, ~ (u.limit <= v.start \/ v.limit <= u.start) PROVE u = v
    BY DEF PL!Disjoint
  <2>1. CASE u.start <= v.start
    <3>1. PL!Holds(u, v.start) /\ PL!Holds(v, v.start)
      BY <1>1, <2>1 DEF PL!Holds
    <3> QED
      BY <1>1, <3>1
  <2>2. CASE v.start <= u.start
    <3>1. PL!Holds(u, u.start) /\ PL!Holds(v, u.start)
      BY <1>1, <2>2 DEF PL!Holds
    <3> QED
      BY <1>1, <3>1
  <2> QED
    BY <1>1, <2>1, <2>2
<1> QED
  BY <1>2 DEF PL!IsMap, PL!OneValue

\* A set of entries of the address space with one value each is a map of permissions if
\* no two of them hold the same address.
LEMMA EntriesOfPerms ==
  ASSUME NEW U,
         \A u \in U : /\ PL!IsEntry(u) /\ 0 <= u.start /\ u.limit <= Limit
                      /\ PermsOf(u) \subseteq AllPlusMapped /\ PermsOf(u) # {}
                      /\ \A k \in Int : PL!Holds(u, k) => u.at[k] = PermsOf(u),
         \A u, v \in U : \A k \in Int : PL!Holds(u, k) /\ PL!Holds(v, k) => u = v
  PROVE  PermsMap(U)
<1>1. PL!IsMap(U) /\ PL!OneValue(U)
  BY EntriesApart
<1> QED
  BY <1>1 DEF PermsMap

\* An address has the permissions of the entry that holds it.
LEMMA PermsOfHolder ==
  ASSUME NEW m, PermsMap(m), NEW k \in Int
  PROVE  /\ \A e \in m : PL!Holds(e, k) => PermsAt(m, k) = PermsOf(e)
         /\ PermsAt(m, k) # {} => \E e \in m : PL!Holds(e, k)
<1>1. ASSUME NEW e \in m, PL!Holds(e, k) PROVE PermsAt(m, k) = PermsOf(e)
  <2>1. PL!IsMap(m) /\ PL!OneValue(m)
    BY DEF PermsMap
  <2>2. PL!Covered(m, k) /\ PL!At(m, k) = e.at[k]
    BY <1>1, <2>1, PL!AtIs
  <2>3. e.start \in Int /\ PL!Holds(e, e.start)
    BY <2>1 DEF PL!IsMap, PL!IsEntry, PL!Holds
  <2>4. e.at[k] = e.at[e.start]
    BY <1>1, <2>1, <2>3 DEF PL!OneValue
  <2> QED
    BY <2>2, <2>4, PermsMapIs DEF PermsOf
<1>2. PermsAt(m, k) # {} => \E e \in m : PL!Holds(e, k)
  BY PermsMapIs DEF PL!Covered
<1> QED
  BY <1>1, <1>2

LEMMA EntryOfPerms ==
  ASSUME NEW m, PermsMap(m), NEW e \in m
  PROVE  /\ PL!IsEntry(e) /\ e.start \in Int /\ e.limit \in Int /\ e.start < e.limit
         /\ e.start \in 0..Limit /\ e.limit \in 0..Limit
         /\ PermsOf(e) \subseteq AllPlusMapped /\ PermsOf(e) # {}
         /\ \A k \in Int : PL!Holds(e, k) => e.at[k] = PermsOf(e)
<1>1. /\ PL!IsEntry(e) /\ PL!OneValue(m) /\ 0 <= e.start /\ e.limit <= Limit
      /\ PermsOf(e) \subseteq AllPlusMapped /\ PermsOf(e) # {}
  BY DEF PermsMap, PL!IsMap
<1>2. e.start \in Int /\ e.limit \in Int /\ e.start < e.limit
  BY <1>1 DEF PL!IsEntry
<1>3. PL!Holds(e, e.start)
  BY <1>2 DEF PL!Holds
<1> QED
  BY <1>1, <1>2, <1>3, MemoryAssumption DEF PL!OneValue, PermsOf

LEMMA SomePermsMap ==
  ASSUME NEW m, PermsMap(m), NEW S \in SUBSET m
  PROVE  PermsMap(S)
BY DEF PermsMap, PL!IsMap, PL!OneValue, PL!Disjoint

\* The entries of E, all with the permissions p.
LEMMA AllRangedIs ==
  ASSUME NEW E, PermsMap(E), NEW p, p \subseteq AllPlusMapped, p # {}
  PROVE  /\ PermsMap(AllRanged(E, p))
         /\ \A k \in Int : PermsAt(AllRanged(E, p), k) = IF PermsAt(E, k) # {} THEN p ELSE {}
<1> DEFINE U == AllRanged(E, p)
<1>1. ASSUME NEW e \in E
      PROVE  /\ PL!IsEntry(Ranged(e, p)) /\ Ranged(e, p).start = e.start /\ Ranged(e, p).limit = e.limit
             /\ PermsOf(Ranged(e, p)) = p
             /\ \A k \in Int : PL!Holds(Ranged(e, p), k) => Ranged(e, p).at[k] = p
  <2>1. e.start \in Int /\ e.limit \in Int /\ e.start < e.limit
    BY EntryOfPerms
  <2> QED
    BY <2>1, FlatEntry DEF Ranged
<1>2. \A e \in E : \A k : PL!Holds(Ranged(e, p), k) <=> PL!Holds(e, k)
  BY <1>1 DEF PL!Holds
<1>3. \A u \in U : \E e \in E : u = Ranged(e, p)
  BY DEF AllRanged
<1>4. \A e \in E : Ranged(e, p) \in U
  BY DEF AllRanged
<1> HIDE DEF U
<1>5. ASSUME NEW u \in U
      PROVE  /\ PL!IsEntry(u) /\ 0 <= u.start /\ u.limit <= Limit
             /\ PermsOf(u) \subseteq AllPlusMapped /\ PermsOf(u) # {}
             /\ \A k \in Int : PL!Holds(u, k) => u.at[k] = PermsOf(u)
  <2>1. PICK e \in E : u = Ranged(e, p)
    BY <1>3
  <2>2. 0 <= e.start /\ e.limit <= Limit
    BY DEF PermsMap
  <2> QED
    BY <1>1, <2>1, <2>2
<1>6. ASSUME NEW u \in U, NEW v \in U, NEW k \in Int, PL!Holds(u, k), PL!Holds(v, k) PROVE u = v
  <2>1. PICK d \in E, e \in E : u = Ranged(d, p) /\ v = Ranged(e, p)
    BY <1>3
  <2>2. PL!Holds(d, k) /\ PL!Holds(e, k)
    BY <1>2, <1>6, <2>1
  <2>3. d = e
    BY <2>2, PL!OneHolder DEF PermsMap
  <2> QED
    BY <2>1, <2>3
<1>7. PermsMap(U)
  BY <1>5, <1>6, EntriesOfPerms
<1>8. ASSUME NEW k \in Int PROVE PermsAt(U, k) = IF PermsAt(E, k) # {} THEN p ELSE {}
  <2>1. CASE PermsAt(E, k) # {}
    <3>1. PICK e \in E : PL!Holds(e, k)
      BY <2>1, PermsOfHolder
    <3>2. Ranged(e, p) \in U /\ PL!Holds(Ranged(e, p), k)
      BY <1>2, <1>4, <3>1
    <3>3. PermsAt(U, k) = PermsOf(Ranged(e, p))
      BY <1>7, <3>2, PermsOfHolder
    <3> QED
      BY <1>1, <2>1, <3>3
  <2>2. CASE PermsAt(U, k) # {}
    <3>1. PICK u \in U : PL!Holds(u, k)
      BY <1>7, <2>2, PermsOfHolder
    <3>2. PICK e \in E : u = Ranged(e, p)
      BY <1>3
    <3>3. PL!Holds(e, k)
      BY <1>2, <3>1, <3>2
    <3>4. PermsAt(E, k) # {}
      BY <3>3, PermsOfHolder, EntryOfPerms
    <3> QED
      BY <2>1, <3>4
  <2> QED
    BY <2>1, <2>2
<1> QED
  BY <1>7, <1>8 DEF U

\* RemoveRangesOf takes p away where y maps something: what it skips overlaps nothing.
LEMMA RemoveRangesOfIs ==
  ASSUME NEW x, PermsMap(x), NEW y, PermsMap(y), NEW p, p \subseteq AllPlusMapped, p # {},
         NEW r, r = RemoveRangesOf(x, y, p)
  PROVE  /\ PermsMap(r) /\ (P!Canonical(x) => P!Canonical(r))
         /\ \A k \in Int : PermsAt(r, k) = IF PermsAt(y, k) # {} THEN PermsAt(x, k) \ p ELSE PermsAt(x, k)
<1> DEFINE S == {e \in y : P!Find(x, e.start, e.limit) # {}}
           E == AllRanged(S, p)
<1>1. PermsMap(S)
  BY SomePermsMap
<1>2. /\ PermsMap(E)
      /\ \A k \in Int : PermsAt(E, k) = IF PermsAt(S, k) # {} THEN p ELSE {}
  BY <1>1, AllRangedIs
<1>3. r = P!ChangeRangeMap(x, E, "remove")
  BY DEF RemoveRangesOf
<1>4. ASSUME NEW k \in Int, PermsAt(x, k) # {} PROVE PermsAt(S, k) # {} <=> PermsAt(y, k) # {}
  <2>1. ASSUME PermsAt(y, k) # {} PROVE PermsAt(S, k) # {}
    <3>1. PICK d \in x : PL!Holds(d, k)
      BY <1>4, PermsOfHolder
    <3>2. PICK e \in y : PL!Holds(e, k)
      BY <2>1, PermsOfHolder
    <3>3. /\ d.start \in Int /\ d.limit \in Int /\ e.start \in Int /\ e.limit \in Int
      BY EntryOfPerms
    <3>4. d \in P!Find(x, e.start, e.limit)
      BY <3>1, <3>2, <3>3 DEF P!Find, PL!Holds
    <3>5. e \in S
      BY <3>4
    <3> HIDE DEF S
    <3> QED
      BY <1>1, <3>2, <3>5, PermsOfHolder, EntryOfPerms
  <2>2. ASSUME PermsAt(S, k) # {} PROVE PermsAt(y, k) # {}
    <3>1. PICK e \in S : PL!Holds(e, k)
      BY <1>1, <2>2, PermsOfHolder
    <3>2. e \in y
      OBVIOUS
    <3> QED
      BY <3>1, <3>2, PermsOfHolder, EntryOfPerms
  <2> QED
    BY <2>1, <2>2
<1> HIDE DEF S, E
<1>5. /\ PermsMap(r) /\ (P!Canonical(x) => P!Canonical(r))
      /\ \A k \in Int : PermsAt(r, k) = PermsAt(x, k) \ PermsAt(E, k)
  BY <1>2, <1>3, PermsRemoved
<1>6. ASSUME NEW k \in Int
      PROVE  PermsAt(r, k) = IF PermsAt(y, k) # {} THEN PermsAt(x, k) \ p ELSE PermsAt(x, k)
  <2>1. CASE PermsAt(x, k) = {}
    BY <1>5, <2>1
  <2>2. CASE PermsAt(x, k) # {}
    <3>1. PermsAt(E, k) = IF PermsAt(y, k) # {} THEN p ELSE {}
      BY <1>2, <1>4, <2>2
    <3> QED
      BY <1>5, <3>1
  <2> QED
    BY <2>1, <2>2
<1> QED
  BY <1>5, <1>6

\* The part of an entry on [s, l) holds its addresses there and has its permissions.
LEMMA SharedPerms ==
  ASSUME NEW y, PermsMap(y), NEW s \in Int, NEW l \in Int, s < l,
         NEW d \in y, d.start < l, s < d.limit, NEW a, a = P!Shared(d, s, l)
  PROVE  /\ PL!IsEntry(a) /\ a.start \in Int /\ a.limit \in Int /\ a.start < a.limit
         /\ PermsOf(a) = PermsOf(d)
         /\ \A k \in Int : PL!Holds(a, k) <=> PL!Holds(d, k) /\ s <= k /\ k < l
<1>1. /\ d.start \in Int /\ d.limit \in Int /\ d.start < d.limit
      /\ \A k \in Int : PL!Holds(d, k) => d.at[k] = PermsOf(d)
  BY EntryOfPerms
<1>2. a = PL!Shared(d, s, l) /\ d \in PL!Find(y, s, l)
  BY DEF P!Shared, PL!Shared, P!Entry, PL!Entry, PL!Find
<1>3. /\ PL!IsEntry(a) /\ s <= a.start /\ a.limit <= l
      /\ d.start <= a.start /\ a.limit <= d.limit
      /\ \A k \in a.start..(a.limit - 1) : a.at[k] = d.at[k]
      /\ \A k \in Int : s <= k /\ k < l /\ PL!Holds(d, k) => PL!Holds(a, k)
  BY <1>2, PL!SharedIs DEF PermsMap
<1>4. a.start \in Int /\ a.limit \in Int /\ a.start < a.limit
  BY <1>3 DEF PL!IsEntry
<1>5. PL!Holds(d, a.start) /\ a.at[a.start] = d.at[a.start]
  BY <1>1, <1>3, <1>4 DEF PL!Holds
<1>6. PermsOf(a) = PermsOf(d)
  BY <1>1, <1>4, <1>5 DEF PermsOf
<1>7. ASSUME NEW k \in Int PROVE PL!Holds(a, k) <=> PL!Holds(d, k) /\ s <= k /\ k < l
  BY <1>1, <1>3, <1>4 DEF PL!Holds
<1> QED
  BY <1>3, <1>4, <1>6, <1>7

\* What y and x have in common.
LEMMA IntersectionIs ==
  ASSUME NEW x, PermsMap(x), NEW y, PermsMap(y), NEW r, r = Intersection(x, y)
  PROVE  /\ PermsMap(r) /\ P!Canonical(r)
         /\ \A k \in Int : PermsAt(r, k) = PermsAt(x, k) \cap PermsAt(y, k)
<1> DEFINE common == UNION {{Ranged(c, PermsOf(c) \cap PermsOf(e)) : c \in P!Clipped(x, e.start, e.limit)} :
                              e \in y}
           U == {c \in common : PermsOf(c) # {}}
           Piece(d, e) == Ranged(P!Shared(d, e.start, e.limit),
                                 PermsOf(P!Shared(d, e.start, e.limit)) \cap PermsOf(e))
           Meet(d, e) == d.start < e.limit /\ e.start < d.limit
<1>1. ASSUME NEW d \in x, NEW e \in y, Meet(d, e)
      PROVE  /\ PL!IsEntry(Piece(d, e)) /\ 0 <= Piece(d, e).start /\ Piece(d, e).limit <= Limit
             /\ PermsOf(Piece(d, e)) = PermsOf(d) \cap PermsOf(e)
             /\ \A k \in Int : /\ PL!Holds(Piece(d, e), k) <=> PL!Holds(d, k) /\ PL!Holds(e, k)
                               /\ PL!Holds(Piece(d, e), k) => Piece(d, e).at[k] = PermsOf(Piece(d, e))
  <2> DEFINE a == P!Shared(d, e.start, e.limit)
             p == PermsOf(a) \cap PermsOf(e)
             u == Ranged(a, p)
  <2>1. /\ d.start \in Int /\ d.limit \in Int /\ d.start < d.limit
        /\ e.start \in Int /\ e.limit \in Int /\ e.start < e.limit
        /\ 0 <= d.start /\ d.limit <= Limit /\ Limit \in Int
        /\ \A k \in Int : PL!Holds(d, k) => d.at[k] = PermsOf(d)
    BY EntryOfPerms, MemoryAssumption DEF PermsMap
  <2>2. a = PL!Shared(d, e.start, e.limit) /\ d \in PL!Find(x, e.start, e.limit)
    BY <1>1 DEF P!Shared, PL!Shared, P!Entry, PL!Entry, PL!Find
  <2>3. /\ PL!IsEntry(a) /\ e.start <= a.start /\ a.limit <= e.limit
        /\ d.start <= a.start /\ a.limit <= d.limit
        /\ \A k \in a.start..(a.limit - 1) : a.at[k] = d.at[k]
        /\ \A k \in Int : e.start <= k /\ k < e.limit /\ PL!Holds(d, k) => PL!Holds(a, k)
    BY <2>1, <2>2, PL!SharedIs DEF PermsMap
  <2> HIDE DEF a
  <2>4. a.start \in Int /\ a.limit \in Int /\ a.start < a.limit
    BY <2>3 DEF PL!IsEntry
  <2>5. PermsOf(a) = PermsOf(d)
    <3>1. a.start \in a.start..(a.limit - 1) /\ PL!Holds(d, a.start)
      BY <2>1, <2>3, <2>4 DEF PL!Holds
    <3> QED
      BY <2>1, <2>3, <2>4, <3>1 DEF PermsOf
  <2>6. /\ PL!IsEntry(u) /\ u.start = a.start /\ u.limit = a.limit /\ PermsOf(u) = p
        /\ \A k \in Int : PL!Holds(u, k) => u.at[k] = p
    <3>1. u = P!Entry(a.start, a.limit, P!Flat(a.start, a.limit, p))
      BY DEF Ranged
    <3> HIDE DEF u, p
    <3> QED
      BY <2>4, <3>1, FlatEntry
  <2> HIDE DEF u
  <2>7. ASSUME NEW k \in Int PROVE PL!Holds(u, k) <=> PL!Holds(d, k) /\ PL!Holds(e, k)
    BY <2>1, <2>3, <2>4, <2>6 DEF PL!Holds
  <2>8. 0 <= u.start /\ u.limit <= Limit
    BY <2>1, <2>3, <2>4, <2>6
  <2>9. u = Piece(d, e) /\ PermsOf(u) = PermsOf(d) \cap PermsOf(e)
    BY <2>5, <2>6 DEF u, a
  <2> QED
    BY <2>6, <2>7, <2>8, <2>9
<1>2. \A u \in U : \E d \in x, e \in y : Meet(d, e) /\ u = Piece(d, e) /\ PermsOf(u) # {}
  BY DEF P!Clipped, P!Find
<1>3. \A d \in x, e \in y : Meet(d, e) /\ PermsOf(Piece(d, e)) # {} => Piece(d, e) \in U
  BY DEF P!Clipped, P!Find
<1>4. r = P!ChangeRangeMap({}, U, "add")
  BY DEF Intersection
<1> HIDE DEF U, Piece
<1>5. ASSUME NEW u \in U
      PROVE  /\ PL!IsEntry(u) /\ 0 <= u.start /\ u.limit <= Limit
             /\ PermsOf(u) \subseteq AllPlusMapped /\ PermsOf(u) # {}
             /\ \A k \in Int : PL!Holds(u, k) => u.at[k] = PermsOf(u)
  <2>1. PICK d \in x, e \in y : Meet(d, e) /\ u = Piece(d, e) /\ PermsOf(u) # {}
    BY <1>2
  <2>2. PermsOf(d) \subseteq AllPlusMapped
    BY EntryOfPerms
  <2> HIDE DEF Meet
  <2> QED
    BY <1>1, <2>1, <2>2
<1>6. ASSUME NEW u \in U, NEW v \in U, NEW k \in Int, PL!Holds(u, k), PL!Holds(v, k) PROVE u = v
  <2>1. PICK d \in x, e \in y : Meet(d, e) /\ u = Piece(d, e)
    BY <1>2
  <2>2. PICK c \in x, b \in y : Meet(c, b) /\ v = Piece(c, b)
    BY <1>2
  <2> HIDE DEF Meet
  <2>3. PL!Holds(d, k) /\ PL!Holds(e, k) /\ PL!Holds(c, k) /\ PL!Holds(b, k)
    BY <1>1, <1>6, <2>1, <2>2
  <2>4. c = d /\ b = e
    BY <2>3, PL!OneHolder DEF PermsMap
  <2> QED
    BY <2>1, <2>2, <2>4
<1>7. PermsMap(U)
  BY <1>5, <1>6, EntriesOfPerms
<1>8. ASSUME NEW k \in Int PROVE PermsAt(U, k) = PermsAt(x, k) \cap PermsAt(y, k)
  <2>1. ASSUME PermsAt(x, k) \cap PermsAt(y, k) # {} PROVE PermsAt(U, k) = PermsAt(x, k) \cap PermsAt(y, k)
    <3>1. PICK d \in x, e \in y : PL!Holds(d, k) /\ PL!Holds(e, k)
      BY <2>1, PermsOfHolder
    <3>2. PermsAt(x, k) = PermsOf(d) /\ PermsAt(y, k) = PermsOf(e)
      BY <3>1, PermsOfHolder
    <3>3. Meet(d, e)
      BY <3>1, EntryOfPerms DEF PL!Holds
    <3> HIDE DEF Meet
    <3>4. Piece(d, e) \in U /\ PL!Holds(Piece(d, e), k) /\ PermsOf(Piece(d, e)) = PermsOf(d) \cap PermsOf(e)
      BY <1>1, <1>3, <2>1, <3>1, <3>2, <3>3
    <3>5. PermsAt(U, k) = PermsOf(Piece(d, e))
      BY <1>7, <3>4, PermsOfHolder
    <3> QED
      BY <3>2, <3>4, <3>5
  <2>2. ASSUME PermsAt(U, k) # {} PROVE PermsAt(x, k) \cap PermsAt(y, k) # {}
    <3>1. PICK u \in U : PL!Holds(u, k)
      BY <1>7, <2>2, PermsOfHolder
    <3>2. PICK d \in x, e \in y : Meet(d, e) /\ u = Piece(d, e) /\ PermsOf(u) # {}
      BY <1>2
    <3> HIDE DEF Meet
    <3>3. PL!Holds(d, k) /\ PL!Holds(e, k) /\ PermsOf(u) = PermsOf(d) \cap PermsOf(e)
      BY <1>1, <3>1, <3>2
    <3>4. PermsAt(x, k) = PermsOf(d) /\ PermsAt(y, k) = PermsOf(e)
      BY <3>3, PermsOfHolder
    <3> QED
      BY <3>2, <3>3, <3>4
  <2> QED
    BY <2>1, <2>2
<1>9. /\ PermsMap(r) /\ (P!Canonical({}) => P!Canonical(r))
      /\ \A k \in Int : PermsAt(r, k) = PermsAt({}, k) \cup PermsAt(U, k)
  BY <1>4, <1>7, NoPerms, PermsAdded
<1> QED
  BY <1>8, <1>9, NoPerms, SamePermsMaps

\* What p has on [s, l) that y lacks: entries of one value on the addresses where the two
\* differ, which tell whether y has anything.
IsDifference(r, s, l, p, y) ==
  /\ PL!IsMap(r)
  /\ \A d \in r : \A k \in Int : PL!Holds(d, k) =>
       s <= k /\ k < l /\ PermsAt(y, k) # p /\ (PermsOf(d) = p <=> PermsAt(y, k) = {})
  /\ \A k \in Int : s <= k /\ k < l /\ PermsAt(y, k) # p => \E d \in r : PL!Holds(d, k)

LEMMA DifferenceIs ==
  ASSUME NEW y, PermsMap(y), \A k \in Int : PermsAt(y, k) # {} => kMapped \in PermsAt(y, k),
         NEW s \in Int, NEW l \in Int, 0 <= s, s < l, l <= Limit, NEW p, kMapped \in p,
         NEW r, r = Difference(s, l, p, y)
  PROVE  IsDifference(r, s, l, p, y)
<1> DEFINE lacking == {Ranged(c, p \ PermsOf(c)) : c \in {c \in P!Clipped(y, s, l) : PermsOf(c) # p}}
           gaps == {P!Entry(g[1], g[2], P!Flat(g[1], g[2], p)) : g \in P!Gaps(y, s, l)}
           U == lacking \cup gaps
           Piece(d) == Ranged(P!Shared(d, s, l), p \ PermsOf(P!Shared(d, s, l)))
           Gap(g) == P!Entry(g[1], g[2], P!Flat(g[1], g[2], p))
           Meets(d) == d.start < l /\ s < d.limit
           Fits(u) == /\ PL!IsEntry(u)
                      /\ \A k \in Int : PL!Holds(u, k) =>
                           /\ s <= k /\ k < l /\ PermsAt(y, k) # p
                           /\ u.at[k] = PermsOf(u) /\ PermsOf(u) = p \ PermsAt(y, k)
<1>1. PL!IsMap(y) /\ \A k \in Int : PL!Covered(y, k) <=> PermsAt(y, k) # {}
  BY PermsMapIs DEF PermsMap
<1>2. ASSUME NEW d \in y, Meets(d), PermsOf(d) # p
      PROVE  /\ Fits(Piece(d))
             /\ \A k \in Int : PL!Holds(Piece(d), k) <=> PL!Holds(d, k) /\ s <= k /\ k < l
  <2> DEFINE a == P!Shared(d, s, l)
             q == p \ PermsOf(a)
             u == Ranged(a, q)
  <2>1. /\ PL!IsEntry(a) /\ a.start \in Int /\ a.limit \in Int /\ a.start < a.limit
        /\ PermsOf(a) = PermsOf(d)
        /\ \A k \in Int : PL!Holds(a, k) <=> PL!Holds(d, k) /\ s <= k /\ k < l
    BY <1>2, SharedPerms
  <2> HIDE DEF a
  <2>6. /\ PL!IsEntry(u) /\ u.start = a.start /\ u.limit = a.limit /\ PermsOf(u) = q
        /\ \A k \in Int : PL!Holds(u, k) => u.at[k] = q
    <3>1. u = P!Entry(a.start, a.limit, P!Flat(a.start, a.limit, q))
      BY DEF Ranged
    <3> HIDE DEF u, q
    <3> QED
      BY <2>1, <3>1, FlatEntry
  <2> HIDE DEF u
  <2>7. ASSUME NEW k \in Int PROVE PL!Holds(u, k) <=> PL!Holds(d, k) /\ s <= k /\ k < l
    BY <2>1, <2>6 DEF PL!Holds
  <2>8. ASSUME NEW k \in Int, PL!Holds(d, k) PROVE PermsAt(y, k) = PermsOf(d)
    BY <2>8, PermsOfHolder
  <2>9. Fits(u)
    BY <1>2, <2>1, <2>6, <2>7, <2>8
  <2>10. u = Piece(d)
    BY DEF u, a
  <2> HIDE DEF Piece, Fits
  <2> QED
    BY <2>7, <2>9, <2>10
<1>3. ASSUME NEW g \in P!Gaps(y, s, l)
      PROVE  /\ Fits(Gap(g)) /\ g[1] \in Int /\ g[2] \in Int
             /\ \A k \in Int : /\ PL!Holds(Gap(g), k) <=> g[1] <= k /\ k < g[2]
                               /\ PL!Holds(Gap(g), k) => PermsAt(y, k) = {}
  <2> DEFINE u == Gap(g)
  <2>1. g \in PL!Gaps(y, s, l)
    BY DEF P!Gaps, PL!Gaps, P!Find, PL!Find
  <2>2. /\ g[1] \in Int /\ g[2] \in Int /\ s <= g[1] /\ g[1] < g[2] /\ g[2] <= l
        /\ \A e \in y : ~ (e.start < g[2] /\ g[1] < e.limit)
    BY <1>1, <2>1, PL!GapIs
  <2>3. /\ PL!IsEntry(u) /\ u.start = g[1] /\ u.limit = g[2] /\ PermsOf(u) = p
        /\ \A k \in Int : PL!Holds(u, k) => u.at[k] = p
    BY <2>2, FlatEntry
  <2> HIDE DEF u
  <2>4. ASSUME NEW k \in Int PROVE PL!Holds(u, k) <=> g[1] <= k /\ k < g[2]
    BY <2>3 DEF PL!Holds
  <2>5. ASSUME NEW k \in Int, PL!Holds(u, k) PROVE PermsAt(y, k) = {}
    <3>1. ~ PL!Covered(y, k)
      <4> SUFFICES ASSUME NEW e \in y, PL!Holds(e, k) PROVE FALSE
        BY DEF PL!Covered
      <4>1. e.start \in Int /\ e.limit \in Int
        BY EntryOfPerms
      <4> QED
        BY <2>2, <2>4, <2>5, <4>1 DEF PL!Holds
    <3> QED
      BY <1>1, <3>1
  <2>6. Fits(u)
    BY <2>2, <2>3, <2>4, <2>5
  <2>7. u = Gap(g)
    BY DEF u
  <2> HIDE DEF Gap, Fits
  <2> QED
    BY <2>2, <2>4, <2>5, <2>6, <2>7
<1>4. \A u \in U : \/ \E d \in y : Meets(d) /\ PermsOf(d) # p /\ u = Piece(d)
                   \/ \E g \in P!Gaps(y, s, l) : u = Gap(g)
  <2>1. \A d \in y : Meets(d) => PermsOf(P!Shared(d, s, l)) = PermsOf(d)
    BY SharedPerms
  <2>2. \A c \in P!Clipped(y, s, l) : \E d \in y : Meets(d) /\ c = P!Shared(d, s, l)
    BY DEF P!Clipped, P!Find
  <2>3. \A u \in lacking : \E d \in y : Meets(d) /\ PermsOf(d) # p /\ u = Piece(d)
    BY <2>1, <2>2
  <2> QED
    BY <2>3
<1>5. /\ \A d \in y : Meets(d) /\ PermsOf(d) # p => Piece(d) \in U
      /\ \A g \in P!Gaps(y, s, l) : Gap(g) \in U
  <2>1. \A d \in y : Meets(d) => PermsOf(P!Shared(d, s, l)) = PermsOf(d)
    BY SharedPerms
  <2>2. \A d \in y : Meets(d) => P!Shared(d, s, l) \in P!Clipped(y, s, l)
    BY DEF P!Clipped, P!Find
  <2> QED
    BY <2>1, <2>2
<1>6. r = P!ChangeRangeMap({}, U, "add")
  BY DEF Difference
<1> HIDE DEF U, Piece, Gap, Meets
<1>7. ASSUME NEW u \in U PROVE Fits(u)
  <2> HIDE DEF Fits
  <2> QED
    BY <1>2, <1>3, <1>4
<1>8. ASSUME NEW u \in U, NEW v \in U, NEW k \in Int, PL!Holds(u, k), PL!Holds(v, k) PROVE u = v
  <2>1. ASSUME NEW d \in y, Meets(d), PermsOf(d) # p, NEW c \in y, Meets(c), PermsOf(c) # p,
               u = Piece(d), v = Piece(c)
        PROVE  u = v
    <3>1. PL!Holds(d, k) /\ PL!Holds(c, k)
      BY <1>2, <1>8, <2>1
    <3> QED
      BY <1>1, <2>1, <3>1, PL!OneHolder
  <2>2. ASSUME NEW g \in P!Gaps(y, s, l), NEW h \in P!Gaps(y, s, l), u = Gap(g), v = Gap(h)
        PROVE  u = v
    <3>1. g[1] <= k /\ k < g[2] /\ h[1] <= k /\ k < h[2]
      BY <1>3, <1>8, <2>2
    <3>2. g \in PL!Gaps(y, s, l) /\ h \in PL!Gaps(y, s, l)
      BY DEF P!Gaps, PL!Gaps, P!Find, PL!Find
    <3>3. g[1] = h[1] /\ g[2] = h[2]
      BY <1>1, <3>1, <3>2, PL!GapsApart
    <3> QED
      BY <2>2, <3>3 DEF Gap
  <2>3. ASSUME NEW d \in y, Meets(d), PermsOf(d) # p, PL!Holds(Piece(d), k),
               NEW g \in P!Gaps(y, s, l), PL!Holds(Gap(g), k)
        PROVE  FALSE
    <3>1. PL!Holds(d, k) /\ PermsAt(y, k) = {}
      BY <1>2, <1>3, <2>3
    <3>2. PermsOf(d) # {} /\ PermsAt(y, k) = PermsOf(d)
      BY <3>1, PermsOfHolder, EntryOfPerms
    <3> QED
      BY <3>1, <3>2
  <2>4. CASE \E d \in y : Meets(d) /\ PermsOf(d) # p /\ u = Piece(d)
    BY <1>4, <1>8, <2>1, <2>3, <2>4
  <2>5. CASE \E g \in P!Gaps(y, s, l) : u = Gap(g)
    BY <1>4, <1>8, <2>2, <2>3, <2>5
  <2> QED
    BY <1>4, <2>4, <2>5
<1>9. PL!IsMap(U) /\ PL!OneValue(U)
  BY <1>7, <1>8, EntriesApart
<1>10. PL!Bounded(U)
  <2>1. ASSUME NEW u \in U PROVE s <= u.start /\ u.start < l
    <3>1. u.start \in Int /\ PL!Holds(u, u.start)
      BY <1>7 DEF PL!IsEntry, PL!Holds
    <3> QED
      BY <1>7, <3>1
  <2> QED
    BY <2>1 DEF PL!Bounded
<1>11. PL!IsMap({}) /\ PL!OneValue({}) /\ \A k \in Int : ~ PL!Covered({}, k)
  BY NoPerms DEF PermsMap, PL!Covered
<1>12. PL!IsSum(r, {}, U)
  BY <1>6, <1>9, <1>10, <1>11, PL!AddRangeMapIsPointwise, SamePermsMaps
<1>13. /\ PL!IsMap(r) /\ PL!OneValue(r)
       /\ \A k \in Int : PL!Covered(r, k) <=> PL!Covered(U, k)
       /\ \A k \in Int : PL!Covered(r, k) => PL!At(r, k) = PL!At(U, k)
  BY <1>9, <1>11, <1>12, PermsMerge DEF PL!IsSum
<1>14. ASSUME NEW d \in r, NEW k \in Int, PL!Holds(d, k)
       PROVE  s <= k /\ k < l /\ PermsAt(y, k) # p /\ (PermsOf(d) = p <=> PermsAt(y, k) = {})
  <2>1. PL!Covered(r, k) /\ PL!At(r, k) = d.at[k]
    BY <1>13, <1>14, PL!AtIs
  <2>2. PICK u \in U : PL!Holds(u, k)
    BY <1>13, <2>1 DEF PL!Covered
  <2>3. PL!At(U, k) = u.at[k]
    BY <1>9, <2>2, PL!AtIs
  <2>4. d.start \in Int /\ PL!Holds(d, d.start)
    BY <1>13 DEF PL!IsMap, PL!IsEntry, PL!Holds
  <2>5. PermsOf(d) = d.at[k]
    BY <1>13, <1>14, <2>4 DEF PermsOf, PL!OneValue
  <2>6. s <= k /\ k < l /\ PermsAt(y, k) # p /\ u.at[k] = p \ PermsAt(y, k)
    BY <1>7, <2>2
  <2>7. PermsOf(d) = p \ PermsAt(y, k)
    BY <1>13, <2>1, <2>3, <2>5, <2>6
  <2> QED
    BY <2>6, <2>7
<1>15. ASSUME NEW k \in Int, s <= k, k < l, PermsAt(y, k) # p PROVE \E d \in r : PL!Holds(d, k)
  <2>1. CASE PermsAt(y, k) # {}
    <3>1. PICK d \in y : PL!Holds(d, k)
      BY <2>1, PermsOfHolder
    <3>2. PermsOf(d) # p
      BY <1>15, <3>1, PermsOfHolder
    <3>3. Meets(d)
      BY <1>15, <3>1, EntryOfPerms DEF Meets, PL!Holds
    <3>4. Piece(d) \in U /\ PL!Holds(Piece(d), k)
      BY <1>2, <1>5, <1>15, <3>1, <3>2, <3>3
    <3> QED
      BY <1>13, <3>4 DEF PL!Covered
  <2>2. CASE PermsAt(y, k) = {}
    <3>1. PICK g \in PL!Gaps(y, s, l) : g[1] <= k /\ k < g[2]
      BY <1>1, <1>15, <2>2, PL!GapOf
    <3>2. g \in P!Gaps(y, s, l)
      BY DEF P!Gaps, PL!Gaps, P!Find, PL!Find
    <3>3. Gap(g) \in U /\ PL!Holds(Gap(g), k)
      BY <1>3, <1>5, <3>1, <3>2
    <3> QED
      BY <1>13, <3>3 DEF PL!Covered
  <2> QED
    BY <2>1, <2>2
<1> QED
  BY <1>13, <1>14, <1>15 DEF IsDifference

LEMMA MapOfIs ==
  ASSUME NEW E, PermsMap(E)
  PROVE  /\ PermsMap(MapOf(E)) /\ P!Canonical(MapOf(E))
         /\ \A k \in Int : PermsAt(MapOf(E), k) = PermsAt(E, k)
<1> DEFINE r == MapOf(E)
<1>1. r = P!ChangeRangeMap({}, E, "add")
  BY DEF MapOf
<1> HIDE DEF r
<1>2. /\ PermsMap(r) /\ (P!Canonical({}) => P!Canonical(r))
      /\ \A k \in Int : PermsAt(r, k) = PermsAt({}, k) \cup PermsAt(E, k)
  BY <1>1, NoPerms, PermsAdded
<1>3. P!Canonical({}) /\ \A k \in Int : PermsAt({}, k) = {}
  BY NoPerms, SamePermsMaps
<1>4. PermsMap(r) /\ P!Canonical(r) /\ \A k \in Int : PermsAt(r, k) = PermsAt(E, k)
  BY <1>2, <1>3
<1> QED
  BY <1>4 DEF r

-----------------------------------------------------------------------------
(* The mappings of a snapshot set one after the other *)

\* Sets the mapping e.
Setting(map, e) == SetPerms(map, e.start, e.limit, PermsOf(e) \cup {kMapped})

\* f is what SetMappings computes for the parts of E, and what it has to do with the last
\* mapping of each.
Settings(f, map, E) ==
  f = [S \in SUBSET E |-> IF S = {} THEN map
                          ELSE SetPerms(f[S \ {P!Last(S)}], P!Last(S).start, P!Last(S).limit,
                                        PermsOf(P!Last(S)) \cup {kMapped})]
SetSteps(f, map, E) ==
  /\ SetMappings(map, E) = f[E] /\ f[{}] = map
  /\ \A S \in SUBSET E : S # {} => f[S] = Setting(f[S \ {PL!Last(S)}], PL!Last(S))

LEMMA SameLast == \A S : P!Last(S) = PL!Last(S)
BY DEF P!Last, PL!Last

LEMMA SettingsExist ==
  ASSUME NEW map, NEW E, PL!IsMap(E), PL!Bounded(E)
  PROVE  \E f : Settings(f, map, E)
<1> DEFINE Value(f, S) == IF S = {} THEN map ELSE Setting(f[S \ {PL!Last(S)}], PL!Last(S))
           Right(f, S) == \A R \in SUBSET S : f[R] = Value(f, R)
           Good == {S \in SUBSET E : \E f : Right(f, S)}
<1>1. {} \in Good
  <2> DEFINE f == [S \in SUBSET E |-> map]
  <2>1. Right(f, {})
    OBVIOUS
  <2> HIDE DEF f, Right
  <2> QED
    BY <2>1
<1>2. ASSUME NEW S \in SUBSET E, S # {}, S \ {PL!Last(S)} \in Good PROVE S \in Good
  <2> DEFINE rest == S \ {PL!Last(S)}
  <2>1. PICK g : Right(g, rest)
    <3> HIDE DEF Right
    <3> QED
      BY <1>2
  <2> DEFINE f == [R \in SUBSET E |-> IF R \in SUBSET rest THEN g[R] ELSE Value(g, R)]
  <2>2. \A R \in SUBSET S : f[R] = Value(g, R)
    <3>1. \A R \in SUBSET E : f[R] = IF R \in SUBSET rest THEN g[R] ELSE Value(g, R)
      OBVIOUS
    <3> HIDE DEF f, Value
    <3> QED
      BY <2>1, <3>1
  <2>3. \A R \in SUBSET rest : f[R] = g[R]
    OBVIOUS
  <2>4. ASSUME NEW R \in SUBSET S, R # {} PROVE R \ {PL!Last(R)} \in SUBSET rest
    <3>1. /\ PL!Last(S) \in S
          /\ \A d \in S \ {PL!Last(S)} : d.start < PL!Last(S).start
      <4>1. PL!IsMap(S) /\ PL!Bounded(S)
        BY PL!PartIsMap
      <4> QED
        BY <1>2, <4>1, PL!LastIs
    <3>2. /\ PL!Last(R) \in R
          /\ \A d \in R \ {PL!Last(R)} : d.start < PL!Last(R).start
      <4>1. R \in SUBSET E
        OBVIOUS
      <4>2. PL!IsMap(R) /\ PL!Bounded(R)
        BY <4>1, PL!PartIsMap
      <4> QED
        BY <2>4, <4>2, PL!LastIs
    <3>3. \A d \in S : d.start \in Int
      BY DEF PL!IsMap, PL!IsEntry
    <3>4. PL!Last(S) \notin R \ {PL!Last(R)}
      <4> DEFINE last == PL!Last(S)
                 best == PL!Last(R)
      <4>1. /\ last \in S /\ \A d \in S \ {last} : d.start < last.start
            /\ best \in R /\ \A d \in R \ {best} : d.start < best.start
        BY <3>1, <3>2
      <4> HIDE DEF last, best
      <4>2. last \notin R \ {best}
        BY <3>3, <4>1
      <4> QED
        BY <4>2 DEF last, best
    <3> QED
      BY <3>4
  <2>5. ASSUME NEW R \in SUBSET S PROVE Value(g, R) = Value(f, R)
    <3>1. CASE R = {}
      BY <3>1
    <3>2. CASE R # {}
      <4>1. f[R \ {PL!Last(R)}] = g[R \ {PL!Last(R)}]
        <5> HIDE DEF f, rest
        <5> QED
          BY <2>3, <2>4, <3>2
      <4> HIDE DEF f
      <4> QED
        BY <3>2, <4>1
    <3> QED
      BY <3>1, <3>2
  <2> HIDE DEF f
  <2>6. Right(f, S)
    <3> HIDE DEF Value
    <3> QED
      BY <2>2, <2>5
  <2> HIDE DEF Right
  <2> QED
    BY <2>6
<1> HIDE DEF Good
<1>3. E \in Good
  BY <1>1, <1>2, PL!PartsInduction
<1>4. PICK f : Right(f, E)
  <2> HIDE DEF Right
  <2> QED
    BY <1>3 DEF Good
<1> DEFINE h == [S \in SUBSET E |-> f[S]]
<1>5. \A S \in SUBSET E : h[S] = f[S]
  OBVIOUS
<1>6. ASSUME NEW S \in SUBSET E PROVE f[S] = Value(h, S)
  <2>1. h[S \ {PL!Last(S)}] = f[S \ {PL!Last(S)}]
    <3>1. S \ {PL!Last(S)} \in SUBSET E
      OBVIOUS
    <3> HIDE DEF h
    <3> QED
      BY <1>5, <3>1
  <2> HIDE DEF h
  <2> QED
    BY <1>4, <2>1
<1>7. \A S \in SUBSET E :
        f[S] = IF S = {} THEN map
               ELSE SetPerms(h[S \ {P!Last(S)}], P!Last(S).start, P!Last(S).limit,
                             PermsOf(P!Last(S)) \cup {kMapped})
  <2> HIDE DEF h
  <2> QED
    BY <1>6, SameLast DEF Setting
<1>8. Settings(h, map, E)
  <2>1. h = [S \in SUBSET E |->
               IF S = {} THEN map
               ELSE SetPerms(h[S \ {P!Last(S)}], P!Last(S).start, P!Last(S).limit,
                             PermsOf(P!Last(S)) \cup {kMapped})]
    <3> DEFINE V(S) == IF S = {} THEN map
                       ELSE SetPerms(h[S \ {P!Last(S)}], P!Last(S).start, P!Last(S).limit,
                                     PermsOf(P!Last(S)) \cup {kMapped})
    <3>1. \A S \in SUBSET E : f[S] = V(S)
      <4> HIDE DEF h
      <4> QED
        BY <1>7
    <3> HIDE DEF V
    <3>2. h = [S \in SUBSET E |-> V(S)]
      BY <3>1
    <3> QED
      BY <3>2 DEF V
  <2> HIDE DEF h
  <2> QED
    BY <2>1 DEF Settings
<1> HIDE DEF h
<1> QED
  BY <1>8

LEMMA SetStepsExist ==
  ASSUME NEW map, NEW E, PL!IsMap(E), PL!Bounded(E)
  PROVE  \E f : SetSteps(f, map, E)
<1> DEFINE f == CHOOSE f : Settings(f, map, E)
<1>1. \E g : Settings(g, map, E)
  BY SettingsExist
<1>2. Settings(f, map, E)
  BY <1>1
<1>3. SetMappings(map, E) = f[E]
  BY DEF SetMappings, Settings
<1> HIDE DEF f
<1>4. \A S \in SUBSET E :
        f[S] = IF S = {} THEN map
               ELSE SetPerms(f[S \ {P!Last(S)}], P!Last(S).start, P!Last(S).limit,
                             PermsOf(P!Last(S)) \cup {kMapped})
  BY <1>2 DEF Settings
<1>5. f[{}] = map
  BY <1>4
<1>6. \A S \in SUBSET E : S # {} => f[S] = Setting(f[S \ {PL!Last(S)}], PL!Last(S))
  BY <1>4, SameLast DEF Setting
<1>7. SetSteps(f, map, E)
  BY <1>3, <1>5, <1>6 DEF SetSteps
<1> QED
  BY <1>7

\* r is map with the mappings of S set.
AreSet(r, map, S) ==
  /\ PermsMap(r) /\ (P!Canonical(map) => P!Canonical(r))
  /\ \A k \in Int : PermsAt(r, k) = IF PermsAt(S, k) # {} THEN PermsAt(S, k) \cup {kMapped}
                                    ELSE PermsAt(map, k)

LEMMA SetLast ==
  ASSUME NEW map, NEW S, PermsMap(S), NEW e \in S, NEW r, AreSet(r, map, S \ {e})
  PROVE  AreSet(Setting(r, e), map, S)
<1> DEFINE p == PermsOf(e) \cup {kMapped}
           new == Setting(r, e)
<1>1. /\ e.start \in 0..Limit /\ e.limit \in 0..Limit /\ e.start < e.limit
      /\ PermsOf(e) \subseteq AllPlusMapped /\ PermsOf(e) # {}
      /\ e.start \in Int /\ e.limit \in Int
  BY EntryOfPerms
<1>2. p \subseteq AllPlusMapped /\ p # {}
  BY <1>1 DEF AllPlusMapped
<1>3. new = SetPerms(r, e.start, e.limit, p)
  BY DEF Setting
<1> HIDE DEF p, new
<1>4. /\ PermsMap(new) /\ (P!Canonical(r) => P!Canonical(new))
      /\ \A k \in Int : PermsAt(new, k) = IF e.start <= k /\ k < e.limit THEN p ELSE PermsAt(r, k)
  BY <1>1, <1>2, <1>3, SetPermsIs DEF AreSet
<1>5. ASSUME NEW k \in Int
      PROVE  PermsAt(new, k) = IF PermsAt(S, k) # {} THEN PermsAt(S, k) \cup {kMapped}
                               ELSE PermsAt(map, k)
  <2>1. CASE PL!Holds(e, k)
    <3>1. PermsAt(S, k) = PermsOf(e)
      BY <2>1, PermsOfHolder
    <3>2. PermsAt(new, k) = p
      BY <1>4, <2>1 DEF PL!Holds
    <3> QED
      BY <1>1, <3>1, <3>2 DEF p
  <2>2. CASE ~ PL!Holds(e, k)
    <3>1. PermsAt(S, k) = PermsAt(S \ {e}, k)
      <4>1. PL!IsMap(S)
        BY DEF PermsMap
      <4>2. /\ PL!Covered(S, k) <=> PL!Covered(S \ {e}, k)
            /\ PL!Covered(S, k) => PL!At(S, k) = PL!At(S \ {e}, k)
        BY <2>2, <4>1, PL!LastSplits
      <4> QED
        BY <4>2, SamePermsMaps DEF PermsAt
    <3>2. PermsAt(new, k) = PermsAt(r, k)
      BY <1>4, <2>2 DEF PL!Holds
    <3> QED
      BY <3>1, <3>2 DEF AreSet
  <2> QED
    BY <2>1, <2>2
<1>6. P!Canonical(map) => P!Canonical(new)
  BY <1>4 DEF AreSet
<1>7. AreSet(new, map, S)
  BY <1>4, <1>5, <1>6 DEF AreSet
<1> QED
  BY <1>7 DEF new

LEMMA SetMappingsIs ==
  ASSUME NEW map, PermsMap(map), NEW E, PermsMap(E)
  PROVE  AreSet(SetMappings(map, E), map, E)
<1>1. PL!IsMap(E) /\ PL!Bounded(E)
  BY PermsBounded DEF PermsMap
<1>2. PICK f : SetSteps(f, map, E)
  BY <1>1, SetStepsExist
<1> DEFINE Good == {S \in SUBSET E : AreSet(f[S], map, S)}
<1>3. {} \in Good
  <2>1. f[{}] = map
    BY <1>2 DEF SetSteps
  <2>2. AreSet(map, map, {})
    BY NoPerms DEF AreSet
  <2> QED
    BY <2>1, <2>2
<1>4. ASSUME NEW S \in SUBSET E, S # {}, S \ {PL!Last(S)} \in Good PROVE S \in Good
  <2>1. PL!Last(S) \in S
    BY <1>1, <1>4, PL!PartIsMap, PL!LastIs
  <2>2. PermsMap(S)
    BY SomePermsMap
  <2>3. AreSet(f[S \ {PL!Last(S)}], map, S \ {PL!Last(S)})
    BY <1>4
  <2>4. f[S] = Setting(f[S \ {PL!Last(S)}], PL!Last(S))
    BY <1>2, <1>4 DEF SetSteps
  <2>5. AreSet(f[S], map, S)
    BY <2>1, <2>2, <2>3, <2>4, SetLast
  <2> QED
    BY <2>5
<1> HIDE DEF Good
<1>5. E \in Good
  BY <1>1, <1>3, <1>4, PL!PartsInduction
<1> QED
  BY <1>2, <1>5 DEF Good, SetSteps

-----------------------------------------------------------------------------
(* Maps of bytes and of written addresses, address by address *)

\* The entries of m lie in the address space.
BytesMap(m) == BL!IsMap(m) /\ \A e \in m : 0 <= e.start /\ e.limit <= Limit

\* The two instances of RangeMap agree on what does not depend on the values.
LEMMA SameShape ==
  /\ \A m, k : PL!Covered(m, k) <=> BL!Covered(m, k)
  /\ \A e, k : PL!Holds(e, k) <=> BL!Holds(e, k)
  /\ \A e : PL!IsEntry(e) <=> BL!IsEntry(e)
  /\ \A m : PL!Disjoint(m) <=> BL!Disjoint(m)
  /\ \A m : PL!IsMap(m) <=> BL!IsMap(m)
  /\ \A m, k : PL!At(m, k) = BL!At(m, k)
BY DEF PL!Covered, BL!Covered, PL!Holds, BL!Holds, PL!IsEntry, BL!IsEntry, PL!Entry, BL!Entry,
       PL!IsMap, BL!IsMap, PL!Disjoint, BL!Disjoint, PL!At, BL!At

LEMMA PermsAreBytes ==
  ASSUME NEW m, PermsMap(m)
  PROVE  BytesMap(m) /\ \A k \in Int : B!Covered(m, k) <=> PermsAt(m, k) # {}
<1>1. BytesMap(m)
  BY SameShape DEF PermsMap, BytesMap
<1>2. \A k \in Int : B!Covered(m, k) <=> PermsAt(m, k) # {}
  BY SameShape, SameBytesMaps, PermsMapIs
<1> QED
  BY <1>1, <1>2

LEMMA BytesBounded ==
  ASSUME NEW m, BytesMap(m)
  PROVE  BL!Bounded(m) /\ \A k \in Int : B!Covered(m, k) => 0 <= k /\ k < Limit
<1>1. \A e \in m : 0 <= e.start /\ e.start < Limit
  BY MemoryAssumption DEF BytesMap, BL!IsMap, BL!IsEntry
<1>2. BL!Bounded(m)
  BY <1>1, MemoryAssumption DEF BL!Bounded
<1>3. \A k \in Int : BL!Covered(m, k) => 0 <= k /\ k < Limit
  BY MemoryAssumption DEF BytesMap, BL!IsMap, BL!IsEntry, BL!Covered, BL!Holds
<1> QED
  BY <1>2, <1>3, SameBytesMaps

LEMMA BytesMapFrom ==
  ASSUME NEW m, BL!IsMap(m), \A k \in Int : B!Covered(m, k) => 0 <= k /\ k < Limit
  PROVE  BytesMap(m)
<1> SUFFICES ASSUME NEW e \in m PROVE 0 <= e.start /\ e.limit <= Limit
  BY DEF BytesMap
<1>1. /\ e.start \in Int /\ e.limit \in Int /\ e.start < e.limit /\ e.limit - 1 \in Int
      /\ BL!Holds(e, e.start) /\ BL!Holds(e, e.limit - 1)
  BY DEF BL!IsMap, BL!IsEntry, BL!Holds
<1>2. B!Covered(m, e.start) /\ B!Covered(m, e.limit - 1)
  BY <1>1, SameBytesMaps DEF BL!Covered
<1>3. 0 <= e.start /\ e.limit - 1 < Limit
  BY <1>1, <1>2
<1> QED
  BY <1>1, <1>3, MemoryAssumption

\* r is m with the bytes of E.
BytesMore(r, m, E) ==
  /\ BytesMap(r) /\ (B!Canonical(m) => B!Canonical(r))
  /\ \A k \in Int : B!Covered(r, k) <=> B!Covered(m, k) \/ B!Covered(E, k)
  /\ \A k \in Int : ByteAt(r, k) = IF B!Covered(E, k) THEN ByteAt(E, k) ELSE ByteAt(m, k)

LEMMA BytesAdded ==
  ASSUME NEW m, BytesMap(m), NEW E, BytesMap(E), NEW r, r = Put(m, E)
  PROVE  BytesMore(r, m, E)
<1>1. BL!IsMap(m) /\ BL!IsMap(E) /\ BL!Bounded(E)
  BY BytesBounded DEF BytesMap
<1>2. BL!IsSum(BL!ChangeRangeMap(m, E, "add"), m, E)
  BY <1>1, BL!AddRangeMapIsPointwise
<1>3. r = BL!ChangeRangeMap(m, E, "add")
  BY SameBytesMaps DEF Put
<1>4. BL!IsSum(r, m, E)
  BY <1>2, <1>3
<1>5. BL!IsMap(r) /\ (B!Canonical(m) => B!Canonical(r))
  BY <1>4, SameBytesMaps DEF BL!IsSum
<1>6. \A k \in Int : B!Covered(r, k) <=> B!Covered(m, k) \/ B!Covered(E, k)
  BY <1>4, SameBytesMaps DEF BL!IsSum
<1>7. \A k \in Int : B!Covered(r, k) => B!At(r, k) = IF B!Covered(E, k) THEN B!At(E, k) ELSE B!At(m, k)
  <2>1. \A k \in Int : BL!Covered(r, k) =>
          BL!At(r, k) = IF ~ BL!Covered(E, k) THEN BL!At(m, k)
                        ELSE IF BL!Covered(m, k) THEN BL!At(E, k) ELSE BL!At(E, k)
    BY <1>4 DEF BL!IsSum, ByteAdd
  <2> QED
    BY <2>1, SameBytesMaps
<1>8. BytesMap(r)
  BY <1>5, <1>6, BytesBounded, BytesMapFrom
<1> QED
  BY <1>5, <1>6, <1>7, <1>8 DEF ByteAt, BytesMore

\* r is m without the ranges of E.
BytesLess(r, m, E) ==
  /\ BytesMap(r) /\ (B!Canonical(m) => B!Canonical(r))
  /\ \A k \in Int : B!Covered(r, k) <=> B!Covered(m, k) /\ ~ B!Covered(E, k)
  /\ \A k \in Int : ByteAt(r, k) = IF B!Covered(E, k) THEN Unknown ELSE ByteAt(m, k)

LEMMA BytesRemoved ==
  ASSUME NEW m, BytesMap(m), NEW E, BytesMap(E), NEW r, r = RemoveRanges(m, E)
  PROVE  BytesLess(r, m, E)
<1>1. BL!IsMap(m) /\ BL!IsMap(E) /\ BL!Bounded(E) /\ BL!AllAlike(m, E)
  BY BytesBounded DEF BytesMap, BL!AllAlike, NothingLeft
<1>2. BL!IsRest(BL!ChangeRangeMap(m, E, "remove"), m, E)
  BY <1>1, BL!RemoveRangeMapIsPointwise
<1>3. r = BL!ChangeRangeMap(m, E, "remove")
  BY SameBytesMaps DEF RemoveRanges
<1>4. BL!IsRest(r, m, E)
  BY <1>2, <1>3
<1>5. BL!IsMap(r) /\ (B!Canonical(m) => B!Canonical(r))
  BY <1>4, SameBytesMaps DEF BL!IsRest
<1>6. \A k \in Int : B!Covered(r, k) <=> B!Covered(m, k) /\ ~ B!Covered(E, k)
  <2>1. \A k \in Int : BL!Covered(r, k) <=>
          BL!Covered(m, k) /\ (BL!Covered(E, k) => NothingLeft(BL!At(m, k), BL!At(E, k)) # {})
    BY <1>4 DEF BL!IsRest
  <2>2. \A a, b : NothingLeft(a, b) = {}
    BY DEF NothingLeft
  <2> QED
    BY <2>1, <2>2, SameBytesMaps
<1>7. \A k \in Int : B!Covered(r, k) => B!At(r, k) = B!At(m, k)
  <2>1. \A k \in Int : BL!Covered(r, k) /\ ~ BL!Covered(E, k) => BL!At(r, k) = BL!At(m, k)
    BY <1>4 DEF BL!IsRest
  <2> QED
    BY <1>6, <2>1, SameBytesMaps
<1>8. BytesMap(r)
  BY <1>5, <1>6, BytesBounded, BytesMapFrom
<1> QED
  BY <1>5, <1>6, <1>7, <1>8 DEF ByteAt, BytesLess

\* One range with the values of f.
LEMMA OneRangeOfBytes ==
  ASSUME NEW s \in 0..Limit, NEW l \in 0..Limit, s < l, NEW f, NEW e, e = B!Entry(s, l, f)
  PROVE  /\ BytesMap({e}) /\ e.start = s /\ e.limit = l
         /\ \A k \in Int : B!Covered({e}, k) <=> s <= k /\ k < l
         /\ \A k \in Int : s <= k /\ k < l => ByteAt({e}, k) = f[k]
<1>1. s \in Int /\ l \in Int /\ 0 <= s /\ l <= Limit
  BY MemoryAssumption
<1>2. e = BL!Entry(s, l, f)
  BY DEF B!Entry, BL!Entry
<1>3. /\ BL!IsEntry(e) /\ e.start = s /\ e.limit = l
      /\ \A k \in s..(l - 1) : e.at[k] = f[k]
  BY <1>1, <1>2, BL!EntryIs
<1>4. BL!IsMap({e})
  BY <1>3 DEF BL!IsMap, BL!Disjoint
<1>5. ASSUME NEW k \in Int
      PROVE  /\ BL!Covered({e}, k) <=> s <= k /\ k < l
             /\ s <= k /\ k < l => BL!At({e}, k) = f[k]
  <2>1. BL!Holds(e, k) <=> s <= k /\ k < l
    BY <1>3 DEF BL!Holds
  <2>2. BL!Holds(e, k) => BL!At({e}, k) = e.at[k]
    BY <1>4, BL!AtIs
  <2>3. BL!Covered({e}, k) <=> BL!Holds(e, k)
    BY DEF BL!Covered
  <2> QED
    BY <1>1, <1>3, <2>1, <2>2, <2>3
<1>6. BytesMap({e})
  BY <1>1, <1>3, <1>4 DEF BytesMap
<1> QED
  BY <1>3, <1>5, <1>6, SameBytesMaps DEF ByteAt

\* The ranges of E, all with the value v.
Flatten(E, v) == {B!Entry(e.start, e.limit, B!Flat(e.start, e.limit, v)) : e \in E}

LEMMA FlattenIs ==
  ASSUME NEW E, BytesMap(E), NEW v
  PROVE  /\ BytesMap(Flatten(E, v))
         /\ \A k \in Int : B!Covered(Flatten(E, v), k) <=> B!Covered(E, k)
         /\ \A k \in Int : B!Covered(E, k) => ByteAt(Flatten(E, v), k) = v
<1> DEFINE Flattened(e) == B!Entry(e.start, e.limit, B!Flat(e.start, e.limit, v))
           U == Flatten(E, v)
<1>1. ASSUME NEW e \in E
      PROVE  /\ BL!IsEntry(Flattened(e)) /\ Flattened(e).start = e.start /\ Flattened(e).limit = e.limit
             /\ e.start \in Int /\ e.limit \in Int /\ e.start < e.limit
             /\ \A k \in Int : BL!Holds(e, k) => Flattened(e).at[k] = v
  <2> DEFINE f == B!Flat(e.start, e.limit, v)
             u == B!Entry(e.start, e.limit, f)
  <2>1. e.start \in Int /\ e.limit \in Int /\ e.start < e.limit
    BY DEF BytesMap, BL!IsMap, BL!IsEntry
  <2>2. \A k \in e.start..(e.limit - 1) : f[k] = v
    BY DEF B!Flat
  <2> HIDE DEF f
  <2>3. u = BL!Entry(e.start, e.limit, f)
    BY DEF B!Entry, BL!Entry
  <2>4. /\ BL!IsEntry(u) /\ u.start = e.start /\ u.limit = e.limit
        /\ \A k \in e.start..(e.limit - 1) : u.at[k] = f[k]
    BY <2>1, <2>3, BL!EntryIs
  <2>5. u = Flattened(e)
    BY DEF f
  <2> HIDE DEF u, Flattened
  <2>6. \A k \in Int : BL!Holds(e, k) => u.at[k] = v
    BY <2>1, <2>2, <2>4 DEF BL!Holds
  <2> QED
    BY <2>1, <2>4, <2>5, <2>6
<1>2. (\A u \in U : \E e \in E : u = Flattened(e)) /\ \A e \in E : Flattened(e) \in U
  BY DEF Flatten
<1> HIDE DEF U, Flattened
<1>3. BL!IsMap(U)
  <2>1. \A u \in U : BL!IsEntry(u)
    BY <1>1, <1>2
  <2>2. BL!Disjoint(U)
    <3> SUFFICES ASSUME NEW u \in U, NEW w \in U, u # w PROVE u.limit <= w.start \/ w.limit <= u.start
      BY DEF BL!Disjoint
    <3>1. PICK d \in E, e \in E : u = Flattened(d) /\ w = Flattened(e)
      BY <1>2
    <3>2. d.limit <= e.start \/ e.limit <= d.start
      BY <3>1 DEF BytesMap, BL!IsMap, BL!Disjoint
    <3> QED
      BY <1>1, <3>1, <3>2
  <2> QED
    BY <2>1, <2>2 DEF BL!IsMap
<1>4. BytesMap(U)
  <2>1. ASSUME NEW u \in U PROVE 0 <= u.start /\ u.limit <= Limit
    <3>1. PICK e \in E : u = Flattened(e)
      BY <1>2
    <3> QED
      BY <1>1, <3>1 DEF BytesMap
  <2> QED
    BY <1>3, <2>1 DEF BytesMap
<1>5. ASSUME NEW k \in Int PROVE BL!Covered(U, k) <=> BL!Covered(E, k)
  <2>1. \A e \in E : BL!Holds(Flattened(e), k) <=> BL!Holds(e, k)
    BY <1>1 DEF BL!Holds
  <2> QED
    BY <1>2, <2>1 DEF BL!Covered
<1>6. ASSUME NEW k \in Int, BL!Covered(E, k) PROVE BL!At(U, k) = v
  <2>1. PICK e \in E : BL!Holds(e, k)
    BY <1>6 DEF BL!Covered
  <2>2. BL!Holds(Flattened(e), k) /\ Flattened(e) \in U
    BY <1>1, <1>2, <2>1 DEF BL!Holds
  <2>3. BL!At(U, k) = Flattened(e).at[k]
    BY <1>3, <2>2, BL!AtIs
  <2> QED
    BY <1>1, <2>1, <2>3
<1> QED
  BY <1>4, <1>5, <1>6, SameBytesMaps DEF ByteAt, U

LEMMA MembersIs ==
  ASSUME NEW E, BytesMap(E)
  PROVE  BytesMap(Members(E)) /\ \A k \in Int : B!Covered(Members(E), k) <=> B!Covered(E, k)
<1>1. Members(E) = Flatten(E, TRUE)
  BY DEF Members, Flatten
<1> QED
  BY <1>1, FlattenIs

-----------------------------------------------------------------------------
(* Snapshots *)

LEMMA EntryListIs ==
  ASSUME NEW E, EntryList(E)
  PROVE  BytesMap(E)
<1>1. \A e \in E : BL!IsEntry(e) /\ 0 <= e.start /\ e.limit <= Limit
  BY MemoryAssumption DEF EntryList, BL!IsEntry, BL!Entry, P!Entry
<1>2. BL!Disjoint(E)
  BY DEF EntryList, BL!Disjoint, P!Disjoint
<1> QED
  BY <1>1, <1>2 DEF BytesMap, BL!IsMap

LEMMA MappingListIs ==
  ASSUME NEW E, MappingList(E)
  PROVE  PermsMap(E) /\ \A k \in Int : PermsAt(E, k) \subseteq Rwx
<1>1. BytesMap(E)
  BY EntryListIs DEF MappingList
<1>2. ASSUME NEW e \in E
      PROVE  \A k \in Int : PL!Holds(e, k) => e.at[k] = PermsOf(e)
  <2>1. e.start \in Int /\ e.limit \in Int /\ e.start < e.limit
    BY <1>1 DEF BytesMap, BL!IsMap, BL!IsEntry
  <2>2. e = P!Entry(e.start, e.limit, P!Flat(e.start, e.limit, PermsOf(e)))
    BY DEF MappingList, Ranged
  <2> QED
    BY <2>1, <2>2, FlatEntry
<1>3. PL!IsMap(E) /\ PL!OneValue(E)
  BY <1>1, <1>2, SameShape DEF BytesMap, PL!OneValue
<1>4. \A e \in E : PermsOf(e) \subseteq Rwx /\ PermsOf(e) # {}
  BY DEF MappingList
<1>5. PermsMap(E)
  BY <1>1, <1>3, <1>4 DEF PermsMap, BytesMap, AllPlusMapped
<1>6. \A k \in Int : PermsAt(E, k) \subseteq Rwx
  BY <1>4, <1>5, PermsOfHolder
<1> QED
  BY <1>5, <1>6

\* What a snapshot's lists and maps say of the addresses.
LEMMA SnapshotIs ==
  ASSUME NEW shot \in Snapshots
  PROVE  /\ PermsMap(shot.mappings) /\ PermsMap(shot.map) /\ PermsMap(shot.negative)
         /\ BytesMap(shot.bytes)
         /\ \A k \in Int : /\ PermsAt(shot.mappings, k) = PermsAt(shot.map, k)
                           /\ PermsAt(shot.map, k) \subseteq Rwx
                           /\ PermsAt(shot.negative, k) \subseteq Rwx
                           /\ B!Covered(shot.bytes, k) =>
                                ByteAt(shot.bytes, k) # Unknown /\ PermsAt(shot.map, k) # {}
<1>1. /\ shot = SnapshotOf(shot.mappings, shot.negatives, shot.bytes)
      /\ MappingList(shot.mappings) /\ MappingList(shot.negatives) /\ EntryList(shot.bytes)
      /\ \A b \in shot.bytes : \A k \in b.start..(b.limit - 1) :
           b.at[k] # Unknown /\ P!Covered(shot.mappings, k)
  BY MemoryAssumption DEF IsSnapshot
<1>2. shot.map = MapOf(shot.mappings) /\ shot.negative = MapOf(shot.negatives)
  BY <1>1 DEF SnapshotOf
<1>3. /\ PermsMap(shot.mappings) /\ \A k \in Int : PermsAt(shot.mappings, k) \subseteq Rwx
      /\ PermsMap(shot.negatives) /\ \A k \in Int : PermsAt(shot.negatives, k) \subseteq Rwx
  BY <1>1, MappingListIs
<1>4. /\ PermsMap(shot.map) /\ \A k \in Int : PermsAt(shot.map, k) = PermsAt(shot.mappings, k)
      /\ PermsMap(shot.negative) /\ \A k \in Int : PermsAt(shot.negative, k) = PermsAt(shot.negatives, k)
  BY <1>2, <1>3, MapOfIs
<1>5. BytesMap(shot.bytes)
  BY <1>1, EntryListIs
<1>6. ASSUME NEW k \in Int, B!Covered(shot.bytes, k)
      PROVE  ByteAt(shot.bytes, k) # Unknown /\ PermsAt(shot.map, k) # {}
  <2>1. PICK b \in shot.bytes : BL!Holds(b, k)
    BY <1>6, SameBytesMaps DEF BL!Covered
  <2>2. b.start \in Int /\ b.limit \in Int
    BY <1>5 DEF BytesMap, BL!IsMap, BL!IsEntry
  <2>3. b.at[k] # Unknown /\ P!Covered(shot.mappings, k)
    BY <1>1, <2>1, <2>2 DEF BL!Holds
  <2>4. B!At(shot.bytes, k) = b.at[k]
    BY <1>5, <2>1, BL!AtIs, SameBytesMaps DEF BytesMap
  <2>5. PermsAt(shot.mappings, k) # {}
    BY <1>3, <2>3, PermsMapIs, SamePermsMaps
  <2> QED
    BY <1>4, <1>6, <2>3, <2>4, <2>5 DEF ByteAt
<1> QED
  BY <1>3, <1>4, <1>5, <1>6

-----------------------------------------------------------------------------
(* The inductive invariant *)

\* The maps are in normal form, what is mapped says so, and bytes are known where they were
\* written and written where memory is mapped.
MapsInv(m, w, b) ==
  /\ PermsMap(m) /\ P!Canonical(m)
  /\ BytesMap(w) /\ B!Canonical(w) /\ BytesMap(b) /\ B!Canonical(b)
  /\ \A k \in Int : /\ PermsAt(m, k) # {} => kMapped \in PermsAt(m, k)
                    /\ B!Covered(b, k) => B!Covered(w, k)
                    /\ B!Covered(w, k) => PermsAt(m, k) # {}

MemoryInv == MapsInv(mapped, written_memory, bytes)

LEMMA InitInv == MemoryInit => MemoryInv
<1>1. BytesMap({}) /\ B!Canonical({}) /\ \A k \in Int : ~ B!Covered({}, k)
  BY DEF BytesMap, BL!IsMap, BL!Disjoint, B!Canonical, B!Covered
<1> QED
  BY <1>1, NoPerms, SamePermsMaps DEF MemoryInit, MemoryInv, MapsInv

LEMMA InvMeansConsistent == MemoryInv => MapsConsistent
<1> SUFFICES ASSUME MemoryInv PROVE MapsConsistent
  OBVIOUS
<1>1. /\ PermsMap(mapped) /\ P!Canonical(mapped)
      /\ BytesMap(written_memory) /\ B!Canonical(written_memory)
      /\ BytesMap(bytes) /\ B!Canonical(bytes)
      /\ \A k \in Int : /\ PermsAt(mapped, k) # {} => kMapped \in PermsAt(mapped, k)
                        /\ B!Covered(bytes, k) => B!Covered(written_memory, k)
                        /\ B!Covered(written_memory, k) => PermsAt(mapped, k) # {}
  BY DEF MemoryInv, MapsInv
<1>2. ASSUME NEW m, BytesMap(m) PROVE InSpace(m)
  BY <1>2 DEF InSpace, BytesMap, BL!IsMap, BL!IsEntry, BL!Disjoint, P!Disjoint
<1>3. ASSUME NEW e \in mapped, NEW k \in DOMAIN e.at PROVE e.at[k] = PermsOf(e) /\ kMapped \in e.at[k]
  <2>1. PL!IsEntry(e) /\ \A j \in Int : PL!Holds(e, j) => e.at[j] = PermsOf(e)
    BY <1>1, EntryOfPerms
  <2>2. k \in Int /\ PL!Holds(e, k)
    <3>1. e.start \in Int /\ e.limit \in Int /\ e.at = [j \in e.start..(e.limit - 1) |-> e.at[j]]
      BY <2>1 DEF PL!IsEntry, PL!Entry
    <3>2. DOMAIN e.at = e.start..(e.limit - 1)
      BY <3>1
    <3> QED
      BY <3>1, <3>2 DEF PL!Holds
  <2>3. PermsAt(mapped, k) = PermsOf(e) /\ PermsOf(e) # {}
    BY <1>1, <2>2, PermsOfHolder, EntryOfPerms
  <2> QED
    BY <1>1, <2>1, <2>2, <2>3
<1>4. MapsCanonical
  <2>1. InSpace(mapped) /\ InSpace(written_memory) /\ InSpace(bytes)
    BY <1>1, <1>2, PermsAreBytes
  <2> QED
    BY <1>1, <1>3, <2>1 DEF MapsCanonical
<1>5. BytesAreMapped
  <2>1. \A k \in 0..(Limit - 1) : k \in Int
    OBVIOUS
  <2> QED
    BY <1>1, <2>1, PermsMapIs, SamePermsMaps DEF BytesAreMapped
<1> QED
  BY <1>4, <1>5 DEF MapsConsistent

-----------------------------------------------------------------------------
(* What each operation does to the maps, address by address *)

\* Setting permissions, of a range that was not mapped or of any.
IsMapped(n, m, s, l, p) ==
  \A k \in Int : PermsAt(n, k) = IF s <= k /\ k < l THEN p \cup {kMapped} ELSE PermsAt(m, k)

LEMMA MapEffect ==
  ASSUME NEW m, NEW w, NEW b, MapsInv(m, w, b), NEW s \in 0..Limit, NEW l \in 0..Limit, s < l,
         NEW p, p \subseteq Rwx, NEW n,
         \/ P!Find(m, s, l) = {} /\ n = AddPerms(m, s, l, p \cup {kMapped})
         \/ n = SetPerms(m, s, l, p \cup {kMapped})
  PROVE  /\ MapsInv(n, w, b)
         /\ IsMapped(n, m, s, l, p)
<1> DEFINE q == p \cup {kMapped}
<1>1. q \subseteq AllPlusMapped /\ q # {} /\ kMapped \in q
  BY DEF AllPlusMapped
<1>2. PermsMap(m) /\ P!Canonical(m)
  BY DEF MapsInv
<1> HIDE DEF q
<1>3. /\ PermsMap(n) /\ (P!Canonical(m) => P!Canonical(n))
      /\ \A k \in Int : PermsAt(n, k) = IF s <= k /\ k < l THEN q ELSE PermsAt(m, k)
  <2>1. CASE P!Find(m, s, l) = {} /\ n = AddPerms(m, s, l, q)
    <3>1. /\ PermsMap(n) /\ (P!Canonical(m) => P!Canonical(n))
          /\ \A k \in Int : PermsAt(n, k) = IF s <= k /\ k < l THEN PermsAt(m, k) \cup q ELSE PermsAt(m, k)
      BY <1>1, <1>2, <2>1, AddPermsIs
    <3>2. ASSUME NEW k \in Int, s <= k, k < l PROVE PermsAt(m, k) = {}
      <4> SUFFICES ASSUME PermsAt(m, k) # {} PROVE FALSE
        OBVIOUS
      <4>1. PICK e \in m : PL!Holds(e, k)
        BY <1>2, PermsOfHolder
      <4>2. e.start \in Int /\ e.limit \in Int
        BY <1>2, EntryOfPerms
      <4>3. e \in P!Find(m, s, l)
        BY <3>2, <4>1, <4>2, MemoryAssumption DEF P!Find, PL!Holds
      <4> QED
        BY <2>1, <4>3
    <3> QED
      BY <3>1, <3>2
  <2>2. CASE n = SetPerms(m, s, l, q)
    BY <1>1, <1>2, <2>2, SetPermsIs
  <2> QED
    BY <2>1, <2>2 DEF q
<1>4. MapsInv(n, w, b)
  BY <1>1, <1>3 DEF MapsInv
<1> QED
  BY <1>3, <1>4 DEF q, IsMapped

\* Taking everything away where gone covers, in all three maps.
IsUnmapped(n, w2, b2, b, gone) ==
  /\ MapsInv(n, w2, b2)
  /\ \A k \in Int : ByteAt(b2, k) = IF B!Covered(gone, k) THEN Unknown ELSE ByteAt(b, k)

LEMMA UnmapEffect ==
  ASSUME NEW m, NEW w, NEW b, MapsInv(m, w, b), NEW gone, BytesMap(gone),
         NEW n, PermsMap(n), P!Canonical(m) => P!Canonical(n),
         \A k \in Int : PermsAt(n, k) = IF B!Covered(gone, k) THEN {} ELSE PermsAt(m, k),
         NEW w2, w2 = RemoveRanges(w, gone), NEW b2, b2 = RemoveRanges(b, gone)
  PROVE  IsUnmapped(n, w2, b2, b, gone)
<1>1. BytesMap(w) /\ BytesMap(b)
  BY DEF MapsInv
<1>2. /\ BytesMap(w2) /\ (B!Canonical(w) => B!Canonical(w2))
      /\ \A k \in Int : B!Covered(w2, k) <=> B!Covered(w, k) /\ ~ B!Covered(gone, k)
  BY <1>1, BytesRemoved DEF BytesLess
<1>3. /\ BytesMap(b2) /\ (B!Canonical(b) => B!Canonical(b2))
      /\ \A k \in Int : B!Covered(b2, k) <=> B!Covered(b, k) /\ ~ B!Covered(gone, k)
      /\ \A k \in Int : ByteAt(b2, k) = IF B!Covered(gone, k) THEN Unknown ELSE ByteAt(b, k)
  BY <1>1, BytesRemoved DEF BytesLess
<1>4. MapsInv(n, w2, b2)
  BY <1>2, <1>3 DEF MapsInv
<1> QED
  BY <1>3, <1>4 DEF IsUnmapped

LEMMA RangeIs ==
  ASSUME NEW s \in 0..Limit, NEW l \in 0..Limit, s < l, NEW v,
         NEW E, E = {P!Entry(s, l, P!Flat(s, l, v))}
  PROVE  BytesMap(E) /\ \A k \in Int : B!Covered(E, k) <=> s <= k /\ k < l
<1> DEFINE f == P!Flat(s, l, v)
<1>1. E = {B!Entry(s, l, f)}
  BY DEF P!Entry, B!Entry
<1> HIDE DEF f
<1>2. PICK e : e = B!Entry(s, l, f)
  OBVIOUS
<1>3. BytesMap({e}) /\ \A k \in Int : B!Covered({e}, k) <=> s <= k /\ k < l
  BY <1>2, OneRangeOfBytes
<1> QED
  BY <1>1, <1>2, <1>3

IsRemoved(n, m, b2, b, s, l) ==
  /\ \A k \in Int : PermsAt(n, k) = IF s <= k /\ k < l THEN {} ELSE PermsAt(m, k)
  /\ \A k \in Int : ByteAt(b2, k) = IF s <= k /\ k < l THEN Unknown ELSE ByteAt(b, k)

LEMMA RemoveMappingEffect ==
  ASSUME NEW m, NEW w, NEW b, MapsInv(m, w, b), NEW s \in 0..Limit, NEW l \in 0..Limit, s < l,
         NEW n, n = RemovePerms(m, s, l, AllPlusMapped),
         NEW w2, w2 = RemoveRanges(w, {P!Entry(s, l, P!Flat(s, l, {}))}),
         NEW b2, b2 = RemoveRanges(b, {P!Entry(s, l, P!Flat(s, l, {}))})
  PROVE  /\ MapsInv(n, w2, b2)
         /\ IsRemoved(n, m, b2, b, s, l)
<1> DEFINE gone == {P!Entry(s, l, P!Flat(s, l, {}))}
<1>1. BytesMap(gone) /\ \A k \in Int : B!Covered(gone, k) <=> s <= k /\ k < l
  BY RangeIs
<1>2. w2 = RemoveRanges(w, gone) /\ b2 = RemoveRanges(b, gone)
  OBVIOUS
<1> HIDE DEF gone
<1>3. AllPlusMapped # {} /\ AllPlusMapped \subseteq AllPlusMapped
  BY DEF AllPlusMapped
<1>4. PermsMap(m)
  BY DEF MapsInv
<1>5. /\ PermsMap(n) /\ (P!Canonical(m) => P!Canonical(n))
      /\ \A k \in Int : PermsAt(n, k) = IF s <= k /\ k < l THEN PermsAt(m, k) \ AllPlusMapped ELSE PermsAt(m, k)
  BY <1>3, <1>4, RemovePermsIs
<1>6. \A k \in Int : PermsAt(n, k) = IF s <= k /\ k < l THEN {} ELSE PermsAt(m, k)
  BY <1>4, <1>5, PermsMapIs
<1>7. \A k \in Int : PermsAt(n, k) = IF B!Covered(gone, k) THEN {} ELSE PermsAt(m, k)
  BY <1>1, <1>6
<1>8. /\ MapsInv(n, w2, b2)
      /\ \A k \in Int : ByteAt(b2, k) = IF B!Covered(gone, k) THEN Unknown ELSE ByteAt(b, k)
  <2>1. IsUnmapped(n, w2, b2, b, gone)
    BY <1>1, <1>2, <1>5, <1>7, UnmapEffect
  <2> QED
    BY <2>1 DEF IsUnmapped
<1> QED
  BY <1>1, <1>6, <1>8 DEF IsRemoved

\* What is mapped outside of a snapshot.
IsExtra(x, m, shot) ==
  /\ PermsMap(x)
  /\ \A k \in Int : PermsAt(x, k) = IF PermsAt(shot.map, k) # {} THEN {} ELSE PermsAt(m, k)

LEMMA ExtraIs ==
  ASSUME NEW m, PermsMap(m), NEW shot \in Snapshots, NEW x, x = RemoveRangesOf(m, shot.map, AllPlusMapped)
  PROVE  IsExtra(x, m, shot)
<1>1. AllPlusMapped # {} /\ AllPlusMapped \subseteq AllPlusMapped
  BY DEF AllPlusMapped
<1>2. PermsMap(shot.map)
  BY SnapshotIs
<1>3. /\ PermsMap(x)
      /\ \A k \in Int : PermsAt(x, k) = IF PermsAt(shot.map, k) # {} THEN PermsAt(m, k) \ AllPlusMapped
                                        ELSE PermsAt(m, k)
  <2> DEFINE y == shot.map
  <2>1. PermsMap(y) /\ x = RemoveRangesOf(m, y, AllPlusMapped)
    BY <1>2
  <2> HIDE DEF y
  <2>2. /\ PermsMap(x) /\ (P!Canonical(m) => P!Canonical(x))
        /\ \A k \in Int : PermsAt(x, k) = IF PermsAt(y, k) # {} THEN PermsAt(m, k) \ AllPlusMapped
                                          ELSE PermsAt(m, k)
    BY <1>1, <2>1, RemoveRangesOfIs
  <2> QED
    BY <2>2 DEF y
<1>4. \A k \in Int : PermsAt(m, k) \ AllPlusMapped = {}
  BY PermsMapIs
<1> QED
  BY <1>3, <1>4 DEF IsExtra

IsKept(n, m, b2, b, shot) ==
  /\ \A k \in Int : PermsAt(n, k) = IF PermsAt(shot.map, k) # {} THEN PermsAt(m, k) ELSE {}
  /\ \A k \in Int : ByteAt(b2, k) = IF PermsAt(shot.map, k) # {} THEN ByteAt(b, k) ELSE Unknown

LEMMA UnmapExtraEffect ==
  ASSUME NEW m, NEW w, NEW b, MapsInv(m, w, b), NEW shot \in Snapshots,
         NEW x, x = RemoveRangesOf(m, shot.map, AllPlusMapped),
         NEW n, n = P!ChangeRangeMap(m, AllRanged(x, AllPlusMapped), "remove"),
         NEW w2, w2 = RemoveRanges(w, x), NEW b2, b2 = RemoveRanges(b, x)
  PROVE  /\ MapsInv(n, w2, b2)
         /\ IsKept(n, m, b2, b, shot)
<1>1. PermsMap(m) /\ BytesMap(b)
  BY DEF MapsInv
<1>2. /\ PermsMap(x)
      /\ \A k \in Int : PermsAt(x, k) = IF PermsAt(shot.map, k) # {} THEN {} ELSE PermsAt(m, k)
  <2>1. IsExtra(x, m, shot)
    BY <1>1, ExtraIs
  <2> QED
    BY <2>1 DEF IsExtra
<1>3. BytesMap(x) /\ \A k \in Int : B!Covered(x, k) <=> PermsAt(x, k) # {}
  BY <1>2, PermsAreBytes
<1>4. /\ PermsMap(AllRanged(x, AllPlusMapped))
      /\ \A k \in Int : PermsAt(AllRanged(x, AllPlusMapped), k) = IF PermsAt(x, k) # {} THEN AllPlusMapped ELSE {}
  <2>1. AllPlusMapped # {} /\ AllPlusMapped \subseteq AllPlusMapped
    BY DEF AllPlusMapped
  <2> QED
    BY <1>2, <2>1, AllRangedIs
<1>5. /\ PermsMap(n) /\ (P!Canonical(m) => P!Canonical(n))
      /\ \A k \in Int : PermsAt(n, k) = PermsAt(m, k) \ PermsAt(AllRanged(x, AllPlusMapped), k)
  BY <1>1, <1>4, PermsRemoved
<1>6. \A k \in Int : PermsAt(n, k) = IF B!Covered(x, k) THEN {} ELSE PermsAt(m, k)
  BY <1>1, <1>3, <1>4, <1>5, PermsMapIs
<1>7. /\ MapsInv(n, w2, b2)
      /\ \A k \in Int : ByteAt(b2, k) = IF B!Covered(x, k) THEN Unknown ELSE ByteAt(b, k)
  <2>1. IsUnmapped(n, w2, b2, b, x)
    BY <1>3, <1>5, <1>6, UnmapEffect
  <2> QED
    BY <2>1 DEF IsUnmapped
<1>8. \A k \in Int : PermsAt(n, k) = IF PermsAt(shot.map, k) # {} THEN PermsAt(m, k) ELSE {}
  BY <1>2, <1>3, <1>6
<1>9. ASSUME NEW k \in Int
      PROVE  ByteAt(b2, k) = IF PermsAt(shot.map, k) # {} THEN ByteAt(b, k) ELSE Unknown
  <2>1. PermsAt(m, k) = {} => ByteAt(b, k) = Unknown
    BY DEF MapsInv, ByteAt
  <2> QED
    BY <1>2, <1>3, <1>7, <2>1
<1> QED
  BY <1>7, <1>8, <1>9 DEF IsKept

IsCleared(n, m, shot) ==
  \A k \in Int : PermsAt(n, k) = IF PermsAt(shot.map, k) # {} THEN PermsAt(m, k)
                                    ELSE PermsAt(m, k) \ Rwx

LEMMA ClearEffect ==
  ASSUME NEW m, NEW w, NEW b, MapsInv(m, w, b), NEW shot \in Snapshots,
         NEW x, x = RemoveRangesOf(m, shot.map, AllPlusMapped),
         NEW n, n = P!ChangeRangeMap(m, AllRanged(x, Rwx), "remove")
  PROVE  /\ MapsInv(n, w, b)
         /\ IsCleared(n, m, shot)
<1>1. PermsMap(m)
  BY DEF MapsInv
<1>2. /\ PermsMap(x)
      /\ \A k \in Int : PermsAt(x, k) = IF PermsAt(shot.map, k) # {} THEN {} ELSE PermsAt(m, k)
  <2>1. IsExtra(x, m, shot)
    BY <1>1, ExtraIs
  <2> QED
    BY <2>1 DEF IsExtra
<1>3. /\ PermsMap(AllRanged(x, Rwx))
      /\ \A k \in Int : PermsAt(AllRanged(x, Rwx), k) = IF PermsAt(x, k) # {} THEN Rwx ELSE {}
  <2>1. Rwx # {} /\ Rwx \subseteq AllPlusMapped
    BY MemoryAssumption DEF AllPlusMapped
  <2> QED
    BY <1>2, <2>1, AllRangedIs
<1>4. /\ PermsMap(n) /\ (P!Canonical(m) => P!Canonical(n))
      /\ \A k \in Int : PermsAt(n, k) = PermsAt(m, k) \ PermsAt(AllRanged(x, Rwx), k)
  BY <1>1, <1>3, PermsRemoved
<1>5. \A k \in Int : PermsAt(n, k) = IF PermsAt(shot.map, k) # {} THEN PermsAt(m, k)
                                     ELSE PermsAt(m, k) \ Rwx
  BY <1>2, <1>3, <1>4
<1>6. MapsInv(n, w, b)
  <2>1. ASSUME NEW k \in Int, PermsAt(m, k) # {} PROVE kMapped \in PermsAt(n, k)
    BY <1>5, <2>1, MemoryAssumption DEF MapsInv
  <2>2. ASSUME NEW k \in Int, PermsAt(n, k) # {} PROVE PermsAt(m, k) # {}
    BY <1>5, <2>2
  <2> QED
    BY <1>4, <2>1, <2>2 DEF MapsInv
<1> QED
  BY <1>5, <1>6 DEF IsCleared

IsWritten(b2, b, s, l, f) ==
  \A k \in Int : ByteAt(b2, k) = IF s <= k /\ k < l THEN f[k] ELSE ByteAt(b, k)

LEMMA WriteEffect ==
  ASSUME NEW m, NEW w, NEW b, MapsInv(m, w, b), NEW s \in 0..Limit, NEW l \in 0..Limit, s < l,
         P!Covers(m, s, l), NEW f,
         NEW w2, w2 = Put(w, Members({B!Entry(s, l, f)})), NEW b2, b2 = Put(b, {B!Entry(s, l, f)})
  PROVE  /\ MapsInv(m, w2, b2)
         /\ IsWritten(b2, b, s, l, f)
<1> DEFINE E == {B!Entry(s, l, f)}
<1>1. /\ BytesMap(E)
      /\ \A k \in Int : B!Covered(E, k) <=> s <= k /\ k < l
      /\ \A k \in Int : s <= k /\ k < l => ByteAt(E, k) = f[k]
  BY OneRangeOfBytes
<1> HIDE DEF E
<1>2. BytesMap(Members(E)) /\ \A k \in Int : B!Covered(Members(E), k) <=> s <= k /\ k < l
  BY <1>1, MembersIs
<1>3. BytesMap(w) /\ BytesMap(b) /\ PermsMap(m)
  BY DEF MapsInv
<1>4. w2 = Put(w, Members(E)) /\ b2 = Put(b, E)
  BY DEF E
<1>5. /\ BytesMap(w2) /\ (B!Canonical(w) => B!Canonical(w2))
      /\ \A k \in Int : B!Covered(w2, k) <=> B!Covered(w, k) \/ B!Covered(Members(E), k)
  BY <1>2, <1>3, <1>4, BytesAdded DEF BytesMore
<1>6. /\ BytesMap(b2) /\ (B!Canonical(b) => B!Canonical(b2))
      /\ \A k \in Int : B!Covered(b2, k) <=> B!Covered(b, k) \/ B!Covered(E, k)
      /\ \A k \in Int : ByteAt(b2, k) = IF B!Covered(E, k) THEN ByteAt(E, k) ELSE ByteAt(b, k)
  BY <1>1, <1>3, <1>4, BytesAdded DEF BytesMore
<1>7. ASSUME NEW k \in Int, s <= k, k < l PROVE PermsAt(m, k) # {}
  <2>1. P!Covered(m, k)
    BY <1>7, MemoryAssumption DEF P!Covers
  <2> QED
    BY <1>3, <2>1, SamePermsMaps, PermsMapIs
<1>8. MapsInv(m, w2, b2)
  BY <1>1, <1>2, <1>5, <1>6, <1>7 DEF MapsInv
<1> QED
  BY <1>1, <1>6, <1>8 DEF IsWritten

IsForgotten(b2, b, s, l) ==
  \A k \in Int : ByteAt(b2, k) = IF s <= k /\ k < l THEN Unknown ELSE ByteAt(b, k)

LEMMA ForgetEffect ==
  ASSUME NEW m, NEW w, NEW b, MapsInv(m, w, b), NEW s \in 0..Limit, NEW l \in 0..Limit, s < l,
         NEW b2, b2 = RemoveRanges(b, {B!Entry(s, l, B!Flat(s, l, 0))})
  PROVE  /\ MapsInv(m, w, b2)
         /\ IsForgotten(b2, b, s, l)
<1> DEFINE E == {B!Entry(s, l, B!Flat(s, l, 0))}
<1>1. BytesMap(E) /\ \A k \in Int : B!Covered(E, k) <=> s <= k /\ k < l
  BY OneRangeOfBytes
<1>2. BytesMap(b) /\ b2 = RemoveRanges(b, E)
  BY DEF MapsInv
<1> HIDE DEF E
<1>3. /\ BytesMap(b2) /\ (B!Canonical(b) => B!Canonical(b2))
      /\ \A k \in Int : B!Covered(b2, k) <=> B!Covered(b, k) /\ ~ B!Covered(E, k)
      /\ \A k \in Int : ByteAt(b2, k) = IF B!Covered(E, k) THEN Unknown ELSE ByteAt(b, k)
  <2>1. BytesLess(b2, b, E)
    BY <1>1, <1>2, BytesRemoved
  <2> QED
    BY <2>1 DEF BytesLess
<1>4. MapsInv(m, w, b2)
  BY <1>3 DEF MapsInv
<1> QED
  BY <1>1, <1>3, <1>4 DEF IsForgotten

\* What a snapshot forbids outside of its own mappings.
LEMMA FilteredNegativeIs ==
  ASSUME NEW shot \in Snapshots, NEW x, x = FilteredNegative(shot)
  PROVE  /\ PermsMap(x)
         /\ \A k \in Int : PermsAt(x, k) = IF PermsAt(shot.map, k) # {} THEN {} ELSE PermsAt(shot.negative, k)
<1> DEFINE own == shot.map
           negative == shot.negative
<1>1. PermsMap(own) /\ PermsMap(negative)
  BY SnapshotIs
<1>2. x = RemoveRangesOf(negative, own, AllPlusMapped)
  BY DEF FilteredNegative
<1>3. AllPlusMapped # {} /\ AllPlusMapped \subseteq AllPlusMapped
  BY DEF AllPlusMapped
<1> HIDE DEF own, negative
<1>4. /\ PermsMap(x) /\ (P!Canonical(negative) => P!Canonical(x))
      /\ \A k \in Int : PermsAt(x, k) = IF PermsAt(own, k) # {} THEN PermsAt(negative, k) \ AllPlusMapped
                                        ELSE PermsAt(negative, k)
  BY <1>1, <1>2, <1>3, RemoveRangesOfIs
<1>5. \A k \in Int : PermsAt(negative, k) \ AllPlusMapped = {}
  BY <1>1, PermsMapIs
<1>6. \A k \in Int : PermsAt(x, k) = IF PermsAt(own, k) # {} THEN {} ELSE PermsAt(negative, k)
  BY <1>4, <1>5
<1> QED
  BY <1>4, <1>6 DEF own, negative

\* Its mappings set, and what it forbids taken away.
IsStart(n, m, shot) ==
  /\ PermsMap(n) /\ (P!Canonical(m) => P!Canonical(n))
  /\ \A k \in Int : PermsAt(n, k) = IF PermsAt(shot.map, k) # {} THEN PermsAt(shot.map, k) \cup {kMapped}
                                    ELSE PermsAt(m, k) \ PermsAt(shot.negative, k)

LEMMA StartPermsEffect ==
  ASSUME NEW m, PermsMap(m), NEW shot \in Snapshots,
         NEW set, set = SetMappings(m, shot.mappings),
         NEW n, n = P!ChangeRangeMap(set, Forbidden(set, shot), "remove")
  PROVE  IsStart(n, m, shot)
<1> DEFINE mappings == shot.mappings
           negative == FilteredNegative(shot)
           forbidden == Forbidden(set, shot)
<1>1. /\ PermsMap(mappings)
      /\ \A k \in Int : PermsAt(mappings, k) = PermsAt(shot.map, k)
  BY SnapshotIs
<1>2. /\ PermsMap(negative)
      /\ \A k \in Int : PermsAt(negative, k) = IF PermsAt(shot.map, k) # {} THEN {} ELSE PermsAt(shot.negative, k)
  BY FilteredNegativeIs
<1>3. forbidden = Intersection(set, negative)
  BY DEF Forbidden
<1>4. n = P!ChangeRangeMap(set, forbidden, "remove") /\ set = SetMappings(m, mappings)
  OBVIOUS
<1> HIDE DEF mappings, negative, forbidden
<1>5. AreSet(set, m, mappings)
  BY <1>1, <1>4, SetMappingsIs
<1>6. /\ PermsMap(set) /\ (P!Canonical(m) => P!Canonical(set))
      /\ \A k \in Int : PermsAt(set, k) = IF PermsAt(shot.map, k) # {} THEN PermsAt(shot.map, k) \cup {kMapped}
                                          ELSE PermsAt(m, k)
  BY <1>1, <1>5 DEF AreSet
<1>7. /\ PermsMap(forbidden)
      /\ \A k \in Int : PermsAt(forbidden, k) = PermsAt(set, k) \cap PermsAt(negative, k)
  BY <1>2, <1>3, <1>6, IntersectionIs
<1>8. /\ PermsMap(n) /\ (P!Canonical(set) => P!Canonical(n))
      /\ \A k \in Int : PermsAt(n, k) = PermsAt(set, k) \ PermsAt(forbidden, k)
  BY <1>4, <1>6, <1>7, PermsRemoved
<1>9. ASSUME NEW k \in Int
      PROVE  PermsAt(n, k) = IF PermsAt(shot.map, k) # {} THEN PermsAt(shot.map, k) \cup {kMapped}
                             ELSE PermsAt(m, k) \ PermsAt(shot.negative, k)
  <2>1. PermsAt(n, k) = PermsAt(set, k) \ (PermsAt(set, k) \cap PermsAt(negative, k))
    BY <1>7, <1>8
  <2>2. CASE PermsAt(shot.map, k) # {}
    <3>1. PermsAt(negative, k) = {} /\ PermsAt(set, k) = PermsAt(shot.map, k) \cup {kMapped}
      BY <1>2, <1>6, <2>2
    <3> QED
      BY <2>1, <2>2, <3>1
  <2>3. CASE PermsAt(shot.map, k) = {}
    <3>1. PermsAt(negative, k) = PermsAt(shot.negative, k) /\ PermsAt(set, k) = PermsAt(m, k)
      BY <1>2, <1>6, <2>3
    <3> QED
      BY <2>1, <2>3, <3>1
  <2> QED
    BY <2>2, <2>3
<1> QED
  BY <1>6, <1>8, <1>9 DEF IsStart

\* The zeros of the mappings that are new, if asked for.
Zeros(shot, m, zeroing) ==
  IF zeroing THEN {B!Entry(e.start, e.limit, B!Flat(e.start, e.limit, 0)) :
                     e \in RemoveRangesOf(shot.map, m, AllPlusMapped)}
  ELSE {}
IsNew(shot, m, k) == PermsAt(shot.map, k) # {} /\ PermsAt(m, k) = {}

LEMMA ZerosIs ==
  ASSUME NEW m, PermsMap(m), NEW shot \in Snapshots, NEW zeroing \in BOOLEAN,
         NEW E, E = Zeros(shot, m, zeroing)
  PROVE  /\ BytesMap(E)
         /\ \A k \in Int : B!Covered(E, k) <=> zeroing /\ IsNew(shot, m, k)
         /\ \A k \in Int : B!Covered(E, k) => ByteAt(E, k) = 0
<1> DEFINE own == shot.map
           new == RemoveRangesOf(own, m, AllPlusMapped)
<1>1. PermsMap(own) /\ \A k \in Int : PermsAt(own, k) \subseteq Rwx
  BY SnapshotIs
<1>2. AllPlusMapped # {} /\ AllPlusMapped \subseteq AllPlusMapped /\ Rwx \subseteq AllPlusMapped
  BY DEF AllPlusMapped
<1>3. E = IF zeroing THEN Flatten(new, 0) ELSE {}
  BY DEF Zeros, Flatten
<1>4. \A k : IsNew(shot, m, k) <=> PermsAt(own, k) # {} /\ PermsAt(m, k) = {}
  BY DEF IsNew
<1> HIDE DEF own
<1>5. /\ PermsMap(new) /\ (P!Canonical(own) => P!Canonical(new))
      /\ \A k \in Int : PermsAt(new, k) = IF PermsAt(m, k) # {} THEN PermsAt(own, k) \ AllPlusMapped
                                          ELSE PermsAt(own, k)
  BY <1>1, <1>2, RemoveRangesOfIs
<1> HIDE DEF new
<1>6. \A k \in Int : PermsAt(new, k) # {} <=> IsNew(shot, m, k)
  BY <1>1, <1>2, <1>4, <1>5
<1>7. BytesMap(new) /\ \A k \in Int : B!Covered(new, k) <=> PermsAt(new, k) # {}
  BY <1>5, PermsAreBytes
<1>8. CASE zeroing
  <2>1. /\ BytesMap(Flatten(new, 0))
        /\ \A k \in Int : B!Covered(Flatten(new, 0), k) <=> B!Covered(new, k)
        /\ \A k \in Int : B!Covered(new, k) => ByteAt(Flatten(new, 0), k) = 0
    BY <1>7, FlattenIs
  <2> QED
    BY <1>3, <1>6, <1>7, <1>8, <2>1
<1>9. CASE ~ zeroing
  BY <1>3, <1>9 DEF BytesMap, BL!IsMap, BL!Disjoint, B!Covered
<1> QED
  BY <1>8, <1>9

IsStarted(n, m, b2, b, shot, zeroing) ==
  /\ \A k \in Int : PermsAt(n, k) = IF PermsAt(shot.map, k) # {} THEN PermsAt(shot.map, k) \cup {kMapped}
                                    ELSE PermsAt(m, k) \ PermsAt(shot.negative, k)
  /\ \A k \in Int : ByteAt(b2, k) = IF B!Covered(shot.bytes, k) THEN ByteAt(shot.bytes, k)
                                    ELSE IF zeroing /\ IsNew(shot, m, k) THEN 0 ELSE ByteAt(b, k)

LEMMA StartEffect ==
  ASSUME NEW m, NEW w, NEW b, MapsInv(m, w, b), NEW shot \in Snapshots, NEW zeroing \in BOOLEAN,
         NEW set, set = SetMappings(m, shot.mappings),
         NEW n, n = P!ChangeRangeMap(set, Forbidden(set, shot), "remove"),
         NEW zeros, zeros = Zeros(shot, m, zeroing),
         NEW w2, w2 = Put(Put(w, Members(zeros)), Members(shot.bytes)),
         NEW b2, b2 = Put(Put(b, zeros), shot.bytes)
  PROVE  /\ MapsInv(n, w2, b2)
         /\ IsStarted(n, m, b2, b, shot, zeroing)
<1> DEFINE given == shot.bytes
           w1 == Put(w, Members(zeros))
           b1 == Put(b, zeros)
<1>1. PermsMap(m) /\ BytesMap(w) /\ BytesMap(b)
  BY DEF MapsInv
<1>2. /\ PermsMap(n) /\ (P!Canonical(m) => P!Canonical(n))
      /\ \A k \in Int : PermsAt(n, k) = IF PermsAt(shot.map, k) # {} THEN PermsAt(shot.map, k) \cup {kMapped}
                                        ELSE PermsAt(m, k) \ PermsAt(shot.negative, k)
  <2>1. IsStart(n, m, shot)
    BY <1>1, StartPermsEffect
  <2> QED
    BY <2>1 DEF IsStart
<1>3. /\ BytesMap(zeros)
      /\ \A k \in Int : B!Covered(zeros, k) <=> zeroing /\ IsNew(shot, m, k)
      /\ \A k \in Int : B!Covered(zeros, k) => ByteAt(zeros, k) = 0
  BY <1>1, ZerosIs
<1>4. /\ BytesMap(given)
      /\ \A k \in Int : /\ B!Covered(given, k) => PermsAt(shot.map, k) # {}
                        /\ PermsAt(shot.negative, k) \subseteq Rwx
  BY SnapshotIs
<1>5. /\ BytesMap(Members(zeros)) /\ BytesMap(Members(given))
      /\ \A k \in Int : B!Covered(Members(zeros), k) <=> B!Covered(zeros, k)
      /\ \A k \in Int : B!Covered(Members(given), k) <=> B!Covered(given, k)
  BY <1>3, <1>4, MembersIs
<1>6. w2 = Put(w1, Members(given)) /\ b2 = Put(b1, given)
  OBVIOUS
<1> HIDE DEF given
<1>7. BytesMore(w1, w, Members(zeros)) /\ BytesMore(b1, b, zeros)
  BY <1>1, <1>3, <1>5, BytesAdded
<1> HIDE DEF w1, b1
<1>8. BytesMore(w2, w1, Members(given)) /\ BytesMore(b2, b1, given)
  BY <1>4, <1>5, <1>6, <1>7, BytesAdded DEF BytesMore
<1>9. /\ BytesMap(w2) /\ (B!Canonical(w) => B!Canonical(w2))
      /\ \A k \in Int : B!Covered(w2, k) <=> B!Covered(w, k) \/ B!Covered(zeros, k) \/ B!Covered(given, k)
  BY <1>5, <1>7, <1>8 DEF BytesMore
<1>10. /\ BytesMap(b2) /\ (B!Canonical(b) => B!Canonical(b2))
       /\ \A k \in Int : B!Covered(b2, k) <=> B!Covered(b, k) \/ B!Covered(zeros, k) \/ B!Covered(given, k)
  BY <1>7, <1>8 DEF BytesMore
<1>11. ASSUME NEW k \in Int
       PROVE  ByteAt(b2, k) = IF B!Covered(given, k) THEN ByteAt(given, k)
                              ELSE IF zeroing /\ IsNew(shot, m, k) THEN 0 ELSE ByteAt(b, k)
  <2>1. ByteAt(b2, k) = IF B!Covered(given, k) THEN ByteAt(given, k) ELSE ByteAt(b1, k)
    BY <1>8 DEF BytesMore
  <2>2. ByteAt(b1, k) = IF B!Covered(zeros, k) THEN ByteAt(zeros, k) ELSE ByteAt(b, k)
    BY <1>7 DEF BytesMore
  <2> QED
    BY <1>3, <2>1, <2>2
<1>12. ASSUME NEW k \in Int PROVE /\ PermsAt(n, k) # {} => kMapped \in PermsAt(n, k)
                                  /\ PermsAt(m, k) # {} => PermsAt(n, k) # {}
  <2>1. PermsAt(m, k) # {} => kMapped \in PermsAt(m, k)
    BY DEF MapsInv
  <2>2. kMapped \notin PermsAt(shot.negative, k)
    BY <1>4, MemoryAssumption
  <2> QED
    BY <1>2, <2>1, <2>2
<1>13. ASSUME NEW k \in Int, B!Covered(w2, k) PROVE PermsAt(n, k) # {}
  <2>1. CASE B!Covered(w, k)
    BY <1>12, <2>1 DEF MapsInv
  <2>2. CASE B!Covered(zeros, k) \/ B!Covered(given, k)
    <3>1. PermsAt(shot.map, k) # {}
      BY <1>3, <1>4, <2>2 DEF IsNew
    <3> QED
      BY <1>2, <3>1
  <2> QED
    BY <1>9, <1>13, <2>1, <2>2
<1>14. \A k \in Int : B!Covered(b2, k) => B!Covered(w2, k)
  BY <1>9, <1>10 DEF MapsInv
<1>15. MapsInv(n, w2, b2)
  BY <1>2, <1>9, <1>10, <1>12, <1>13, <1>14 DEF MapsInv
<1> QED
  BY <1>2, <1>11, <1>15 DEF given, IsStarted

-----------------------------------------------------------------------------
(* The operations keep the invariant *)

LEMMA StepKeepsInv ==
  ASSUME MemoryInv, [MemoryNext]_memvars
  PROVE  MemoryInv'
<1>1. MapsInv(mapped, written_memory, bytes)
  BY DEF MemoryInv
<1>2. ASSUME NEW r \in Ranges, NEW p \in SUBSET GivenPerms, AddNewMemoryMapping(r[1], r[2], p)
      PROVE  MapsInv(mapped', written_memory', bytes')
  <2>1. /\ r[1] \in 0..Limit /\ r[2] \in 0..Limit /\ r[1] < r[2] /\ p \subseteq Rwx
    BY MemoryAssumption DEF Ranges
  <2>2. /\ P!Find(mapped, r[1], r[2]) = {} /\ mapped' = AddPerms(mapped, r[1], r[2], p \cup {kMapped})
        /\ written_memory' = written_memory /\ bytes' = bytes
    BY <1>2 DEF AddNewMemoryMapping
  <2>3. MapsInv(mapped', written_memory, bytes)
    BY <1>1, <2>1, <2>2, MapEffect
  <2> QED
    BY <2>2, <2>3
<1>3. ASSUME NEW r \in Ranges, NEW p \in SUBSET GivenPerms, SetMemoryMappingEmptyPermsOk(r[1], r[2], p)
      PROVE  MapsInv(mapped', written_memory', bytes')
  <2>1. /\ r[1] \in 0..Limit /\ r[2] \in 0..Limit /\ r[1] < r[2] /\ p \subseteq Rwx
    BY MemoryAssumption DEF Ranges
  <2>2. /\ mapped' = SetPerms(mapped, r[1], r[2], p \cup {kMapped})
        /\ written_memory' = written_memory /\ bytes' = bytes
    BY <1>3 DEF SetMemoryMappingEmptyPermsOk
  <2>3. MapsInv(mapped', written_memory, bytes)
    BY <1>1, <2>1, <2>2, MapEffect
  <2> QED
    BY <2>2, <2>3
<1>4. ASSUME NEW r \in Ranges, RemoveMemoryMapping(r[1], r[2])
      PROVE  MapsInv(mapped', written_memory', bytes')
  BY <1>1, <1>4, RemoveMappingEffect DEF RemoveMemoryMapping, Ranges
<1>5. ASSUME NEW r \in Ranges, NEW f \in Patterns, SetMemoryBytes(r[1], r[2], f)
      PROVE  MapsInv(mapped', written_memory', bytes')
  BY <1>1, <1>5, WriteEffect DEF SetMemoryBytes, Ranges
<1>6. ASSUME NEW r \in Ranges, ForgetMemoryBytes(r[1], r[2])
      PROVE  MapsInv(mapped', written_memory', bytes')
  BY <1>1, <1>6, ForgetEffect DEF ForgetMemoryBytes, Ranges
<1>7. ASSUME NEW shot \in Snapshots, RemoveMemoryMappingsNotIn(shot)
      PROVE  MapsInv(mapped', written_memory', bytes')
  BY <1>1, <1>7, UnmapExtraEffect DEF RemoveMemoryMappingsNotIn, Extra
<1>8. ASSUME NEW shot \in Snapshots, ClearMemoryMappingsPermsNotIn(shot)
      PROVE  MapsInv(mapped', written_memory', bytes')
  BY <1>1, <1>8, ClearEffect DEF ClearMemoryMappingsPermsNotIn, Extra
<1>9. ASSUME NEW shot \in Snapshots, NEW z \in BOOLEAN, SetInitialState(shot, z)
      PROVE  MapsInv(mapped', written_memory', bytes')
  <2>1. LET set == SetMappings(mapped, shot.mappings)
            zeros == Zeros(shot, mapped, z)
        IN  /\ mapped' = P!ChangeRangeMap(set, Forbidden(set, shot), "remove")
            /\ written_memory' = Put(Put(written_memory, Members(zeros)), Members(shot.bytes))
            /\ bytes' = Put(Put(bytes, zeros), shot.bytes)
    BY <1>9 DEF SetInitialState, Zeros
  <2> QED
    BY <1>1, <2>1, StartEffect
<1>10. ASSUME UNCHANGED memvars PROVE MapsInv(mapped', written_memory', bytes')
  BY <1>1, <1>10 DEF memvars
<1>11. MapsInv(mapped', written_memory', bytes')
  BY <1>2, <1>3, <1>4, <1>5, <1>6, <1>7, <1>8, <1>9, <1>10 DEF MemoryNext
<1> QED
  BY <1>11 DEF MemoryInv

\* The three maps of MemoryState stay in normal form and agree with each other, whatever
\* operations in whatever order.
THEOREM MemoryConsistent == MemorySpec => []MapsConsistent
<1>1. MemoryInit => MemoryInv
  BY InitInv
<1>2. MemoryInv /\ [MemoryNext]_memvars => MemoryInv'
  BY StepKeepsInv
<1>3. MemoryInv => MapsConsistent
  BY InvMeansConsistent
<1> QED
  BY <1>1, <1>2, <1>3, PTL DEF MemorySpec

-----------------------------------------------------------------------------
(* MemoryState implements AddressSpace *)

LEMMA RangeIsSegment ==
  ASSUME NEW s \in 0..Limit, NEW l \in 0..Limit, s < l, NEW S, S = s..(l - 1)
  PROVE  S \in Image!Segments /\ \A k \in 0..(Limit - 1) : k \in S <=> s <= k /\ k < l
<1>1. s \in Int /\ l \in Int /\ 0 <= s /\ l <= Limit /\ Limit \in Int
  BY MemoryAssumption
<1>2. \A k : k \in S <=> k \in Int /\ s <= k /\ k < l
  BY <1>1
<1>3. S \subseteq Image!Addresses
  BY <1>1, <1>2 DEF Image!Addresses
<1>4. s \in S
  BY <1>1, <1>2
<1>5. \A a, b \in S : a..b \subseteq S
  BY <1>1, <1>2
<1> QED
  BY <1>1, <1>2, <1>3, <1>4, <1>5 DEF Image!Segments

\* What a snapshot says address by address.
ImageOf(shot) == [perms |-> [k \in 0..(Limit - 1) |-> PermsAt(shot.map, k)],
                  negative |-> [k \in 0..(Limit - 1) |-> PermsAt(shot.negative, k)],
                  bytes |-> [k \in 0..(Limit - 1) |-> ByteAt(shot.bytes, k)]]

LEMMA ImageOfIs ==
  ASSUME NEW shot \in Snapshots, NEW im, im = ImageOf(shot)
  PROVE  /\ im \in SnapshotImages
         /\ \A k \in 0..(Limit - 1) : /\ im.perms[k] = PermsAt(shot.map, k)
                                      /\ im.negative[k] = PermsAt(shot.negative, k)
                                      /\ im.bytes[k] = ByteAt(shot.bytes, k)
         /\ \A k : k \in Image!Outside(im) <=> k \in 0..(Limit - 1) /\ PermsAt(shot.map, k) = {}
<1>1. im \in SnapshotImages
  BY DEF SnapshotImages, ImageOf
<1>2. \A k \in 0..(Limit - 1) : /\ im.perms[k] = PermsAt(shot.map, k)
                                /\ im.negative[k] = PermsAt(shot.negative, k)
                                /\ im.bytes[k] = ByteAt(shot.bytes, k)
  BY DEF ImageOf
<1>3. \A k : k \in Image!Outside(im) <=> k \in 0..(Limit - 1) /\ PermsAt(shot.map, k) = {}
  BY <1>2 DEF Image!Outside, Image!Addresses
<1> QED
  BY <1>1, <1>2, <1>3

LEMMA InitRefines == MemoryInit => Image!ImageInit
<1>1. \A k : PermsAt({}, k) = {} /\ ByteAt({}, k) = Unknown
  BY DEF PermsAt, ByteAt, P!Covered, B!Covered
<1> QED
  BY <1>1 DEF MemoryInit, Image!ImageInit, Image!Addresses

LEMMA StepRefines ==
  ASSUME MemoryInv, MemoryNext
  PROVE  Image!ImageNext
<1> DEFINE A == 0..(Limit - 1)
<1>1. MapsInv(mapped, written_memory, bytes) /\ \A k \in A : k \in Int
  BY DEF MemoryInv
<1>2. ASSUME NEW r \in Ranges, NEW p \in SUBSET GivenPerms,
             \/ AddNewMemoryMapping(r[1], r[2], p)
             \/ SetMemoryMappingEmptyPermsOk(r[1], r[2], p)
      PROVE  Image!ImageNext
  <2>1. /\ r[1] \in 0..Limit /\ r[2] \in 0..Limit /\ r[1] < r[2] /\ p \subseteq Rwx
    BY MemoryAssumption DEF Ranges
  <2>2. /\ \/ P!Find(mapped, r[1], r[2]) = {} /\ mapped' = AddPerms(mapped, r[1], r[2], p \cup {kMapped})
           \/ mapped' = SetPerms(mapped, r[1], r[2], p \cup {kMapped})
        /\ bytes' = bytes
    BY <1>2 DEF AddNewMemoryMapping, SetMemoryMappingEmptyPermsOk
  <2>3. \A k \in Int : PermsAt(mapped', k) = IF r[1] <= k /\ k < r[2] THEN p \cup {kMapped}
                                             ELSE PermsAt(mapped, k)
    <3>1. IsMapped(mapped', mapped, r[1], r[2], p)
      BY <1>1, <2>1, <2>2, MapEffect
    <3> QED
      BY <3>1 DEF IsMapped
  <2> DEFINE S == r[1]..(r[2] - 1)
  <2>4. S \in Image!Segments /\ \A k \in A : k \in S <=> r[1] <= k /\ k < r[2]
    BY <2>1, RangeIsSegment
  <2> HIDE DEF S
  <2>5. Image!SetMapping(S, p)
    BY <1>1, <2>2, <2>3, <2>4 DEF Image!SetMapping, Image!Over, Image!All, Image!Addresses, kMapped
  <2> QED
    BY <2>1, <2>4, <2>5 DEF Image!ImageNext
<1>3. ASSUME NEW r \in Ranges, RemoveMemoryMapping(r[1], r[2])
      PROVE  Image!ImageNext
  <2>1. /\ r[1] \in 0..Limit /\ r[2] \in 0..Limit /\ r[1] < r[2]
    BY DEF Ranges
  <2>2. /\ \A k \in Int : PermsAt(mapped', k) = IF r[1] <= k /\ k < r[2] THEN {} ELSE PermsAt(mapped, k)
        /\ \A k \in Int : ByteAt(bytes', k) = IF r[1] <= k /\ k < r[2] THEN Unknown ELSE ByteAt(bytes, k)
    <3>1. IsRemoved(mapped', mapped, bytes', bytes, r[1], r[2])
      BY <1>1, <1>3, <2>1, RemoveMappingEffect DEF RemoveMemoryMapping
    <3> QED
      BY <3>1 DEF IsRemoved
  <2> DEFINE S == r[1]..(r[2] - 1)
  <2>3. S \in Image!Segments /\ \A k \in A : k \in S <=> r[1] <= k /\ k < r[2]
    BY <2>1, RangeIsSegment
  <2> HIDE DEF S
  <2>4. Image!Unmap(S)
    BY <1>1, <2>2, <2>3 DEF Image!Unmap, Image!Over, Image!All, Image!Addresses
  <2> QED
    BY <2>3, <2>4 DEF Image!ImageNext
<1>4. ASSUME NEW r \in Ranges, NEW f \in Patterns, SetMemoryBytes(r[1], r[2], f)
      PROVE  Image!ImageNext
  <2>1. /\ r[1] \in 0..Limit /\ r[2] \in 0..Limit /\ r[1] < r[2]
    BY DEF Ranges
  <2>2. /\ \A k \in Int : ByteAt(bytes', k) = IF r[1] <= k /\ k < r[2] THEN f[k] ELSE ByteAt(bytes, k)
        /\ mapped' = mapped
    <3>1. IsWritten(bytes', bytes, r[1], r[2], f) /\ mapped' = mapped
      BY <1>1, <1>4, <2>1, WriteEffect DEF SetMemoryBytes
    <3> QED
      BY <3>1 DEF IsWritten
  <2> DEFINE S == r[1]..(r[2] - 1)
  <2>3. S \in Image!Segments /\ \A k \in A : k \in S <=> r[1] <= k /\ k < r[2]
    BY <2>1, RangeIsSegment
  <2> HIDE DEF S
  <2>4. Image!Write(S, f)
    BY <1>1, <2>2, <2>3 DEF Image!Write, Image!Over, Image!Addresses
  <2> QED
    BY <2>3, <2>4 DEF Image!ImageNext
<1>5. ASSUME NEW r \in Ranges, ForgetMemoryBytes(r[1], r[2])
      PROVE  Image!ImageNext
  <2>1. /\ r[1] \in 0..Limit /\ r[2] \in 0..Limit /\ r[1] < r[2]
    BY DEF Ranges
  <2>2. /\ \A k \in Int : ByteAt(bytes', k) = IF r[1] <= k /\ k < r[2] THEN Unknown ELSE ByteAt(bytes, k)
        /\ mapped' = mapped
    <3>1. IsForgotten(bytes', bytes, r[1], r[2]) /\ mapped' = mapped
      BY <1>1, <1>5, <2>1, ForgetEffect DEF ForgetMemoryBytes
    <3> QED
      BY <3>1 DEF IsForgotten
  <2> DEFINE S == r[1]..(r[2] - 1)
  <2>3. S \in Image!Segments /\ \A k \in A : k \in S <=> r[1] <= k /\ k < r[2]
    BY <2>1, RangeIsSegment
  <2> HIDE DEF S
  <2>4. Image!Forget(S)
    BY <1>1, <2>2, <2>3 DEF Image!Forget, Image!Over, Image!All, Image!Addresses
  <2> QED
    BY <2>3, <2>4 DEF Image!ImageNext
<1>6. ASSUME NEW shot \in Snapshots, RemoveMemoryMappingsNotIn(shot)
      PROVE  Image!ImageNext
  <2>1. /\ \A k \in Int : PermsAt(mapped', k) = IF PermsAt(shot.map, k) # {} THEN PermsAt(mapped, k) ELSE {}
        /\ \A k \in Int : ByteAt(bytes', k) = IF PermsAt(shot.map, k) # {} THEN ByteAt(bytes, k) ELSE Unknown
    <3>1. IsKept(mapped', mapped, bytes', bytes, shot)
      BY <1>1, <1>6, UnmapExtraEffect DEF RemoveMemoryMappingsNotIn, Extra
    <3> QED
      BY <3>1 DEF IsKept
  <2> DEFINE im == ImageOf(shot)
  <2>2. im \in SnapshotImages /\ \A k : k \in Image!Outside(im) <=> k \in A /\ PermsAt(shot.map, k) = {}
    BY ImageOfIs
  <2> HIDE DEF im
  <2>3. Image!Unmap(Image!Outside(im))
    BY <1>1, <2>1, <2>2 DEF Image!Unmap, Image!Over, Image!All, Image!Addresses
  <2> QED
    BY <2>2, <2>3 DEF Image!ImageNext
<1>7. ASSUME NEW shot \in Snapshots, ClearMemoryMappingsPermsNotIn(shot)
      PROVE  Image!ImageNext
  <2>1. /\ \A k \in Int : PermsAt(mapped', k) = IF PermsAt(shot.map, k) # {} THEN PermsAt(mapped, k)
                                                ELSE PermsAt(mapped, k) \ Rwx
        /\ bytes' = bytes
    <3>1. IsCleared(mapped', mapped, shot) /\ bytes' = bytes
      BY <1>1, <1>7, ClearEffect DEF ClearMemoryMappingsPermsNotIn, Extra
    <3> QED
      BY <3>1 DEF IsCleared
  <2> DEFINE im == ImageOf(shot)
  <2>2. im \in SnapshotImages /\ \A k : k \in Image!Outside(im) <=> k \in A /\ PermsAt(shot.map, k) = {}
    BY ImageOfIs
  <2> HIDE DEF im
  <2>3. Image!ClearPerms(im)
    BY <1>1, <2>1, <2>2 DEF Image!ClearPerms, Image!Over, Image!Addresses
  <2> QED
    BY <2>2, <2>3 DEF Image!ImageNext
<1>8. ASSUME NEW shot \in Snapshots, NEW z \in BOOLEAN, SetInitialState(shot, z)
      PROVE  Image!ImageNext
  <2>1. LET set == SetMappings(mapped, shot.mappings)
            zeros == Zeros(shot, mapped, z)
        IN  /\ mapped' = P!ChangeRangeMap(set, Forbidden(set, shot), "remove")
            /\ written_memory' = Put(Put(written_memory, Members(zeros)), Members(shot.bytes))
            /\ bytes' = Put(Put(bytes, zeros), shot.bytes)
    BY <1>8 DEF SetInitialState, Zeros
  <2>2. /\ \A k \in Int : PermsAt(mapped', k) =
             IF PermsAt(shot.map, k) # {} THEN PermsAt(shot.map, k) \cup {kMapped}
             ELSE PermsAt(mapped, k) \ PermsAt(shot.negative, k)
        /\ \A k \in Int : ByteAt(bytes', k) =
             IF B!Covered(shot.bytes, k) THEN ByteAt(shot.bytes, k)
             ELSE IF z /\ IsNew(shot, mapped, k) THEN 0 ELSE ByteAt(bytes, k)
    <3>1. IsStarted(mapped', mapped, bytes', bytes, shot, z)
      BY <1>1, <2>1, StartEffect
    <3> QED
      BY <3>1 DEF IsStarted
  <2> DEFINE im == ImageOf(shot)
  <2>3. /\ im \in SnapshotImages
        /\ \A k \in A : /\ im.perms[k] = PermsAt(shot.map, k)
                        /\ im.negative[k] = PermsAt(shot.negative, k)
                        /\ im.bytes[k] = ByteAt(shot.bytes, k)
        /\ \A k : k \in Image!Outside(im) <=> k \in A /\ PermsAt(shot.map, k) = {}
    BY ImageOfIs
  <2>4. \A k \in Int : B!Covered(shot.bytes, k) <=> ByteAt(shot.bytes, k) # Unknown
    BY SnapshotIs DEF ByteAt
  <2> HIDE DEF im
  <2>5. Image!Start(im, z)
    BY <1>1, <2>2, <2>3, <2>4 DEF Image!Start, Image!Over, Image!All, Image!Addresses, IsNew, kMapped
  <2> QED
    BY <2>3, <2>5 DEF Image!ImageNext
<1> QED
  BY <1>2, <1>3, <1>4, <1>5, <1>6, <1>7, <1>8 DEF MemoryNext

\* Every operation of MemoryState does to each address what it says, and nothing to the
\* others: the ranges implement a memory of single addresses.
THEOREM MemoryRefinesAddressSpace == MemorySpec => RefinesAddressSpace
<1> DEFINE image == <<[k \in 0..(Limit - 1) |-> PermsAt(mapped, k)],
                      [k \in 0..(Limit - 1) |-> ByteAt(bytes, k)]>>
<1>1. MemoryInit => Image!ImageInit
  BY InitRefines
<1>2. MemoryInit => MemoryInv
  BY InitInv
<1>3. MemoryInv /\ [MemoryNext]_memvars => MemoryInv'
  BY StepKeepsInv
<1>4. MemoryInv /\ [MemoryNext]_memvars => [Image!Changes => Image!ImageNext]_image
  <2>1. ASSUME UNCHANGED memvars PROVE UNCHANGED image
    BY <2>1 DEF memvars
  <2> QED
    BY <2>1, StepRefines
<1> HIDE DEF MemoryInv
<1> QED
  BY <1>1, <1>2, <1>3, <1>4, PTL DEF MemorySpec, RefinesAddressSpace, Image!ImageSpec

-----------------------------------------------------------------------------
(* The commands *)

\* What a command leaves an address with.
Outcome(c) == IF c.action = "unmap" THEN {} ELSE c.perms \cup {kMapped}

\* No two commands are for the same address, and each maps what is not mapped or is for
\* what is.
Commands(cmds) ==
  /\ \A c \in cmds : /\ c.start \in Int /\ c.limit \in Int /\ c.start < c.limit
                     /\ \A k \in Int : PL!Holds(c, k) => ((c.action = "map") <=> PermsAt(mapped, k) = {})
  /\ \A c, d \in cmds : \A k \in Int : PL!Holds(c, k) /\ PL!Holds(d, k) => c = d

LEMMA CommandsAreExecutable ==
  ASSUME MemoryInv, NEW cmds, Commands(cmds)
  PROVE  Executable(cmds)
<1>1. \A c \in cmds : c.start \in Int /\ c.limit \in Int /\ c.start < c.limit
  BY DEF Commands
<1>2. P!Disjoint(cmds)
  <2> SUFFICES ASSUME NEW c \in cmds, NEW d \in cmds, ~ (c.limit <= d.start \/ d.limit <= c.start) PROVE c = d
    BY DEF P!Disjoint
  <2>1. CASE c.start <= d.start
    <3>1. PL!Holds(c, d.start) /\ PL!Holds(d, d.start)
      BY <1>1, <2>1 DEF PL!Holds
    <3> QED
      BY <1>1, <3>1 DEF Commands
  <2>2. CASE d.start <= c.start
    <3>1. PL!Holds(c, c.start) /\ PL!Holds(d, c.start)
      BY <1>1, <2>2 DEF PL!Holds
    <3> QED
      BY <1>1, <3>1 DEF Commands
  <2> QED
    BY <1>1, <2>1, <2>2
<1>3. ASSUME NEW c \in cmds, NEW k \in c.start..(c.limit - 1)
      PROVE  (c.action = "map") = ~ P!Covered(mapped, k)
  <2>1. k \in Int /\ PL!Holds(c, k)
    BY <1>1 DEF PL!Holds
  <2>2. (c.action = "map") <=> PermsAt(mapped, k) = {}
    BY <2>1 DEF Commands
  <2>3. P!Covered(mapped, k) <=> PermsAt(mapped, k) # {}
    BY <2>1, PermsMapIs, SamePermsMaps DEF MemoryInv, MapsInv
  <2> QED
    BY <2>2, <2>3
<1> QED
  BY <1>2, <1>3 DEF Executable

\* An address has what the command for it says, or what it had.
LEMMA AfterIs ==
  ASSUME NEW cmds, Commands(cmds), NEW k \in Int
  PROVE  /\ \A c \in cmds : PL!Holds(c, k) => After(cmds, k) = Outcome(c)
         /\ (\A c \in cmds : ~ PL!Holds(c, k)) => After(cmds, k) = PermsAt(mapped, k)
<1> DEFINE here == {c \in cmds : P!Holds(c, k)}
<1>1. \A c : c \in here <=> c \in cmds /\ PL!Holds(c, k)
  BY DEF P!Holds, PL!Holds
<1>2. After(cmds, k) = IF here = {} THEN PermsAt(mapped, k) ELSE Outcome(CHOOSE c \in here : TRUE)
  BY DEF After, Outcome
<1> HIDE DEF here
<1>3. ASSUME NEW c \in cmds, PL!Holds(c, k) PROVE After(cmds, k) = Outcome(c)
  <2>1. c \in here /\ (CHOOSE d \in here : TRUE) \in here
    BY <1>1, <1>3
  <2>2. (CHOOSE d \in here : TRUE) = c
    BY <1>1, <1>3, <2>1 DEF Commands
  <2> QED
    BY <1>2, <2>1, <2>2
<1> QED
  BY <1>1, <1>2, <1>3

\* Commands for different addresses are commands together.
LEMMA MoreCommands ==
  ASSUME NEW C, Commands(C), NEW D, Commands(D),
         \A c \in C, d \in D : \A k \in Int : ~ (PL!Holds(c, k) /\ PL!Holds(d, k))
  PROVE  Commands(C \cup D)
BY DEF Commands

\* The commands for the ranges of a set of entries, if no two of these hold the same address.
AreFor(cmds, D, made) ==
  \A c \in cmds : \E d \in D :
    /\ c = made[d] /\ c.start = d.start /\ c.limit = d.limit
    /\ \A k \in Int : PL!Holds(d, k) => ((c.action = "map") <=> PermsAt(mapped, k) = {})

LEMMA CommandsOn ==
  ASSUME NEW D, PL!IsMap(D), NEW cmds, NEW made, AreFor(cmds, D, made)
  PROVE  Commands(cmds)
<1>1. \A d \in D : d.start \in Int /\ d.limit \in Int /\ d.start < d.limit
  BY DEF PL!IsMap, PL!IsEntry
<1>2. ASSUME NEW c \in cmds
      PROVE  /\ c.start \in Int /\ c.limit \in Int /\ c.start < c.limit
             /\ \A k \in Int : PL!Holds(c, k) => ((c.action = "map") <=> PermsAt(mapped, k) = {})
  <2>1. PICK d \in D : /\ c = made[d] /\ c.start = d.start /\ c.limit = d.limit
                       /\ \A k \in Int : PL!Holds(d, k) =>
                            ((c.action = "map") <=> PermsAt(mapped, k) = {})
    BY DEF AreFor
  <2> QED
    BY <1>1, <2>1 DEF PL!Holds
<1>3. ASSUME NEW b \in cmds, NEW c \in cmds, NEW k \in Int, PL!Holds(b, k), PL!Holds(c, k) PROVE b = c
  <2>1. PICK d \in D : b = made[d] /\ b.start = d.start /\ b.limit = d.limit
    BY DEF AreFor
  <2>2. PICK e \in D : c = made[e] /\ c.start = e.start /\ c.limit = e.limit
    BY DEF AreFor
  <2>3. PL!Holds(d, k) /\ PL!Holds(e, k)
    BY <1>3, <2>1, <2>2 DEF PL!Holds
  <2>4. d = e
    BY <2>3, PL!OneHolder
  <2> QED
    BY <2>1, <2>2, <2>4
<1> QED
  BY <1>2, <1>3 DEF Commands

-----------------------------------------------------------------------------
\* The commands for one of the mappings of a snapshot give its addresses p.
IsDelta(cmds, m, p) ==
  /\ Commands(cmds)
  /\ \A c \in cmds : /\ Outcome(c) = p
                     /\ \A k \in Int : PL!Holds(c, k) => PL!Holds(m, k)
  /\ \A k \in Int : PL!Holds(m, k) /\ PermsAt(mapped, k) # p => \E c \in cmds : PL!Holds(c, k)

LEMMA DeltaOfMapping ==
  ASSUME MemoryInv, NEW E, PermsMap(E), NEW m \in E, NEW added,
         NEW p, p = PermsOf(m) \cup added \cup {kMapped}
  PROVE  IsDelta(DeltaMemoryMapping(m, added), m, p)
<1>1. /\ m.start \in Int /\ m.limit \in Int /\ m.start < m.limit /\ 0 <= m.start /\ m.limit <= Limit
  BY EntryOfPerms, MemoryAssumption
<1>2. PermsMap(mapped) /\ \A k \in Int : PermsAt(mapped, k) # {} => kMapped \in PermsAt(mapped, k)
  BY DEF MemoryInv, MapsInv
<1>3. kMapped \in p /\ (p \ {kMapped}) \cup {kMapped} = p
  OBVIOUS
<1> DEFINE cmds == DeltaMemoryMapping(m, added)
<1>4. CASE mapped = {}
  <2>1. cmds = {Cmd("map", m, p \ {kMapped})}
    BY <1>4 DEF DeltaMemoryMapping
  <2> DEFINE c == Cmd("map", m, p \ {kMapped})
  <2>2. c.action = "map" /\ c.start = m.start /\ c.limit = m.limit /\ c.perms = p \ {kMapped}
    BY DEF Cmd
  <2>3. \A k \in Int : PermsAt(mapped, k) = {}
    BY <1>4, NoPerms
  <2> HIDE DEF c, cmds
  <2>4. cmds = {c}
    BY <2>1 DEF c
  <2>5. Outcome(c) = p
    BY <1>3, <2>2 DEF Outcome
  <2>6. \A k \in Int : PL!Holds(c, k) <=> PL!Holds(m, k)
    BY <2>2 DEF PL!Holds
  <2>7. Commands(cmds)
    BY <1>1, <2>2, <2>3, <2>4 DEF Commands
  <2> QED
    BY <2>4, <2>5, <2>6, <2>7 DEF IsDelta, cmds
<1>5. CASE mapped # {}
  <2> DEFINE r == Difference(m.start, m.limit, p, mapped)
             Made(d) == Cmd(IF PermsOf(d) = p THEN "map" ELSE "protect", d, p \ {kMapped})
             made == [d \in r |-> Made(d)]
  <2>1. cmds = {Made(d) : d \in r}
    BY <1>5 DEF DeltaMemoryMapping
  <2>2. IsDifference(r, m.start, m.limit, p, mapped)
    <3> DEFINE s == m.start
               l == m.limit
    <3>1. s \in Int /\ l \in Int /\ 0 <= s /\ s < l /\ l <= Limit
      BY <1>1
    <3>2. r = Difference(s, l, p, mapped)
      OBVIOUS
    <3> HIDE DEF s, l, r
    <3>3. IsDifference(r, s, l, p, mapped)
      BY <1>2, <1>3, <3>1, <3>2, DifferenceIs
    <3> QED
      BY <3>3 DEF s, l
  <2>3. \A d : /\ Made(d).start = d.start /\ Made(d).limit = d.limit /\ Made(d).perms = p \ {kMapped}
               /\ Made(d).action = IF PermsOf(d) = p THEN "map" ELSE "protect"
    BY DEF Cmd
  <2>4. \A d \in r : made[d] = Made(d)
    OBVIOUS
  <2> HIDE DEF r, Made, made, cmds
  <2>5. /\ PL!IsMap(r)
        /\ \A d \in r : \A k \in Int : PL!Holds(d, k) =>
             PL!Holds(m, k) /\ (PermsOf(d) = p <=> PermsAt(mapped, k) = {})
        /\ \A k \in Int : PL!Holds(m, k) /\ PermsAt(mapped, k) # p => \E d \in r : PL!Holds(d, k)
    BY <2>2 DEF IsDifference, PL!Holds
  <2>6. ASSUME NEW d \in r
        PROVE  /\ Outcome(Made(d)) = p
               /\ \A k \in Int : PL!Holds(d, k) => ((Made(d).action = "map") <=> PermsAt(mapped, k) = {})
               /\ \A k \in Int : PL!Holds(Made(d), k) <=> PL!Holds(d, k)
    <3>1. Outcome(Made(d)) = p
      BY <1>3, <2>3 DEF Outcome
    <3>2. \A k \in Int : PL!Holds(d, k) => ((Made(d).action = "map") <=> PermsAt(mapped, k) = {})
      BY <2>3, <2>5
    <3> QED
      BY <2>3, <3>1, <3>2 DEF PL!Holds
  <2>7. Commands(cmds)
    <3>1. ASSUME NEW c \in cmds
          PROVE  \E d \in r : /\ c = made[d] /\ c.start = d.start /\ c.limit = d.limit
                              /\ \A k \in Int : PL!Holds(d, k) =>
                                   ((c.action = "map") <=> PermsAt(mapped, k) = {})
      <4>1. PICK d \in r : c = Made(d)
        BY <2>1
      <4> QED
        BY <2>3, <2>4, <2>6, <4>1
    <3>2. AreFor(cmds, r, made)
      BY <3>1 DEF AreFor
    <3> QED
      BY <2>5, <3>2, CommandsOn
  <2>8. ASSUME NEW c \in cmds
        PROVE  Outcome(c) = p /\ \A k \in Int : PL!Holds(c, k) => PL!Holds(m, k)
    <3>1. PICK d \in r : c = Made(d)
      BY <2>1
    <3> QED
      BY <2>5, <2>6, <3>1
  <2>9. ASSUME NEW k \in Int, PL!Holds(m, k), PermsAt(mapped, k) # p PROVE \E c \in cmds : PL!Holds(c, k)
    <3>1. PICK d \in r : PL!Holds(d, k)
      BY <2>5, <2>9
    <3>2. Made(d) \in cmds /\ PL!Holds(Made(d), k)
      BY <2>1, <2>6, <3>1
    <3> QED
      BY <3>2
  <2> QED
    BY <2>7, <2>8, <2>9 DEF IsDelta, cmds
<1> QED
  BY <1>4, <1>5

\* The commands for all of them give every address of the snapshot what it has there.
IsOwnDelta(cmds, shot, added) ==
  /\ Commands(cmds)
  /\ \A c \in cmds : \A k \in Int : PL!Holds(c, k) =>
       /\ PermsAt(shot.map, k) # {}
       /\ Outcome(c) = PermsAt(shot.map, k) \cup added \cup {kMapped}
  /\ \A k \in Int : PermsAt(shot.map, k) # {}
                      /\ PermsAt(mapped, k) # PermsAt(shot.map, k) \cup added \cup {kMapped}
                    => \E c \in cmds : PL!Holds(c, k)

LEMMA OwnDeltaIs ==
  ASSUME MemoryInv, NEW shot \in Snapshots, NEW added,
         NEW cmds, cmds = UNION {DeltaMemoryMapping(m, added) : m \in shot.mappings}
  PROVE  IsOwnDelta(cmds, shot, added)
<1> DEFINE E == shot.mappings
           p(m) == PermsOf(m) \cup added \cup {kMapped}
<1>1. PermsMap(E) /\ \A k \in Int : PermsAt(shot.map, k) = PermsAt(E, k)
  BY SnapshotIs
<1>2. cmds = UNION {DeltaMemoryMapping(m, added) : m \in E}
  OBVIOUS
<1> HIDE DEF E
<1>3. ASSUME NEW m \in E
      PROVE  IsDelta(DeltaMemoryMapping(m, added), m, p(m))
  BY <1>1, DeltaOfMapping
<1>4. \A c \in cmds : \E m \in E : c \in DeltaMemoryMapping(m, added)
  BY <1>2
<1>5. \A m \in E : DeltaMemoryMapping(m, added) \subseteq cmds
  BY <1>2
<1>6. ASSUME NEW m \in E, NEW k \in Int, PL!Holds(m, k)
      PROVE  PermsAt(shot.map, k) # {} /\ p(m) = PermsAt(shot.map, k) \cup added \cup {kMapped}
  BY <1>1, <1>6, PermsOfHolder, EntryOfPerms
<1> HIDE DEF p
<1>7. Commands(cmds)
  <2>1. ASSUME NEW c \in cmds
        PROVE  /\ c.start \in Int /\ c.limit \in Int /\ c.start < c.limit
               /\ \A k \in Int : PL!Holds(c, k) => ((c.action = "map") <=> PermsAt(mapped, k) = {})
    BY <1>3, <1>4 DEF IsDelta, Commands
  <2>2. ASSUME NEW c \in cmds, NEW d \in cmds, NEW k \in Int, PL!Holds(c, k), PL!Holds(d, k)
        PROVE  c = d
    <3>1. PICK m \in E : c \in DeltaMemoryMapping(m, added)
      BY <1>4
    <3>2. PICK n \in E : d \in DeltaMemoryMapping(n, added)
      BY <1>4
    <3>3. PL!Holds(m, k) /\ PL!Holds(n, k)
      BY <1>3, <2>2, <3>1, <3>2 DEF IsDelta
    <3>4. m = n
      BY <1>1, <3>3, PL!OneHolder DEF PermsMap
    <3> QED
      BY <1>3, <2>2, <3>1, <3>2, <3>4 DEF IsDelta, Commands
  <2> QED
    BY <2>1, <2>2 DEF Commands
<1>8. ASSUME NEW c \in cmds, NEW k \in Int, PL!Holds(c, k)
      PROVE  PermsAt(shot.map, k) # {} /\ Outcome(c) = PermsAt(shot.map, k) \cup added \cup {kMapped}
  <2>1. PICK m \in E : c \in DeltaMemoryMapping(m, added)
    BY <1>4
  <2>2. PL!Holds(m, k) /\ Outcome(c) = p(m)
    BY <1>3, <1>8, <2>1 DEF IsDelta
  <2> QED
    BY <1>6, <2>2
<1>9. ASSUME NEW k \in Int, PermsAt(shot.map, k) # {},
             PermsAt(mapped, k) # PermsAt(shot.map, k) \cup added \cup {kMapped}
      PROVE  \E c \in cmds : PL!Holds(c, k)
  <2>1. PICK m \in E : PL!Holds(m, k)
    BY <1>1, <1>9, PermsOfHolder
  <2>2. PermsAt(mapped, k) # p(m)
    BY <1>6, <1>9, <2>1
  <2>3. \E c \in DeltaMemoryMapping(m, added) : PL!Holds(c, k)
    BY <1>3, <2>1, <2>2 DEF IsDelta
  <2> QED
    BY <1>5, <2>3
<1> QED
  BY <1>7, <1>8, <1>9 DEF IsOwnDelta

\* What a snapshot forbids of what is mapped outside of it.
LEMMA ForbiddenIs ==
  ASSUME MemoryInv, NEW shot \in Snapshots, NEW f, f = Forbidden(mapped, shot)
  PROVE  /\ PermsMap(f)
         /\ \A k \in Int : PermsAt(f, k) = IF PermsAt(shot.map, k) # {} THEN {}
                                           ELSE PermsAt(mapped, k) \cap PermsAt(shot.negative, k)
<1> DEFINE negative == FilteredNegative(shot)
<1>1. /\ PermsMap(negative)
      /\ \A k \in Int : PermsAt(negative, k) = IF PermsAt(shot.map, k) # {} THEN {} ELSE PermsAt(shot.negative, k)
  BY FilteredNegativeIs
<1>2. PermsMap(mapped) /\ f = Intersection(mapped, negative)
  BY DEF Forbidden, MemoryInv, MapsInv
<1> HIDE DEF negative
<1>3. PermsMap(f) /\ \A k \in Int : PermsAt(f, k) = PermsAt(mapped, k) \cap PermsAt(negative, k)
  BY <1>1, <1>2, IntersectionIs
<1> QED
  BY <1>1, <1>3

\* Permissions common to a range are those of each of its addresses.
LEMMA CommonPermsAre ==
  ASSUME MemoryInv, NEW s \in Int, NEW l \in Int, NEW k \in Int, s <= k, k < l
  PROVE  CommonPerms(mapped, s, l) \subseteq PermsAt(mapped, k)
<1> SUFFICES ASSUME NEW q \in CommonPerms(mapped, s, l) PROVE q \in PermsAt(mapped, k)
  OBVIOUS
<1>1. PermsMap(mapped)
  BY DEF MemoryInv, MapsInv
<1>2. P!Covers(mapped, s, l) /\ \A e \in P!Find(mapped, s, l) : q \in PermsOf(e)
  BY DEF CommonPerms
<1>3. PermsAt(mapped, k) # {}
  <2>1. k \in s..(l - 1)
    OBVIOUS
  <2>2. P!Covered(mapped, k)
    BY <1>2, <2>1 DEF P!Covers
  <2> QED
    BY <1>1, <2>2, PermsMapIs, SamePermsMaps
<1>4. PICK e \in mapped : PL!Holds(e, k)
  BY <1>1, <1>3, PermsOfHolder
<1>5. e \in P!Find(mapped, s, l)
  BY <1>1, <1>4, EntryOfPerms DEF P!Find, PL!Holds
<1> QED
  BY <1>1, <1>2, <1>4, <1>5, PermsOfHolder

LEMMA CmdIs ==
  \A action, d, p : /\ Cmd(action, d, p).action = action /\ Cmd(action, d, p).perms = p
                    /\ Cmd(action, d, p).start = d.start /\ Cmd(action, d, p).limit = d.limit
                    /\ \A k : PL!Holds(Cmd(action, d, p), k) <=> PL!Holds(d, k)
BY DEF Cmd, PL!Holds

\* Commands for what is mapped outside of the snapshot, which map nothing.
IsOuter(cmds, shot) ==
  Commands(cmds) /\ \A c \in cmds : \A k \in Int : PL!Holds(c, k) => PermsAt(shot.map, k) = {}

IsOutside(D, shot) ==
  /\ PermsMap(D)
  /\ \A k \in Int : PermsAt(D, k) # {} => PermsAt(shot.map, k) = {} /\ PermsAt(mapped, k) # {}

LEMMA OuterCommands ==
  ASSUME NEW shot, NEW D, IsOutside(D, shot), NEW action, action # "map", NEW perms,
         NEW cmds, cmds \subseteq {Cmd(action, d, perms[d]) : d \in D}
  PROVE  IsOuter(cmds, shot)
<1> DEFINE made == [d \in D |-> Cmd(action, d, perms[d])]
<1>1. \A d \in D : made[d] = Cmd(action, d, perms[d])
  OBVIOUS
<1> HIDE DEF made
<1>2. ASSUME NEW d \in D, NEW k \in Int, PL!Holds(d, k)
      PROVE  PermsAt(shot.map, k) = {} /\ PermsAt(mapped, k) # {}
  BY <1>2, PermsOfHolder, EntryOfPerms DEF IsOutside
<1>3. AreFor(cmds, D, made)
  <2>1. ASSUME NEW c \in cmds
        PROVE  \E d \in D :
                 /\ c = made[d] /\ c.start = d.start /\ c.limit = d.limit
                 /\ \A k \in Int : PL!Holds(d, k) => ((c.action = "map") <=> PermsAt(mapped, k) = {})
    <3>1. PICK d \in D : c = Cmd(action, d, perms[d])
      OBVIOUS
    <3>2. c = made[d] /\ c.start = d.start /\ c.limit = d.limit /\ c.action = action
      BY <1>1, <3>1, CmdIs
    <3>3. \A k \in Int : PL!Holds(d, k) => ((c.action = "map") <=> PermsAt(mapped, k) = {})
      BY <1>2, <3>2
    <3> QED
      BY <3>2, <3>3
  <2> QED
    BY <2>1 DEF AreFor
<1>4. Commands(cmds)
  BY <1>3, CommandsOn DEF IsOutside, PermsMap
<1>5. \A c \in cmds : \A k \in Int : PL!Holds(c, k) => PermsAt(shot.map, k) = {}
  BY <1>2, CmdIs
<1> QED
  BY <1>4, <1>5 DEF IsOuter

\* The permissions that protecting what is forbidden leaves.
Spared(d) == CommonPerms(mapped, d.start, d.limit) \ (PermsOf(d) \cup {kMapped})

LEMMA ForbidIs ==
  ASSUME MemoryInv, NEW shot \in Snapshots,
         NEW cmds, cmds = {Cmd("protect", d, Spared(d)) : d \in Forbidden(mapped, shot)}
  PROVE  /\ IsOuter(cmds, shot)
         /\ \A c \in cmds : \A k \in Int : PL!Holds(c, k) =>
              Outcome(c) \subseteq PermsAt(mapped, k) /\ Outcome(c) \cap PermsAt(shot.negative, k) = {}
         /\ \A k \in Int : PermsAt(shot.map, k) = {} /\ (\A c \in cmds : ~ PL!Holds(c, k)) =>
              PermsAt(mapped, k) \cap PermsAt(shot.negative, k) = {}
<1> DEFINE f == Forbidden(mapped, shot)
           perms == [d \in f |-> Spared(d)]
<1>1. /\ PermsMap(f)
      /\ \A k \in Int : PermsAt(f, k) = IF PermsAt(shot.map, k) # {} THEN {}
                                        ELSE PermsAt(mapped, k) \cap PermsAt(shot.negative, k)
  BY ForbiddenIs
<1>2. \A k \in Int : /\ PermsAt(mapped, k) # {} => kMapped \in PermsAt(mapped, k)
                     /\ kMapped \notin PermsAt(shot.negative, k)
  BY SnapshotIs, MemoryAssumption DEF MemoryInv, MapsInv
<1>3. cmds = {Cmd("protect", d, Spared(d)) : d \in f} /\ \A d \in f : perms[d] = Spared(d)
  OBVIOUS
<1> HIDE DEF f, perms
<1>4. IsOuter(cmds, shot)
  <2>1. IsOutside(f, shot)
    BY <1>1 DEF IsOutside
  <2>2. PICK a : a = "protect"
    OBVIOUS
  <2>3. a # "map" /\ cmds \subseteq {Cmd(a, d, perms[d]) : d \in f}
    BY <1>3, <2>2
  <2> QED
    BY ONLY <2>1, <2>3, OuterCommands
<1>5. ASSUME NEW c \in cmds, NEW k \in Int, PL!Holds(c, k)
      PROVE  Outcome(c) \subseteq PermsAt(mapped, k) /\ Outcome(c) \cap PermsAt(shot.negative, k) = {}
  <2>1. PICK d \in f : c = Cmd("protect", d, Spared(d))
    BY <1>3
  <2>2. PL!Holds(d, k) /\ Outcome(c) = Spared(d) \cup {kMapped}
    BY <1>5, <2>1, CmdIs DEF Outcome
  <2>3. PermsOf(d) = PermsAt(mapped, k) \cap PermsAt(shot.negative, k) /\ PermsOf(d) # {}
    BY <1>1, <2>2, PermsOfHolder, EntryOfPerms
  <2>4. CommonPerms(mapped, d.start, d.limit) \subseteq PermsAt(mapped, k)
    <3>1. d.start \in Int /\ d.limit \in Int /\ d.start <= k /\ k < d.limit
      BY <1>1, <2>2, EntryOfPerms DEF PL!Holds
    <3> DEFINE s == d.start
               l == d.limit
    <3> HIDE DEF s, l
    <3>2. CommonPerms(mapped, s, l) \subseteq PermsAt(mapped, k)
      BY <3>1, CommonPermsAre DEF s, l
    <3> QED
      BY <3>2 DEF s, l
  <2> QED
    BY <1>2, <2>2, <2>3, <2>4 DEF Spared
<1>6. ASSUME NEW k \in Int, PermsAt(shot.map, k) = {}, \A c \in cmds : ~ PL!Holds(c, k)
      PROVE  PermsAt(mapped, k) \cap PermsAt(shot.negative, k) = {}
  <2> SUFFICES ASSUME PermsAt(f, k) # {} PROVE FALSE
    BY <1>1, <1>6
  <2>1. PICK d \in f : PL!Holds(d, k)
    BY <1>1, PermsOfHolder
  <2>2. Cmd("protect", d, Spared(d)) \in cmds
    BY <1>3
  <2> QED
    BY <1>6, <2>1, <2>2, CmdIs
<1> QED
  BY <1>4, <1>5, <1>6

\* What the exact commands do outside of the snapshot.
ExtraCommands(shot, unmap) ==
  IF unmap THEN {Cmd("unmap", d, {}) : d \in Extra(shot)}
  ELSE {Cmd("protect", d, {}) : d \in {d \in Extra(shot) : PermsOf(d) \cap Rwx # {}}}
Allowed(unmap) == IF unmap THEN {} ELSE {kMapped}

LEMMA ExtraCommandsAre ==
  ASSUME MemoryInv, NEW shot \in Snapshots, NEW unmap \in BOOLEAN,
         NEW cmds, cmds = ExtraCommands(shot, unmap)
  PROVE  /\ IsOuter(cmds, shot)
         /\ \A c \in cmds : Outcome(c) \subseteq Allowed(unmap)
         /\ \A k \in Int : PermsAt(shot.map, k) = {} /\ (\A c \in cmds : ~ PL!Holds(c, k)) =>
              PermsAt(mapped, k) \subseteq Allowed(unmap)
<1> DEFINE x == Extra(shot)
           D == IF unmap THEN x ELSE {d \in x : PermsOf(d) \cap Rwx # {}}
           perms == [d \in D |-> {}]
           action == IF unmap THEN "unmap" ELSE "protect"
<1>1. PermsMap(mapped)
  BY DEF MemoryInv, MapsInv
<1>2. /\ PermsMap(x)
      /\ \A k \in Int : PermsAt(x, k) = IF PermsAt(shot.map, k) # {} THEN {} ELSE PermsAt(mapped, k)
  <2>1. x = RemoveRangesOf(mapped, shot.map, AllPlusMapped)
    BY DEF Extra
  <2> HIDE DEF x
  <2>2. IsExtra(x, mapped, shot)
    BY <1>1, <2>1, ExtraIs
  <2> QED
    BY <2>2 DEF IsExtra
<1>3. /\ cmds = {Cmd(action, d, {}) : d \in D} /\ D \subseteq x /\ action # "map"
      /\ action = "unmap" <=> unmap
      /\ \A d \in D : perms[d] = {}
      /\ \A d \in x : d \in D \/ (~ unmap /\ PermsOf(d) \cap Rwx = {})
  BY DEF ExtraCommands
<1> HIDE DEF x, D, perms, action
<1>4. PermsMap(D) /\ \A k \in Int : PermsAt(D, k) # {} => PermsAt(x, k) # {}
  <2>1. PermsMap(D)
    BY <1>2, <1>3, SomePermsMap
  <2>2. ASSUME NEW k \in Int, PermsAt(D, k) # {} PROVE PermsAt(x, k) # {}
    <3>1. PICK d \in D : PL!Holds(d, k)
      BY <2>1, <2>2, PermsOfHolder
    <3> QED
      BY <1>2, <1>3, <3>1, PermsOfHolder, EntryOfPerms
  <2> QED
    BY <2>1, <2>2
<1>5. IsOuter(cmds, shot)
  <2>1. IsOutside(D, shot)
    BY <1>2, <1>4 DEF IsOutside
  <2>2. action # "map" /\ cmds \subseteq {Cmd(action, d, perms[d]) : d \in D}
    BY <1>3
  <2> QED
    BY ONLY <2>1, <2>2, OuterCommands
<1>6. ASSUME NEW c \in cmds PROVE Outcome(c) \subseteq Allowed(unmap)
  <2>1. c.action = action /\ c.perms = {}
    BY <1>3, CmdIs
  <2> QED
    BY <1>3, <2>1 DEF Outcome, Allowed
<1>7. ASSUME NEW k \in Int, PermsAt(shot.map, k) = {}, \A c \in cmds : ~ PL!Holds(c, k)
      PROVE  PermsAt(mapped, k) \subseteq Allowed(unmap)
  <2>1. PermsAt(x, k) = PermsAt(mapped, k) /\ PermsAt(mapped, k) \subseteq AllPlusMapped
    BY <1>1, <1>2, <1>7, PermsMapIs
  <2>2. CASE PermsAt(x, k) = {}
    BY <2>1, <2>2
  <2>3. CASE PermsAt(x, k) # {}
    <3>1. PICK d \in x : PL!Holds(d, k)
      BY <1>2, <2>3, PermsOfHolder
    <3>2. d \notin D
      BY <1>3, <1>7, <3>1, CmdIs
    <3>3. ~ unmap /\ PermsOf(d) \cap Rwx = {} /\ PermsAt(x, k) = PermsOf(d)
      BY <1>2, <1>3, <3>1, <3>2, PermsOfHolder
    <3> QED
      BY <2>1, <3>3 DEF Allowed, AllPlusMapped
  <2> QED
    BY <2>2, <2>3
<1> QED
  BY <1>5, <1>6, <1>7

\* The commands of both kinds together.
AreTogether(all, outer, shot, added) ==
  /\ Executable(all)
  /\ \A k \in Int :
       IF PermsAt(shot.map, k) # {}
       THEN After(all, k) = PermsAt(shot.map, k) \cup added \cup {kMapped}
       ELSE /\ \A c \in outer : PL!Holds(c, k) => After(all, k) = Outcome(c)
            /\ (\A c \in outer : ~ PL!Holds(c, k)) => After(all, k) = PermsAt(mapped, k)

LEMMA Together ==
  ASSUME MemoryInv, NEW shot \in Snapshots, NEW added,
         NEW own, IsOwnDelta(own, shot, added), NEW outer, IsOuter(outer, shot),
         NEW all, all = own \cup outer
  PROVE  AreTogether(all, outer, shot, added)
<1>1. Commands(all)
  BY MoreCommands DEF IsOwnDelta, IsOuter
<1>2. Executable(all)
  BY <1>1, CommandsAreExecutable
<1>3. \A c \in all : c \in own \/ c \in outer
  OBVIOUS
<1>4. own \subseteq all /\ outer \subseteq all
  OBVIOUS
<1>5. ASSUME NEW k \in Int, PermsAt(shot.map, k) # {}
      PROVE  After(all, k) = PermsAt(shot.map, k) \cup added \cup {kMapped}
  <2>1. \A c \in outer : ~ PL!Holds(c, k)
    BY <1>5 DEF IsOuter
  <2>2. CASE \E c \in own : PL!Holds(c, k)
    <3>1. PICK c \in own : PL!Holds(c, k)
      BY <2>2
    <3>2. After(all, k) = Outcome(c)
      BY <1>1, <1>4, <3>1, AfterIs
    <3> QED
      BY <3>1, <3>2 DEF IsOwnDelta
  <2>3. CASE \A c \in own : ~ PL!Holds(c, k)
    <3>1. After(all, k) = PermsAt(mapped, k)
      BY <1>1, <1>3, <2>1, <2>3, AfterIs
    <3> QED
      BY <1>5, <2>3, <3>1 DEF IsOwnDelta
  <2> QED
    BY <2>2, <2>3
<1>6. ASSUME NEW k \in Int, PermsAt(shot.map, k) = {}
      PROVE  /\ \A c \in outer : PL!Holds(c, k) => After(all, k) = Outcome(c)
             /\ (\A c \in outer : ~ PL!Holds(c, k)) => After(all, k) = PermsAt(mapped, k)
  <2>1. \A c \in own : ~ PL!Holds(c, k)
    BY <1>6 DEF IsOwnDelta
  <2> QED
    BY <1>1, <1>3, <1>4, <2>1, AfterIs
<1> QED
  BY <1>2, <1>5, <1>6 DEF AreTogether

LEMMA DeltaReaches == MemoryInv => DeltaReachesSnapshot
<1> SUFFICES ASSUME MemoryInv, NEW shot \in Snapshots, NEW added \in SUBSET GivenPerms
             PROVE  LET own == shot.map
                        some == DeltaMemoryMappings(shot, added)
                    IN  /\ Executable(some)
                        /\ \A k \in 0..(Limit - 1) :
                             IF P!Covered(own, k) THEN After(some, k) = P!At(own, k) \cup added \cup {kMapped}
                             ELSE /\ After(some, k) \subseteq PermsAt(mapped, k)
                                  /\ After(some, k) \cap PermsAt(shot.negative, k) = {}
                        /\ \A unmap \in BOOLEAN :
                             LET all == DeltaMemoryMappingsExact(shot, added, unmap)
                             IN  /\ Executable(all)
                                 /\ \A k \in 0..(Limit - 1) :
                                      IF P!Covered(own, k)
                                      THEN After(all, k) = P!At(own, k) \cup added \cup {kMapped}
                                      ELSE After(all, k) \subseteq (IF unmap THEN {} ELSE {kMapped})
  BY DEF DeltaReachesSnapshot
<1> DEFINE own == shot.map
           mine == UNION {DeltaMemoryMapping(m, added) : m \in shot.mappings}
           some == DeltaMemoryMappings(shot, added)
           forbid == {Cmd("protect", d, Spared(d)) : d \in Forbidden(mapped, shot)}
           all(unmap) == DeltaMemoryMappingsExact(shot, added, unmap)
<1>1. IsOwnDelta(mine, shot, added)
  BY OwnDeltaIs
<1>2. some = mine \cup forbid
  BY DEF DeltaMemoryMappings, Spared
<1>3. \A unmap \in BOOLEAN : all(unmap) = mine \cup ExtraCommands(shot, unmap)
  BY DEF DeltaMemoryMappingsExact, ExtraCommands
<1>4. /\ IsOuter(forbid, shot)
      /\ \A c \in forbid : \A k \in Int : PL!Holds(c, k) =>
           Outcome(c) \subseteq PermsAt(mapped, k) /\ Outcome(c) \cap PermsAt(shot.negative, k) = {}
      /\ \A k \in Int : PermsAt(shot.map, k) = {} /\ (\A c \in forbid : ~ PL!Holds(c, k)) =>
           PermsAt(mapped, k) \cap PermsAt(shot.negative, k) = {}
  BY ForbidIs
<1> HIDE DEF mine, some, forbid, all
<1>5. \A k \in 0..(Limit - 1) : /\ k \in Int /\ (P!Covered(own, k) <=> PermsAt(shot.map, k) # {})
                                /\ P!Covered(own, k) => P!At(own, k) = PermsAt(shot.map, k)
  BY SnapshotIs, PermsMapIs, SamePermsMaps
<1> HIDE DEF own
<1>6. /\ Executable(some)
      /\ \A k \in 0..(Limit - 1) :
           IF P!Covered(own, k) THEN After(some, k) = P!At(own, k) \cup added \cup {kMapped}
           ELSE /\ After(some, k) \subseteq PermsAt(mapped, k)
                /\ After(some, k) \cap PermsAt(shot.negative, k) = {}
  <2>1. AreTogether(some, forbid, shot, added)
    BY <1>1, <1>2, <1>4, Together
  <2>2. ASSUME NEW k \in Int, PermsAt(shot.map, k) = {}
        PROVE  /\ After(some, k) \subseteq PermsAt(mapped, k)
               /\ After(some, k) \cap PermsAt(shot.negative, k) = {}
    <3>1. CASE \E c \in forbid : PL!Holds(c, k)
      <4>1. PICK c \in forbid : PL!Holds(c, k)
        BY <3>1
      <4>2. After(some, k) = Outcome(c)
        BY <2>1, <2>2, <4>1 DEF AreTogether
      <4> QED
        BY <1>4, <4>1, <4>2
    <3>2. CASE \A c \in forbid : ~ PL!Holds(c, k)
      <4>1. After(some, k) = PermsAt(mapped, k)
        BY <2>1, <2>2, <3>2 DEF AreTogether
      <4> QED
        BY <1>4, <2>2, <3>2, <4>1
    <3> QED
      BY <3>1, <3>2
  <2> QED
    BY <1>5, <2>1, <2>2 DEF AreTogether
<1>7. ASSUME NEW unmap \in BOOLEAN
      PROVE  /\ Executable(all(unmap))
             /\ \A k \in 0..(Limit - 1) :
                  IF P!Covered(own, k)
                  THEN After(all(unmap), k) = P!At(own, k) \cup added \cup {kMapped}
                  ELSE After(all(unmap), k) \subseteq (IF unmap THEN {} ELSE {kMapped})
  <2> DEFINE extra == ExtraCommands(shot, unmap)
             every == all(unmap)
  <2>1. /\ IsOuter(extra, shot)
        /\ \A c \in extra : Outcome(c) \subseteq Allowed(unmap)
        /\ \A k \in Int : PermsAt(shot.map, k) = {} /\ (\A c \in extra : ~ PL!Holds(c, k)) =>
             PermsAt(mapped, k) \subseteq Allowed(unmap)
    BY ExtraCommandsAre
  <2>2. every = mine \cup extra
    BY <1>3
  <2> HIDE DEF extra, every
  <2>3. AreTogether(every, extra, shot, added)
    BY <1>1, <2>1, <2>2, Together
  <2>4. ASSUME NEW k \in Int, PermsAt(shot.map, k) = {} PROVE After(every, k) \subseteq Allowed(unmap)
    <3>1. CASE \E c \in extra : PL!Holds(c, k)
      <4>1. PICK c \in extra : PL!Holds(c, k)
        BY <3>1
      <4>2. After(every, k) = Outcome(c)
        BY <2>3, <2>4, <4>1 DEF AreTogether
      <4> QED
        BY <2>1, <4>2
    <3>2. CASE \A c \in extra : ~ PL!Holds(c, k)
      <4>1. After(every, k) = PermsAt(mapped, k)
        BY <2>3, <2>4, <3>2 DEF AreTogether
      <4> QED
        BY <2>1, <2>4, <3>2, <4>1
    <3> QED
      BY <3>1, <3>2
  <2> QED
    BY <1>5, <2>3, <2>4 DEF every, Allowed, AreTogether
<1> QED
  BY <1>6, <1>7 DEF own, some, all

-----------------------------------------------------------------------------
(* The bytes to write *)

\* Two bytes that have to change with nothing to change between them, far enough apart.
Apart(D, i, j) == {k \in D : i < k /\ k < j} = {} /\ j - (i + 1) >= kMinSkipOverBytes
Firsts(D) == {i \in D : \A k \in D : k < i => \E j \in D : j < i /\ Apart(D, j, i)}
Lasts(D) == {i \in D : \A k \in D : i < k => \E j \in D : i < j /\ Apart(D, i, j)}
LastOf(D, i) == Min({j \in Lasts(D) : j >= i})

\* What has to change is among the bytes from s to l.
Within(D, s, l) == D \in SUBSET Int /\ s \in Int /\ l \in Int /\ \A k \in D : s <= k /\ k < l

\* A chunk ends where the first stretch after it is that can be skipped.
LEMMA LastOfIs ==
  ASSUME NEW D, NEW s, NEW l, Within(D, s, l), NEW i \in D
  PROVE  /\ LastOf(D, i) \in Lasts(D) /\ LastOf(D, i) \in D /\ LastOf(D, i) \in Int /\ i <= LastOf(D, i)
         /\ \A j \in Lasts(D) : i <= j => LastOf(D, i) <= j
<1> DEFINE S == {j \in Lasts(D) : j >= i}
           U == {j \in D : j >= i}
<1>1. D \in SUBSET Int /\ i \in Int /\ l \in Int /\ \A k \in D : k <= l
  BY DEF Within
<1>2. PICK z \in U : \A y \in U : y <= z
  <2>1. i \in U
    BY <1>1
  <2>2. U \in SUBSET Int /\ \A y \in U : y <= l
    BY <1>1
  <2> HIDE DEF U
  <2> QED
    BY <1>1, <2>1, <2>2, PL!Largest
<1>3. z \in D /\ z >= i /\ \A k \in D : k <= z
  BY <1>1, <1>2
<1>4. z \in S
  BY <1>1, <1>3 DEF Lasts
<1>5. S \in SUBSET Int /\ S # {} /\ \A y \in S : i <= y
  BY <1>1, <1>4 DEF Lasts
<1>6. \E x \in S : \A y \in S : x <= y
  <2> HIDE DEF S
  <2> QED
    BY <1>1, <1>5, PL!Smallest
<1>7. LastOf(D, i) \in S /\ \A y \in S : LastOf(D, i) <= y
  <2>1. LastOf(D, i) = CHOOSE x \in S : \A y \in S : x <= y
    BY DEF LastOf, Min
  <2> HIDE DEF S
  <2> QED
    BY <1>6, <2>1
<1> QED
  BY <1>1, <1>7 DEF Lasts

\* A byte before a stretch that can be skipped ends a chunk, the one after it begins one.
LEMMA ApartMeans ==
  ASSUME NEW D, NEW s, NEW l, Within(D, s, l), NEW i \in D, NEW j \in D, i < j, Apart(D, i, j)
  PROVE  i \in Lasts(D) /\ j \in Firsts(D) /\ \A k \in D : k <= i \/ j <= k
<1>1. i \in Int /\ j \in Int /\ D \in SUBSET Int
  BY DEF Within
<1> QED
  BY <1>1 DEF Lasts, Firsts, Apart

\* Inside of a chunk there is no such stretch.
LEMMA ChunkIsDense ==
  ASSUME NEW D, NEW s, NEW l, Within(D, s, l), NEW i \in D, NEW j \in D, NEW k \in D,
         i <= j, j < k, k <= LastOf(D, i)
  PROVE  ~ Apart(D, j, k)
<1>1. i \in Int /\ j \in Int /\ k \in Int
  BY DEF Within
<1>2. LastOf(D, i) \in Int /\ \A x \in Lasts(D) : i <= x => LastOf(D, i) <= x
  BY LastOfIs
<1> QED
  BY <1>1, <1>2, ApartMeans

\* Between two chunks there is one.
LEMMA ChunksApart ==
  ASSUME NEW D, NEW s, NEW l, Within(D, s, l), NEW i \in Firsts(D), NEW j \in Firsts(D), i < j
  PROVE  LastOf(D, i) < j /\ j - (LastOf(D, i) + 1) >= kMinSkipOverBytes
<1>1. i \in D /\ j \in D /\ i \in Int /\ j \in Int
  BY DEF Within, Firsts
<1>2. PICK k \in D : k < j /\ Apart(D, k, j)
  BY <1>1 DEF Firsts
<1>3. k \in Lasts(D) /\ \A x \in D : x <= k \/ j <= x
  BY <1>1, <1>2, ApartMeans
<1>4. k \in Int /\ i <= k
  BY <1>1, <1>3 DEF Within
<1>5. LastOf(D, i) \in Int /\ LastOf(D, i) <= k
  BY <1>1, <1>3, <1>4, LastOfIs
<1>6. j - (k + 1) >= kMinSkipOverBytes
  BY <1>2 DEF Apart
<1> QED
  BY <1>1, <1>2, <1>4, <1>5, <1>6, MemoryAssumption

\* Every byte that has to change is in a chunk.
LEMMA ChunkOf ==
  ASSUME NEW D, NEW s, NEW l, Within(D, s, l), NEW k \in D
  PROVE  \E i \in Firsts(D) : i <= k /\ k <= LastOf(D, i)
<1> DEFINE S == {i \in Firsts(D) : i <= k}
<1>1. D \in SUBSET Int /\ k \in Int /\ s \in Int /\ \A j \in D : s <= j
  BY DEF Within
<1>2. PICK a \in D : \A y \in D : a <= y
  BY <1>1, PL!Smallest
<1>3. a \in S
  BY <1>1, <1>2 DEF Firsts
<1>4. S \in SUBSET Int /\ S # {} /\ \A y \in S : y <= k
  BY <1>1, <1>3 DEF Firsts
<1>5. PICK i \in S : \A y \in S : y <= i
  <2> HIDE DEF S
  <2> QED
    BY <1>1, <1>4, PL!Largest
<1>6. i \in Firsts(D) /\ i \in D /\ i \in Int /\ i <= k
  BY <1>4 DEF Firsts
<1>7. k <= LastOf(D, i)
  <2> DEFINE e == LastOf(D, i)
  <2>1. e \in Lasts(D) /\ e \in D /\ e \in Int /\ i <= e
    BY <1>6, LastOfIs
  <2> HIDE DEF e
  <2> SUFFICES ASSUME e < k PROVE FALSE
    BY <1>1, <2>1 DEF e
  <2>2. PICK j \in D : e < j /\ Apart(D, e, j)
    BY <2>1 DEF Lasts
  <2>3. j \in Int /\ j \in Firsts(D) /\ (k <= e \/ j <= k)
    BY <1>1, <2>1, <2>2, ApartMeans
  <2>4. j \in S
    BY <1>1, <2>1, <2>3
  <2> HIDE DEF S
  <2> QED
    BY <1>5, <1>6, <2>1, <2>2, <2>3, <2>4
<1> QED
  BY <1>6, <1>7

\* No stretch of a chunk that is as long as one to skip is without a byte to change.
LEMMA ChunkHasNoSkip ==
  ASSUME NEW D, NEW s, NEW l, Within(D, s, l), NEW i \in D, NEW k \in Int,
         i <= k, k <= LastOf(D, i) + 1 - kMinSkipOverBytes
  PROVE  \E j \in k..(k + kMinSkipOverBytes - 1) : j \in D
<1> DEFINE n == kMinSkipOverBytes
           e == LastOf(D, i)
           Below == {j \in D : j < k}
           Above == {j \in D : k + n <= j}
<1>1. D \in SUBSET Int /\ i \in Int /\ n \in Int /\ n >= 1 /\ e \in Int /\ e \in D /\ k <= e + 1 - n
  <2>1. n \in Int /\ n >= 1
    BY MemoryAssumption
  <2>2. e \in Int /\ e \in D
    BY LastOfIs
  <2> QED
    BY <2>1, <2>2 DEF Within
<1> HIDE DEF n, e
<1> SUFFICES ASSUME \A j \in k..(k + n - 1) : j \notin D PROVE FALSE
  BY DEF n
<1>2. \A j \in D : j < k \/ k + n <= j
  BY <1>1
<1>3. i \in Below /\ e \in Above
  BY <1>1, <1>2
<1>4. PICK a \in Below : \A y \in Below : y <= a
  <2>1. Below \in SUBSET Int /\ Below # {} /\ \A y \in Below : y <= k
    <3>1. Below \in SUBSET Int
      BY <1>1
    <3>2. \A y \in Int : y < k => y <= k
      OBVIOUS
    <3> QED
      BY <1>3, <3>1, <3>2
  <2> HIDE DEF Below
  <2> QED
    BY <2>1, PL!Largest
<1>5. PICK z \in Above : \A y \in Above : z <= y
  <2>1. Above \in SUBSET Int /\ Above # {} /\ \A y \in Above : k + n <= y
    <3>1. Above \in SUBSET Int /\ \A y \in Above : k + n <= y
      BY <1>1
    <3> QED
      BY <1>3, <3>1
  <2>2. k + n \in Int
    BY <1>1
  <2> HIDE DEF Above
  <2> QED
    BY <2>1, <2>2, PL!Smallest
<1>6. /\ a \in D /\ z \in D /\ a \in Int /\ z \in Int /\ i <= a /\ a < k /\ k + n <= z /\ z <= e
      /\ \A j \in D : j <= a \/ z <= j
  BY <1>1, <1>2, <1>3, <1>4, <1>5
<1>7. Apart(D, a, z)
  <2>1. z - (a + 1) >= n
    BY <1>1, <1>6
  <2>2. ASSUME NEW j \in D, a < j, j < z PROVE FALSE
    <3>1. j \in Int
      BY <1>1
    <3> QED
      BY <1>6, <2>2, <3>1
  <2> QED
    BY <2>1, <2>2 DEF Apart, n
<1>8. a < z
  BY <1>1, <1>6
<1> QED
  BY <1>6, <1>7, <1>8, ChunkIsDense DEF e

\* The bytes of b that have to change.
ToChange(b) == {k \in b.start..(b.limit - 1) : ByteAt(bytes, k) # b.at[k]}

LEMMA ChunksAre ==
  ASSUME NEW shot \in Snapshots, NEW b \in shot.bytes
  PROVE  /\ Within(ToChange(b), b.start, b.limit)
         /\ b.start \in 0..Limit /\ b.limit \in 0..Limit
         /\ DeltaMemoryBytes(b) =
              {B!Entry(i, LastOf(ToChange(b), i) + 1, b.at) : i \in Firsts(ToChange(b))}
<1>1. /\ b.start \in 0..Limit /\ b.limit \in 0..Limit
      /\ \A k \in b.start..(b.limit - 1) : b.at[k] # Unknown
  BY MemoryAssumption DEF IsSnapshot, EntryList
<1>2. Within(ToChange(b), b.start, b.limit)
  <2>1. b.start \in Int /\ b.limit \in Int
    BY <1>1
  <2> QED
    BY <2>1 DEF Within, ToChange
<1> DEFINE D == {k \in b.start..(b.limit - 1) : ~ B!Covered(bytes, k) \/ B!At(bytes, k) # b.at[k]}
<1>3. DeltaMemoryBytes(b) = {B!Entry(i, LastOf(D, i) + 1, b.at) : i \in Firsts(D)}
  BY DEF DeltaMemoryBytes, Firsts, LastOf, Lasts, Apart
<1>4. D = ToChange(b)
  BY <1>1 DEF ToChange, ByteAt
<1> HIDE DEF D
<1> QED
  BY <1>1, <1>2, <1>3, <1>4

LEMMA BytesAreMinimal == DeltaBytesAreMinimal
<1> SUFFICES ASSUME NEW shot \in Snapshots, NEW b \in shot.bytes
             PROVE  LET delta == DeltaMemoryBytes(b)
                        Changes(k) == ByteAt(bytes, k) # b.at[k]
                    IN  /\ P!Disjoint(delta)
                        /\ \A k \in b.start..(b.limit - 1) : ~ P!Covered(delta, k) => ~ Changes(k)
                        /\ \A d \in delta :
                             /\ b.start <= d.start /\ d.limit <= b.limit
                             /\ Changes(d.start) /\ Changes(d.limit - 1)
                             /\ \A e \in delta : d.limit <= e.start => e.start - d.limit >= kMinSkipOverBytes
                             /\ \A k \in d.start..(d.limit - kMinSkipOverBytes) :
                                  \E j \in k..(k + kMinSkipOverBytes - 1) : Changes(j)
  BY DEF DeltaBytesAreMinimal
<1> DEFINE D == ToChange(b)
           delta == DeltaMemoryBytes(b)
           Changes(k) == ByteAt(bytes, k) # b.at[k]
<1>1. /\ Within(D, b.start, b.limit) /\ b.start \in Int /\ b.limit \in Int
      /\ delta = {B!Entry(i, LastOf(D, i) + 1, b.at) : i \in Firsts(D)}
  <2>1. \A k \in 0..Limit : k \in Int
    OBVIOUS
  <2> QED
    BY <2>1, ChunksAre
<1>2. \A k \in Int : k \in D <=> b.start <= k /\ k < b.limit /\ Changes(k)
  BY <1>1 DEF ToChange
<1>3. D \in SUBSET Int /\ \A k \in D : b.start <= k /\ k < b.limit
  BY <1>1 DEF Within
<1> HIDE DEF D, delta, Changes
<1>4. ASSUME NEW i \in Firsts(D)
      PROVE  /\ i \in D /\ i \in Int /\ LastOf(D, i) \in D /\ LastOf(D, i) \in Int /\ i <= LastOf(D, i)
  BY <1>1, <1>3, LastOfIs DEF Firsts
<1>5. ASSUME NEW d \in delta
      PROVE  \E i \in Firsts(D) : d.start = i /\ d.limit = LastOf(D, i) + 1
  BY <1>1 DEF B!Entry
<1>6. ASSUME NEW c \in delta, NEW d \in delta
      PROVE  c = d \/ c.limit + kMinSkipOverBytes <= d.start \/ d.limit + kMinSkipOverBytes <= c.start
  <2>1. PICK i \in Firsts(D) : c = B!Entry(i, LastOf(D, i) + 1, b.at)
    BY <1>1
  <2>2. PICK j \in Firsts(D) : d = B!Entry(j, LastOf(D, j) + 1, b.at)
    BY <1>1
  <2>3. c.start = i /\ c.limit = LastOf(D, i) + 1 /\ d.start = j /\ d.limit = LastOf(D, j) + 1
    BY <2>1, <2>2 DEF B!Entry
  <2>4. i < j => j - (LastOf(D, i) + 1) >= kMinSkipOverBytes
    BY <1>1, ChunksApart
  <2>5. j < i => i - (LastOf(D, j) + 1) >= kMinSkipOverBytes
    BY <1>1, ChunksApart
  <2>6. i = j => c = d
    BY <2>1, <2>2
  <2>7. i \in Int /\ j \in Int /\ LastOf(D, i) \in Int /\ LastOf(D, j) \in Int
    BY <1>4
  <2> QED
    BY <2>3, <2>4, <2>5, <2>6, <2>7, MemoryAssumption
<1>7. ASSUME NEW d \in delta PROVE d.start \in Int /\ d.limit \in Int /\ d.start < d.limit
  BY <1>4, <1>5
<1>8. P!Disjoint(delta)
  <2> SUFFICES ASSUME NEW c \in delta, NEW d \in delta, c # d PROVE c.limit <= d.start \/ d.limit <= c.start
    BY DEF P!Disjoint
  <2> QED
    BY <1>6, <1>7, MemoryAssumption
<1>9. ASSUME NEW k \in b.start..(b.limit - 1), ~ P!Covered(delta, k) PROVE ~ Changes(k)
  <2> SUFFICES ASSUME Changes(k) PROVE FALSE
    OBVIOUS
  <2>1. k \in D /\ k \in Int
    BY <1>1, <1>2
  <2>2. PICK i \in Firsts(D) : i <= k /\ k <= LastOf(D, i)
    BY <1>1, <2>1, ChunkOf
  <2>3. i \in Int /\ LastOf(D, i) \in Int
    BY <1>4
  <2> DEFINE d == B!Entry(i, LastOf(D, i) + 1, b.at)
  <2>4. d \in delta /\ d.start = i /\ d.limit = LastOf(D, i) + 1
    BY <1>1 DEF B!Entry
  <2> HIDE DEF d
  <2>5. P!Holds(d, k)
    BY <2>1, <2>2, <2>3, <2>4 DEF P!Holds
  <2> QED
    BY <1>9, <2>4, <2>5 DEF P!Covered
<1>10. ASSUME NEW d \in delta
       PROVE  /\ b.start <= d.start /\ d.limit <= b.limit
              /\ Changes(d.start) /\ Changes(d.limit - 1)
              /\ \A e \in delta : d.limit <= e.start => e.start - d.limit >= kMinSkipOverBytes
              /\ \A k \in d.start..(d.limit - kMinSkipOverBytes) :
                   \E j \in k..(k + kMinSkipOverBytes - 1) : Changes(j)
  <2>1. PICK i \in Firsts(D) : d.start = i /\ d.limit = LastOf(D, i) + 1
    BY <1>5
  <2>2. /\ i \in D /\ i \in Int /\ LastOf(D, i) \in D /\ LastOf(D, i) \in Int
        /\ i <= LastOf(D, i) /\ d.limit - 1 = LastOf(D, i)
    BY <1>4, <2>1
  <2>3. b.start <= d.start /\ d.limit <= b.limit /\ Changes(d.start) /\ Changes(d.limit - 1)
    BY <1>1, <1>2, <1>3, <2>1, <2>2
  <2>4. ASSUME NEW e \in delta, d.limit <= e.start PROVE e.start - d.limit >= kMinSkipOverBytes
    <3>1. d = e \/ d.limit + kMinSkipOverBytes <= e.start \/ e.limit + kMinSkipOverBytes <= d.start
      BY <1>6
    <3>2. e.start \in Int /\ e.limit \in Int /\ e.start < e.limit
          /\ d.start \in Int /\ d.limit \in Int /\ d.start < d.limit
      BY <1>7
    <3> QED
      BY <2>4, <3>1, <3>2, MemoryAssumption
  <2>5. ASSUME NEW k \in d.start..(d.limit - kMinSkipOverBytes)
        PROVE  \E j \in k..(k + kMinSkipOverBytes - 1) : Changes(j)
    <3>1. k \in Int /\ i <= k /\ k <= LastOf(D, i) + 1 - kMinSkipOverBytes
      BY <2>1, <2>2, MemoryAssumption
    <3>2. PICK j \in k..(k + kMinSkipOverBytes - 1) : j \in D
      BY <1>1, <2>2, <3>1, ChunkHasNoSkip
    <3>3. Changes(j)
      BY <1>2, <1>3, <3>2
    <3> QED
      BY <3>3
  <2> QED
    BY <2>3, <2>4, <2>5
<1> QED
  BY <1>8, <1>9, <1>10 DEF delta, Changes

-----------------------------------------------------------------------------
(* What takes the memory to a snapshot *)

LEMMA InvMeansDelta == MemoryInv => DeltaIsRight
BY DeltaReaches, BytesAreMinimal DEF DeltaIsRight

\* From any state, DeltaMemoryMappings, DeltaMemoryMappingsExact and DeltaMemoryBytes give
\* commands and bytes that can be executed, that lead to the memory of the snapshot, and that
\* are no more than it takes.
THEOREM DeltaReachesAnySnapshot == MemorySpec => []DeltaIsRight
<1>1. MemoryInit => MemoryInv
  BY InitInv
<1>2. MemoryInv /\ [MemoryNext]_memvars => MemoryInv'
  BY StepKeepsInv
<1>3. MemoryInv => DeltaIsRight
  BY InvMeansDelta
<1> QED
  BY <1>1, <1>2, <1>3, PTL DEF MemorySpec

\* Among the data that the programs share, the memory state is changed by its own operations
\* only, and stays right: its maps agree, and the commands and bytes for a snapshot are what
\* takes it there.
THEOREM MemoryStaysRight == DataSpec => []MemoryIsRight
<1>1. DataInit => MemoryInit
  BY DEF DataInit
<1>2. [DataNext]_<<part, memvars, snap, sweepvars, proxyvars, evo, variants, vars>> => [MemoryNext]_memvars
  BY DEF DataNext
<1>3. DataSpec => MemorySpec
  BY <1>1, <1>2, PTL DEF DataSpec, MemorySpec
<1>4. MapsConsistent /\ DeltaIsRight => MemoryIsRight
  BY DEF MemoryIsRight
<1> QED
  BY <1>3, <1>4, MemoryConsistent, DeltaReachesAnySnapshot, PTL

-----------------------------------------------------------------------------
(* The lists of a snapshot as folds *)

\* What the folds of Snapshot do with an element: add it to a snapshot if it fits, or keep
\* it in a list.
Fits(c, s, x) ==
  IF c.what = "mapping" THEN CanAddMapping(s, x)
  ELSE IF c.what = "negative" THEN CanAddNewNegative(s, x)
  ELSE IF c.what = "bytes" THEN CanAddBytes(s, x)
  ELSE CanAddEnd(s, x, FALSE, FALSE)
Grow(c, s, x) ==
  IF c.what = "mapping" THEN WithMapping(s, x)
  ELSE IF c.what = "negative" THEN WithNegative(s, x)
  ELSE IF c.what = "bytes" THEN WithBytes(s, x)
  ELSE WithEnd(s, x)
FoldStep(c, r, x) ==
  IF c.what = "kept" THEN IF x \in c.dropped THEN r ELSE Append(r, x)
  ELSE IF r.ok /\ Fits(c, r.s, x) THEN [ok |-> TRUE, s |-> Grow(c, r.s, x)]
       ELSE [r EXCEPT !.ok = FALSE]

\* f is the fold over the parts of S, where pick says which element of a part comes last, and
\* at what it stands for.
Folded(f, c, base, S, pick, at) ==
  f = [T \in SUBSET S |-> IF T = {} THEN base ELSE FoldStep(c, f[T \ {pick[T]}], at[pick[T]])]

\* The fold ends, since it goes back to smaller and smaller parts.
LEMMA FoldExists ==
  ASSUME NEW c, NEW base, NEW S, IsFiniteSet(S), NEW at, NEW pick,
         \A T \in SUBSET S : T # {} => pick[T] \in T
  PROVE  \E f : Folded(f, c, base, S, pick, at)
<1> DEFINE Value(f, T) == IF T = {} THEN base ELSE FoldStep(c, f[T \ {pick[T]}], at[pick[T]])
           Small(T, n) == Cardinality(T) <= n
           Bad == {n \in Nat : ~ \E f : \A T \in SUBSET S : Small(T, n) => f[T] = Value(f, T)}
<1>1. ASSUME NEW T \in SUBSET S
      PROVE  /\ IsFiniteSet(T) /\ Cardinality(T) \in Nat
             /\ T # {} => /\ T \ {pick[T]} \in SUBSET S
                          /\ Cardinality(T \ {pick[T]}) = Cardinality(T) - 1
             /\ Cardinality(T) <= 0 => T = {}
  <2>1. IsFiniteSet(T) /\ Cardinality(T) \in Nat
    BY FS_Subset, FS_CardinalityType
  <2>2. T # {} => Cardinality(T \ {pick[T]}) = Cardinality(T) - 1
    BY <2>1, FS_RemoveElement
  <2> QED
    BY <2>1, <2>2, FS_EmptySet
<1>2. Bad = {}
  <2> SUFFICES ASSUME Bad # {} PROVE FALSE
    OBVIOUS
  <2>1. PICK n \in Bad : \A m \in Bad : n <= m
    <3>1. Bad \in SUBSET Nat
      OBVIOUS
    <3> HIDE DEF Bad
    <3> QED
      BY <3>1, PL!LeastNumber
  <2>2. n \in Nat
    OBVIOUS
  <2>3. CASE n = 0
    <3> DEFINE f == [T \in SUBSET S |-> base]
    <3>1. ASSUME NEW T \in SUBSET S, Small(T, 0) PROVE f[T] = Value(f, T)
      BY <1>1, <3>1
    <3> HIDE DEF f, Value, Small
    <3>2. \E g : \A T \in SUBSET S : Small(T, 0) => g[T] = Value(g, T)
      BY <3>1
    <3> QED
      BY <2>1, <2>3, <3>2
  <2>4. CASE n # 0
    <3>1. n - 1 \in Nat /\ ~ (n <= n - 1)
      BY <2>2, <2>4
    <3>2. n - 1 \notin Bad
      BY <2>1, <3>1
    <3>3. PICK g : \A T \in SUBSET S : Small(T, n - 1) => g[T] = Value(g, T)
      BY <3>1, <3>2
    <3> DEFINE f == [T \in SUBSET S |-> IF Small(T, n - 1) THEN g[T] ELSE Value(g, T)]
    <3>4. \A T \in SUBSET S : f[T] = IF Small(T, n - 1) THEN g[T] ELSE Value(g, T)
      OBVIOUS
    <3>5. \A T \in SUBSET S : f[T] = Value(g, T)
      BY <3>3, <3>4
    <3>6. \A T \in SUBSET S : Small(T, n - 1) => f[T] = g[T]
      BY <3>4
    <3> HIDE DEF f
    <3>7. ASSUME NEW T \in SUBSET S, Small(T, n) PROVE f[T] = Value(f, T)
      <4>1. CASE T = {}
        BY <3>5, <4>1
      <4>2. CASE T # {}
        <5>1. T \ {pick[T]} \in SUBSET S /\ Small(T \ {pick[T]}, n - 1)
          <6>1. Cardinality(T) \in Nat /\ Cardinality(T) <= n
            BY <1>1, <3>7
          <6>2. T \ {pick[T]} \in SUBSET S /\ Cardinality(T \ {pick[T]}) = Cardinality(T) - 1
            BY <1>1, <4>2
          <6>3. Cardinality(T \ {pick[T]}) <= n - 1
            BY <2>2, <6>1, <6>2
          <6> QED
            BY <6>2, <6>3
        <5> HIDE DEF Small
        <5>2. f[T \ {pick[T]}] = g[T \ {pick[T]}]
          BY <3>6, <5>1
        <5> QED
          BY <3>5, <4>2, <5>2
      <4> QED
        BY <4>1, <4>2
    <3> HIDE DEF Value, Small
    <3>8. \E h : \A T \in SUBSET S : Small(T, n) => h[T] = Value(h, T)
      BY <3>7
    <3> QED
      BY <2>1, <3>8
  <2> QED
    BY <2>3, <2>4
<1>3. PICK f : \A T \in SUBSET S : f[T] = Value(f, T)
  <2>1. Cardinality(S) \in Nat /\ Cardinality(S) \notin Bad
    BY <1>2, FS_CardinalityType
  <2>2. PICK f : \A T \in SUBSET S : Small(T, Cardinality(S)) => f[T] = Value(f, T)
    BY <2>1
  <2>3. \A T \in SUBSET S : Small(T, Cardinality(S))
    BY FS_Subset
  <2> HIDE DEF Small, Value
  <2> QED
    BY <2>2, <2>3
<1> DEFINE h == [T \in SUBSET S |-> f[T]]
<1>4. \A T \in SUBSET S : h[T] = f[T]
  OBVIOUS
<1>5. \A T \in SUBSET S : f[T] = Value(h, T)
  <2> SUFFICES ASSUME NEW T \in SUBSET S PROVE f[T] = Value(h, T)
    OBVIOUS
  <2> HIDE DEF h
  <2>1. T \ {pick[T]} \in SUBSET S
    OBVIOUS
  <2>2. h[T \ {pick[T]}] = f[T \ {pick[T]}]
    BY <1>4, <2>1
  <2> QED
    BY <1>3, <2>2
<1>6. h = [T \in SUBSET S |-> Value(h, T)]
  <2> HIDE DEF Value
  <2>1. [T \in SUBSET S |-> f[T]] = [T \in SUBSET S |-> Value(h, T)]
    BY <1>5
  <2> QED
    BY <2>1
<1> HIDE DEF h
<1>7. Folded(h, c, base, S, pick, at)
  BY <1>6 DEF Folded
<1> QED
  BY <1>7

\* Induction over the parts of S that a fold goes through.
LEMMA FoldInduction ==
  ASSUME NEW S, IsFiniteSet(S), NEW pick, \A T \in SUBSET S : T # {} => pick[T] \in T,
         NEW Good, {} \in Good,
         \A T \in SUBSET S : T # {} /\ T \ {pick[T]} \in Good => T \in Good
  PROVE  S \in Good
<1> DEFINE Bad == {n \in Nat : ~ \A T \in SUBSET S : Cardinality(T) = n => T \in Good}
<1>1. Bad = {}
  <2> SUFFICES ASSUME Bad # {} PROVE FALSE
    OBVIOUS
  <2>1. PICK n \in Bad : \A m \in Bad : n <= m
    <3>1. Bad \in SUBSET Nat
      OBVIOUS
    <3> HIDE DEF Bad
    <3> QED
      BY <3>1, PL!LeastNumber
  <2>2. PICK T \in SUBSET S : Cardinality(T) = n /\ T \notin Good
    OBVIOUS
  <2>3. IsFiniteSet(T) /\ T # {} /\ n \in Nat
    BY <2>2, FS_Subset
  <2>4. T \ {pick[T]} \in SUBSET S /\ Cardinality(T \ {pick[T]}) = n - 1
    BY <2>2, <2>3, FS_RemoveElement
  <2>5. n # 0
    BY <2>2, <2>3, FS_EmptySet
  <2>6. n - 1 \in Nat /\ ~ (n <= n - 1)
    BY <2>3, <2>5
  <2>7. n - 1 \notin Bad
    BY <2>1, <2>6
  <2>8. T \ {pick[T]} \in Good
    BY <2>4, <2>6, <2>7
  <2> QED
    BY <2>2, <2>3, <2>8
<1>2. Cardinality(S) \in Nat /\ Cardinality(S) \notin Bad
  BY <1>1, FS_CardinalityType
<1> QED
  BY <1>2

-----------------------------------------------------------------------------
(* Maps of permissions, of any addresses *)

\* Each entry has one set of permissions, which is not empty.
PermMap(m) ==
  PL!IsMap(m) /\ PL!OneValue(m) /\ PL!Bounded(m) /\ \A e \in m : PermsOf(e) # {}

\* An entry of such a map, and that there is nothing of it in m.
PermEntry(e) ==
  /\ PL!IsEntry(e) /\ PermsOf(e) # {}
  /\ \A k \in Int : PL!Holds(e, k) => e.at[k] = PermsOf(e)
Beside(e, m) == \A k \in Int : PL!Holds(e, k) => PermsAt(m, k) = {}

\* An entry of a map of permissions is a range that is not empty.
LEMMA PermEntryIs ==
  ASSUME NEW m, PermMap(m), NEW e \in m
  PROVE  /\ PermEntry(e) /\ e.start \in Int /\ e.limit \in Int /\ e.start < e.limit
         /\ PL!Holds(e, e.start)
<1>1. PL!IsEntry(e) /\ PermsOf(e) # {}
  BY DEF PermMap, PL!IsMap
<1>2. e.start \in Int /\ e.limit \in Int /\ e.start < e.limit /\ PL!Holds(e, e.start)
  BY <1>1 DEF PL!IsEntry, PL!Holds
<1>3. \A k \in Int : PL!Holds(e, k) => e.at[k] = PermsOf(e)
  BY <1>2 DEF PermMap, PL!OneValue, PermsOf
<1> QED
  BY <1>1, <1>2, <1>3 DEF PermEntry

\* What PermsAt reads in a map: the one value of the entry that holds the key, or nothing.
LEMMA PermsAre ==
  ASSUME NEW m, PermMap(m), NEW k \in Int
  PROVE  /\ PL!Covered(m, k) <=> PermsAt(m, k) # {}
         /\ PermsAt(m, k) = IF PL!Covered(m, k) THEN PL!At(m, k) ELSE {}
         /\ \A e \in m : PL!Holds(e, k) => PermsAt(m, k) = PermsOf(e)
<1>1. PermsAt(m, k) = IF PL!Covered(m, k) THEN PL!At(m, k) ELSE {}
  BY SamePermsMaps DEF PermsAt
<1>2. ASSUME NEW e \in m, PL!Holds(e, k)
      PROVE  PermsAt(m, k) = PermsOf(e) /\ PermsOf(e) # {}
  <2>1. PL!IsMap(m)
    BY DEF PermMap
  <2>2. PL!Covered(m, k) /\ PL!At(m, k) = e.at[k]
    BY <1>2, <2>1, PL!AtIs
  <2>3. e.at[k] = PermsOf(e) /\ PermsOf(e) # {}
    BY <1>2, PermEntryIs DEF PermEntry
  <2> QED
    BY <1>1, <2>2, <2>3
<1>3. PL!Covered(m, k) => \E e \in m : PL!Holds(e, k)
  BY DEF PL!Covered
<1> QED
  BY <1>1, <1>2, <1>3

\* A map is one of permissions if its addresses have them and are bounded.
LEMMA PermMapFrom ==
  ASSUME NEW m, PL!IsMap(m), PL!OneValue(m), NEW lo \in Int, NEW hi \in Int,
         \A k \in Int : PL!Covered(m, k) => lo <= k /\ k < hi /\ PL!At(m, k) # {}
  PROVE  PermMap(m)
<1>1. ASSUME NEW e \in m PROVE lo <= e.start /\ e.start < hi /\ PermsOf(e) # {}
  <2>1. e.start \in Int /\ PL!Holds(e, e.start)
    BY DEF PL!IsMap, PL!IsEntry, PL!Holds
  <2>2. PL!Covered(m, e.start) /\ PL!At(m, e.start) = e.at[e.start]
    BY <2>1, PL!AtIs
  <2> QED
    BY <2>1, <2>2 DEF PermsOf
<1> QED
  BY <1>1 DEF PermMap, PL!Bounded

\* A map of permissions covers keys of a bounded range.
LEMMA CoveredBounded ==
  ASSUME NEW m, PermMap(m)
  PROVE  \E lo, hi \in Int : \A k \in Int : PL!Covered(m, k) => lo <= k /\ k < hi
<1>1. PL!IsMap(m) /\ PL!Bounded(m)
  BY DEF PermMap
<1>2. CASE m = {}
  BY <1>2 DEF PL!Covered
<1>3. CASE m # {}
  <2> DEFINE last == PL!Last(m)
  <2>1. last \in m /\ \A d \in m \ {last} : d.start < last.start
    BY <1>1, <1>3, PL!LastIs
  <2> HIDE DEF last
  <2>2. PICK lo \in Int : \A e \in m : lo <= e.start
    BY <1>1 DEF PL!Bounded
  <2>3. last.limit \in Int /\ last.start \in Int /\ last.start < last.limit
    BY <2>1, PermEntryIs
  <2>4. ASSUME NEW e \in m PROVE e.limit <= last.limit
    <3>1. e.start \in Int /\ e.limit \in Int /\ e.start < e.limit
      BY PermEntryIs
    <3>2. CASE e # last
      <4>1. e.limit <= last.start \/ last.limit <= e.start
        BY <1>1, <2>1, <3>2 DEF PL!IsMap, PL!Disjoint
      <4> QED
        BY <2>1, <2>3, <3>1, <3>2, <4>1
    <3> QED
      BY <2>3, <3>2
  <2>5. ASSUME NEW k \in Int, PL!Covered(m, k) PROVE lo <= k /\ k < last.limit
    <3>1. PICK e \in m : PL!Holds(e, k)
      BY <2>5 DEF PL!Covered
    <3>2. e.start \in Int /\ e.limit \in Int
      BY PermEntryIs
    <3> QED
      BY <2>2, <2>3, <2>4, <3>1, <3>2 DEF PL!Holds
  <2> QED
    BY <2>2, <2>3, <2>5
<1> QED
  BY <1>2, <1>3

\* The sum of two maps has at each key the permissions of both.
LEMMA SumOfMaps ==
  ASSUME NEW m, PermMap(m), NEW E, PermMap(E), NEW r, PL!IsSum(r, m, E)
  PROVE  /\ PermMap(r) /\ (P!Canonical(m) => P!Canonical(r))
         /\ \A k \in Int : PermsAt(r, k) = PermsAt(m, k) \cup PermsAt(E, k)
<1>1. /\ PL!IsMap(r) /\ PL!OneValue(r) /\ (P!Canonical(m) => P!Canonical(r))
      /\ \A k \in Int : PL!Covered(r, k) <=> PL!Covered(m, k) \/ PL!Covered(E, k)
      /\ \A k \in Int : PL!Covered(r, k) =>
           PL!At(r, k) = IF ~ PL!Covered(E, k) THEN PL!At(m, k)
                         ELSE IF PL!Covered(m, k) THEN PermsAdd(PL!At(m, k), PL!At(E, k)) ELSE PL!At(E, k)
  BY PermsMerge, SamePermsMaps DEF PL!IsSum, PermMap
<1>2. ASSUME NEW k \in Int
      PROVE  /\ PL!Covered(r, k) => PL!At(r, k) = PermsAt(m, k) \cup PermsAt(E, k) /\ PL!At(r, k) # {}
             /\ ~ PL!Covered(r, k) => PermsAt(m, k) \cup PermsAt(E, k) = {}
  BY <1>1, PermsAre DEF PermsAdd
<1>3. PICK lo \in Int, hi \in Int : \A k \in Int : PL!Covered(m, k) => lo <= k /\ k < hi
  BY CoveredBounded
<1>4. PICK lo2 \in Int, hi2 \in Int : \A k \in Int : PL!Covered(E, k) => lo2 <= k /\ k < hi2
  BY CoveredBounded
<1>5. PICK l \in Int, h \in Int : l <= lo /\ l <= lo2 /\ hi <= h /\ hi2 <= h
  <2>1. \E l \in Int : l <= lo /\ l <= lo2
    OBVIOUS
  <2>2. \E h \in Int : hi <= h /\ hi2 <= h
    OBVIOUS
  <2> QED
    BY <2>1, <2>2
<1>6. \A k \in Int : PL!Covered(r, k) => l <= k /\ k < h /\ PL!At(r, k) # {}
  BY <1>1, <1>2, <1>3, <1>4, <1>5
<1>7. PermMap(r)
  BY <1>1, <1>6, PermMapFrom
<1>8. \A k \in Int : PermsAt(r, k) = PermsAt(m, k) \cup PermsAt(E, k)
  BY <1>2, <1>7, PermsAre
<1> QED
  BY <1>1, <1>7, <1>8

\* The empty map.
LEMMA NoMap == PermMap({}) /\ PL!Canonical({}) /\ \A k \in Int : PermsAt({}, k) = {}
<1>1. PL!Bounded({})
  BY DEF PL!Bounded
<1> QED
  BY <1>1, SamePermsMaps
  DEF PermMap, PermsAt, PL!IsMap, PL!OneValue, PL!Disjoint, PL!Canonical, PL!Covered

\* A list of mappings as a map.
LEMMA ListAsMap ==
  ASSUME NEW E, PermMap(E)
  PROVE  /\ PermMap(MapOf(E)) /\ PL!Canonical(MapOf(E))
         /\ \A k \in Int : PermsAt(MapOf(E), k) = PermsAt(E, k)
<1> DEFINE r == MapOf(E)
<1>1. r = PL!ChangeRangeMap({}, E, "add")
  BY SamePermsMaps DEF MapOf
<1> HIDE DEF r
<1>2. PL!IsSum(r, {}, E)
  BY <1>1, NoMap, PL!AddRangeMapIsPointwise DEF PermMap
<1>3. PermMap(r) /\ PL!Canonical(r) /\ \A k \in Int : PermsAt(r, k) = PermsAt({}, k) \cup PermsAt(E, k)
  BY <1>2, NoMap, SumOfMaps, SamePermsMaps
<1>4. \A k \in Int : PermsAt(r, k) = PermsAt(E, k)
  BY <1>3, NoMap
<1> QED
  BY <1>3, <1>4 DEF r

\* A list with one more mapping, beside the others.
LEMMA OneMore ==
  ASSUME NEW m, PermMap(m), NEW e, PermEntry(e), Beside(e, m)
  PROVE  /\ PermMap(m \cup {e})
         /\ \A k \in Int : PermsAt(m \cup {e}, k) = IF PL!Holds(e, k) THEN PermsOf(e) ELSE PermsAt(m, k)
<1> DEFINE M == m \cup {e}
<1>1. e.start \in Int /\ e.limit \in Int /\ e.start < e.limit
  BY DEF PermEntry, PL!IsEntry
<1>2. PL!Disjoint(M)
  <2>1. ASSUME NEW d \in m PROVE d.limit <= e.start \/ e.limit <= d.start
    <3>1. d.start \in Int /\ d.limit \in Int /\ d.start < d.limit /\ PL!Holds(d, d.start)
      BY PermEntryIs
    <3>2. \A k \in Int : PL!Holds(d, k) => ~ PL!Holds(e, k)
      BY PermsAre DEF Beside, PermMap
    <3>3. ~ PL!Holds(e, d.start) /\ ~ PL!Holds(d, e.start)
      <4>1. PL!Holds(e, e.start)
        BY <1>1 DEF PL!Holds
      <4> QED
        BY <1>1, <3>1, <3>2, <4>1
    <3> QED
      BY <1>1, <3>1, <3>3 DEF PL!Holds
  <2> QED
    BY <2>1 DEF PL!Disjoint, PermMap, PL!IsMap
<1>3. PL!IsMap(M)
  BY <1>2 DEF PL!IsMap, PermMap, PermEntry
<1>4. PL!OneValue(M)
  BY DEF PL!OneValue, PermMap, PermEntry
<1>5. PL!Bounded(M)
  <2>1. PICK lo \in Int, hi \in Int : \A d \in m : lo <= d.start /\ d.start < hi
    BY DEF PermMap, PL!Bounded
  <2>2. PICK l \in Int : l <= lo /\ l <= e.start
    BY <1>1
  <2>3. PICK h \in Int : hi <= h /\ e.start < h
    <3>1. e.start + 1 \in Int /\ e.start < e.start + 1
      BY <1>1
    <3> QED
      BY <1>1, <3>1
  <2>4. \A d \in m : d.start \in Int
    BY PermEntryIs
  <2>5. \A d \in M : l <= d.start /\ d.start < h
    BY <1>1, <2>1, <2>2, <2>3, <2>4
  <2> QED
    BY <2>5 DEF PL!Bounded
<1>6. PermMap(M)
  BY <1>3, <1>4, <1>5 DEF PermMap, PermEntry
<1>7. ASSUME NEW k \in Int
      PROVE  PermsAt(M, k) = IF PL!Holds(e, k) THEN PermsOf(e) ELSE PermsAt(m, k)
  <2>1. CASE PL!Holds(e, k)
    BY <1>6, <2>1, PermsAre
  <2>2. CASE ~ PL!Holds(e, k) /\ PermsAt(m, k) # {}
    <3>1. PICK d \in m : PL!Holds(d, k)
      BY <2>2, PermsAre DEF PL!Covered
    <3> QED
      BY <1>6, <2>2, <3>1, PermsAre
  <2>3. CASE ~ PL!Holds(e, k) /\ PermsAt(m, k) = {}
    <3>1. ~ PL!Covered(m, k)
      BY <2>3, PermsAre
    <3>2. ~ PL!Covered(M, k)
      BY <2>3, <3>1 DEF PL!Covered
    <3> QED
      BY <1>6, <2>3, <3>2, PermsAre
  <2> QED
    BY <2>1, <2>2, <2>3
<1> HIDE DEF M
<1> QED
  BY <1>6, <1>7 DEF M

\* A mapping added to a map.
LEMMA MappingAdded ==
  ASSUME NEW m, PermMap(m), NEW e, PermEntry(e)
  PROVE  /\ PermMap(AddMapping(m, e)) /\ (PL!Canonical(m) => PL!Canonical(AddMapping(m, e)))
         /\ \A k \in Int : PermsAt(AddMapping(m, e), k) =
              IF PL!Holds(e, k) THEN PermsAt(m, k) \cup PermsOf(e) ELSE PermsAt(m, k)
<1> DEFINE r == AddMapping(m, e)
<1>1. r = PL!Add(m, e.start, e.limit, e.at)
  BY SamePermsMaps DEF AddMapping
<1> HIDE DEF r
<1>2. \A k \in Int : ~ PL!Covered({}, k)
  BY DEF PL!Covered
<1>3. Beside(e, {})
  BY NoMap DEF Beside
<1>4. /\ PermMap({} \cup {e})
      /\ \A k \in Int : PermsAt({} \cup {e}, k) = IF PL!Holds(e, k) THEN PermsOf(e) ELSE PermsAt({}, k)
  BY <1>3, NoMap, OneMore
<1>5. {} \cup {e} = {e} /\ {e} \ {e} = {} /\ e \in {e}
  OBVIOUS
<1>6. PermMap({e}) /\ \A k \in Int : PermsAt({e}, k) = IF PL!Holds(e, k) THEN PermsOf(e) ELSE {}
  BY <1>4, <1>5, NoMap
<1>7. PL!IsSum(m, m, {})
  BY <1>2 DEF PL!IsSum, PermMap
<1>8. PL!IsSum(r, m, {e})
  <2>1. PL!IsMap({e}) /\ PL!IsSum(m, m, {e} \ {e})
    BY <1>5, <1>6, <1>7 DEF PermMap
  <2> QED
    BY <1>1, <1>5, <2>1, PL!AddLast
<1>9. /\ PermMap(r) /\ (PL!Canonical(m) => PL!Canonical(r))
      /\ \A k \in Int : PermsAt(r, k) = PermsAt(m, k) \cup PermsAt({e}, k)
  BY <1>6, <1>8, SumOfMaps, SamePermsMaps
<1>10. \A k \in Int : PermsAt(r, k) = IF PL!Holds(e, k) THEN PermsAt(m, k) \cup PermsOf(e) ELSE PermsAt(m, k)
  BY <1>6, <1>9
<1> QED
  BY <1>9, <1>10 DEF r

\* Maps in normal form are the same if their addresses have the same permissions.
LEMMA NoStart ==
  ASSUME NEW m, PermMap(m), PL!Canonical(m), NEW n, PermMap(n),
         \A k \in Int : PermsAt(m, k) = PermsAt(n, k),
         NEW a \in m, NEW b \in n, NEW k \in Int, PL!Holds(a, k), PL!Holds(b, k)
  PROVE  /\ b.start < a.start => FALSE
         /\ a.limit < b.limit => FALSE
<1>1. /\ a.start \in Int /\ a.limit \in Int /\ a.start < a.limit
      /\ b.start \in Int /\ b.limit \in Int /\ b.start < b.limit
  BY PermEntryIs
<1>2. ASSUME NEW j \in Int, PL!Holds(b, j)
      PROVE  /\ PermsAt(m, j) = PermsOf(b) /\ PermsOf(b) # {}
             /\ \E d \in m : PL!Holds(d, j) /\ d.at[j] = PermsOf(b)
  <2>1. PermsAt(n, j) = PermsOf(b) /\ PermsOf(b) # {}
    BY <1>2, PermsAre, PermEntryIs DEF PermEntry
  <2>2. PICK d \in m : PL!Holds(d, j)
    BY <2>1, PermsAre DEF PL!Covered
  <2>3. d.at[j] = PermsOf(d) /\ PermsAt(m, j) = PermsOf(d)
    BY <2>2, PermsAre, PermEntryIs DEF PermEntry
  <2> QED
    BY <2>1, <2>2, <2>3
<1>3. ASSUME NEW d \in m, d # a PROVE d.limit <= a.start \/ a.limit <= d.start
  BY <1>3 DEF PermMap, PL!IsMap, PL!Disjoint
<1>4. ASSUME b.start < a.start PROVE FALSE
  <2>1. PL!Holds(b, a.start - 1) /\ PL!Holds(b, a.start) /\ PL!Holds(a, a.start) /\ a.start - 1 \in Int
    BY <1>1, <1>4 DEF PL!Holds
  <2>2. PICK d \in m : PL!Holds(d, a.start - 1) /\ d.at[a.start - 1] = PermsOf(b)
    BY <1>2, <2>1
  <2>3. d.start \in Int /\ d.limit \in Int /\ d.start <= a.start - 1 /\ a.start - 1 < d.limit
    BY <2>2, PermEntryIs DEF PL!Holds
  <2>4. d.limit = a.start
    BY <1>1, <1>3, <2>3
  <2>5. a.at[a.start] = PermsOf(b)
    BY <1>1, <1>2, <2>1, PermsAre DEF PermsOf
  <2>6. d.at[d.limit - 1] = a.at[a.start]
    BY <2>2, <2>4, <2>5
  <2> QED
    BY <2>4, <2>6 DEF PL!Canonical, SamePerms
<1>5. ASSUME a.limit < b.limit PROVE FALSE
  <2>1. /\ PL!Holds(b, a.limit) /\ PL!Holds(b, a.limit - 1) /\ PL!Holds(a, a.limit - 1)
        /\ a.limit - 1 \in Int
    BY <1>1, <1>5 DEF PL!Holds
  <2>2. PICK d \in m : PL!Holds(d, a.limit) /\ d.at[a.limit] = PermsOf(b)
    BY <1>1, <1>2, <2>1
  <2>3. d.start \in Int /\ d.limit \in Int /\ d.start <= a.limit /\ a.limit < d.limit
    BY <2>2, PermEntryIs DEF PL!Holds
  <2>4. d.start = a.limit
    BY <1>1, <1>3, <2>3
  <2>5. a.at[a.limit - 1] = PermsOf(b)
    <3>1. PermsAt(m, a.limit - 1) = PermsOf(b)
      BY <1>2, <2>1
    <3>2. PermsAt(m, a.limit - 1) = PermsOf(a) /\ a.at[a.limit - 1] = PermsOf(a)
      BY <2>1, PermsAre, PermEntryIs DEF PermEntry
    <3> QED
      BY <3>1, <3>2
  <2>6. a.at[a.limit - 1] = d.at[d.start]
    BY <2>2, <2>4, <2>5
  <2> QED
    BY <2>4, <2>6 DEF PL!Canonical, SamePerms
<1> QED
  BY <1>4, <1>5

\* Of two maps in normal form that say the same, each entry of one is one of the other: it
\* cannot begin or end inside of theirs, nor be a part of a longer one.
LEMMA PartOfOther ==
  ASSUME NEW m, PermMap(m), PL!Canonical(m), NEW n, PermMap(n), PL!Canonical(n),
         \A k \in Int : PermsAt(m, k) = PermsAt(n, k)
  PROVE  m \subseteq n
<1> SUFFICES ASSUME NEW a \in m PROVE a \in n
  OBVIOUS
<1>1. a.start \in Int /\ a.limit \in Int /\ a.start < a.limit /\ PL!Holds(a, a.start) /\ PermEntry(a)
  BY PermEntryIs
<1>2. PermsAt(n, a.start) = PermsOf(a) /\ PermsOf(a) # {}
  BY <1>1, PermsAre DEF PermEntry
<1>3. PICK b \in n : PL!Holds(b, a.start)
  BY <1>1, <1>2, PermsAre DEF PL!Covered
<1>4. b.start \in Int /\ b.limit \in Int /\ PermEntry(b)
  BY PermEntryIs
<1>5. ~ (b.start < a.start) /\ ~ (a.limit < b.limit)
  BY <1>1, <1>3, NoStart
<1>6. ~ (a.start < b.start) /\ ~ (b.limit < a.limit)
  BY <1>1, <1>3, NoStart
<1>7. a.start = b.start /\ a.limit = b.limit
  BY <1>1, <1>4, <1>5, <1>6
<1>8. PermsOf(a) = PermsOf(b)
  BY <1>1, <1>2, <1>3, PermsAre
<1>9. \A k \in a.start..(a.limit - 1) : a.at[k] = b.at[k]
  BY <1>1, <1>4, <1>7, <1>8 DEF PermEntry, PL!Holds
<1>10. a = b
  BY <1>1, <1>4, <1>7, <1>9, PL!SameEntry DEF PermEntry
<1> QED
  BY <1>10

\* A map in normal form is given by what it says at each address.
LEMMA OneNormalForm ==
  ASSUME NEW m, PermMap(m), PL!Canonical(m), NEW n, PermMap(n), PL!Canonical(n),
         \A k \in Int : PermsAt(m, k) = PermsAt(n, k)
  PROVE  m = n
<1>1. m \subseteq n
  BY PartOfOther
<1>2. \A k \in Int : PermsAt(n, k) = PermsAt(m, k)
  OBVIOUS
<1>3. n \subseteq m
  BY <1>2, PartOfOther
<1> QED
  BY <1>1, <1>3

-----------------------------------------------------------------------------
(* Snapshots as the builder keeps them *)

Agree(map, list) ==
  /\ PermMap(list) /\ PermMap(map) /\ PL!Canonical(map)
  /\ \A k \in Int : PermsAt(map, k) = PermsAt(list, k)

EndShape(e) ==
  /\ e = [endpoint |-> e.endpoint, registers |-> e.registers, bytes |-> e.bytes,
          platforms |-> e.platforms]
  /\ \A b \in e.bytes : IsRange(b)
EndFits(map, e) == \A b \in e.bytes : AllWith(map, b.start, b.limit, "w")

EndsFit(map, ends) ==
  /\ \E S : ends \in Seq(S)
  /\ \A i \in DOMAIN ends : EndShape(ends[i]) /\ EndFits(map, ends[i])

PermsApart(map, negmap) == \A k \in Int : PermsAt(map, k) \cap PermsAt(negmap, k) = {}

BytesFit(map, W) ==
  /\ \A b \in W : IsRange(b) /\ P!Covers(map, b.start, b.limit)
  /\ P!Disjoint(W)

GoodSnap(s) ==
  /\ s = [mappings |-> s.mappings, map |-> s.map, negatives |-> s.negatives, negmap |-> s.negmap,
          bytes |-> s.bytes, registers |-> s.registers, ends |-> s.ends]
  /\ Agree(s.map, s.mappings) /\ Agree(s.negmap, s.negatives)
  /\ PermsApart(s.map, s.negmap) /\ BytesFit(s.map, s.bytes) /\ EndsFit(s.map, s.ends)

\* What can be handed to the folds.
OneValued(e) == PL!IsEntry(e) /\ \A k \in Int : PL!Holds(e, k) => e.at[k] = PermsOf(e)
Suits(c, x) ==
  IF c.what \in {"mapping", "negative"} THEN OneValued(x)
  ELSE IF c.what = "bytes" THEN IsRange(x) ELSE EndShape(x)

\* t is s with X added to the list that c is about, and nothing else changed.
InSeq(x, ends) == \E i \in DOMAIN ends : ends[i] = x
Grown(c, s, X, t) ==
  /\ t.mappings = IF c.what = "mapping" THEN s.mappings \cup X ELSE s.mappings
  /\ t.negatives = IF c.what = "negative" THEN s.negatives \cup X ELSE s.negatives
  /\ t.bytes = IF c.what = "bytes" THEN s.bytes \cup X ELSE s.bytes
  /\ t.registers = s.registers
  /\ c.what # "mapping" => t.map = s.map
  /\ c.what # "negative" => t.negmap = s.negmap
  /\ c.what # "end" => t.ends = s.ends
  /\ c.what = "end" => /\ \A x \in X : InSeq(x, t.ends)
                       /\ \A i \in DOMAIN s.ends : InSeq(s.ends[i], t.ends)

\* A range of the builder is an entry of the range maps, within the address space.
LEMMA RangeOfCells ==
  ASSUME NEW b, IsRange(b)
  PROVE  /\ PL!IsEntry(b) /\ b.start \in Int /\ b.limit \in Int /\ b.start < b.limit
         /\ 0 <= b.start /\ b.limit <= kMaxAddress
         /\ \A k \in Int : k \in Cells(b) <=> PL!Holds(b, k)
BY SnapshotAssumption DEF IsRange, PL!IsEntry, P!Entry, PL!Entry, Cells, PL!Holds

\* An overlap with a range shows in the permissions of its addresses.
LEMMA FindIs ==
  ASSUME NEW m, PermMap(m), NEW e, PL!IsEntry(e)
  PROVE  /\ P!Find(m, e.start, e.limit) = {} => Beside(e, m)
         /\ \A k \in Int : PL!Holds(e, k) => PermsAt(m, k) \subseteq SomePerms(m, e.start, e.limit)
<1>1. e.start \in Int /\ e.limit \in Int
  BY DEF PL!IsEntry
<1>2. ASSUME NEW k \in Int, PL!Holds(e, k), PermsAt(m, k) # {}
      PROVE  \E d \in P!Find(m, e.start, e.limit) : PermsAt(m, k) = PermsOf(d)
  <2>1. PICK d \in m : PL!Holds(d, k)
    BY <1>2, PermsAre DEF PL!Covered
  <2>2. d.start \in Int /\ d.limit \in Int /\ PermsAt(m, k) = PermsOf(d)
    BY <2>1, PermEntryIs, PermsAre
  <2>3. d \in P!Find(m, e.start, e.limit)
    BY <1>1, <1>2, <2>1, <2>2 DEF P!Find, PL!Holds
  <2> QED
    BY <2>2, <2>3
<1>3. P!Find(m, e.start, e.limit) = {} => Beside(e, m)
  BY <1>2 DEF Beside
<1>4. ASSUME NEW k \in Int, PL!Holds(e, k)
      PROVE  PermsAt(m, k) \subseteq SomePerms(m, e.start, e.limit)
  <2>1. CASE PermsAt(m, k) = {}
    BY <2>1
  <2>2. CASE PermsAt(m, k) # {}
    BY <1>2, <1>4, <2>2 DEF SomePerms
  <2> QED
    BY <2>1, <2>2
<1> QED
  BY <1>3, <1>4

\* A mapping added beside the others.
LEMMA AgreeMore ==
  ASSUME NEW map, NEW list, Agree(map, list), NEW e, PermEntry(e), Beside(e, map)
  PROVE  /\ Agree(AddMapping(map, e), list \cup {e})
         /\ \A k \in Int : PermsAt(AddMapping(map, e), k) =
                             IF PL!Holds(e, k) THEN PermsOf(e) ELSE PermsAt(map, k)
<1>1. PermMap(map) /\ PermMap(list) /\ PL!Canonical(map)
  BY DEF Agree
<1>2. Beside(e, list)
  BY DEF Agree, Beside
<1>3. /\ PermMap(list \cup {e})
      /\ \A k \in Int : PermsAt(list \cup {e}, k) =
                          IF PL!Holds(e, k) THEN PermsOf(e) ELSE PermsAt(list, k)
  BY <1>1, <1>2, OneMore
<1>4. /\ PermMap(AddMapping(map, e)) /\ PL!Canonical(AddMapping(map, e))
      /\ \A k \in Int : PermsAt(AddMapping(map, e), k) =
           IF PL!Holds(e, k) THEN PermsAt(map, k) \cup PermsOf(e) ELSE PermsAt(map, k)
  BY <1>1, MappingAdded
<1>5. \A k \in Int : PermsAt(AddMapping(map, e), k) =
                       IF PL!Holds(e, k) THEN PermsOf(e) ELSE PermsAt(map, k)
  BY <1>4 DEF Beside
<1> QED
  BY <1>3, <1>4, <1>5 DEF Agree

\* What fitted a map fits one that has more permissions.
More(map, new) == \A k \in Int : PermsAt(map, k) \subseteq PermsAt(new, k)
\* Bytes and end states that fit a map fit every map with more permissions.
LEMMA StillFit ==
  ASSUME NEW map, PermMap(map), NEW new, PermMap(new), More(map, new)
  PROVE  /\ \A W : BytesFit(map, W) => BytesFit(new, W)
         /\ \A ends : EndsFit(map, ends) => EndsFit(new, ends)
<1>1. ASSUME NEW b, IsRange(b), P!Covers(map, b.start, b.limit) PROVE P!Covers(new, b.start, b.limit)
  <2> SUFFICES ASSUME NEW k \in b.start..(b.limit - 1) PROVE P!Covered(new, k)
    BY DEF P!Covers
  <2>1. k \in Int /\ P!Covered(map, k)
    BY <1>1, RangeOfCells DEF P!Covers
  <2> QED
    BY <2>1, PermsAre, SamePermsMaps DEF More
<1>2. ASSUME NEW e, EndShape(e), EndFits(map, e) PROVE EndFits(new, e)
  <2> SUFFICES ASSUME NEW b \in e.bytes, NEW k \in b.start..(b.limit - 1) PROVE "w" \in PermsAt(new, k)
    BY DEF EndFits, AllWith
  <2>1. k \in Int /\ "w" \in PermsAt(map, k)
    BY <1>2, RangeOfCells DEF EndShape, EndFits, AllWith
  <2> QED
    BY <2>1 DEF More
<1>3. \A W : BytesFit(map, W) => BytesFit(new, W)
  BY <1>1 DEF BytesFit
<1>4. \A ends : EndsFit(map, ends) => EndsFit(new, ends)
  BY <1>2 DEF EndsFit
<1> QED
  BY <1>3, <1>4

\* A mapping that can be added leaves a good snapshot, with one mapping more.
LEMMA AddsMapping ==
  ASSUME NEW s, GoodSnap(s), NEW e, OneValued(e), CanAddMapping(s, e)
  PROVE  GoodSnap(WithMapping(s, e)) /\ Grown([what |-> "mapping"], s, {e}, WithMapping(s, e))
<1> DEFINE t == WithMapping(s, e)
           map == AddMapping(s.map, e)
<1>0. t = [s EXCEPT !.mappings = s.mappings \cup {e}, !.map = map]
  BY DEF WithMapping
<1> HIDE DEF t, map
<1>1. /\ t.mappings = s.mappings \cup {e} /\ t.map = map /\ t.negatives = s.negatives
      /\ t.negmap = s.negmap /\ t.bytes = s.bytes /\ t.registers = s.registers /\ t.ends = s.ends
      /\ t = [mappings |-> t.mappings, map |-> t.map, negatives |-> t.negatives, negmap |-> t.negmap,
              bytes |-> t.bytes, registers |-> t.registers, ends |-> t.ends]
  BY <1>0 DEF GoodSnap
<1>2. PermMap(s.map) /\ PermMap(s.negmap) /\ Agree(s.map, s.mappings)
  BY DEF GoodSnap, Agree
<1>3. PermEntry(e) /\ Beside(e, s.map)
  BY <1>2, FindIs DEF CanAddMapping, OneValued, PermEntry
<1>4. /\ Agree(map, s.mappings \cup {e})
      /\ \A k \in Int : PermsAt(map, k) = IF PL!Holds(e, k) THEN PermsOf(e) ELSE PermsAt(s.map, k)
  BY <1>2, <1>3, AgreeMore DEF map
<1>5. PermsApart(map, s.negmap)
  <2> SUFFICES ASSUME NEW k \in Int PROVE PermsAt(map, k) \cap PermsAt(s.negmap, k) = {}
    BY DEF PermsApart
  <2>1. PermsAt(s.map, k) \cap PermsAt(s.negmap, k) = {}
    BY DEF GoodSnap, PermsApart
  <2>2. PL!Holds(e, k) => PermsAt(s.negmap, k) \subseteq SomePerms(s.negmap, e.start, e.limit)
    BY <1>2, FindIs DEF OneValued
  <2> QED
    BY <1>4, <2>1, <2>2 DEF CanAddMapping
<1>6. PermMap(map) /\ More(s.map, map)
  BY <1>3, <1>4 DEF Agree, More, Beside
<1>7. BytesFit(map, s.bytes) /\ EndsFit(map, s.ends)
  BY <1>2, <1>6, StillFit DEF GoodSnap
<1>8. GoodSnap(t)
  BY <1>1, <1>4, <1>5, <1>7 DEF GoodSnap
<1>9. Grown([what |-> "mapping"], s, {e}, t)
  BY <1>1 DEF Grown
<1> QED
  BY <1>8, <1>9 DEF t

\* A negative mapping that meets no other one is added.
LEMMA AddsNegative ==
  ASSUME NEW s, GoodSnap(s), NEW e, OneValued(e), NEW ok, CanAddNegative(s, e, ok),
         P!Find(s.negmap, e.start, e.limit) = {}
  PROVE  GoodSnap(WithNegative(s, e)) /\ Grown([what |-> "negative"], s, {e}, WithNegative(s, e))
<1> DEFINE t == WithNegative(s, e)
           map == AddMapping(s.negmap, e)
<1>0. t = [s EXCEPT !.negatives = s.negatives \cup {e}, !.negmap = map]
  BY DEF WithNegative
<1> HIDE DEF t, map
<1>1. /\ t.negatives = s.negatives \cup {e} /\ t.negmap = map /\ t.mappings = s.mappings
      /\ t.map = s.map /\ t.bytes = s.bytes /\ t.registers = s.registers /\ t.ends = s.ends
      /\ t = [mappings |-> t.mappings, map |-> t.map, negatives |-> t.negatives, negmap |-> t.negmap,
              bytes |-> t.bytes, registers |-> t.registers, ends |-> t.ends]
  BY <1>0 DEF GoodSnap
<1>2. PermMap(s.map) /\ PermMap(s.negmap) /\ Agree(s.negmap, s.negatives)
  BY DEF GoodSnap, Agree
<1>3. PermEntry(e) /\ Beside(e, s.negmap)
  BY <1>2, FindIs DEF CanAddNegative, OneValued, PermEntry
<1>4. /\ Agree(map, s.negatives \cup {e})
      /\ \A k \in Int : PermsAt(map, k) = IF PL!Holds(e, k) THEN PermsOf(e) ELSE PermsAt(s.negmap, k)
  BY <1>2, <1>3, AgreeMore DEF map
<1>5. PermsApart(s.map, map)
  <2> SUFFICES ASSUME NEW k \in Int PROVE PermsAt(s.map, k) \cap PermsAt(map, k) = {}
    BY DEF PermsApart
  <2>1. PermsAt(s.map, k) \cap PermsAt(s.negmap, k) = {}
    BY DEF GoodSnap, PermsApart
  <2>2. PL!Holds(e, k) => PermsAt(s.map, k) \subseteq SomePerms(s.map, e.start, e.limit)
    BY <1>2, FindIs DEF OneValued
  <2> QED
    BY <1>4, <2>1, <2>2 DEF CanAddNegative
<1>6. GoodSnap(t)
  BY <1>1, <1>4, <1>5 DEF GoodSnap
<1>7. Grown([what |-> "negative"], s, {e}, t)
  BY <1>1 DEF Grown
<1> QED
  BY <1>6, <1>7 DEF t

\* A list may as well be the ranges of its map.
LEMMA AgreeSelf ==
  ASSUME NEW map, PermMap(map), PL!Canonical(map)
  PROVE  Agree(map, map)
BY DEF Agree

\* A negative mapping may overlap others: the parts that are not there yet are added.
LEMMA AddsOverlapping ==
  ASSUME NEW s, GoodSnap(s), NEW e, OneValued(e), CanAddNegative(s, e, TRUE)
  PROVE  GoodSnap(WithOverlapping(s, e))
<1>1. CASE P!Find(s.negmap, e.start, e.limit) = {}
  BY <1>1, AddsNegative DEF WithOverlapping
<1>2. CASE P!Find(s.negmap, e.start, e.limit) # {}
  <2> DEFINE t == WithOverlapping(s, e)
             map == AddMapping(s.negmap, e)
  <2>1. t = [s EXCEPT !.negmap = map, !.negatives = map]
    BY <1>2 DEF WithOverlapping
  <2>2. /\ t.negatives = map /\ t.negmap = map /\ t.mappings = s.mappings
        /\ t.map = s.map /\ t.bytes = s.bytes /\ t.registers = s.registers /\ t.ends = s.ends
        /\ t = [mappings |-> t.mappings, map |-> t.map, negatives |-> t.negatives, negmap |-> t.negmap,
                bytes |-> t.bytes, registers |-> t.registers, ends |-> t.ends]
    BY <2>1 DEF GoodSnap
  <2>3. PermMap(s.map) /\ PermMap(s.negmap) /\ PL!Canonical(s.negmap) /\ PermEntry(e)
    BY DEF GoodSnap, Agree, CanAddNegative, OneValued, PermEntry
  <2>4. /\ PermMap(map) /\ PL!Canonical(map)
        /\ \A k \in Int : PermsAt(map, k) = IF PL!Holds(e, k) THEN PermsAt(s.negmap, k) \cup PermsOf(e)
                                            ELSE PermsAt(s.negmap, k)
    BY <2>3, MappingAdded
  <2> HIDE DEF t, map
  <2>5. PermsApart(s.map, map)
    <3> SUFFICES ASSUME NEW k \in Int PROVE PermsAt(s.map, k) \cap PermsAt(map, k) = {}
      BY DEF PermsApart
    <3>1. PermsAt(s.map, k) \cap PermsAt(s.negmap, k) = {}
      BY DEF GoodSnap, PermsApart
    <3>2. PL!Holds(e, k) => PermsAt(s.map, k) \subseteq SomePerms(s.map, e.start, e.limit)
      BY <2>3, FindIs DEF OneValued
    <3> QED
      BY <2>4, <3>1, <3>2 DEF CanAddNegative
  <2>6. Agree(map, map)
    BY <2>4, AgreeSelf
  <2>7. GoodSnap(t)
    BY <2>2, <2>5, <2>6 DEF GoodSnap
  <2> QED
    BY <2>7 DEF t
<1> QED
  BY <1>1, <1>2

\* Bytes that can be added lie in mapped memory and beside the others.
LEMMA AddsBytes ==
  ASSUME NEW s, GoodSnap(s), NEW b, IsRange(b), CanAddBytes(s, b)
  PROVE  GoodSnap(WithBytes(s, b)) /\ Grown([what |-> "bytes"], s, {b}, WithBytes(s, b))
<1> DEFINE t == WithBytes(s, b)
<1>1. /\ t.bytes = s.bytes \cup {b} /\ t.negatives = s.negatives /\ t.negmap = s.negmap
      /\ t.mappings = s.mappings /\ t.map = s.map /\ t.registers = s.registers /\ t.ends = s.ends
      /\ t = [mappings |-> t.mappings, map |-> t.map, negatives |-> t.negatives, negmap |-> t.negmap,
              bytes |-> t.bytes, registers |-> t.registers, ends |-> t.ends]
  BY DEF GoodSnap, WithBytes
<1> HIDE DEF t
<1>2. ASSUME NEW c \in s.bytes PROVE c.limit <= b.start \/ b.limit <= c.start
  <2>1. IsRange(c) /\ Cells(c) \cap Cells(b) = {}
    BY DEF GoodSnap, BytesFit, CanAddBytes
  <2>2. /\ c.start \in Int /\ c.limit \in Int /\ c.start < c.limit
        /\ b.start \in Int /\ b.limit \in Int /\ b.start < b.limit
    BY <2>1, RangeOfCells
  <2>3. c.start \notin Cells(b) \/ c.start \notin Cells(c)
    BY <2>1
  <2>4. b.start \notin Cells(b) \/ b.start \notin Cells(c)
    BY <2>1
  <2> QED
    BY <2>2, <2>3, <2>4 DEF Cells
<1>3. BytesFit(s.map, s.bytes \cup {b})
  BY <1>2 DEF GoodSnap, BytesFit, CanAddBytes, P!Disjoint
<1>4. GoodSnap(t)
  BY <1>1, <1>3 DEF GoodSnap
<1>5. Grown([what |-> "bytes"], s, {b}, t)
  BY <1>1 DEF Grown
<1> QED
  BY <1>4, <1>5 DEF t

\* An end state that fits, after others that fit.
LEMMA OneMoreEnd ==
  ASSUME NEW map, NEW ends, EndsFit(map, ends), NEW e, EndShape(e), EndFits(map, e)
  PROVE  /\ EndsFit(map, Append(ends, e))
         /\ InSeq(e, Append(ends, e)) /\ \A i \in DOMAIN ends : InSeq(ends[i], Append(ends, e))
<1>1. PICK S : ends \in Seq(S)
  BY DEF EndsFit
<1>2. ends \in Seq(S \cup {e}) /\ e \in S \cup {e}
  BY <1>1
<1> DEFINE new == Append(ends, e)
<1>3. /\ new \in Seq(S \cup {e}) /\ Len(ends) \in Nat /\ DOMAIN ends = 1..Len(ends)
      /\ DOMAIN new = 1..(Len(ends) + 1)
      /\ \A i \in 1..Len(ends) : new[i] = ends[i]
      /\ new[Len(ends) + 1] = e
  BY <1>2
<1> HIDE DEF new
<1>4. \A i \in DOMAIN new : (i \in DOMAIN ends /\ new[i] = ends[i]) \/ new[i] = e
  BY <1>3
<1>5. \A i \in DOMAIN new : EndShape(new[i]) /\ EndFits(map, new[i])
  BY <1>4 DEF EndsFit
<1>6. EndsFit(map, new)
  BY <1>3, <1>5 DEF EndsFit
<1>7. InSeq(e, new) /\ \A i \in DOMAIN ends : InSeq(ends[i], new)
  BY <1>3 DEF InSeq
<1> QED
  BY <1>6, <1>7 DEF new

\* An end state that can be added leaves a good snapshot.
LEMMA AddsEnd ==
  ASSUME NEW s, GoodSnap(s), NEW e, EndShape(e), NEW ok, NEW dup, CanAddEnd(s, e, ok, dup)
  PROVE  GoodSnap(WithEnd(s, e)) /\ Grown([what |-> "end"], s, {e}, WithEnd(s, e))
<1> DEFINE t == WithEnd(s, e)
<1>1. /\ t.ends = Append(s.ends, e) /\ t.negatives = s.negatives /\ t.negmap = s.negmap
      /\ t.mappings = s.mappings /\ t.map = s.map /\ t.registers = s.registers /\ t.bytes = s.bytes
      /\ t = [mappings |-> t.mappings, map |-> t.map, negatives |-> t.negatives, negmap |-> t.negmap,
              bytes |-> t.bytes, registers |-> t.registers, ends |-> t.ends]
  BY SMTT(30) DEF GoodSnap, WithEnd
<1> HIDE DEF t
<1>2. EndFits(s.map, e)
  BY DEF CanAddEnd, EndFits
<1>3. /\ EndsFit(s.map, Append(s.ends, e)) /\ InSeq(e, Append(s.ends, e))
      /\ \A i \in DOMAIN s.ends : InSeq(s.ends[i], Append(s.ends, e))
  BY <1>2, OneMoreEnd DEF GoodSnap
<1>4. GoodSnap(t)
  BY <1>1, <1>3 DEF GoodSnap
<1>5. Grown([what |-> "end"], s, {e}, t)
  BY <1>1, <1>3 DEF Grown
<1> QED
  BY <1>4, <1>5 DEF t

\* The four ways to add to a list, taken together: each leaves a good snapshot with x added.
LEMMA PutIs ==
  ASSUME NEW c, c \in [what : {"mapping", "negative", "bytes", "end"}],
         NEW s, GoodSnap(s), NEW x, Suits(c, x), Fits(c, s, x)
  PROVE  GoodSnap(Grow(c, s, x)) /\ Grown(c, s, {x}, Grow(c, s, x))
<1>1. CASE c = [what |-> "mapping"]
  BY <1>1, AddsMapping DEF Grow, Suits, Fits
<1>2. CASE c = [what |-> "negative"]
  <2>1. CanAddNegative(s, x, FALSE) /\ OneValued(x) /\ P!Find(s.negmap, x.start, x.limit) = {}
    BY <1>2 DEF Suits, Fits, CanAddNewNegative, CanAddNegative
  <2> QED
    BY <1>2, <2>1, AddsNegative DEF Grow
<1>3. CASE c = [what |-> "bytes"]
  BY <1>3, AddsBytes DEF Grow, Suits, Fits
<1>4. CASE c = [what |-> "end"]
  BY <1>4, AddsEnd DEF Grow, Suits, Fits
<1> QED
  BY <1>1, <1>2, <1>3, <1>4

\* What is added in two steps is added in one.
LEMMA GrownTwice ==
  ASSUME NEW c, NEW s, NEW X, NEW t, Grown(c, s, X, t), NEW x, NEW u, Grown(c, t, {x}, u)
  PROVE  Grown(c, s, X \cup {x}, u)
<1>1. CASE c.what = "end"
  <2>1. \A y : InSeq(y, t.ends) => InSeq(y, u.ends)
    BY <1>1 DEF Grown, InSeq
  <2>2. \A y \in X \cup {x} : InSeq(y, u.ends)
    BY <1>1, <2>1 DEF Grown
  <2>3. \A i \in DOMAIN s.ends : InSeq(s.ends[i], u.ends)
    BY <1>1, <2>1 DEF Grown
  <2> QED
    BY <1>1, <2>2, <2>3 DEF Grown
<1>2. CASE c.what # "end"
  BY <1>2 DEF Grown
<1> QED
  BY <1>1, <1>2

\* A fold that succeeds has added everything, and leaves a snapshot as it should be.
IsResult(r) == r = [ok |-> r.ok, s |-> r.s]
FoldCase(c, base, S, pick, at, f, X) ==
  /\ c \in [what : {"mapping", "negative", "bytes", "end"}]
  /\ IsResult(base) /\ (base.ok => GoodSnap(base.s))
  /\ IsFiniteSet(S) /\ \A x \in S : Suits(c, at[x])
  /\ \A T \in SUBSET S : T # {} => pick[T] \in T
  /\ Folded(f, c, base, S, pick, at)
  /\ \A y : y \in X <=> \E x \in S : at[x] = y
\* Added one after the other, all or up to the first that cannot be, the snapshot stays good:
\* by the least number of elements for which it would not.
LEMMA FoldKeeps ==
  ASSUME NEW c, NEW base, NEW S, NEW pick, NEW at, NEW f, NEW X,
         FoldCase(c, base, S, pick, at, f, X)
  PROVE  /\ IsResult(f[S])
         /\ f[S].ok => base.ok /\ GoodSnap(f[S].s) /\ Grown(c, base.s, X, f[S].s)
<1>0. /\ c \in [what : {"mapping", "negative", "bytes", "end"}]
      /\ IsResult(base) /\ (base.ok => GoodSnap(base.s))
      /\ IsFiniteSet(S) /\ \A x \in S : Suits(c, at[x])
      /\ \A T \in SUBSET S : T # {} => pick[T] \in T
      /\ Folded(f, c, base, S, pick, at)
      /\ \A y : y \in X <=> \E x \in S : at[x] = y
  BY DEF FoldCase
<1> DEFINE Good == {T \in SUBSET S :
                      /\ IsResult(f[T])
                      /\ f[T].ok => /\ base.ok /\ GoodSnap(f[T].s)
                                    /\ Grown(c, base.s, {at[x] : x \in T}, f[T].s)}
<1>1. \A T \in SUBSET S : f[T] = IF T = {} THEN base ELSE FoldStep(c, f[T \ {pick[T]}], at[pick[T]])
  BY <1>0 DEF Folded
<1>2. {} \in Good
  <2>1. f[{}] = base
    BY <1>1
  <2>2. Grown(c, base.s, {}, base.s)
    <3>1. \A i \in DOMAIN base.s.ends : InSeq(base.s.ends[i], base.s.ends)
      BY DEF InSeq
    <3> QED
      BY <3>1 DEF Grown
  <2>3. {at[x] : x \in {}} = {}
    OBVIOUS
  <2> QED
    BY <1>0, <2>1, <2>2, <2>3
<1>3. ASSUME NEW T \in SUBSET S, T # {}, T \ {pick[T]} \in Good PROVE T \in Good
  <2> DEFINE before == T \ {pick[T]}
             x == at[pick[T]]
             r == f[before]
  <2>1. /\ IsResult(r)
        /\ r.ok => base.ok /\ GoodSnap(r.s) /\ Grown(c, base.s, {at[y] : y \in before}, r.s)
    BY <1>3
  <2>2. pick[T] \in T /\ Suits(c, x)
    BY <1>0, <1>3
  <2>3. {at[y] : y \in T} = {at[y] : y \in before} \cup {x}
    BY <2>2
  <2>4. f[T] = FoldStep(c, r, x)
    BY <1>1, <1>3
  <2> HIDE DEF before, x, r
  <2>5. f[T] = IF r.ok /\ Fits(c, r.s, x) THEN [ok |-> TRUE, s |-> Grow(c, r.s, x)]
               ELSE [r EXCEPT !.ok = FALSE]
    BY <1>0, <2>4 DEF FoldStep
  <2>6. CASE r.ok /\ Fits(c, r.s, x)
    <3>1. f[T] = [ok |-> TRUE, s |-> Grow(c, r.s, x)]
      BY <2>5, <2>6
    <3>2. IsResult(f[T]) /\ f[T].s = Grow(c, r.s, x)
      BY <3>1 DEF IsResult
    <3>3. GoodSnap(Grow(c, r.s, x)) /\ Grown(c, r.s, {x}, Grow(c, r.s, x))
      BY <1>0, <2>1, <2>2, <2>6, PutIs
    <3>4. Grown(c, base.s, {at[y] : y \in before} \cup {x}, Grow(c, r.s, x))
      BY <2>1, <2>6, <3>3, GrownTwice
    <3> QED
      BY <2>1, <2>3, <2>6, <3>2, <3>3, <3>4
  <2>7. CASE ~ (r.ok /\ Fits(c, r.s, x))
    <3>1. f[T] = [r EXCEPT !.ok = FALSE]
      BY <2>5, <2>7
    <3>2. IsResult(f[T]) /\ f[T].ok = FALSE
      BY <2>1, <3>1 DEF IsResult
    <3> QED
      BY <3>2
  <2> QED
    BY <2>6, <2>7
<1> HIDE DEF Good
<1>4. S \in Good
  BY <1>0, <1>2, <1>3, FoldInduction
<1>5. X = {at[x] : x \in S}
  BY <1>0
<1> QED
  BY <1>4, <1>5 DEF Good

\* The folds of the model are such folds.
AnyOf(S) == [T \in SUBSET S |-> CHOOSE x \in T : TRUE]
Same(S) == [x \in S |-> x]
\* The choice of a set's next element is an element.
LEMMA AnyIs == ASSUME NEW S PROVE \A T \in SUBSET S : T # {} => AnyOf(S)[T] \in T
<1> SUFFICES ASSUME NEW T \in SUBSET S, T # {} PROVE AnyOf(S)[T] \in T
  OBVIOUS
<1>1. AnyOf(S)[T] = CHOOSE x \in T : TRUE
  BY DEF AnyOf
<1> QED
  BY <1>1

\* AddAll over mappings is such a fold.
LEMMA AddAllMappings ==
  ASSUME NEW base, NEW S, IsFiniteSet(S)
  PROVE  \E f : /\ Folded(f, [what |-> "mapping"], base, S, AnyOf(S), Same(S))
                /\ AddAll(base, S, CanAddMapping, WithMapping) = f[S]
<1> DEFINE c == [what |-> "mapping"]
           last(T) == CHOOSE x \in T : TRUE
           Value(g, T) ==
             IF T = {} THEN base
             ELSE IF g[T \ {last(T)}].ok /\ CanAddMapping(g[T \ {last(T)}].s, last(T))
                  THEN [ok |-> TRUE, s |-> WithMapping(g[T \ {last(T)}].s, last(T))]
                  ELSE [g[T \ {last(T)}] EXCEPT !.ok = FALSE]
           f == CHOOSE g : g = [T \in SUBSET S |-> Value(g, T)]
<1>1. AddAll(base, S, CanAddMapping, WithMapping) = f[S]
  BY DEF AddAll, FoldSet, MapThenFoldSet
<1> HIDE DEF f
<1>2. ASSUME NEW g, NEW T \in SUBSET S
      PROVE  Value(g, T) = IF T = {} THEN base
                           ELSE FoldStep(c, g[T \ {AnyOf(S)[T]}], Same(S)[AnyOf(S)[T]])
  <2>1. CASE T # {}
    <3>1. last(T) \in S /\ AnyOf(S)[T] = last(T)
      BY <2>1 DEF AnyOf
    <3>2. Same(S)[last(T)] = last(T)
      BY <3>1 DEF Same
    <3> HIDE DEF last
    <3> QED
      BY <2>1, <3>1, <3>2 DEF FoldStep, Fits, Grow
  <2> QED
    BY <2>1
<1> HIDE DEF c, Value
<1>3. \A g : Folded(g, c, base, S, AnyOf(S), Same(S)) <=> g = [T \in SUBSET S |-> Value(g, T)]
  <2> SUFFICES ASSUME NEW g
               PROVE  Folded(g, c, base, S, AnyOf(S), Same(S)) <=> g = [T \in SUBSET S |-> Value(g, T)]
    OBVIOUS
  <2>1. [T \in SUBSET S |-> Value(g, T)] =
          [T \in SUBSET S |-> IF T = {} THEN base
                              ELSE FoldStep(c, g[T \ {AnyOf(S)[T]}], Same(S)[AnyOf(S)[T]])]
    BY <1>2
  <2> QED
    BY <2>1 DEF Folded
<1>4. \E g : Folded(g, c, base, S, AnyOf(S), Same(S))
  BY AnyIs, FoldExists
<1>5. \E g : g = [T \in SUBSET S |-> Value(g, T)]
  BY <1>3, <1>4
<1>6. f = [T \in SUBSET S |-> Value(f, T)]
  BY <1>5 DEF f
<1> QED
  BY <1>1, <1>3, <1>6 DEF c

\* AddAll over negative mappings is such a fold.
LEMMA AddAllNegatives ==
  ASSUME NEW base, NEW S, IsFiniteSet(S)
  PROVE  \E f : /\ Folded(f, [what |-> "negative"], base, S, AnyOf(S), Same(S))
                /\ AddAll(base, S, CanAddNewNegative, WithNegative) = f[S]
<1> DEFINE c == [what |-> "negative"]
           last(T) == CHOOSE x \in T : TRUE
           Value(g, T) ==
             IF T = {} THEN base
             ELSE IF g[T \ {last(T)}].ok /\ CanAddNewNegative(g[T \ {last(T)}].s, last(T))
                  THEN [ok |-> TRUE, s |-> WithNegative(g[T \ {last(T)}].s, last(T))]
                  ELSE [g[T \ {last(T)}] EXCEPT !.ok = FALSE]
           f == CHOOSE g : g = [T \in SUBSET S |-> Value(g, T)]
<1>1. AddAll(base, S, CanAddNewNegative, WithNegative) = f[S]
  BY DEF AddAll, FoldSet, MapThenFoldSet
<1> HIDE DEF f
<1>2. ASSUME NEW g, NEW T \in SUBSET S
      PROVE  Value(g, T) = IF T = {} THEN base
                           ELSE FoldStep(c, g[T \ {AnyOf(S)[T]}], Same(S)[AnyOf(S)[T]])
  <2>1. CASE T # {}
    <3>1. last(T) \in S /\ AnyOf(S)[T] = last(T)
      BY <2>1 DEF AnyOf
    <3>2. Same(S)[last(T)] = last(T)
      BY <3>1 DEF Same
    <3> HIDE DEF last
    <3> QED
      BY <2>1, <3>1, <3>2 DEF FoldStep, Fits, Grow
  <2> QED
    BY <2>1
<1> HIDE DEF c, Value
<1>3. \A g : Folded(g, c, base, S, AnyOf(S), Same(S)) <=> g = [T \in SUBSET S |-> Value(g, T)]
  <2> SUFFICES ASSUME NEW g
               PROVE  Folded(g, c, base, S, AnyOf(S), Same(S)) <=> g = [T \in SUBSET S |-> Value(g, T)]
    OBVIOUS
  <2>1. [T \in SUBSET S |-> Value(g, T)] =
          [T \in SUBSET S |-> IF T = {} THEN base
                              ELSE FoldStep(c, g[T \ {AnyOf(S)[T]}], Same(S)[AnyOf(S)[T]])]
    BY <1>2
  <2> QED
    BY <2>1 DEF Folded
<1>4. \E g : Folded(g, c, base, S, AnyOf(S), Same(S))
  BY AnyIs, FoldExists
<1>5. \E g : g = [T \in SUBSET S |-> Value(g, T)]
  BY <1>3, <1>4
<1>6. f = [T \in SUBSET S |-> Value(f, T)]
  BY <1>5 DEF f
<1> QED
  BY <1>1, <1>3, <1>6 DEF c

\* AddAll over bytes is such a fold.
LEMMA AddAllBytes ==
  ASSUME NEW base, NEW S, IsFiniteSet(S)
  PROVE  \E f : /\ Folded(f, [what |-> "bytes"], base, S, AnyOf(S), Same(S))
                /\ AddAll(base, S, CanAddBytes, WithBytes) = f[S]
<1> DEFINE c == [what |-> "bytes"]
           last(T) == CHOOSE x \in T : TRUE
           Value(g, T) ==
             IF T = {} THEN base
             ELSE IF g[T \ {last(T)}].ok /\ CanAddBytes(g[T \ {last(T)}].s, last(T))
                  THEN [ok |-> TRUE, s |-> WithBytes(g[T \ {last(T)}].s, last(T))]
                  ELSE [g[T \ {last(T)}] EXCEPT !.ok = FALSE]
           f == CHOOSE g : g = [T \in SUBSET S |-> Value(g, T)]
<1>1. AddAll(base, S, CanAddBytes, WithBytes) = f[S]
  BY DEF AddAll, FoldSet, MapThenFoldSet
<1> HIDE DEF f
<1>2. ASSUME NEW g, NEW T \in SUBSET S
      PROVE  Value(g, T) = IF T = {} THEN base
                           ELSE FoldStep(c, g[T \ {AnyOf(S)[T]}], Same(S)[AnyOf(S)[T]])
  <2>1. CASE T # {}
    <3>1. last(T) \in S /\ AnyOf(S)[T] = last(T)
      BY <2>1 DEF AnyOf
    <3>2. Same(S)[last(T)] = last(T)
      BY <3>1 DEF Same
    <3> HIDE DEF last
    <3> QED
      BY <2>1, <3>1, <3>2 DEF FoldStep, Fits, Grow
  <2> QED
    BY <2>1
<1> HIDE DEF c, Value
<1>3. \A g : Folded(g, c, base, S, AnyOf(S), Same(S)) <=> g = [T \in SUBSET S |-> Value(g, T)]
  <2> SUFFICES ASSUME NEW g
               PROVE  Folded(g, c, base, S, AnyOf(S), Same(S)) <=> g = [T \in SUBSET S |-> Value(g, T)]
    OBVIOUS
  <2>1. [T \in SUBSET S |-> Value(g, T)] =
          [T \in SUBSET S |-> IF T = {} THEN base
                              ELSE FoldStep(c, g[T \ {AnyOf(S)[T]}], Same(S)[AnyOf(S)[T]])]
    BY <1>2
  <2> QED
    BY <2>1 DEF Folded
<1>4. \E g : Folded(g, c, base, S, AnyOf(S), Same(S))
  BY AnyIs, FoldExists
<1>5. \E g : g = [T \in SUBSET S |-> Value(g, T)]
  BY <1>3, <1>4
<1>6. f = [T \in SUBSET S |-> Value(f, T)]
  BY <1>5 DEF f
<1> QED
  BY <1>1, <1>3, <1>6 DEF c

\* The last of the indexes.
Latest(S) == [T \in SUBSET S |-> Max(T)]
\* The fold over a sequence takes the last position of those that are left.
LEMMA LatestIs ==
  ASSUME NEW X, NEW seq \in Seq(X)
  PROVE  /\ IsFiniteSet(DOMAIN seq)
         /\ \A T \in SUBSET DOMAIN seq : T # {} => Latest(DOMAIN seq)[T] \in T
<1> DEFINE n == Len(seq)
<1>1. n \in Nat /\ DOMAIN seq = 1..n
  OBVIOUS
<1> HIDE DEF n
<1>2. n \in Int
  BY <1>1
<1>3. IsFiniteSet(1..n)
  BY <1>2, FS_Interval
<1>4. ASSUME NEW T \in SUBSET 1..n, T # {} PROVE Latest(1..n)[T] \in T
  <2>1. T \in SUBSET Int /\ \A x \in T : x <= n
    BY <1>2
  <2>2. \E x \in T : \A y \in T : y <= x
    BY <1>2, <1>4, <2>1, PL!Largest
  <2>3. \E x \in T : \A y \in T : x >= y
    BY <2>1, <2>2
  <2>4. Max(T) \in T
    BY <2>3 DEF Max
  <2> QED
    BY <2>4 DEF Latest
<1> QED
  BY <1>1, <1>3, <1>4

\* The end states of a proto, added from the first to the last, are such a fold.
LEMMA FoldOfEnds ==
  ASSUME NEW base, NEW X, NEW seq \in Seq(X)
  PROVE  \E f : /\ Folded(f, [what |-> "end"], base, DOMAIN seq, Latest(DOMAIN seq), seq)
                /\ FoldLeft(LAMBDA r, e : IF r.ok /\ CanAddEnd(r.s, e, FALSE, FALSE)
                                          THEN [ok |-> TRUE, s |-> WithEnd(r.s, e)]
                                          ELSE [r EXCEPT !.ok = FALSE], base, seq) = f[DOMAIN seq]
<1> DEFINE c == [what |-> "end"]
           S == DOMAIN seq
           Value(g, T) ==
             IF T = {} THEN base
             ELSE IF g[T \ {Max(T)}].ok /\ CanAddEnd(g[T \ {Max(T)}].s, seq[Max(T)], FALSE, FALSE)
                  THEN [ok |-> TRUE, s |-> WithEnd(g[T \ {Max(T)}].s, seq[Max(T)])]
                  ELSE [g[T \ {Max(T)}] EXCEPT !.ok = FALSE]
           f == CHOOSE g : g = [T \in SUBSET S |-> Value(g, T)]
<1>1. FoldLeft(LAMBDA r, e : IF r.ok /\ CanAddEnd(r.s, e, FALSE, FALSE)
                             THEN [ok |-> TRUE, s |-> WithEnd(r.s, e)]
                             ELSE [r EXCEPT !.ok = FALSE], base, seq) = f[S]
  BY DEF FoldLeft, MapThenFoldSet
<1> HIDE DEF f
<1>2. ASSUME NEW g, NEW T \in SUBSET S
      PROVE  Value(g, T) = IF T = {} THEN base
                           ELSE FoldStep(c, g[T \ {Latest(S)[T]}], seq[Latest(S)[T]])
  <2>1. Latest(S)[T] = Max(T)
    BY DEF Latest
  <2> QED
    BY <2>1 DEF FoldStep, Fits, Grow
<1> HIDE DEF c, Value
<1>3. \A g : Folded(g, c, base, S, Latest(S), seq) <=> g = [T \in SUBSET S |-> Value(g, T)]
  <2> SUFFICES ASSUME NEW g
               PROVE  Folded(g, c, base, S, Latest(S), seq) <=> g = [T \in SUBSET S |-> Value(g, T)]
    OBVIOUS
  <2>1. [T \in SUBSET S |-> Value(g, T)] =
          [T \in SUBSET S |-> IF T = {} THEN base
                              ELSE FoldStep(c, g[T \ {Latest(S)[T]}], seq[Latest(S)[T]])]
    BY <1>2
  <2> QED
    BY <2>1 DEF Folded
<1>4. \E g : Folded(g, c, base, S, Latest(S), seq)
  BY LatestIs, FoldExists
<1>5. \E g : g = [T \in SUBSET S |-> Value(g, T)]
  BY <1>3, <1>4
<1>6. f = [T \in SUBSET S |-> Value(f, T)]
  BY <1>5 DEF f
<1> QED
  BY <1>1, <1>3, <1>6 DEF c, S

\* And so is what Without keeps.
LEMMA FoldOfKept ==
  ASSUME NEW D, NEW X, NEW seq \in Seq(X)
  PROVE  \E f : /\ Folded(f, [what |-> "kept", dropped |-> D], <<>>, DOMAIN seq, Latest(DOMAIN seq), seq)
                /\ Without(seq, D) = f[DOMAIN seq]
<1> DEFINE c == [what |-> "kept", dropped |-> D]
           S == DOMAIN seq
           Value(g, T) ==
             IF T = {} THEN <<>>
             ELSE IF seq[Max(T)] \in D THEN g[T \ {Max(T)}] ELSE Append(g[T \ {Max(T)}], seq[Max(T)])
           f == CHOOSE g : g = [T \in SUBSET S |-> Value(g, T)]
<1>1. Without(seq, D) = f[S]
  BY DEF Without, FoldLeft, MapThenFoldSet
<1> HIDE DEF f
<1>2. ASSUME NEW g, NEW T \in SUBSET S
      PROVE  Value(g, T) = IF T = {} THEN <<>>
                           ELSE FoldStep(c, g[T \ {Latest(S)[T]}], seq[Latest(S)[T]])
  <2>1. Latest(S)[T] = Max(T)
    BY DEF Latest
  <2> QED
    BY <2>1 DEF FoldStep
<1> HIDE DEF c, Value
<1>3. \A g : Folded(g, c, <<>>, S, Latest(S), seq) <=> g = [T \in SUBSET S |-> Value(g, T)]
  <2> SUFFICES ASSUME NEW g
               PROVE  Folded(g, c, <<>>, S, Latest(S), seq) <=> g = [T \in SUBSET S |-> Value(g, T)]
    OBVIOUS
  <2>1. [T \in SUBSET S |-> Value(g, T)] =
          [T \in SUBSET S |-> IF T = {} THEN <<>>
                              ELSE FoldStep(c, g[T \ {Latest(S)[T]}], seq[Latest(S)[T]])]
    BY <1>2
  <2> QED
    BY <2>1 DEF Folded
<1>4. \E g : Folded(g, c, <<>>, S, Latest(S), seq)
  BY LatestIs, FoldExists
<1>5. \E g : g = [T \in SUBSET S |-> Value(g, T)]
  BY <1>3, <1>4
<1>6. f = [T \in SUBSET S |-> Value(f, T)]
  BY <1>5 DEF f
<1> QED
  BY <1>1, <1>3, <1>6 DEF c, S

\* What is left of a list was in it.
LEMMA WithoutKeeps ==
  ASSUME NEW D, NEW map, NEW ends, EndsFit(map, ends)
  PROVE  EndsFit(map, Without(ends, D))
<1>1. PICK X : ends \in Seq(X)
  BY DEF EndsFit
<1> DEFINE c == [what |-> "kept", dropped |-> D]
           S == DOMAIN ends
           pick == Latest(S)
<1>2. PICK f : Folded(f, c, <<>>, S, pick, ends) /\ Without(ends, D) = f[S]
  BY <1>1, FoldOfKept
<1>3. IsFiniteSet(S) /\ \A T \in SUBSET S : T # {} => pick[T] \in T
  BY <1>1, LatestIs
<1>4. \A T \in SUBSET S : f[T] = IF T = {} THEN <<>> ELSE FoldStep(c, f[T \ {pick[T]}], ends[pick[T]])
  BY <1>2 DEF Folded
<1> DEFINE Good == {T \in SUBSET S : EndsFit(map, f[T])}
<1>5. {} \in Good
  <2>1. f[{}] = <<>>
    BY <1>4
  <2>2. EndsFit(map, <<>>)
    <3>1. <<>> \in Seq({}) /\ DOMAIN <<>> = {}
      OBVIOUS
    <3> QED
      BY <3>1 DEF EndsFit
  <2> QED
    BY <2>1, <2>2
<1>6. ASSUME NEW T \in SUBSET S, T # {}, T \ {pick[T]} \in Good PROVE T \in Good
  <2>1. pick[T] \in DOMAIN ends
    BY <1>3, <1>6
  <2>2. EndShape(ends[pick[T]]) /\ EndFits(map, ends[pick[T]])
    BY <2>1 DEF EndsFit
  <2>3. EndsFit(map, f[T \ {pick[T]}])
    BY <1>6
  <2>4. EndsFit(map, Append(f[T \ {pick[T]}], ends[pick[T]]))
    BY <2>2, <2>3, OneMoreEnd
  <2>5. f[T] = f[T \ {pick[T]}] \/ f[T] = Append(f[T \ {pick[T]}], ends[pick[T]])
    BY <1>4, <1>6 DEF FoldStep
  <2> QED
    BY <2>3, <2>4, <2>5
<1> HIDE DEF Good, pick, S
<1>7. S \in Good
  BY <1>3, <1>5, <1>6, FoldInduction
<1> QED
  BY <1>2, <1>7 DEF Good

-----------------------------------------------------------------------------
(* Lists replaced and snapshots built anew *)

\* A map over a bounded range has finitely many entries: they begin at different keys.
LEMMA BoundedIsFinite ==
  ASSUME NEW m, PL!IsMap(m), PL!Bounded(m)
  PROVE  IsFiniteSet(m)
<1>1. PICK lo \in Int, hi \in Int : \A e \in m : lo <= e.start /\ e.start < hi
  BY DEF PL!Bounded
<1>2. \A e \in m : e.start \in Int /\ e.limit \in Int /\ e.start < e.limit
  BY DEF PL!IsMap, PL!IsEntry
<1> DEFINE f == [e \in m |-> e.start]
<1>3. f \in [m -> lo..hi]
  BY <1>1, <1>2
<1>4. ASSUME NEW a \in m, NEW b \in m, f[a] = f[b] PROVE a = b
  BY <1>2, <1>4 DEF PL!IsMap, PL!Disjoint
<1>5. f \in Injection(m, lo..hi)
  <2> HIDE DEF f
  <2> QED
    BY <1>3, <1>4 DEF Injection, IsInjective
<1>6. IsFiniteSet(lo..hi)
  BY FS_Interval
<1> HIDE DEF f
<1> QED
  BY <1>5, <1>6, FS_Injection

\* The lists of a snapshot are finite.
LEMMA ListsFinite ==
  ASSUME NEW s, GoodSnap(s)
  PROVE  IsFiniteSet(s.negatives) /\ IsFiniteSet(s.bytes)
<1>1. IsFiniteSet(s.negatives)
  BY BoundedIsFinite DEF GoodSnap, Agree, PermMap
<1>2. PL!IsMap(s.bytes)
  BY RangeOfCells, SamePermsMaps DEF GoodSnap, BytesFit, PL!IsMap
<1>3. PL!Bounded(s.bytes)
  <2>1. kMaxAddress \in Int
    BY SnapshotAssumption
  <2>2. \A b \in s.bytes : 0 <= b.start /\ b.start < kMaxAddress
    BY <2>1, RangeOfCells DEF GoodSnap, BytesFit
  <2> QED
    BY <2>1, <2>2 DEF PL!Bounded
<1> QED
  BY <1>1, <1>2, <1>3, BoundedIsFinite

\* What the actions hand to the builder, by the assumption on the constants.
LEMMA MappingsAre ==
  /\ \A n : \A E \in Lists(Mappings, n) : IsFiniteSet(E) /\ \A e \in E : OneValued(e)
  /\ \A n : \A W \in Lists(Bytes, n) : IsFiniteSet(W) /\ \A b \in W : IsRange(b)
  /\ \A e \in Mappings : OneValued(e)
<1>1. ASSUME NEW e \in Mappings PROVE OneValued(e)
  <2>1. IsRange(e) /\ \A k \in Cells(e) : e.at[k] = PermsOf(e)
    BY SnapshotAssumption
  <2> QED
    BY <2>1, RangeOfCells DEF OneValued
<1>2. \A n, S : \A E \in Lists(S, n) : E \in SUBSET S
  BY DEF Lists, kSubset
<1>3. IsFiniteSet(Mappings) /\ IsFiniteSet(Bytes) /\ \A b \in Bytes : IsRange(b)
  BY SnapshotAssumption
<1>4. \A n : \A E \in Lists(Mappings, n) : IsFiniteSet(E)
  BY <1>2, <1>3, FS_Subset
<1>5. \A n : \A W \in Lists(Bytes, n) : IsFiniteSet(W)
  BY <1>2, <1>3, FS_Subset
<1> QED
  BY <1>1, <1>2, <1>3, <1>4, <1>5

\* The results of the three folds over sets.
LEMMA AddedMappings ==
  ASSUME NEW base, IsResult(base), base.ok => GoodSnap(base.s),
         NEW S, IsFiniteSet(S), \A x \in S : OneValued(x),
         NEW r, r = AddAll(base, S, CanAddMapping, WithMapping)
  PROVE  /\ IsResult(r)
         /\ r.ok => base.ok /\ GoodSnap(r.s) /\ Grown([what |-> "mapping"], base.s, S, r.s)
<1> DEFINE c == [what |-> "mapping"]
<1>1. PICK f : Folded(f, c, base, S, AnyOf(S), Same(S)) /\ r = f[S]
  BY AddAllMappings
<1>2. \A x \in S : Suits(c, Same(S)[x])
  BY DEF Suits, Same
<1>3. \A y : y \in S <=> \E x \in S : Same(S)[x] = y
  BY DEF Same
<1>4. c \in [what : {"mapping", "negative", "bytes", "end"}]
  OBVIOUS
<1> HIDE DEF c
<1>5. \A T \in SUBSET S : T # {} => AnyOf(S)[T] \in T
  BY AnyIs
<1> DEFINE pick == AnyOf(S)
           at == Same(S)
<1>50. FoldCase(c, base, S, pick, at, f, S)
  BY <1>1, <1>2, <1>3, <1>4, <1>5 DEF FoldCase
<1> HIDE DEF pick, at
<1>6. /\ IsResult(f[S])
      /\ f[S].ok => base.ok /\ GoodSnap(f[S].s) /\ Grown(c, base.s, S, f[S].s)
  BY <1>50, FoldKeeps
<1> QED
  BY <1>1, <1>6 DEF c

\* All negative mappings of a list are added to a good snapshot, or the fold says it failed.
LEMMA AddedNegatives ==
  ASSUME NEW base, IsResult(base), base.ok => GoodSnap(base.s),
         NEW S, IsFiniteSet(S), \A x \in S : OneValued(x),
         NEW r, r = AddAll(base, S, CanAddNewNegative, WithNegative)
  PROVE  /\ IsResult(r)
         /\ r.ok => base.ok /\ GoodSnap(r.s) /\ Grown([what |-> "negative"], base.s, S, r.s)
<1> DEFINE c == [what |-> "negative"]
<1>1. PICK f : Folded(f, c, base, S, AnyOf(S), Same(S)) /\ r = f[S]
  BY AddAllNegatives
<1>2. \A x \in S : Suits(c, Same(S)[x])
  BY DEF Suits, Same
<1>3. \A y : y \in S <=> \E x \in S : Same(S)[x] = y
  BY DEF Same
<1>4. c \in [what : {"mapping", "negative", "bytes", "end"}]
  OBVIOUS
<1> HIDE DEF c
<1>5. \A T \in SUBSET S : T # {} => AnyOf(S)[T] \in T
  BY AnyIs
<1> DEFINE pick == AnyOf(S)
           at == Same(S)
<1>50. FoldCase(c, base, S, pick, at, f, S)
  BY <1>1, <1>2, <1>3, <1>4, <1>5 DEF FoldCase
<1> HIDE DEF pick, at
<1>6. /\ IsResult(f[S])
      /\ f[S].ok => base.ok /\ GoodSnap(f[S].s) /\ Grown(c, base.s, S, f[S].s)
  BY <1>50, FoldKeeps
<1> QED
  BY <1>1, <1>6 DEF c

\* All bytes of a list are added to a good snapshot, or the fold says it failed.
LEMMA AddedBytes ==
  ASSUME NEW base, IsResult(base), base.ok => GoodSnap(base.s),
         NEW S, IsFiniteSet(S), \A x \in S : IsRange(x),
         NEW r, r = AddAll(base, S, CanAddBytes, WithBytes)
  PROVE  /\ IsResult(r)
         /\ r.ok => base.ok /\ GoodSnap(r.s) /\ Grown([what |-> "bytes"], base.s, S, r.s)
<1> DEFINE c == [what |-> "bytes"]
<1>1. PICK f : Folded(f, c, base, S, AnyOf(S), Same(S)) /\ r = f[S]
  BY AddAllBytes
<1>2. \A x \in S : Suits(c, Same(S)[x])
  BY DEF Suits, Same
<1>3. \A y : y \in S <=> \E x \in S : Same(S)[x] = y
  BY DEF Same
<1>4. c \in [what : {"mapping", "negative", "bytes", "end"}]
  OBVIOUS
<1> HIDE DEF c
<1>5. \A T \in SUBSET S : T # {} => AnyOf(S)[T] \in T
  BY AnyIs
<1> DEFINE pick == AnyOf(S)
           at == Same(S)
<1>50. FoldCase(c, base, S, pick, at, f, S)
  BY <1>1, <1>2, <1>3, <1>4, <1>5 DEF FoldCase
<1> HIDE DEF pick, at
<1>6. /\ IsResult(f[S])
      /\ f[S].ok => base.ok /\ GoodSnap(f[S].s) /\ Grown(c, base.s, S, f[S].s)
  BY <1>50, FoldKeeps
<1> QED
  BY <1>1, <1>6 DEF c

\* Snapshot::FromProto adds up: what is built from the lists of a snapshot has its lists, and
\* maps that agree with them.
LEMMA RebuiltIs ==
  ASSUME NEW E, IsFiniteSet(E), \A e \in E : OneValued(e),
         NEW s, IsFiniteSet(s.negatives), \A e \in s.negatives : OneValued(e),
         IsFiniteSet(s.bytes), \A b \in s.bytes : IsRange(b),
         \E X : s.ends \in Seq(X), \A i \in DOMAIN s.ends : EndShape(s.ends[i]),
         NEW r, r = Rebuilt(E, s), r.ok
  PROVE  /\ GoodSnap(r.s) /\ r.s.mappings = E /\ r.s.negatives = s.negatives /\ r.s.bytes = s.bytes
         /\ \A i \in DOMAIN s.ends : InSeq(s.ends[i], r.s.ends)
<1> DEFINE r0 == [ok |-> TRUE, s |-> EmptySnapshot]
           r1 == AddAll(r0, E, CanAddMapping, WithMapping)
           r2 == AddAll(r1, s.negatives, CanAddNewNegative, WithNegative)
           r3 == AddAll(r2, s.bytes, CanAddBytes, WithBytes)
           r4 == [ok |-> r3.ok /\ (\A x \in s.registers : CanSetRegisters(r3.s, x)),
                  s |-> [r3.s EXCEPT !.registers = s.registers]]
           r5 == FoldLeft(LAMBDA x, e : IF x.ok /\ CanAddEnd(x.s, e, FALSE, FALSE)
                                        THEN [ok |-> TRUE, s |-> WithEnd(x.s, e)]
                                        ELSE [x EXCEPT !.ok = FALSE], r4, s.ends)
<1>1. r = r5
  BY DEF Rebuilt
<1>2. PICK Y : s.ends \in Seq(Y)
  OBVIOUS
<1> DEFINE c == [what |-> "end"]
           S == DOMAIN s.ends
<1>3. PICK f : Folded(f, c, r4, S, Latest(S), s.ends) /\ r5 = f[S]
  <2> HIDE DEF r4
  <2> QED
    BY <1>2, FoldOfEnds
<1> HIDE DEF r5
<1>4. IsResult(r0) /\ r0.ok /\ r0.s = EmptySnapshot /\ GoodSnap(EmptySnapshot)
  <2>1. IsResult(r0) /\ r0.ok /\ r0.s = EmptySnapshot
    BY DEF IsResult
  <2>2. /\ EmptySnapshot.mappings = {} /\ EmptySnapshot.map = {} /\ EmptySnapshot.negatives = {}
        /\ EmptySnapshot.negmap = {} /\ EmptySnapshot.bytes = {} /\ EmptySnapshot.ends = <<>>
    BY DEF EmptySnapshot
  <2>3. Agree({}, {}) /\ PermsApart({}, {})
    BY NoMap DEF Agree, PermsApart
  <2>4. BytesFit({}, {}) /\ EndsFit({}, <<>>)
    <3>1. <<>> \in Seq({}) /\ DOMAIN <<>> = {}
      OBVIOUS
    <3> QED
      BY <3>1 DEF BytesFit, EndsFit, P!Disjoint
  <2>5. GoodSnap(EmptySnapshot)
    BY <2>2, <2>3, <2>4 DEF GoodSnap, EmptySnapshot
  <2> QED
    BY <2>1, <2>5
<1> HIDE DEF r0
<1>5. /\ IsResult(r1)
      /\ r1.ok => r0.ok /\ GoodSnap(r1.s) /\ Grown([what |-> "mapping"], r0.s, E, r1.s)
  BY <1>4, AddedMappings
<1> HIDE DEF r1
<1>6. /\ IsResult(r2)
      /\ r2.ok => r1.ok /\ GoodSnap(r2.s) /\ Grown([what |-> "negative"], r1.s, s.negatives, r2.s)
  BY <1>5, AddedNegatives
<1> HIDE DEF r2
<1>7. /\ IsResult(r3)
      /\ r3.ok => r2.ok /\ GoodSnap(r3.s) /\ Grown([what |-> "bytes"], r2.s, s.bytes, r3.s)
  BY <1>6, AddedBytes
<1> HIDE DEF r3
<1>8. /\ IsResult(r4) /\ (r4.ok => r3.ok)
      /\ r4.ok => /\ GoodSnap(r4.s) /\ r4.s.mappings = r3.s.mappings
                  /\ r4.s.negatives = r3.s.negatives /\ r4.s.bytes = r3.s.bytes
  <2>1. r4.s = [r3.s EXCEPT !.registers = s.registers] /\ (r4.ok => r3.ok) /\ IsResult(r4)
    BY DEF IsResult
  <2> HIDE DEF r4
  <2> QED
    BY <1>7, <2>1 DEF GoodSnap
<1> HIDE DEF r4
<1>9. c \in [what : {"mapping", "negative", "bytes", "end"}]
  OBVIOUS
<1>10. \A x \in S : Suits(c, s.ends[x])
  BY DEF Suits
<1>11. IsFiniteSet(S) /\ \A T \in SUBSET S : T # {} => Latest(S)[T] \in T
  BY <1>2, LatestIs
<1>12. c.what = "end"
  OBVIOUS
<1> HIDE DEF c, S
<1> DEFINE X == {s.ends[x] : x \in S}
<1>130. \A y : y \in X <=> \E x \in S : s.ends[x] = y
  OBVIOUS
<1>131. \A x \in S : s.ends[x] \in X
  OBVIOUS
<1> HIDE DEF X
<1> DEFINE pick == Latest(S)
           at == s.ends
<1>131a. FoldCase(c, r4, S, pick, at, f, X)
  BY <1>3, <1>8, <1>9, <1>10, <1>11, <1>130 DEF FoldCase
<1> HIDE DEF pick, at
<1>132. f[S].ok => r4.ok /\ GoodSnap(f[S].s) /\ Grown(c, r4.s, X, f[S].s)
  BY <1>131a, FoldKeeps
<1>13. r4.ok /\ GoodSnap(r.s) /\ Grown(c, r4.s, X, r.s)
  BY <1>1, <1>3, <1>132
<1>14. /\ GoodSnap(r.s) /\ r.s.mappings = r4.s.mappings
       /\ r.s.negatives = r4.s.negatives /\ r.s.bytes = r4.s.bytes
       /\ \A i \in S : InSeq(s.ends[i], r.s.ends)
  BY <1>12, <1>13, <1>131 DEF Grown
<1>15. r1.s.mappings = E /\ r1.s.negatives = {} /\ r1.s.bytes = {}
  BY <1>4, <1>5, <1>6, <1>7, <1>8, <1>13 DEF Grown, EmptySnapshot
<1>16. r2.s.mappings = E /\ r2.s.negatives = s.negatives /\ r2.s.bytes = {}
  BY <1>6, <1>7, <1>8, <1>13, <1>15 DEF Grown
<1>17. r3.s.mappings = E /\ r3.s.negatives = s.negatives /\ r3.s.bytes = s.bytes
  BY <1>7, <1>8, <1>13, <1>16 DEF Grown
<1> QED
  BY <1>8, <1>13, <1>14, <1>17 DEF S

-----------------------------------------------------------------------------
(* Bytes in normal form *)

\* Whatever the permissions: the pieces are ranges of the addresses that are written, and
\* no two of them overlap.
LEMMA PiecesAre ==
  ASSUME NEW map, NEW W, \A b \in W : IsRange(b)
  PROVE  /\ \A p \in NormalBytes(map, W) :
              IsRange(p) /\ \A k \in Cells(p) : \E b \in W : k \in Cells(b)
         /\ P!Disjoint(NormalBytes(map, W))
<1> DEFINE Written == UNION {Cells(b) : b \in W}
           Follows(k) == k - 1 \in Written /\ PermsAt(map, k - 1) = PermsAt(map, k)
           Ends == {k \in Written : k + 1 \notin Written \/ ~ Follows(k + 1)}
           value == [k \in Written |-> (CHOOSE b \in W : k \in Cells(b)).at[k]]
           EndsFrom(k) == {j \in Ends : j >= k}
           Heads == {k \in Written : ~ Follows(k)}
           R == NormalBytes(map, W)
<1>1. R = {P!Entry(k, Min(EndsFrom(k)) + 1, value) : k \in Heads}
  BY DEF NormalBytes
<1>2. \A k \in Written : k \in Int /\ 0 <= k /\ k < kMaxAddress /\ \E b \in W : k \in Cells(b)
  <2> SUFFICES ASSUME NEW b \in W, NEW k \in Cells(b)
               PROVE  k \in Int /\ 0 <= k /\ k < kMaxAddress
    OBVIOUS
  <2>1. b.start \in Int /\ b.limit \in Int /\ 0 <= b.start /\ b.limit <= kMaxAddress /\ kMaxAddress \in Int
    BY RangeOfCells, SnapshotAssumption
  <2>2. k \in b.start..(b.limit - 1)
    BY DEF Cells
  <2> QED
    BY <2>1, <2>2
<1>3. Ends \subseteq Written /\ Heads \subseteq Written /\ kMaxAddress \in Int
  BY SnapshotAssumption
<1>4. \A k \in Written : k + 1 \notin Written => k \in Ends
  OBVIOUS
<1>5. \A k \in Heads : k - 1 \in Int /\ (k - 1 \in Written => k - 1 \in Ends)
  <2> SUFFICES ASSUME NEW k \in Heads PROVE k - 1 \in Int /\ (k - 1 \in Written => k - 1 \in Ends)
    OBVIOUS
  <2>1. k \in Int /\ ~ Follows(k) /\ k - 1 \in Int /\ (k - 1) + 1 = k
    BY <1>2
  <2> HIDE DEF Follows, Written
  <2>2. ~ Follows((k - 1) + 1)
    BY <2>1
  <2>3. k - 1 \in Written => k - 1 \in Ends
    BY <2>2
  <2> QED
    BY <2>1, <2>3
<1>6. \A k : EndsFrom(k) = {j \in Ends : j >= k}
  OBVIOUS
<1> HIDE DEF Written, Follows, Ends, value, EndsFrom, Heads, R
\* From k on, everything up to the next end is written.
<1>7. ASSUME NEW k \in Written, NEW n \in Int, k <= n, \A j \in EndsFrom(k) : n <= j
      PROVE  \A j \in k..n : j \in Written
  <2> DEFINE Bad == {d \in Nat : k + d <= n /\ k + d \notin Written}
  <2>1. k \in Int
    BY <1>2
  <2>2. CASE Bad = {}
    <3> SUFFICES ASSUME NEW j \in k..n PROVE j \in Written
      OBVIOUS
    <3>1. j - k \in Nat /\ k + (j - k) = j /\ j <= n
      BY <2>1
    <3>2. j - k \notin Bad
      BY <2>2
    <3> QED
      BY <3>1, <3>2
  <2>3. CASE Bad # {}
    <3>1. PICK d \in Bad : \A c \in Bad : d <= c
      <4>1. Bad \in SUBSET Nat
        OBVIOUS
      <4> HIDE DEF Bad
      <4> QED
        BY <2>3, <4>1, PL!LeastNumber
    <3>2. d \in Nat /\ k + d <= n /\ k + d \notin Written
      OBVIOUS
    <3>3. d # 0
      BY <2>1, <3>2
    <3>4. d - 1 \in Nat /\ ~ (d <= d - 1) /\ k + (d - 1) <= n /\ (k + (d - 1)) + 1 = k + d
          /\ k <= k + (d - 1) /\ ~ (n <= k + (d - 1))
      BY <2>1, <3>2, <3>3
    <3>5. k + (d - 1) \in Written
      BY <3>1, <3>4
    <3>6. k + (d - 1) \in Ends
      BY <1>4, <3>2, <3>4, <3>5
    <3>7. k + (d - 1) \in EndsFrom(k)
      BY <1>6, <2>1, <3>4, <3>6
    <3> QED
      BY <1>7, <3>4, <3>7
  <2> QED
    BY <2>2, <2>3
<1>8. ASSUME NEW k \in Written PROVE EndsFrom(k) # {}
  <2> SUFFICES ASSUME EndsFrom(k) = {} PROVE FALSE
    OBVIOUS
  <2>1. k \in Int /\ k <= kMaxAddress
    BY <1>2, <1>3
  <2>2. kMaxAddress \in Written
    BY <1>3, <1>7, <2>1
  <2> QED
    BY <1>2, <1>3, <2>2
<1> DEFINE last(k) == Min(EndsFrom(k))
<1>9. ASSUME NEW k \in Written
      PROVE  last(k) \in EndsFrom(k) /\ (\A j \in EndsFrom(k) : last(k) <= j) /\ last(k) \in Written
             /\ k <= last(k)
  <2>1. EndsFrom(k) \in SUBSET Nat
    BY <1>2, <1>3, <1>6
  <2>3. \E n \in EndsFrom(k) : \A j \in EndsFrom(k) : n <= j
    BY <1>8, <2>1, PL!LeastNumber
  <2>4. last(k) \in EndsFrom(k) /\ \A j \in EndsFrom(k) : last(k) <= j
    BY <2>3 DEF Min
  <2>5. last(k) \in Ends /\ last(k) >= k
    BY <1>6, <2>4
  <2>6. k \in Int /\ last(k) \in Int /\ last(k) \in Written
    BY <1>2, <1>3, <2>5
  <2> QED
    BY <2>4, <2>5, <2>6
<1> HIDE DEF last
<1>10. ASSUME NEW k \in Written PROVE \A j \in k..last(k) : j \in Written
  BY <1>2, <1>7, <1>9
<1>11. R = {P!Entry(k, last(k) + 1, value) : k \in Heads}
  BY <1>1 DEF last
<1>12. ASSUME NEW k \in Heads, NEW p, p = P!Entry(k, last(k) + 1, value)
       PROVE  /\ p.start = k /\ p.limit = last(k) + 1 /\ Cells(p) = k..last(k)
              /\ IsRange(p) /\ \A j \in Cells(p) : \E b \in W : j \in Cells(b)
  <2>1. k \in Written /\ k \in Int /\ 0 <= k /\ last(k) \in Int /\ k <= last(k) /\ last(k) < kMaxAddress
    BY <1>2, <1>3, <1>9
  <2>2. /\ p.start = k /\ p.limit = last(k) + 1 /\ (last(k) + 1) - 1 = last(k)
        /\ p.at = [j \in k..last(k) |-> value[j]]
        /\ p = [start |-> p.start, limit |-> p.limit, at |-> p.at]
    BY <1>12, <2>1 DEF P!Entry
  <2>3. Cells(p) = k..last(k)
    BY <2>2 DEF Cells
  <2>4. p = P!Entry(p.start, p.limit, p.at)
    BY <2>2 DEF P!Entry
  <2>5. IsRange(p)
    BY <1>3, <2>1, <2>2, <2>4 DEF IsRange
  <2>6. \A j \in Cells(p) : \E b \in W : j \in Cells(b)
    BY <1>2, <1>10, <2>1, <2>3
  <2> QED
    BY <2>2, <2>3, <2>5, <2>6
<1>13. ASSUME NEW k \in Heads, NEW j \in Heads, k < j PROVE last(k) + 1 <= j
  <2>1. /\ k \in Written /\ j \in Written /\ k \in Int /\ j \in Int /\ last(k) \in Int
        /\ j - 1 \in Int /\ k <= j - 1 /\ k <= last(k)
    BY <1>2, <1>3, <1>9, <1>13
  <2>2. CASE j - 1 \in Written
    <3>1. j - 1 \in EndsFrom(k)
      BY <1>5, <1>6, <2>1, <2>2
    <3> QED
      BY <1>9, <2>1, <3>1
  <2>3. CASE j - 1 \notin Written
    <3>1. j - 1 \notin k..last(k)
      BY <1>10, <2>1, <2>3
    <3> QED
      BY <2>1, <3>1
  <2> QED
    BY <2>2, <2>3
<1>14. P!Disjoint(R)
  <2> SUFFICES ASSUME NEW a \in R, NEW b \in R, a # b
               PROVE  a.limit <= b.start \/ b.limit <= a.start
    BY DEF P!Disjoint
  <2>1. PICK k \in Heads : a = P!Entry(k, last(k) + 1, value)
    BY <1>11
  <2>2. PICK j \in Heads : b = P!Entry(j, last(j) + 1, value)
    BY <1>11
  <2>3. k # j /\ k \in Int /\ j \in Int
    BY <1>2, <1>3, <2>1, <2>2
  <2>4. k < j \/ j < k
    BY <2>3
  <2> QED
    BY <1>12, <1>13, <2>1, <2>2, <2>4
<1>15. \A p \in R : IsRange(p) /\ \A k \in Cells(p) : \E b \in W : k \in Cells(b)
  BY <1>11, <1>12
<1> QED
  BY <1>14, <1>15 DEF R

\* Bytes that are split at the bounds of mappings and joined again are where they were.
LEMMA NormalBytesFit ==
  ASSUME NEW map, NEW W
  PROVE  /\ BytesFit(map, W) => BytesFit(map, NormalBytes(map, W))
         /\ (\A b \in W : IsRange(b) /\ AllWith(map, b.start, b.limit, "w")) =>
              \A b \in NormalBytes(map, W) : IsRange(b) /\ AllWith(map, b.start, b.limit, "w")
<1>1. ASSUME BytesFit(map, W) PROVE BytesFit(map, NormalBytes(map, W))
  <2>1. \A b \in W : IsRange(b)
    BY <1>1 DEF BytesFit
  <2>2. /\ \A p \in NormalBytes(map, W) :
             IsRange(p) /\ \A k \in Cells(p) : \E b \in W : k \in Cells(b)
        /\ P!Disjoint(NormalBytes(map, W))
    BY <2>1, PiecesAre
  <2>3. \A p \in NormalBytes(map, W) : P!Covers(map, p.start, p.limit)
    BY <1>1, <2>2 DEF BytesFit, P!Covers, Cells
  <2> QED
    BY <2>2, <2>3 DEF BytesFit
<1>2. ASSUME \A b \in W : IsRange(b) /\ AllWith(map, b.start, b.limit, "w")
      PROVE  \A b \in NormalBytes(map, W) : IsRange(b) /\ AllWith(map, b.start, b.limit, "w")
  <2>1. \A p \in NormalBytes(map, W) :
             IsRange(p) /\ \A k \in Cells(p) : \E b \in W : k \in Cells(b)
    BY <1>2, PiecesAre
  <2> QED
    BY <1>2, <2>1 DEF AllWith, Cells
<1> QED
  BY <1>1, <1>2

\* A list of end states changed one by one.
LEMMA EndsChanged ==
  ASSUME NEW map, NEW ends, EndsFit(map, ends), NEW new,
         new = [i \in DOMAIN ends |-> new[i]],
         \A i \in DOMAIN ends : EndShape(new[i]) /\ EndFits(map, new[i])
  PROVE  EndsFit(map, new)
<1>1. PICK S : ends \in Seq(S)
  BY DEF EndsFit
<1> DEFINE n == Len(ends)
           T == {new[i] : i \in DOMAIN ends}
<1>2. n \in Nat /\ DOMAIN ends = 1..n
  BY <1>1
<1> HIDE DEF n
<1>3. new \in [1..n -> T]
  BY <1>2
<1>4. new \in Seq(T) /\ DOMAIN new = DOMAIN ends
  <2> HIDE DEF T
  <2> QED
    BY <1>2, <1>3
<1> QED
  BY <1>4 DEF EndsFit

\* The normal form of a good snapshot is good.
LEMMA NormalizeKeeps ==
  ASSUME NEW s, GoodSnap(s)
  PROVE  GoodSnap(NormalizeAll(s))
<1> DEFINE t == NormalizeAll(s)
           ends == [i \in DOMAIN s.ends |-> NormalEnd(s.map, s.ends[i])]
<1>0. s = [mappings |-> s.mappings, map |-> s.map, negatives |-> s.negatives, negmap |-> s.negmap,
           bytes |-> s.bytes, registers |-> s.registers, ends |-> s.ends]
  BY DEF GoodSnap
<1> DEFINE pieces == NormalBytes(s.map, s.bytes)
<1>1. t = [mappings |-> s.map, map |-> s.map, negatives |-> s.negmap, negmap |-> s.negmap,
           bytes |-> pieces, registers |-> s.registers, ends |-> ends]
  <2> DEFINE u == NormalizeMappings(s)
  <2>1. u = [s EXCEPT !.mappings = s.map, !.negatives = s.negmap]
    BY DEF NormalizeMappings
  <2>2. /\ u = [mappings |-> s.map, map |-> s.map, negatives |-> s.negmap, negmap |-> s.negmap,
                bytes |-> s.bytes, registers |-> s.registers, ends |-> s.ends]
    <3> HIDE DEF u
    <3> QED
      BY <1>0, <2>1
  <2>3. u.map = s.map /\ u.bytes = s.bytes /\ u.ends = s.ends
    <3> HIDE DEF u
    <3> QED
      BY <2>2
  <2>4. t = [u EXCEPT !.bytes = NormalBytes(u.map, u.bytes),
                      !.ends = [i \in DOMAIN u.ends |->
                                  NormalEnd(u.map, u.ends[i])]]
    BY DEF NormalizeAll, NormalizeBytes
  <2> HIDE DEF u, t
  <2> DEFINE ends2 == [i \in DOMAIN u.ends |->
                         NormalEnd(u.map, u.ends[i])]
             pieces2 == NormalBytes(u.map, u.bytes)
  <2>40. ends2 = ends
    BY <2>3
  <2>41. pieces2 = pieces
    BY <2>3
  <2>42. t = [u EXCEPT !.bytes = pieces2, !.ends = ends2]
    BY <2>4
  <2> HIDE DEF pieces, ends, pieces2, ends2
  <2>5. t = [u EXCEPT !.bytes = pieces, !.ends = ends]
    BY <2>40, <2>41, <2>42
  <2> HIDE DEF pieces, ends
  <2> QED
    BY <2>2, <2>5
<1> HIDE DEF t, ends, pieces
<1>2. /\ t.mappings = s.map /\ t.map = s.map /\ t.negatives = s.negmap /\ t.negmap = s.negmap
      /\ t.bytes = pieces /\ t.registers = s.registers /\ t.ends = ends
      /\ t = [mappings |-> t.mappings, map |-> t.map, negatives |-> t.negatives, negmap |-> t.negmap,
              bytes |-> t.bytes, registers |-> t.registers, ends |-> t.ends]
  BY <1>1
<1>3. Agree(s.map, s.map) /\ Agree(s.negmap, s.negmap)
  BY AgreeSelf DEF GoodSnap, Agree
<1>4. BytesFit(s.map, pieces)
  BY NormalBytesFit DEF GoodSnap, pieces
<1>5. EndsFit(s.map, ends)
  <2>1. EndsFit(s.map, s.ends)
    BY DEF GoodSnap
  <2>2. ends = [i \in DOMAIN s.ends |-> ends[i]]
    BY DEF ends
  <2>3. ASSUME NEW i \in DOMAIN s.ends PROVE EndShape(ends[i]) /\ EndFits(s.map, ends[i])
    <3> DEFINE e == s.ends[i]
               new == NormalBytes(s.map, e.bytes)
    <3>1. EndShape(e) /\ EndFits(s.map, e)
      BY <2>1 DEF EndsFit
    <3>2. ends[i] = [e EXCEPT !.bytes = new]
      BY DEF ends, NormalEnd
    <3> HIDE DEF e, new
    <3>3. ends[i] = [endpoint |-> e.endpoint, registers |-> e.registers, bytes |-> new,
                     platforms |-> e.platforms]
      BY <3>1, <3>2 DEF EndShape
    <3>4. \A b \in e.bytes : IsRange(b) /\ AllWith(s.map, b.start, b.limit, "w")
      BY <3>1 DEF EndShape, EndFits
    <3>5. \A b \in new : IsRange(b) /\ AllWith(s.map, b.start, b.limit, "w")
      BY <3>4, NormalBytesFit DEF new
    <3> QED
      BY <3>3, <3>5 DEF EndShape, EndFits
  <2> QED
    BY <2>1, <2>2, <2>3, EndsChanged
<1>6. GoodSnap(t)
  BY <1>2, <1>3, <1>4, <1>5 DEF GoodSnap
<1> QED
  BY <1>6 DEF t

-----------------------------------------------------------------------------
(* The operations of the builder *)

\* A snapshot with other lists and maps, the rest as it was.
LEMMA PartsReplaced ==
  ASSUME NEW s, GoodSnap(s), NEW mappings, NEW map, NEW negatives, NEW negmap, NEW contents, NEW regs,
         NEW ends, Agree(map, mappings), Agree(negmap, negatives), PermsApart(map, negmap),
         BytesFit(map, contents), EndsFit(map, ends)
  PROVE  GoodSnap([mappings |-> mappings, map |-> map, negatives |-> negatives, negmap |-> negmap,
                   bytes |-> contents, registers |-> regs, ends |-> ends])
BY DEF GoodSnap

\* A snapshot has the seven fields of the class.
LEMMA SnapIs ==
  ASSUME NEW s, GoodSnap(s)
  PROVE  s = [mappings |-> s.mappings, map |-> s.map, negatives |-> s.negatives, negmap |-> s.negmap,
              bytes |-> s.bytes, registers |-> s.registers, ends |-> s.ends]
BY DEF GoodSnap

\* End states may be replaced by any that fit.
LEMMA NewEnds ==
  ASSUME NEW s, GoodSnap(s), NEW ends, EndsFit(s.map, ends)
  PROVE  GoodSnap([s EXCEPT !.ends = ends])
<1> DEFINE t == [s EXCEPT !.ends = ends]
<1>1. /\ t.mappings = s.mappings /\ t.map = s.map /\ t.negatives = s.negatives
      /\ t.negmap = s.negmap /\ t.bytes = s.bytes /\ t.registers = s.registers /\ t.ends = ends
      /\ t = [mappings |-> t.mappings, map |-> t.map, negatives |-> t.negatives, negmap |-> t.negmap,
              bytes |-> t.bytes, registers |-> t.registers, ends |-> t.ends]
  BY SnapIs
<1> HIDE DEF t
<1>2. GoodSnap(t)
  BY <1>1 DEF GoodSnap
<1> QED
  BY <1>2 DEF t

\* A new snapshot is good.
LEMMA EmptyIsGood == GoodSnap(EmptySnapshot)
<1>1. /\ EmptySnapshot.mappings = {} /\ EmptySnapshot.map = {} /\ EmptySnapshot.negatives = {}
      /\ EmptySnapshot.negmap = {} /\ EmptySnapshot.bytes = {} /\ EmptySnapshot.ends = <<>>
  BY DEF EmptySnapshot
<1>2. Agree({}, {}) /\ PermsApart({}, {})
  BY NoMap DEF Agree, PermsApart
<1>3. BytesFit({}, {}) /\ EndsFit({}, <<>>)
  <2>1. <<>> \in Seq({}) /\ DOMAIN <<>> = {}
    OBVIOUS
  <2> QED
    BY <2>1 DEF BytesFit, EndsFit, P!Disjoint
<1> QED
  BY <1>1, <1>2, <1>3 DEF GoodSnap, EmptySnapshot

\* set_memory_mappings: the old map is forgotten, and everything that rests on it is checked
\* again by building the snapshot anew.
LEMMA SetsMappings ==
  ASSUME GoodSnap(snap), NEW E, IsFiniteSet(E), \A e \in E : OneValued(e), set_memory_mappings(E)
  PROVE  GoodSnap(snap')
<1> DEFINE r == Rebuilt(E, snap)
           t == r.s
<1>1. r.ok /\ snap' = [snap EXCEPT !.mappings = E, !.map = MapOf(E)]
  BY DEF set_memory_mappings
<1>2. /\ Agree(snap.map, snap.mappings) /\ Agree(snap.negmap, snap.negatives)
      /\ BytesFit(snap.map, snap.bytes) /\ EndsFit(snap.map, snap.ends)
  BY DEF GoodSnap
<1>3. \A e \in snap.negatives : OneValued(e)
  <2>1. PermMap(snap.negatives)
    BY <1>2 DEF Agree
  <2> QED
    BY <2>1, PermEntryIs DEF PermEntry, OneValued
<1>4. \A b \in snap.bytes : IsRange(b)
  BY <1>2 DEF BytesFit
<1>5. /\ \E X : snap.ends \in Seq(X)
      /\ \A i \in DOMAIN snap.ends : EndShape(snap.ends[i])
  BY <1>2 DEF EndsFit
<1>6. IsFiniteSet(snap.negatives) /\ IsFiniteSet(snap.bytes)
  BY ListsFinite
<1> HIDE DEF r
<1>7. /\ GoodSnap(t) /\ t.mappings = E /\ t.negatives = snap.negatives /\ t.bytes = snap.bytes
      /\ \A i \in DOMAIN snap.ends : InSeq(snap.ends[i], t.ends)
  <2>1. r = Rebuilt(E, snap)
    BY DEF r
  <2> QED
    BY <1>1, <1>3, <1>4, <1>5, <1>6, <2>1, RebuiltIs
<1> HIDE DEF t
<1>8. /\ Agree(t.map, E) /\ Agree(t.negmap, snap.negatives) /\ PermsApart(t.map, t.negmap)
      /\ BytesFit(t.map, snap.bytes) /\ EndsFit(t.map, t.ends)
  BY <1>7 DEF GoodSnap
<1>9. t.map = MapOf(E)
  <2>1. /\ PermMap(E) /\ PermMap(t.map) /\ PL!Canonical(t.map)
        /\ \A k \in Int : PermsAt(t.map, k) = PermsAt(E, k)
    BY <1>8 DEF Agree
  <2>2. /\ PermMap(MapOf(E)) /\ PL!Canonical(MapOf(E))
        /\ \A k \in Int : PermsAt(MapOf(E), k) = PermsAt(E, k)
    BY <2>1, ListAsMap
  <2>3. \A k \in Int : PermsAt(t.map, k) = PermsAt(MapOf(E), k)
    BY <2>1, <2>2
  <2> DEFINE map == MapOf(E)
  <2> HIDE DEF map
  <2>4. PermMap(map) /\ PL!Canonical(map) /\ \A k \in Int : PermsAt(t.map, k) = PermsAt(map, k)
    BY <2>2, <2>3 DEF map
  <2>5. t.map = map
    BY <2>1, <2>4, OneNormalForm
  <2> QED
    BY <2>5 DEF map
<1>10. t.negmap = snap.negmap
  <2>1. \A k \in Int : PermsAt(t.negmap, k) = PermsAt(snap.negmap, k)
    BY <1>2, <1>8 DEF Agree
  <2> QED
    BY <1>2, <1>8, <2>1, OneNormalForm DEF Agree
<1>11. EndsFit(t.map, snap.ends)
  <2>1. ASSUME NEW i \in DOMAIN snap.ends
        PROVE  EndShape(snap.ends[i]) /\ EndFits(t.map, snap.ends[i])
    <3>1. PICK j \in DOMAIN t.ends : t.ends[j] = snap.ends[i]
      BY <1>7 DEF InSeq
    <3> QED
      BY <1>8, <3>1 DEF EndsFit
  <2> QED
    BY <1>5, <2>1 DEF EndsFit
<1> DEFINE map == MapOf(E)
<1>12. snap' = [mappings |-> E, map |-> map, negatives |-> snap.negatives, negmap |-> snap.negmap,
                bytes |-> snap.bytes, registers |-> snap.registers, ends |-> snap.ends]
  <2>1. snap' = [snap EXCEPT !.mappings = E, !.map = map]
    BY <1>1
  <2>2. snap = [mappings |-> snap.mappings, map |-> snap.map, negatives |-> snap.negatives,
                negmap |-> snap.negmap, bytes |-> snap.bytes, registers |-> snap.registers,
                ends |-> snap.ends]
    BY SnapIs
  <2> HIDE DEF map
  <2> QED
    BY <2>1, <2>2
<1>13. /\ Agree(map, E) /\ Agree(snap.negmap, snap.negatives) /\ PermsApart(map, snap.negmap)
       /\ BytesFit(map, snap.bytes) /\ EndsFit(map, snap.ends)
  BY <1>2, <1>8, <1>9, <1>10, <1>11
<1> HIDE DEF map
<1> QED
  BY <1>12, <1>13, PartsReplaced

\* The negative mappings are replaced by a list that can be added to none.
LEMMA SetsNegatives ==
  ASSUME GoodSnap(snap), NEW E, IsFiniteSet(E), \A e \in E : OneValued(e),
         set_negative_memory_mappings(E)
  PROVE  GoodSnap(snap')
<1> DEFINE s0 == [snap EXCEPT !.negatives = {}, !.negmap = {}]
           base == [ok |-> TRUE, s |-> s0]
           r == AddAll(base, E, CanAddNewNegative, WithNegative)
<1>1. r.ok /\ snap' = r.s
  BY DEF set_negative_memory_mappings, Adding
<1>2. s0 = [mappings |-> snap.mappings, map |-> snap.map, negatives |-> {}, negmap |-> {},
            bytes |-> snap.bytes, registers |-> snap.registers, ends |-> snap.ends]
  <2>1. snap = [mappings |-> snap.mappings, map |-> snap.map, negatives |-> snap.negatives,
                negmap |-> snap.negmap, bytes |-> snap.bytes, registers |-> snap.registers,
                ends |-> snap.ends]
    BY SnapIs
  <2>2. s0 = [snap EXCEPT !.negatives = {}, !.negmap = {}]
    OBVIOUS
  <2> HIDE DEF s0
  <2> QED
    BY <2>1, <2>2
<1>3. Agree({}, {}) /\ PermsApart(snap.map, {})
  BY NoMap DEF Agree, PermsApart
<1>4. GoodSnap(s0)
  <2>1. /\ Agree(snap.map, snap.mappings) /\ BytesFit(snap.map, snap.bytes)
        /\ EndsFit(snap.map, snap.ends)
    BY DEF GoodSnap
  <2> HIDE DEF s0
  <2> QED
    BY <1>2, <1>3, <2>1, PartsReplaced
<1> HIDE DEF s0
<1>5. IsResult(base) /\ base.ok /\ base.s = s0
  BY DEF IsResult
<1> HIDE DEF base
<1>6. r.ok => GoodSnap(r.s)
  BY <1>4, <1>5, AddedNegatives
<1> QED
  BY <1>1, <1>6

\* The bytes are replaced by a list that can be added to none.
LEMMA ReplacesBytes ==
  ASSUME GoodSnap(snap), NEW W, IsFiniteSet(W), \A b \in W : IsRange(b), ReplaceMemoryBytes(W)
  PROVE  GoodSnap(snap')
<1> DEFINE s0 == [snap EXCEPT !.bytes = {}]
           base == [ok |-> TRUE, s |-> s0]
           r == AddAll(base, W, CanAddBytes, WithBytes)
<1>1. r.ok /\ snap' = r.s
  BY DEF ReplaceMemoryBytes, Adding
<1>2. s0 = [mappings |-> snap.mappings, map |-> snap.map, negatives |-> snap.negatives,
            negmap |-> snap.negmap, bytes |-> {}, registers |-> snap.registers, ends |-> snap.ends]
  BY SnapIs
<1>3. BytesFit(snap.map, {})
  BY DEF BytesFit, P!Disjoint
<1>4. GoodSnap(s0)
  <2>1. /\ Agree(snap.map, snap.mappings) /\ Agree(snap.negmap, snap.negatives)
        /\ PermsApart(snap.map, snap.negmap) /\ EndsFit(snap.map, snap.ends)
    BY DEF GoodSnap
  <2> HIDE DEF s0
  <2> QED
    BY <1>2, <1>3, <2>1, PartsReplaced
<1> HIDE DEF s0
<1>5. IsResult(base) /\ base.ok /\ base.s = s0
  BY DEF IsResult
<1> HIDE DEF base
<1>6. r.ok => GoodSnap(r.s)
  BY <1>4, <1>5, AddedBytes
<1> QED
  BY <1>1, <1>6

\* The page of the address of a fault, and the last page without its last byte.
LEMMA NegativeIs ==
  ASSUME NEW e \in EndStates, NEW n \in NegativeFor(e)
  PROVE  OneValued(n)
<1> DEFINE a == e.endpoint.address
           page == (a \div PageSize) * PageSize
           limit == IF a >= kMaxAddress - PageSize + 1 THEN page + PageSize - 1 ELSE page + PageSize
           perms == CASE e.endpoint.cause = "exec" -> {"x"}
                      [] e.endpoint.cause = "write" -> {"w"}
                      [] e.endpoint.cause = "read" -> {"r", "w", "x"}
<1>1. e.endpoint.type = "segv" /\ n = P!Entry(page, limit, P!Flat(page, limit, perms))
  BY DEF NegativeFor
<1>2. a \in Nat /\ PageSize \in Nat /\ PageSize # 0 /\ PageSize # 1 /\ kMaxAddress \in Nat
  BY <1>1, SnapshotAssumption
<1> HIDE DEF a, perms
<1>3. page \in Int
  <2>1. a \div PageSize \in Int
    BY <1>2
  <2> DEFINE q == a \div PageSize
  <2> HIDE DEF q
  <2>2. q \in Int => q * PageSize \in Int
    BY <1>2
  <2> QED
    BY <2>1, <2>2 DEF q
<1> HIDE DEF page
<1>4. limit \in Int /\ page < limit
  BY <1>2, <1>3
<1> HIDE DEF limit
<1>5. n = [start |-> page, limit |-> limit, at |-> [k \in page..(limit - 1) |-> perms]]
  BY <1>1 DEF P!Entry, P!Flat
<1>6. /\ n.start = page /\ n.limit = limit /\ n.at = [k \in page..(limit - 1) |-> perms]
      /\ n = [start |-> n.start, limit |-> n.limit, at |-> n.at]
  BY <1>5
<1>7. \A k \in Int : PL!Holds(n, k) => n.at[k] = perms
  BY <1>3, <1>4, <1>6 DEF PL!Holds
<1>8. PermsOf(n) = perms
  BY <1>3, <1>4, <1>6 DEF PermsOf
<1>9. PL!IsEntry(n)
  BY <1>3, <1>4, <1>6 DEF PL!IsEntry, PL!Entry
<1> QED
  BY <1>7, <1>8, <1>9 DEF OneValued

\* What is left of a list when one end state is removed was in it.
LEMMA OneRemoved ==
  ASSUME NEW map, NEW ends, EndsFit(map, ends), NEW i \in DOMAIN ends
  PROVE  EndsFit(map, RemoveAt(ends, i))
<1>1. PICK X : ends \in Seq(X)
  BY DEF EndsFit
<1> DEFINE n == Len(ends)
           a == SubSeq(ends, 1, i - 1)
           b == SubSeq(ends, i + 1, n)
           new == a \o b
<1>2. n \in Nat /\ DOMAIN ends = 1..n /\ i \in Nat /\ 1 <= i /\ i <= n
  BY <1>1
<1>3. /\ a \in Seq(X) /\ Len(a) = i - 1 /\ \A j \in 1..(i - 1) : a[j] = ends[j]
      /\ b \in Seq(X) /\ Len(b) = n - i /\ \A j \in 1..(n - i) : b[j] = ends[j + i]
  <2> HIDE DEF n
  <2>1. /\ a \in Seq(X) /\ Len(a) = i - 1 /\ \A j \in 1..(i - 1) : a[j] = ends[j]
    BY <1>1, <1>2 DEF n
  <2>2. b \in Seq(X) /\ Len(b) = n - i /\ \A j \in 1..(n - i) : b[j] = ends[j + i]
    BY <1>1, <1>2 DEF n
  <2> QED
    BY <2>1, <2>2
<1> HIDE DEF a, b, n
<1>4. /\ new \in Seq(X) /\ DOMAIN new = 1..(n - 1)
      /\ \A j \in 1..(n - 1) : new[j] = IF j <= i - 1 THEN a[j] ELSE b[j - (i - 1)]
  <2>1. a \in Seq(X) /\ b \in Seq(X) /\ Len(a) = i - 1 /\ Len(b) = n - i
    BY <1>3
  <2>2. /\ new \in Seq(X) /\ Len(new) = Len(a) + Len(b) /\ DOMAIN new = 1..Len(new)
        /\ \A j \in 1..(Len(a) + Len(b)) : new[j] = IF j <= Len(a) THEN a[j] ELSE b[j - Len(a)]
    BY <2>1
  <2>3. Len(a) + Len(b) = n - 1
    BY <1>2, <2>1
  <2> HIDE DEF new
  <2> QED
    BY <2>1, <2>2, <2>3
<1> HIDE DEF new
<1>5. ASSUME NEW j \in DOMAIN new PROVE \E k \in DOMAIN ends : new[j] = ends[k]
  <2>1. CASE j <= i - 1
    BY <1>2, <1>3, <1>4, <2>1
  <2>2. CASE ~ (j <= i - 1)
    <3>1. j - (i - 1) \in 1..(n - i)
      BY <1>2, <1>4, <2>2
    <3>2. (j - (i - 1)) + i \in 1..n
      BY <1>2, <3>1
    <3> QED
      BY <1>2, <1>3, <1>4, <2>2, <3>1, <3>2
  <2> QED
    BY <2>1, <2>2
<1>6. EndsFit(map, new)
  BY <1>4, <1>5 DEF EndsFit
<1> QED
  BY <1>6 DEF RemoveAt, new, a, b, n

\* A platform more changes nothing that must fit.
LEMMA PlatformAdded ==
  ASSUME GoodSnap(snap), NEW i \in DOMAIN snap.ends, NEW p, add_platform_to_expected_end_state(i, p)
  PROVE  GoodSnap(snap')
<1> DEFINE ends == [snap.ends EXCEPT ![i].platforms = @ \cup {p}]
<1>1. EndsFit(snap.map, snap.ends)
  BY DEF GoodSnap
<1>2. PICK X : snap.ends \in Seq(X)
  BY <1>1 DEF EndsFit
<1>3. snap' = [snap EXCEPT !.ends = ends]
  BY DEF add_platform_to_expected_end_state
<1>4. ends = [j \in DOMAIN snap.ends |-> ends[j]]
  BY <1>2
<1>5. ASSUME NEW j \in DOMAIN snap.ends PROVE EndShape(ends[j]) /\ EndFits(snap.map, ends[j])
  <2>1. EndShape(snap.ends[j]) /\ EndFits(snap.map, snap.ends[j])
    BY <1>1 DEF EndsFit
  <2>2. CASE j = i
    <3> DEFINE e == snap.ends[j]
               platforms == e.platforms \cup {p}
    <3>1. ends[j] = [e EXCEPT !.platforms = platforms]
      BY <1>2, <2>2
    <3> HIDE DEF e, ends, platforms
    <3>2. ends[j] = [endpoint |-> e.endpoint, registers |-> e.registers, bytes |-> e.bytes,
                     platforms |-> platforms]
      BY <2>1, <3>1 DEF EndShape, e
    <3>3. /\ ends[j].bytes = e.bytes
          /\ ends[j] = [endpoint |-> ends[j].endpoint, registers |-> ends[j].registers,
                        bytes |-> ends[j].bytes, platforms |-> ends[j].platforms]
      BY <3>2
    <3> QED
      BY <2>1, <3>3 DEF EndShape, EndFits, e
  <2>3. CASE j # i
    <3>1. ends[j] = snap.ends[j]
      BY <1>2, <2>3
    <3> QED
      BY <2>1, <3>1
  <2> QED
    BY <2>2, <2>3
<1> HIDE DEF ends
<1>6. EndsFit(snap.map, ends)
  BY <1>1, <1>4, <1>5, EndsChanged
<1> QED
  BY <1>3, <1>6, NewEnds

\* The list of end states becomes one that fits.
LEMMA EndsSet ==
  ASSUME GoodSnap(snap), NEW e \in EndStates, set_expected_end_states(e)
  PROVE  GoodSnap(snap')
<1> DEFINE s0 == [snap EXCEPT !.ends = <<>>]
<1>1. CanAddEnd(s0, e, FALSE, FALSE) /\ snap' = [snap EXCEPT !.ends = <<e>>]
  BY DEF set_expected_end_states
<1>2. s0.map = snap.map
  BY SnapIs
<1> HIDE DEF s0
<1>3. EndFits(snap.map, e)
  BY <1>1, <1>2 DEF CanAddEnd, EndFits
<1>4. EndShape(e)
  BY SnapshotAssumption DEF EndShape
<1>5. EndsFit(snap.map, <<e>>)
  <2>1. <<e>> \in Seq({e}) /\ DOMAIN <<e>> = {1} /\ <<e>>[1] = e
    OBVIOUS
  <2> QED
    BY <1>3, <1>4, <2>1 DEF EndsFit
<1> QED
  BY <1>1, <1>5, NewEnds

-----------------------------------------------------------------------------
(* Snapshots stay consistent *)

\* The builder begins with a good snapshot.
LEMMA SnapInitGood == SnapInit => GoodSnap(snap)
BY EmptyIsGood DEF SnapInit

\* Every method, called when its can_... method allows it, leaves a good snapshot.
LEMMA EditsKeep == ASSUME GoodSnap(snap), SnapNext PROVE GoodSnap(snap')
<1>1. ASSUME NEW e \in Mappings, add_memory_mapping(e) PROVE GoodSnap(snap')
  <2>1. CanAddMapping(snap, e) /\ snap' = WithMapping(snap, e) /\ OneValued(e)
    BY <1>1, MappingsAre DEF add_memory_mapping
  <2> QED
    BY <2>1, AddsMapping
<1>2. ASSUME NEW E \in Lists(Mappings, MaxMappings), set_memory_mappings(E) PROVE GoodSnap(snap')
  <2>1. IsFiniteSet(E) /\ \A e \in E : OneValued(e)
    BY MappingsAre
  <2> QED
    BY <1>2, <2>1, SetsMappings
<1>3. ASSUME NEW E \in Lists(Mappings, MaxMappings), set_negative_memory_mappings(E)
      PROVE  GoodSnap(snap')
  <2>1. IsFiniteSet(E) /\ \A e \in E : OneValued(e)
    BY MappingsAre
  <2> QED
    BY <1>3, <2>1, SetsNegatives
<1>4. ASSUME NEW b \in Bytes, add_memory_bytes(b) PROVE GoodSnap(snap')
  <2>1. CanAddBytes(snap, b) /\ snap' = WithBytes(snap, b) /\ IsRange(b)
    BY <1>4, SnapshotAssumption DEF add_memory_bytes
  <2> QED
    BY <2>1, AddsBytes
<1>5. ASSUME NEW W \in Lists(Bytes, MaxBytes), ReplaceMemoryBytes(W) PROVE GoodSnap(snap')
  <2>1. IsFiniteSet(W) /\ \A b \in W : IsRange(b)
    BY MappingsAre
  <2> QED
    BY <1>5, <2>1, ReplacesBytes
<1>6. ASSUME NEW r \in Registers, set_registers(r) PROVE GoodSnap(snap')
  <2>1. snap' = [snap EXCEPT !.registers = {r}]
    BY <1>6 DEF set_registers
  <2>2. snap' = [mappings |-> snap.mappings, map |-> snap.map, negatives |-> snap.negatives,
                 negmap |-> snap.negmap, bytes |-> snap.bytes, registers |-> {r}, ends |-> snap.ends]
    BY <2>1, SnapIs
  <2>3. /\ Agree(snap.map, snap.mappings) /\ Agree(snap.negmap, snap.negatives)
        /\ PermsApart(snap.map, snap.negmap) /\ BytesFit(snap.map, snap.bytes)
        /\ EndsFit(snap.map, snap.ends)
    BY DEF GoodSnap
  <2> QED
    BY <2>2, <2>3, PartsReplaced
<1>7. ASSUME NEW e \in EndStates, AddNegativeMemoryMappingsFor(e) PROVE GoodSnap(snap')
  <2>1. PICK n \in NegativeFor(e) : CanAddNegative(snap, n, TRUE) /\ snap' = WithOverlapping(snap, n)
    BY <1>7 DEF AddNegativeMemoryMappingsFor
  <2>2. OneValued(n)
    BY NegativeIs
  <2> QED
    BY <2>1, <2>2, AddsOverlapping
<1>8. ASSUME NEW e \in EndStates, set_expected_end_states(e) PROVE GoodSnap(snap')
  BY <1>8, EndsSet
<1>9. ASSUME NEW e \in EndStates, NEW ok \in BOOLEAN, add_expected_end_state(e, ok)
      PROVE  GoodSnap(snap')
  <2>1. CanAddEnd(snap, e, ok, FALSE) /\ snap' = WithEnd(snap, e) /\ EndShape(e)
    BY <1>9, SnapshotAssumption DEF add_expected_end_state, EndShape
  <2> QED
    BY <2>1, AddsEnd
<1>10. EndsFit(snap.map, snap.ends)
  BY DEF GoodSnap
<1>11. ASSUME NEW p \in Platforms, limit_end_states_to_platform(p) PROVE GoodSnap(snap')
  <2> DEFINE ends == Without(snap.ends, {e \in Range(snap.ends) : p \notin e.platforms})
  <2>1. snap' = [snap EXCEPT !.ends = ends]
    BY <1>11 DEF limit_end_states_to_platform
  <2>2. EndsFit(snap.map, ends)
    BY <1>10, WithoutKeeps
  <2> HIDE DEF ends
  <2> QED
    BY <2>1, <2>2, NewEnds
<1>12. ASSUME NEW p \in Platforms, NEW i \in DOMAIN snap.ends, add_platform_to_expected_end_state(i, p)
       PROVE  GoodSnap(snap')
  BY <1>12, PlatformAdded
<1>13. ASSUME NEW i \in DOMAIN snap.ends, remove_expected_end_state(i) PROVE GoodSnap(snap')
  <2> DEFINE ends == RemoveAt(snap.ends, i)
  <2>1. snap' = [snap EXCEPT !.ends = ends]
    BY <1>13 DEF remove_expected_end_state
  <2>2. EndsFit(snap.map, ends)
    BY <1>10, OneRemoved
  <2> HIDE DEF ends
  <2> QED
    BY <2>1, <2>2, NewEnds
<1>14. ASSUME TryRemoveUndefinedEndStates PROVE GoodSnap(snap')
  <2> DEFINE ends == Without(snap.ends, {e \in Range(snap.ends) : EndComplete(e, "undefined")})
  <2>1. snap' = [snap EXCEPT !.ends = ends]
    BY <1>14 DEF TryRemoveUndefinedEndStates
  <2>2. EndsFit(snap.map, ends)
    BY <1>10, WithoutKeeps
  <2> HIDE DEF ends
  <2> QED
    BY <2>1, <2>2, NewEnds
<1>15. ASSUME Normalize PROVE GoodSnap(snap')
  BY <1>15, NormalizeKeeps DEF Normalize
<1> QED
  BY <1>1, <1>2, <1>3, <1>4, <1>5, <1>6, <1>7, <1>8, <1>9, <1>11, <1>12, <1>13, <1>14, <1>15
  DEF SnapNext

\* A good snapshot is consistent: normal forms that say the same are the same map.
LEMMA GoodIsConsistent == GoodSnap(snap) => SnapshotConsistent
<1> SUFFICES ASSUME GoodSnap(snap) PROVE SnapshotConsistent
  OBVIOUS
<1>1. /\ Agree(snap.map, snap.mappings) /\ Agree(snap.negmap, snap.negatives)
      /\ PermsApart(snap.map, snap.negmap) /\ BytesFit(snap.map, snap.bytes)
      /\ EndsFit(snap.map, snap.ends)
  BY DEF GoodSnap
<1>2. ASSUME NEW map, NEW list, Agree(map, list) PROVE map = MapOf(list) /\ P!Disjoint(list)
  <2>1. /\ PermMap(list) /\ PermMap(map) /\ PL!Canonical(map)
        /\ \A k \in Int : PermsAt(map, k) = PermsAt(list, k)
    BY <1>2 DEF Agree
  <2> DEFINE m == MapOf(list)
  <2>2. PermMap(m) /\ PL!Canonical(m) /\ \A k \in Int : PermsAt(m, k) = PermsAt(list, k)
    BY <2>1, ListAsMap
  <2> HIDE DEF m
  <2>3. \A k \in Int : PermsAt(map, k) = PermsAt(m, k)
    BY <2>1, <2>2
  <2>4. map = m
    BY <2>1, <2>2, <2>3, OneNormalForm
  <2>5. P!Disjoint(list)
    BY <2>1, SamePermsMaps DEF PermMap, PL!IsMap
  <2> QED
    BY <2>4, <2>5 DEF m
<1>3. P!Canonical(snap.map)
  BY <1>1, SamePermsMaps DEF Agree
<1>4. \A k \in 0..kMaxAddress : PermsAt(snap.map, k) \cap PermsAt(snap.negmap, k) = {}
  BY <1>1, SnapshotAssumption DEF PermsApart
<1>5. P!Disjoint(snap.bytes) /\ \A b \in snap.bytes : P!Covers(snap.map, b.start, b.limit)
  BY <1>1 DEF BytesFit
<1>6. ListsAgreeWithMaps
  BY <1>1, <1>2, <1>3, <1>4, <1>5 DEF ListsAgreeWithMaps
<1>7. EndBytesWritable
  BY <1>1 DEF EndsFit, EndFits, EndBytesWritable
<1> QED
  BY <1>6, <1>7 DEF SnapshotConsistent

\* Snapshot: after any sequence of calls that the can_... methods allow, lists and maps say
\* the same, bytes are mapped, nothing mapped is forbidden, and what end states change is
\* writable: for every page size, address space, lists of ranges and bounds on them.
THEOREM SnapshotStaysConsistent == SnapSpec => []SnapshotConsistent
<1>1. SnapInit => GoodSnap(snap)
  BY SnapInitGood
<1>2. GoodSnap(snap) /\ [SnapNext]_snap => GoodSnap(snap)'
  <2> SUFFICES ASSUME GoodSnap(snap), [SnapNext]_snap PROVE GoodSnap(snap')
    BY DEF GoodSnap, Agree, PermsApart, BytesFit, EndsFit, EndShape, EndFits
  <2>1. CASE SnapNext
    BY <2>1, EditsKeep
  <2>2. CASE UNCHANGED snap
    BY <2>2
  <2> QED
    BY <2>1, <2>2
<1>3. GoodSnap(snap) => SnapshotConsistent
  BY GoodIsConsistent
<1> QED
  BY <1>1, <1>2, <1>3, PTL DEF SnapSpec
=============================================================================
