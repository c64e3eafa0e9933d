--------------------------- MODULE RangeMapProofs ---------------------------
(***************************************************************************)
(* What Add, Remove, AddRangeMap and RemoveRangeMap do to a range map, key *)
(* by key, for any keys and values and whatever AddTo, RemoveFrom and      *)
(* CanMerge are: the map stays a set of disjoint entries, no neighbours are*)
(* left that could be one, and each key has what it should.                *)
(***************************************************************************)
EXTENDS RangeMap, TLAPS, WellFoundedInduction

-----------------------------------------------------------------------------
(* Least and greatest keys *)

\* A set of numbers has a least one.
LEMMA LeastNumber ==
  ASSUME NEW T \in SUBSET Nat, T # {}
  PROVE  \E x \in T : \A y \in T : x <= y
<1> DEFINE R == OpToRel(<, Nat)
<1>1. IsWellFoundedOn(R, Nat)
  BY NatLessThanWellFounded
<1>2. PICK x \in T : \A y \in T : ~ (<<y, x>> \in R)
  <2> HIDE DEF R
  <2> QED BY <1>1, WFMin
<1>3. ASSUME NEW y \in T PROVE x <= y
  <2>1. x \in Nat /\ y \in Nat
    OBVIOUS
  <2>2. <<y, x>> \in Nat \X Nat /\ <<y, x>>[1] = y /\ <<y, x>>[2] = x
    BY <2>1
  <2>3. ~ (y < x)
    BY <1>2, <2>2 DEF OpToRel
  <2> QED
    BY <2>1, <2>3
<1> QED
  BY <1>3

\* A set of keys that is bounded has a first and a last one.
LEMMA Smallest ==
  ASSUME NEW S \in SUBSET Int, S # {}, NEW b \in Int, \A x \in S : b <= x
  PROVE  \E x \in S : \A y \in S : x <= y
<1> DEFINE T == {n \in Nat : b + n \in S}
<1>1. T # {}
  <2>1. PICK x \in S : b <= x
    OBVIOUS
  <2>2. x - b \in Nat /\ b + (x - b) = x
    BY <2>1
  <2>3. x - b \in T
    BY <2>1, <2>2
  <2> QED
    BY <2>3
<1>2. PICK n \in T : \A m \in T : n <= m
  <2> HIDE DEF T
  <2>1. T \in SUBSET Nat
    BY DEF T
  <2> QED
    BY <1>1, <2>1, LeastNumber
<1>3. b + n \in S /\ n \in Nat
  OBVIOUS
<1>4. ASSUME NEW y \in S PROVE b + n <= y
  <2>1. y - b \in Nat /\ b + (y - b) = y
    OBVIOUS
  <2>2. y - b \in T
    BY <2>1
  <2>3. n <= y - b
    BY <1>2, <2>2
  <2> QED
    BY <1>3, <2>1, <2>3
<1> QED
  BY <1>3, <1>4

LEMMA Largest ==
  ASSUME NEW S \in SUBSET Int, S # {}, NEW b \in Int, \A x \in S : x <= b
  PROVE  \E x \in S : \A y \in S : y <= x
<1> DEFINE T == {n \in Int : -n \in S}
<1>1. T \in SUBSET Int /\ T # {} /\ \A n \in T : -b <= n
  <2>1. PICK x \in S : TRUE
    OBVIOUS
  <2>2. -x \in Int /\ -(-x) = x
    OBVIOUS
  <2> QED
    BY <2>2
<1>2. PICK n \in T : \A m \in T : n <= m
  <2> HIDE DEF T
  <2>1. -b \in Int
    OBVIOUS
  <2> QED
    BY <1>1, <2>1, Smallest
<1>3. ASSUME NEW y \in S PROVE y <= -n
  <2>1. -y \in Int /\ -(-y) = y
    OBVIOUS
  <2>2. -y \in T
    BY <2>1
  <2>3. n <= -y
    BY <1>2, <2>2
  <2> QED
    BY <2>1, <2>3
<1> QED
  BY <1>3

-----------------------------------------------------------------------------
(* Entries *)

\* An entry has a value for each of its keys, of which there is one at least.
IsEntry(e) ==
  /\ e.start \in Int /\ e.limit \in Int /\ e.start < e.limit
  /\ e = Entry(e.start, e.limit, e.at)

\* A map as the operations keep it.
IsMap(map) == (\A e \in map : IsEntry(e)) /\ Disjoint(map)

LEMMA EntryIs ==
  ASSUME NEW s \in Int, NEW l \in Int, s < l, NEW f
  PROVE  /\ IsEntry(Entry(s, l, f))
         /\ Entry(s, l, f).start = s /\ Entry(s, l, f).limit = l
         /\ \A k \in s..(l - 1) : Entry(s, l, f).at[k] = f[k]
BY DEF IsEntry, Entry

LEMMA SameEntry ==
  ASSUME NEW a, NEW b, IsEntry(a), IsEntry(b), a.start = b.start, a.limit = b.limit,
         \A k \in a.start..(a.limit - 1) : a.at[k] = b.at[k]
  PROVE  a = b
<1>1. [k \in a.start..(a.limit - 1) |-> a.at[k]] = [k \in b.start..(b.limit - 1) |-> b.at[k]]
  OBVIOUS
<1> QED
  BY <1>1 DEF IsEntry, Entry

\* A key is in one entry, whose value is the one of the key.
LEMMA OneHolder ==
  ASSUME NEW map, IsMap(map), NEW a \in map, NEW b \in map, NEW k \in Int, Holds(a, k), Holds(b, k)
  PROVE  a = b
BY DEF IsMap, IsEntry, Disjoint, Holds

LEMMA AtIs ==
  ASSUME NEW map, IsMap(map), NEW e \in map, NEW k \in Int, Holds(e, k)
  PROVE  At(map, k) = e.at[k] /\ Covered(map, k)
<1>1. (CHOOSE a \in map : Holds(a, k)) = e
  BY OneHolder
<1> QED
  BY <1>1 DEF At, Covered

-----------------------------------------------------------------------------
(* Merge *)

LEMMA JointIs ==
  ASSUME NEW map, IsMap(map), NEW s \in Int, NEW l \in Int, NEW j \in Joints(map, s, l)
  PROVE  /\ j \in Int /\ s <= j /\ j <= l
         /\ \E a, b \in map : a.limit = j /\ b.start = j
BY DEF Joints, IsMap, IsEntry

\* The entry that ends where the next one after d begins is d.
LEMMA NextTouches ==
  ASSUME NEW map, IsMap(map), NEW s \in Int, NEW l \in Int, NEW d \in map, NEW e \in map,
         d.start < e.start,
         \A c \in map : d.start < c.start /\ c.start <= e.start => c.start \in Joints(map, s, l)
  PROVE  /\ d.limit \in Joints(map, s, l) /\ d.limit <= e.start
         /\ \E c \in map : c.start = d.limit
<1> DEFINE N == {c.start : c \in {c \in map : d.start < c.start /\ c.start <= e.start}}
<1>1. \A c \in map : c.start \in Int /\ c.limit \in Int /\ c.start < c.limit
  BY DEF IsMap, IsEntry
<1>2. PICK n \in N : \A m \in N : n <= m
  <2>1. N \in SUBSET Int /\ N # {} /\ d.start \in Int /\ \A m \in N : d.start <= m
    BY <1>1
  <2> HIDE DEF N
  <2> QED
    BY <2>1, Smallest
<1>3. n \in Joints(map, s, l) /\ d.start < n /\ n <= e.start
  OBVIOUS
<1>4. PICK a \in map : a.limit = n /\ \E b \in map : b.start = n
  BY <1>3, JointIs
<1>5. a.start <= d.start
  <2> SUFFICES ASSUME d.start < a.start PROVE FALSE
    BY <1>1
  <2>1. a.start \in N
    BY <1>1, <1>3, <1>4
  <2> QED
    BY <1>1, <1>2, <1>4, <2>1
<1>6. a = d
  BY <1>1, <1>3, <1>4, <1>5, OneHolder DEF Holds
<1> QED
  BY <1>3, <1>4, <1>6

\* Every entry goes into a run, ...
LEMMA RunStarts ==
  ASSUME NEW map, IsMap(map), NEW s \in Int, NEW l \in Int, NEW e \in map
  PROVE  \E a \in map : /\ a.start <= e.start /\ a.start \notin Joints(map, s, l)
                        /\ \A c \in map : a.start < c.start /\ c.start <= e.start
                                            => c.start \in Joints(map, s, l)
<1> DEFINE J == Joints(map, s, l)
           D == {a \in map : /\ a.start <= e.start
                             /\ \A c \in map : a.start < c.start /\ c.start <= e.start => c.start \in J}
           S == {a.start : a \in D}
<1>1. \A c \in map : c.start \in Int /\ c.limit \in Int /\ c.start < c.limit
  BY DEF IsMap, IsEntry
<1>2. e \in D
  BY <1>1
<1> SUFFICES ASSUME \A a \in D : a.start \in J PROVE FALSE
  OBVIOUS
<1>3. PICK m \in S : \A n \in S : m <= n
  <2>1. S \in SUBSET Int /\ S # {}
    BY <1>1, <1>2
  <2>2. \A n \in S : s <= n
    BY JointIs
  <2> HIDE DEF S
  <2> QED
    BY <2>1, <2>2, Smallest
<1>4. PICK a \in D : a.start = m
  OBVIOUS
<1>5. PICK p \in map : p.limit = a.start
  BY JointIs
<1>6. p \in D
  <2>1. p.start < a.start /\ p.start <= e.start
    BY <1>1, <1>5
  <2>2. ASSUME NEW c \in map, p.start < c.start, c.start <= e.start PROVE c.start \in J
    <3>1. CASE a.start < c.start
      BY <2>2, <3>1
    <3>2. CASE c.start = a.start
      BY <3>2
    <3>3. CASE c.start < a.start
      <4>1. p = c
        BY <1>1, <1>5, <2>2, <3>3, OneHolder DEF Holds
      <4> QED
        BY <1>1, <2>2, <4>1
    <3> QED
      BY <1>1, <3>1, <3>2, <3>3
  <2> QED
    BY <2>1, <2>2
<1> QED
  BY <1>1, <1>3, <1>4, <1>5, <1>6

LEMMA RunEnds ==
  ASSUME NEW map, IsMap(map), NEW s \in Int, NEW l \in Int, NEW e \in map
  PROVE  \E b \in map : /\ e.start <= b.start /\ b.limit \notin Joints(map, s, l)
                        /\ \A c \in map : e.start < c.start /\ c.start <= b.start
                                            => c.start \in Joints(map, s, l)
<1> DEFINE J == Joints(map, s, l)
           D == {b \in map : /\ e.start <= b.start
                             /\ \A c \in map : e.start < c.start /\ c.start <= b.start => c.start \in J}
           S == {b.limit : b \in D}
<1>1. \A c \in map : c.start \in Int /\ c.limit \in Int /\ c.start < c.limit
  BY DEF IsMap, IsEntry
<1>2. e \in D
  BY <1>1
<1> SUFFICES ASSUME \A b \in D : b.limit \in J PROVE FALSE
  OBVIOUS
<1>3. PICK m \in S : \A n \in S : n <= m
  <2>1. S \in SUBSET Int /\ S # {}
    BY <1>1, <1>2
  <2>2. \A n \in S : n <= l
    BY JointIs
  <2> HIDE DEF S
  <2> QED
    BY <2>1, <2>2, Largest
<1>4. PICK b \in D : b.limit = m
  OBVIOUS
<1>5. PICK p \in map : p.start = b.limit
  BY JointIs
<1>6. p \in D
  <2>1. b.start < p.start /\ e.start <= p.start
    BY <1>1, <1>5
  <2>2. ASSUME NEW c \in map, e.start < c.start, c.start <= p.start PROVE c.start \in J
    <3>1. CASE c.start <= b.start
      BY <2>2, <3>1
    <3>2. CASE c.start = p.start
      BY <1>5, <3>2
    <3>3. CASE b.start < c.start /\ c.start < p.start
      <4>1. b = c
        BY <1>1, <1>5, <2>2, <3>3, OneHolder DEF Holds
      <4> QED
        BY <1>1, <3>3, <4>1
    <3> QED
      BY <1>1, <2>2, <3>1, <3>2, <3>3
  <2> QED
    BY <2>1, <2>2
<1> QED
  BY <1>1, <1>3, <1>4, <1>5, <1>6

LEMMA RunOf ==
  ASSUME NEW map, IsMap(map), NEW s \in Int, NEW l \in Int, NEW e \in map
  PROVE  \E r \in Runs(map, s, l) : r[1].start <= e.start /\ e.start <= r[2].start
<1>1. \A c \in map : c.start \in Int /\ c.limit \in Int /\ c.start < c.limit
  BY DEF IsMap, IsEntry
<1>2. PICK a \in map : /\ a.start <= e.start /\ a.start \notin Joints(map, s, l)
                       /\ \A c \in map : a.start < c.start /\ c.start <= e.start
                                           => c.start \in Joints(map, s, l)
  BY RunStarts
<1>3. PICK b \in map : /\ e.start <= b.start /\ b.limit \notin Joints(map, s, l)
                       /\ \A c \in map : e.start < c.start /\ c.start <= b.start
                                           => c.start \in Joints(map, s, l)
  BY RunEnds
<1>4. \A c \in map : a.start < c.start /\ c.start <= b.start => c.start \in Joints(map, s, l)
  BY <1>1, <1>2, <1>3
<1>5. <<a, b>> \in Runs(map, s, l)
  BY <1>1, <1>2, <1>3, <1>4 DEF Runs
<1> QED
  BY <1>2, <1>3, <1>5

\* ... has no gap, ...
LEMMA RunCovers ==
  ASSUME NEW map, IsMap(map), NEW s \in Int, NEW l \in Int, NEW r \in Runs(map, s, l),
         NEW k \in Int, r[1].start <= k, k < r[2].limit
  PROVE  \E c \in map : Holds(c, k) /\ r[1].start <= c.start /\ c.start <= r[2].start
<1>1. \A c \in map : c.start \in Int /\ c.limit \in Int /\ c.start < c.limit
  BY DEF IsMap, IsEntry
<1>2. /\ r[1] \in map /\ r[2] \in map /\ r[1].start <= r[2].start
      /\ \A c \in map : r[1].start < c.start /\ c.start <= r[2].start => c.start \in Joints(map, s, l)
  BY DEF Runs
<1> DEFINE S == {c.start : c \in {c \in map : r[1].start <= c.start /\ c.start <= r[2].start /\ c.start <= k}}
<1>3. PICK m \in S : \A n \in S : n <= m
  <2>1. S \in SUBSET Int /\ S # {} /\ \A n \in S : n <= k
    BY <1>1, <1>2
  <2> HIDE DEF S
  <2> QED
    BY <2>1, Largest
<1>4. PICK d \in map : d.start = m /\ r[1].start <= d.start /\ d.start <= r[2].start /\ d.start <= k
  OBVIOUS
<1> SUFFICES ASSUME d.limit <= k PROVE FALSE
  BY <1>1, <1>4 DEF Holds
<1>5. d.start < r[2].start
  <2> SUFFICES ASSUME d.start = r[2].start PROVE FALSE
    BY <1>1, <1>2, <1>4
  <2>1. d = r[2]
    BY <1>1, <1>2, OneHolder DEF Holds
  <2> QED
    BY <1>1, <2>1
<1>6. \A c \in map : d.start < c.start /\ c.start <= r[2].start => c.start \in Joints(map, s, l)
  BY <1>1, <1>2, <1>4
<1>7. PICK c \in map : c.start = d.limit /\ d.limit <= r[2].start
  BY <1>2, <1>5, <1>6, NextTouches
<1>8. c.start \in S
  BY <1>1, <1>2, <1>4, <1>7
<1> QED
  BY <1>1, <1>3, <1>4, <1>7, <1>8

\* ... and meets no other.
LEMMA RunsApart ==
  ASSUME NEW map, IsMap(map), NEW s \in Int, NEW l \in Int,
         NEW r \in Runs(map, s, l), NEW q \in Runs(map, s, l), NEW k \in Int,
         r[1].start <= k, k < r[2].limit, q[1].start <= k, k < q[2].limit
  PROVE  r = q
<1>1. \A c \in map : c.start \in Int /\ c.limit \in Int /\ c.start < c.limit
  BY DEF IsMap, IsEntry
<1>2. /\ r \in map \X map /\ r[1] \in map /\ r[2] \in map /\ r[1].start <= r[2].start
      /\ q \in map \X map /\ q[1] \in map /\ q[2] \in map /\ q[1].start <= q[2].start
      /\ r[1].start \notin Joints(map, s, l) /\ q[1].start \notin Joints(map, s, l)
      /\ r[2].limit \notin Joints(map, s, l) /\ q[2].limit \notin Joints(map, s, l)
      /\ \A c \in map : r[1].start < c.start /\ c.start <= r[2].start => c.start \in Joints(map, s, l)
      /\ \A c \in map : q[1].start < c.start /\ c.start <= q[2].start => c.start \in Joints(map, s, l)
  BY DEF Runs
<1>3. PICK c \in map : Holds(c, k) /\ r[1].start <= c.start /\ c.start <= r[2].start
  BY RunCovers
<1>4. q[1].start <= c.start /\ c.start <= q[2].start
  <2>1. PICK d \in map : Holds(d, k) /\ q[1].start <= d.start /\ d.start <= q[2].start
    BY RunCovers
  <2> QED
    BY <1>3, <2>1, OneHolder
<1>5. r[1] = q[1]
  <2>1. ~ (r[1].start < q[1].start) /\ ~ (q[1].start < r[1].start)
    BY <1>1, <1>2, <1>3, <1>4
  <2>2. Holds(r[1], r[1].start) /\ Holds(q[1], r[1].start) /\ r[1].start \in Int
    BY <1>1, <1>2, <2>1 DEF Holds
  <2> QED
    BY <1>2, <2>2, OneHolder
<1>6. r[2] = q[2]
  <2>1. ~ (r[2].start < q[2].start)
    <3> SUFFICES ASSUME r[2].start < q[2].start PROVE FALSE
      OBVIOUS
    <3>1. \A d \in map : r[2].start < d.start /\ d.start <= q[2].start => d.start \in Joints(map, s, l)
      BY <1>1, <1>2, <1>3, <1>4
    <3> QED
      BY <1>2, <3>1, NextTouches
  <2>2. ~ (q[2].start < r[2].start)
    <3> SUFFICES ASSUME q[2].start < r[2].start PROVE FALSE
      OBVIOUS
    <3>1. \A d \in map : q[2].start < d.start /\ d.start <= r[2].start => d.start \in Joints(map, s, l)
      BY <1>1, <1>2, <1>3, <1>4
    <3> QED
      BY <1>2, <3>1, NextTouches
  <2>3. Holds(r[2], r[2].start) /\ Holds(q[2], r[2].start) /\ r[2].start \in Int
    BY <1>1, <1>2, <2>1, <2>2 DEF Holds
  <2> QED
    BY <1>2, <2>3, OneHolder
<1> QED
  BY <1>2, <1>5, <1>6

\* The entries of a run touch, so it is an entry with the values of its keys.
LEMMA RunEntry ==
  ASSUME NEW map, IsMap(map), NEW s \in Int, NEW l \in Int, NEW e \in Merge(map, s, l)
  PROVE  \E r \in Runs(map, s, l) :
           /\ e.start = r[1].start /\ e.limit = r[2].limit
           /\ e = Joined(map, r)
           /\ IsEntry(e) /\ \A k \in e.start..(e.limit - 1) : e.at[k] = At(map, k)
           /\ r[1] \in map /\ r[2] \in map
           /\ r[1].start \notin Joints(map, s, l) /\ r[2].limit \notin Joints(map, s, l)
<1>1. PICK r \in Runs(map, s, l) :
        e = Joined(map, r)
  BY DEF Merge
<1>2. /\ r[1] \in map /\ r[2] \in map /\ r[1].start <= r[2].start
      /\ r[1].start \notin Joints(map, s, l) /\ r[2].limit \notin Joints(map, s, l)
  BY DEF Runs
<1>3. /\ r[1].start \in Int /\ r[2].start \in Int /\ r[2].limit \in Int /\ r[2].start < r[2].limit
  BY <1>2 DEF IsMap, IsEntry
<1>4. r[1].start < r[2].limit
  BY <1>2, <1>3
<1>5. /\ IsEntry(e) /\ e.start = r[1].start /\ e.limit = r[2].limit
      /\ \A k \in r[1].start..(r[2].limit - 1) : e.at[k] = At(map, k)
  <2> DEFINE f == [k \in r[1].start..(r[2].limit - 1) |-> At(map, k)]
  <2>1. e = Entry(r[1].start, r[2].limit, f) /\ \A k \in r[1].start..(r[2].limit - 1) : f[k] = At(map, k)
    BY <1>1 DEF Joined
  <2> HIDE DEF f
  <2> QED
    BY <1>3, <1>4, <2>1, EntryIs
<1> QED
  BY <1>1, <1>2, <1>5

\* Merge changes no key, and leaves no two entries that touch at a joint.
LEMMA MergeIs ==
  ASSUME NEW map, IsMap(map), NEW s \in Int, NEW l \in Int
  PROVE  /\ IsMap(Merge(map, s, l))
         /\ \A k \in Int : Covered(Merge(map, s, l), k) <=> Covered(map, k)
         /\ \A k \in Int : Covered(map, k) => At(Merge(map, s, l), k) = At(map, k)
         /\ \A e \in Merge(map, s, l) :
              /\ e.start \notin Joints(map, s, l) /\ e.limit \notin Joints(map, s, l)
              /\ \E a, b \in map : a.start = e.start /\ b.limit = e.limit
<1> DEFINE new == Merge(map, s, l)
<1>1. \A e \in new : IsEntry(e) /\ \A k \in e.start..(e.limit - 1) : e.at[k] = At(map, k)
  BY RunEntry
<1>2. Disjoint(new)
  <2> SUFFICES ASSUME NEW a \in new, NEW b \in new, ~ (a.limit <= b.start \/ b.limit <= a.start)
               PROVE  a = b
    BY DEF Disjoint
  <2>1. PICK r \in Runs(map, s, l) :
          /\ a.start = r[1].start /\ a.limit = r[2].limit
          /\ a = Joined(map, r)
    BY RunEntry
  <2>2. PICK q \in Runs(map, s, l) :
          /\ b.start = q[1].start /\ b.limit = q[2].limit
          /\ b = Joined(map, q)
    BY RunEntry
  <2>3. /\ a.start \in Int /\ a.limit \in Int /\ a.start < a.limit
        /\ b.start \in Int /\ b.limit \in Int /\ b.start < b.limit
    BY <1>1 DEF IsEntry
  <2>4. \E k \in Int : a.start <= k /\ k < a.limit /\ b.start <= k /\ k < b.limit
    <3>1. CASE a.start <= b.start
      BY <2>3, <3>1
    <3>2. CASE b.start <= a.start
      BY <2>3, <3>2
    <3> QED
      BY <2>3, <3>1, <3>2
  <2>5. r = q
    BY <2>1, <2>2, <2>4, RunsApart
  <2> QED
    BY <2>1, <2>2, <2>5
<1>3. IsMap(new)
  BY <1>1, <1>2 DEF IsMap
<1>4. ASSUME NEW k \in Int, NEW e \in map, Holds(e, k)
      PROVE  \E n \in new : Holds(n, k)
  <2>1. \A c \in map : c.start \in Int /\ c.limit \in Int /\ c.start < c.limit
    BY DEF IsMap, IsEntry
  <2>2. PICK r \in Runs(map, s, l) : r[1].start <= e.start /\ e.start <= r[2].start
    BY RunOf
  <2> DEFINE n == Joined(map, r)
  <2>3. n \in new
    BY DEF Merge
  <2>4. r[1] \in map /\ r[2] \in map
    BY DEF Runs
  <2>5. e.limit <= r[2].limit
    <3>1. CASE e = r[2]
      BY <2>1, <2>4, <3>1
    <3>2. CASE e # r[2]
      <4>1. e.limit <= r[2].start \/ r[2].limit <= e.start
        BY <2>4, <3>2 DEF IsMap, Disjoint
      <4> QED
        BY <2>1, <2>2, <2>4, <4>1
    <3> QED
      BY <3>1, <3>2
  <2>6. n.start = r[1].start /\ n.limit = r[2].limit
    BY DEF Joined, Entry
  <2>7. Holds(n, k)
    BY <1>4, <2>1, <2>2, <2>4, <2>5, <2>6 DEF Holds
  <2> QED
    BY <2>3, <2>7
<1>5. ASSUME NEW k \in Int, NEW n \in new, Holds(n, k)
      PROVE  Covered(map, k)
  <2>1. PICK r \in Runs(map, s, l) : /\ n.start = r[1].start /\ n.limit = r[2].limit
                                    /\ n = Joined(map, r)
    BY RunEntry
  <2>2. r[1].start <= k /\ k < r[2].limit
    BY <1>5, <2>1 DEF Holds
  <2>3. \E c \in map : Holds(c, k)
    BY <2>2, RunCovers
  <2> QED
    BY <2>3 DEF Covered
<1>6. \A k \in Int : Covered(new, k) <=> Covered(map, k)
  BY <1>4, <1>5 DEF Covered
<1>7. ASSUME NEW k \in Int, Covered(map, k)
      PROVE  At(new, k) = At(map, k)
  <2>1. PICK n \in new : Holds(n, k)
    BY <1>6, <1>7 DEF Covered
  <2>2. n.at[k] = At(map, k)
    BY <1>1, <2>1 DEF Holds, IsEntry
  <2>3. At(new, k) = n.at[k]
    BY <1>3, <2>1, AtIs
  <2> QED
    BY <2>2, <2>3
<1>8. \A e \in new : /\ e.start \notin Joints(map, s, l) /\ e.limit \notin Joints(map, s, l)
                     /\ \E a, b \in map : a.start = e.start /\ b.limit = e.limit
  BY RunEntry
<1> QED
  BY <1>3, <1>6, <1>7, <1>8

\* Where CanMerge holds of no neighbours outside of [s, l] before, it holds of none after.
LEMMA MergeIsCanonical ==
  ASSUME NEW map, IsMap(map), NEW s \in Int, NEW l \in Int,
         \A a, b \in map : a.limit = b.start /\ (b.start < s \/ l < b.start)
                           => ~ CanMerge(a.at[a.limit - 1], b.at[b.start])
  PROVE  Canonical(Merge(map, s, l))
<1> DEFINE new == Merge(map, s, l)
<1>1. IsMap(new) /\ \A k \in Int : Covered(map, k) => At(new, k) = At(map, k)
  BY MergeIs
<1> SUFFICES ASSUME NEW a \in new, NEW b \in new, a.limit = b.start
             PROVE  ~ CanMerge(a.at[a.limit - 1], b.at[b.start])
  BY DEF Canonical
<1>2. a.limit \notin Joints(map, s, l)
  BY MergeIs
<1>3. PICK p \in map : p.limit = a.limit
  BY MergeIs
<1>4. PICK q \in map : q.start = b.start
  BY MergeIs
<1> DEFINE j == b.start
<1>5. j \in Int /\ j - 1 \in Int /\ a.limit = j /\ p.limit = j /\ q.start = j /\ Holds(p, j - 1) /\ Holds(q, j)
      /\ Holds(a, j - 1) /\ Holds(b, j)
  BY <1>1, <1>3, <1>4 DEF IsMap, IsEntry, Holds
<1> HIDE DEF j
<1>6. At(map, j - 1) = p.at[j - 1] /\ At(map, j) = q.at[j]
  BY <1>5, AtIs
<1>7. At(new, j - 1) = a.at[j - 1] /\ At(new, j) = b.at[j]
  BY <1>1, <1>5, AtIs
<1>8. At(new, j - 1) = At(map, j - 1) /\ At(new, j) = At(map, j)
  BY <1>1, <1>5 DEF Covered
<1>9. ~ CanMerge(p.at[j - 1], q.at[j])
  <2>1. CASE s <= j /\ j <= l
    BY <1>2, <1>5, <2>1 DEF Joints
  <2>2. CASE j < s \/ l < j
    BY <1>5, <2>2
  <2> QED
    BY <1>5, <2>1, <2>2
<1>10. a.at[j - 1] = p.at[j - 1] /\ b.at[j] = q.at[j]
  BY <1>6, <1>7, <1>8
<1> QED
  BY <1>5, <1>9, <1>10

\* Two keys in a row of one entry were in one entry before, or may be merged.
LEMMA MergeSteps ==
  ASSUME NEW map, IsMap(map), NEW s \in Int, NEW l \in Int, NEW e \in Merge(map, s, l),
         NEW k \in Int, e.start < k, k < e.limit
  PROVE  \/ \E c \in map : Holds(c, k - 1) /\ Holds(c, k)
         \/ CanMerge(At(map, k - 1), At(map, k))
<1>1. \A c \in map : c.start \in Int /\ c.limit \in Int /\ c.start < c.limit
  BY DEF IsMap, IsEntry
<1>2. PICK r \in Runs(map, s, l) : /\ e.start = r[1].start /\ e.limit = r[2].limit
                                  /\ e = Joined(map, r)
  BY RunEntry
<1>3. r[1] \in map /\ r[2] \in map /\ \A c \in map : r[1].start < c.start /\ c.start <= r[2].start
                                                      => c.start \in Joints(map, s, l)
  BY DEF Runs
<1>4. PICK c \in map : Holds(c, k) /\ r[1].start <= c.start /\ c.start <= r[2].start
  <2>1. r[1].start <= k /\ k < r[2].limit
    <3>1. r[1].start \in Int /\ r[2].limit \in Int
      BY <1>1, <1>3
    <3> QED
      BY <1>2, <3>1
  <2> QED
    BY <2>1, RunCovers
<1>5. CASE c.start < k
  BY <1>1, <1>4, <1>5 DEF Holds
<1>6. CASE c.start = k
  <2>1. k \in Joints(map, s, l)
    BY <1>2, <1>3, <1>4, <1>6
  <2>2. PICK a, b \in map : a.limit = k /\ b.start = k /\ CanMerge(a.at[a.limit - 1], b.at[b.start])
    BY <2>1 DEF Joints
  <2>3. Holds(a, k - 1) /\ Holds(b, k) /\ k - 1 \in Int
    BY <1>1, <2>2 DEF Holds
  <2>4. At(map, k - 1) = a.at[k - 1] /\ At(map, k) = b.at[k]
    BY <2>3, AtIs
  <2> QED
    BY <2>2, <2>4
<1> QED
  BY <1>1, <1>4, <1>5, <1>6 DEF Holds

-----------------------------------------------------------------------------
(* Entries cut at the ends of a change *)

Lower(a, b) == IF a < b THEN a ELSE b
Higher(a, b) == IF a < b THEN b ELSE a

\* u is what lies of e before, in or behind [s, l).
Cut(u, e, s, l) ==
  \/ u.limit <= s /\ u.start = e.start /\ u.limit = Lower(e.limit, s)
  \/ s <= u.start /\ u.limit <= l /\ u.start = Higher(e.start, s) /\ u.limit = Lower(e.limit, l)
  \/ l <= u.start /\ u.start = Higher(e.start, l) /\ u.limit = e.limit

LEMMA UntouchedIs ==
  ASSUME NEW map, IsMap(map), NEW s \in Int, NEW l \in Int, s < l, NEW u \in Untouched(map, s, l)
  PROVE  /\ IsEntry(u) /\ (u.limit <= s \/ l <= u.start)
         /\ \E e \in map : /\ Cut(u, e, s, l) /\ e.start <= u.start /\ u.limit <= e.limit
                           /\ \A k \in u.start..(u.limit - 1) : u.at[k] = e.at[k]
<1>1. \A c \in map : IsEntry(c) /\ c.start \in Int /\ c.limit \in Int /\ c.start < c.limit
  BY DEF IsMap, IsEntry
<1>2. CASE u \in map /\ u \notin Find(map, s, l)
  <2>1. u.limit <= s \/ l <= u.start
    BY <1>1, <1>2 DEF Find
  <2>2. Cut(u, u, s, l)
    BY <1>1, <1>2, <2>1 DEF Cut, Lower, Higher
  <2> QED
    BY <1>1, <1>2, <2>1, <2>2
<1>3. CASE \E e \in Find(map, s, l) : u \in Rest(e, s, l)
  <2>1. PICK e \in map : e \in Find(map, s, l) /\ u \in Rest(e, s, l)
    BY <1>3 DEF Find
  <2>2. e.start < l /\ s < e.limit
    BY <2>1 DEF Find
  <2>3. \/ e.start < s /\ u = Entry(e.start, s, e.at)
        \/ l < e.limit /\ u = Entry(l, e.limit, e.at)
    BY <2>1 DEF Rest
  <2>4. CASE e.start < s /\ u = Entry(e.start, s, e.at)
    <3>1. IsEntry(u) /\ u.start = e.start /\ u.limit = s
          /\ \A k \in u.start..(u.limit - 1) : u.at[k] = e.at[k]
      BY <1>1, <2>4, EntryIs
    <3>2. Cut(u, e, s, l)
      BY <1>1, <2>2, <3>1 DEF Cut, Lower
    <3> QED
      BY <1>1, <2>2, <3>1, <3>2
  <2>5. CASE l < e.limit /\ u = Entry(l, e.limit, e.at)
    <3>1. IsEntry(u) /\ u.start = l /\ u.limit = e.limit
          /\ \A k \in u.start..(u.limit - 1) : u.at[k] = e.at[k]
      BY <1>1, <2>5, EntryIs
    <3>2. Cut(u, e, s, l)
      BY <1>1, <2>2, <3>1 DEF Cut, Higher
    <3> QED
      BY <1>1, <2>2, <3>1, <3>2
  <2> QED
    BY <2>3, <2>4, <2>5
<1> QED
  BY <1>2, <1>3 DEF Untouched

LEMMA UntouchedHolds ==
  ASSUME NEW map, IsMap(map), NEW s \in Int, NEW l \in Int, s < l, NEW e \in map, NEW k \in Int,
         Holds(e, k), k < s \/ l <= k
  PROVE  \E u \in Untouched(map, s, l) : Holds(u, k) /\ u.at[k] = e.at[k]
<1>1. IsEntry(e) /\ e.start \in Int /\ e.limit \in Int /\ e.start < e.limit
  BY DEF IsMap, IsEntry
<1>2. CASE e \notin Find(map, s, l)
  BY <1>2 DEF Untouched
<1>3. CASE e \in Find(map, s, l)
  <2>1. CASE k < s
    <3> DEFINE u == Entry(e.start, s, e.at)
    <3>1. e.start < s
      BY <1>1, <2>1 DEF Holds
    <3>2. u \in Rest(e, s, l)
      <4>1. <<e.start, s>> \in {q \in {<<e.start, s>>, <<l, e.limit>>} : q[1] < q[2]}
        BY <3>1
      <4> QED
        BY <4>1 DEF Rest
    <3>3. u.start = e.start /\ u.limit = s /\ \A j \in e.start..(s - 1) : u.at[j] = e.at[j]
      BY <1>1, <3>1, EntryIs
    <3>4. Holds(u, k) /\ u.at[k] = e.at[k]
      BY <1>1, <2>1, <3>3 DEF Holds
    <3> QED
      BY <1>3, <3>2, <3>4 DEF Untouched
  <2>2. CASE l <= k
    <3> DEFINE u == Entry(l, e.limit, e.at)
    <3>1. l < e.limit
      BY <1>1, <2>2 DEF Holds
    <3>2. u \in Rest(e, s, l)
      <4>1. <<l, e.limit>> \in {q \in {<<e.start, s>>, <<l, e.limit>>} : q[1] < q[2]}
        BY <3>1
      <4> QED
        BY <4>1 DEF Rest
    <3>3. u.start = l /\ u.limit = e.limit /\ \A j \in l..(e.limit - 1) : u.at[j] = e.at[j]
      BY <1>1, <3>1, EntryIs
    <3>4. Holds(u, k) /\ u.at[k] = e.at[k]
      BY <1>1, <2>2, <3>3 DEF Holds
    <3> QED
      BY <1>3, <3>2, <3>4 DEF Untouched
  <2> QED
    BY <2>1, <2>2
<1> QED
  BY <1>2, <1>3

LEMMA SharedIs ==
  ASSUME NEW map, IsMap(map), NEW s \in Int, NEW l \in Int, s < l, NEW e \in Find(map, s, l)
  PROVE  LET a == Shared(e, s, l)
         IN  /\ IsEntry(a) /\ s <= a.start /\ a.limit <= l /\ Cut(a, e, s, l)
             /\ e.start <= a.start /\ a.limit <= e.limit
             /\ \A k \in a.start..(a.limit - 1) : a.at[k] = e.at[k]
             /\ \A k \in Int : s <= k /\ k < l /\ Holds(e, k) => Holds(a, k)
<1>1. e \in map /\ e.start < l /\ s < e.limit
  BY DEF Find
<1>2. e.start \in Int /\ e.limit \in Int /\ e.start < e.limit
  BY <1>1 DEF IsMap, IsEntry
<1> DEFINE a == Shared(e, s, l)
           first == Higher(e.start, s)
           last == Lower(e.limit, l)
<1>3. a = Entry(first, last, e.at)
  <2>1. first = IF s < e.start THEN e.start ELSE s
    BY <1>2 DEF Higher
  <2> QED
    BY <1>2, <2>1 DEF Shared, Lower
<1>4. /\ first \in Int /\ last \in Int /\ first < last /\ s <= first /\ last <= l
      /\ e.start <= first /\ last <= e.limit
      /\ \A k \in Int : s <= k /\ k < l /\ e.start <= k /\ k < e.limit => first <= k /\ k < last
  BY <1>1, <1>2 DEF Lower, Higher
<1> HIDE DEF a, first, last
<1>5. /\ IsEntry(a) /\ a.start = first /\ a.limit = last
      /\ \A k \in first..(last - 1) : a.at[k] = e.at[k]
  BY <1>3, <1>4, EntryIs
<1>6. Cut(a, e, s, l)
  BY <1>4, <1>5 DEF Cut, first, last
<1>7. \A k \in Int : s <= k /\ k < l /\ Holds(e, k) => Holds(a, k)
  BY <1>4, <1>5 DEF Holds
<1> QED
  BY <1>4, <1>5, <1>6, <1>7 DEF a

LEMMA GapIs ==
  ASSUME NEW map, IsMap(map), NEW s \in Int, NEW l \in Int, NEW g \in Gaps(map, s, l)
  PROVE  /\ g[1] \in Int /\ g[2] \in Int /\ s <= g[1] /\ g[1] < g[2] /\ g[2] <= l
         /\ \A e \in map : ~ (e.start < g[2] /\ g[1] < e.limit)
         /\ g[1] = s \/ \E e \in map : g[1] = e.limit
         /\ g[2] = l \/ \E e \in map : g[2] = e.start
         /\ g = <<g[1], g[2]>>
<1> DEFINE F == Find(map, s, l)
<1>1. /\ g \in ({s} \cup {e.limit : e \in F}) \X ({l} \cup {e.start : e \in F})
      /\ s <= g[1] /\ g[1] < g[2] /\ g[2] <= l /\ Find(map, g[1], g[2]) = {}
  BY DEF Gaps
<1>2. /\ g[1] = s \/ \E e \in map : g[1] = e.limit
      /\ g[2] = l \/ \E e \in map : g[2] = e.start
      /\ g = <<g[1], g[2]>>
  BY <1>1 DEF Find
<1>3. g[1] \in Int /\ g[2] \in Int
  BY <1>2 DEF IsMap, IsEntry
<1> QED
  BY <1>1, <1>2, <1>3 DEF Find

\* What is not covered is in a gap, ...
LEMMA GapOf ==
  ASSUME NEW map, IsMap(map), NEW s \in Int, NEW l \in Int, NEW k \in Int, s <= k, k < l,
         ~ Covered(map, k)
  PROVE  \E g \in Gaps(map, s, l) : g[1] <= k /\ k < g[2]
<1>1. \A c \in map : c.start \in Int /\ c.limit \in Int /\ c.start < c.limit
  BY DEF IsMap, IsEntry
<1>2. \A c \in map : c.limit <= k \/ k < c.start
  BY <1>1 DEF Covered, Holds
<1> DEFINE F == Find(map, s, l)
           L == {s} \cup {e.limit : e \in {e \in F : e.limit <= k}}
           U == {l} \cup {e.start : e \in {e \in F : k < e.start}}
<1>3. PICK x \in L : \A y \in L : y <= x
  <2>1. L \in SUBSET Int /\ L # {} /\ \A y \in L : y <= k
    BY <1>1 DEF Find
  <2> HIDE DEF L
  <2> QED
    BY <2>1, Largest
<1>4. PICK z \in U : \A y \in U : z <= y
  <2>1. U \in SUBSET Int /\ U # {} /\ \A y \in U : k <= y
    BY <1>1 DEF Find
  <2> HIDE DEF U
  <2> QED
    BY <2>1, Smallest
<1>5. x \in Int /\ z \in Int /\ s <= x /\ x <= k /\ k < z /\ z <= l
  BY <1>1, <1>3, <1>4 DEF Find
<1>6. Find(map, x, z) = {}
  <2> SUFFICES ASSUME NEW e \in map, e.start < z, x < e.limit PROVE FALSE
    BY DEF Find
  <2>1. e \in F
    BY <1>1, <1>5 DEF Find
  <2>2. CASE e.limit <= k
    <3>1. e.limit \in L
      BY <2>1, <2>2
    <3> QED
      BY <1>1, <1>3, <1>5, <3>1, SMTT(30)
  <2>3. CASE k < e.start
    <3>1. e.start \in U
      BY <2>1, <2>3
    <3> QED
      BY <1>1, <1>4, <1>5, <3>1
  <2> QED
    BY <1>2, <2>2, <2>3
<1>7. x \in {s} \cup {e.limit : e \in F} /\ z \in {l} \cup {e.start : e \in F}
  OBVIOUS
<1>8. x < z
  BY <1>5
<1>9. <<x, z>> \in Gaps(map, s, l)
  <2> HIDE DEF F, L, U
  <2>1. <<x, z>> \in ({s} \cup {e.limit : e \in F}) \X ({l} \cup {e.start : e \in F})
    BY <1>7
  <2> QED
    BY <1>5, <1>6, <1>8, <2>1 DEF Gaps, F
<1> QED
  BY <1>5, <1>9

\* ... and in one only.
LEMMA GapsApart ==
  ASSUME NEW map, IsMap(map), NEW s \in Int, NEW l \in Int, NEW g \in Gaps(map, s, l),
         NEW h \in Gaps(map, s, l), NEW k \in Int, g[1] <= k, k < g[2], h[1] <= k, k < h[2]
  PROVE  g[1] = h[1] /\ g[2] = h[2]
<1>1. \A c \in map : c.start \in Int /\ c.limit \in Int /\ c.start < c.limit
  BY DEF IsMap, IsEntry
<1>2. /\ g[1] \in Int /\ g[2] \in Int /\ s <= g[1] /\ g[1] < g[2] /\ g[2] <= l
      /\ \A e \in map : ~ (e.start < g[2] /\ g[1] < e.limit)
      /\ g[1] = s \/ \E e \in map : g[1] = e.limit
      /\ g[2] = l \/ \E e \in map : g[2] = e.start
  BY GapIs
<1>3. /\ h[1] \in Int /\ h[2] \in Int /\ s <= h[1] /\ h[1] < h[2] /\ h[2] <= l
      /\ \A e \in map : ~ (e.start < h[2] /\ h[1] < e.limit)
      /\ h[1] = s \/ \E e \in map : h[1] = e.limit
      /\ h[2] = l \/ \E e \in map : h[2] = e.start
  BY GapIs
<1>4. ~ (g[1] < h[1]) /\ ~ (h[1] < g[1])
  BY <1>1, <1>2, <1>3
<1>5. ~ (g[2] < h[2]) /\ ~ (h[2] < g[2])
  BY <1>1, <1>2, <1>3
<1> QED
  BY <1>2, <1>3, <1>4, <1>5

\* A change makes a set of entries, each cut from one that was there or put into a gap.
Pieces(new, map, s, l) ==
  \A u \in new :
    /\ IsEntry(u)
    /\ \/ \E e \in map : Cut(u, e, s, l) /\ e.start <= u.start /\ u.limit <= e.limit
       \/ \E g \in Gaps(map, s, l) : u.start = g[1] /\ u.limit = g[2]

LEMMA PiecesApart ==
  ASSUME NEW map, IsMap(map), NEW s \in Int, NEW l \in Int, s < l, NEW new, Pieces(new, map, s, l),
         NEW u \in new, NEW v \in new, NEW k \in Int, Holds(u, k), Holds(v, k)
  PROVE  u.start = v.start /\ u.limit = v.limit
<1>1. \A c \in map : c.start \in Int /\ c.limit \in Int /\ c.start < c.limit
  BY DEF IsMap, IsEntry
<1>2. /\ u.start \in Int /\ u.limit \in Int /\ u.start < u.limit
      /\ v.start \in Int /\ v.limit \in Int /\ v.start < v.limit
  BY DEF Pieces, IsEntry
<1>3. CASE \E g \in Gaps(map, s, l) : u.start = g[1] /\ u.limit = g[2]
  <2>1. PICK g \in Gaps(map, s, l) : u.start = g[1] /\ u.limit = g[2]
    BY <1>3
  <2>2. ~ \E e \in map : e.start <= v.start /\ v.limit <= e.limit
    <3> SUFFICES ASSUME NEW e \in map, e.start <= v.start, v.limit <= e.limit PROVE FALSE
      OBVIOUS
    <3>1. ~ (e.start < u.limit /\ u.start < e.limit)
      BY <2>1, GapIs
    <3> QED
      BY <1>1, <1>2, <3>1 DEF Holds
  <2>3. PICK h \in Gaps(map, s, l) : v.start = h[1] /\ v.limit = h[2]
    BY <2>2 DEF Pieces
  <2> QED
    BY <2>1, <2>3, GapsApart DEF Holds
<1>4. CASE \E g \in Gaps(map, s, l) : v.start = g[1] /\ v.limit = g[2]
  <2>1. PICK g \in Gaps(map, s, l) : v.start = g[1] /\ v.limit = g[2]
    BY <1>4
  <2>2. ~ \E e \in map : e.start <= u.start /\ u.limit <= e.limit
    <3> SUFFICES ASSUME NEW e \in map, e.start <= u.start, u.limit <= e.limit PROVE FALSE
      OBVIOUS
    <3>1. ~ (e.start < v.limit /\ v.start < e.limit)
      BY <2>1, GapIs
    <3> QED
      BY <1>1, <1>2, <3>1 DEF Holds
  <2>3. PICK h \in Gaps(map, s, l) : u.start = h[1] /\ u.limit = h[2]
    BY <2>2 DEF Pieces
  <2> QED
    BY <2>1, <2>3, GapsApart DEF Holds
<1>5. CASE /\ \E e \in map : Cut(u, e, s, l) /\ e.start <= u.start /\ u.limit <= e.limit
           /\ \E e \in map : Cut(v, e, s, l) /\ e.start <= v.start /\ v.limit <= e.limit
  <2>1. PICK e \in map : Cut(u, e, s, l) /\ e.start <= u.start /\ u.limit <= e.limit
    BY <1>5
  <2>2. PICK d \in map : Cut(v, d, s, l) /\ d.start <= v.start /\ v.limit <= d.limit
    BY <1>5
  <2>3. Holds(e, k) /\ Holds(d, k)
    BY <1>1, <1>2, <2>1, <2>2 DEF Holds
  <2>4. e = d
    BY <2>3, OneHolder
  <2>5. u.start <= k /\ k < u.limit /\ v.start <= k /\ k < v.limit
    BY DEF Holds
  <2>6. CASE k < s
    BY <1>2, <2>1, <2>2, <2>4, <2>5, <2>6 DEF Cut
  <2>7. CASE s <= k /\ k < l
    BY <1>2, <2>1, <2>2, <2>4, <2>5, <2>7 DEF Cut
  <2>8. CASE l <= k
    BY <1>2, <2>1, <2>2, <2>4, <2>5, <2>8 DEF Cut
  <2> QED
    BY <2>6, <2>7, <2>8
<1> QED
  BY <1>3, <1>4, <1>5 DEF Pieces

\* Neighbours that meet outside of [s, l] were neighbours before.
LEMMA OuterNeighbours ==
  ASSUME NEW map, IsMap(map), NEW s \in Int, NEW l \in Int, s < l, NEW new, Pieces(new, map, s, l),
         NEW u \in new, NEW v \in new, u.limit = v.start, v.start < s \/ l < v.start
  PROVE  \E p, q \in map : p.limit = u.limit /\ q.start = v.start
<1>1. \A c \in map : c.start \in Int /\ c.limit \in Int /\ c.start < c.limit
  BY DEF IsMap, IsEntry
<1>2. /\ u.start \in Int /\ u.limit \in Int /\ u.start < u.limit
      /\ v.start \in Int /\ v.limit \in Int /\ v.start < v.limit
  BY DEF Pieces, IsEntry
<1>3. \A g \in Gaps(map, s, l) : s <= g[1] /\ g[1] < g[2] /\ g[2] <= l /\ g[1] \in Int /\ g[2] \in Int
  BY GapIs
<1>4. PICK p \in map : Cut(u, p, s, l)
  BY <1>2, <1>3 DEF Pieces
<1>5. PICK q \in map : Cut(v, q, s, l)
  BY <1>2, <1>3 DEF Pieces
<1>6. p.limit = u.limit
  <2>1. CASE v.start < s
    BY <1>1, <1>2, <1>4, <2>1 DEF Cut, Lower
  <2>2. CASE l < v.start
    BY <1>1, <1>2, <1>4, <2>2 DEF Cut, Lower
  <2> QED
    BY <2>1, <2>2
<1>7. q.start = v.start
  <2>1. CASE v.start < s
    BY <1>1, <1>2, <1>5, <2>1 DEF Cut, Higher
  <2>2. CASE l < v.start
    BY <1>1, <1>2, <1>5, <2>2 DEF Cut, Higher
  <2> QED
    BY <2>1, <2>2
<1> QED
  BY <1>6, <1>7

\* A change whose pieces have the values of V, which are those that were there outside of
\* [s, l), is a map in normal form when its neighbours have been joined.
LEMMA ChangeIs ==
  ASSUME NEW map, IsMap(map), NEW s \in Int, NEW l \in Int, s < l, NEW new, Pieces(new, map, s, l),
         NEW V, \A u \in new : \A k \in u.start..(u.limit - 1) : u.at[k] = V[k],
         \A k \in Int : (k < s \/ l <= k) /\ Covered(map, k) => V[k] = At(map, k)
  PROVE  /\ IsMap(new) /\ IsMap(Merge(new, s, l))
         /\ Canonical(map) => Canonical(Merge(new, s, l))
         /\ \A k \in Int : Covered(Merge(new, s, l), k) <=> Covered(new, k)
         /\ \A k \in Int : Covered(new, k) => At(Merge(new, s, l), k) = V[k] /\ At(new, k) = V[k]
<1>1. IsMap(new)
  <2>1. \A u \in new : IsEntry(u) /\ u.start \in Int /\ u.limit \in Int /\ u.start < u.limit
    BY DEF Pieces, IsEntry
  <2> SUFFICES ASSUME NEW u \in new, NEW v \in new, ~ (u.limit <= v.start \/ v.limit <= u.start)
               PROVE  u = v
    BY <2>1 DEF IsMap, Disjoint
  <2>2. \E k \in Int : Holds(u, k) /\ Holds(v, k)
    <3>1. CASE u.start <= v.start
      BY <2>1, <3>1 DEF Holds
    <3>2. CASE v.start <= u.start
      BY <2>1, <3>2 DEF Holds
    <3> QED
      BY <2>1, <3>1, <3>2
  <2>3. u.start = v.start /\ u.limit = v.limit
    BY <2>2, PiecesApart
  <2>4. \A k \in u.start..(u.limit - 1) : u.at[k] = v.at[k]
    BY <2>3
  <2> QED
    BY <2>1, <2>3, <2>4, SameEntry
<1>2. \A k \in Int : Covered(new, k) => At(new, k) = V[k]
  <2> SUFFICES ASSUME NEW k \in Int, NEW u \in new, Holds(u, k) PROVE At(new, k) = V[k]
    BY DEF Covered
  <2>1. u.start \in Int /\ u.limit \in Int
    BY <1>1 DEF IsMap, IsEntry
  <2>2. u.at[k] = V[k]
    BY <2>1 DEF Holds
  <2> QED
    BY <1>1, <2>2, AtIs
<1>3. ASSUME Canonical(map) PROVE Canonical(Merge(new, s, l))
  <2> SUFFICES ASSUME NEW u \in new, NEW v \in new, u.limit = v.start, v.start < s \/ l < v.start
               PROVE  ~ CanMerge(u.at[u.limit - 1], v.at[v.start])
    BY <1>1, MergeIsCanonical
  <2>1. PICK p \in map, q \in map : p.limit = u.limit /\ q.start = v.start
    BY OuterNeighbours
  <2> DEFINE j == v.start
  <2>2. /\ j \in Int /\ j - 1 \in Int /\ u.limit = j /\ p.limit = j /\ q.start = j
        /\ Holds(p, j - 1) /\ Holds(q, j) /\ u.start \in Int /\ u.start <= j - 1
        /\ v.limit \in Int /\ j <= v.limit - 1
    BY <1>1, <2>1 DEF IsMap, IsEntry, Holds
  <2> HIDE DEF j
  <2>3. At(map, j - 1) = p.at[j - 1] /\ At(map, j) = q.at[j] /\ Covered(map, j - 1) /\ Covered(map, j)
    BY <2>2, AtIs
  <2>4. u.at[j - 1] = V[j - 1] /\ v.at[j] = V[j]
    <3>1. j - 1 \in u.start..(u.limit - 1)
      BY <2>2
    <3>2. j \in v.start..(v.limit - 1)
      BY <2>2 DEF j
    <3> QED
      BY <3>1, <3>2
  <2>5. (j - 1 < s \/ l <= j - 1) /\ (j < s \/ l <= j)
    BY <2>2 DEF j
  <2>6. V[j - 1] = At(map, j - 1) /\ V[j] = At(map, j)
    BY <2>2, <2>3, <2>5
  <2>7. ~ CanMerge(p.at[j - 1], q.at[j])
    BY <1>3, <2>2 DEF Canonical
  <2> QED
    BY <2>2, <2>3, <2>4, <2>6, <2>7 DEF j
<1>4. /\ IsMap(Merge(new, s, l))
      /\ \A k \in Int : Covered(Merge(new, s, l), k) <=> Covered(new, k)
      /\ \A k \in Int : Covered(new, k) => At(Merge(new, s, l), k) = At(new, k)
  BY <1>1, MergeIs
<1> QED
  BY <1>1, <1>2, <1>3, <1>4

-----------------------------------------------------------------------------
(* Add and Remove *)

\* An entry with its values replaced.
LEMMA Replaced ==
  ASSUME NEW a, IsEntry(a), NEW g, NEW m, m = [a EXCEPT !.at = [k \in DOMAIN a.at |-> g[k]]]
  PROVE  IsEntry(m) /\ m.start = a.start /\ m.limit = a.limit
         /\ \A k \in a.start..(a.limit - 1) : m.at[k] = g[k]
<1>1. /\ a.start \in Int /\ a.limit \in Int /\ a.start < a.limit
      /\ a = [start |-> a.start, limit |-> a.limit, at |-> [k \in a.start..(a.limit - 1) |-> a.at[k]]]
  BY DEF IsEntry, Entry
<1>2. DOMAIN a.at = a.start..(a.limit - 1)
  BY <1>1
<1>3. m = [start |-> a.start, limit |-> a.limit, at |-> [k \in a.start..(a.limit - 1) |-> g[k]]]
  <2> DEFINE old == [k \in a.start..(a.limit - 1) |-> a.at[k]]
             new == [k \in a.start..(a.limit - 1) |-> g[k]]
  <2>1. m = [a EXCEPT !.at = new]
    BY <1>2
  <2>2. a = [start |-> a.start, limit |-> a.limit, at |-> old]
    BY <1>1
  <2> HIDE DEF old, new
  <2>3. m = [start |-> a.start, limit |-> a.limit, at |-> new]
    BY <2>1, <2>2
  <2> QED
    BY <2>3 DEF new
<1>4. m = Entry(a.start, a.limit, g)
  BY <1>3 DEF Entry
<1>5. a.start \in Int /\ a.limit \in Int /\ a.start < a.limit
  BY <1>1
<1>6. /\ IsEntry(Entry(a.start, a.limit, g))
      /\ Entry(a.start, a.limit, g).start = a.start /\ Entry(a.start, a.limit, g).limit = a.limit
      /\ \A k \in a.start..(a.limit - 1) : Entry(a.start, a.limit, g).at[k] = g[k]
  BY <1>5, EntryIs
<1> QED
  BY <1>4, <1>6

\* What a key has after Add.
SumAt(map, f, k) == IF Covered(map, k) THEN Added(At(map, k), f[k]) ELSE f[k]

LEMMA AddedToIs ==
  ASSUME NEW map, IsMap(map), NEW s \in Int, NEW l \in Int, s < l, NEW f,
         NEW V, V = [k \in Int |-> IF s <= k /\ k < l THEN SumAt(map, f, k) ELSE At(map, k)]
  PROVE  /\ Pieces(AddedTo(map, s, l, f), map, s, l)
         /\ \A u \in AddedTo(map, s, l, f) : \A k \in u.start..(u.limit - 1) : u.at[k] = V[k]
         /\ \A k \in Int : Covered(AddedTo(map, s, l, f), k) <=> Covered(map, k) \/ (s <= k /\ k < l)
<1> DEFINE new == AddedTo(map, s, l, f)
           Sum(a) == [a EXCEPT !.at = [k \in DOMAIN a.at |-> Added(a.at[k], f[k])]]
<1>1. \A c \in map : IsEntry(c) /\ c.start \in Int /\ c.limit \in Int /\ c.start < c.limit
  BY DEF IsMap, IsEntry
<1>2. ASSUME NEW u \in Untouched(map, s, l)
      PROVE  /\ IsEntry(u) /\ \E e \in map : Cut(u, e, s, l) /\ e.start <= u.start /\ u.limit <= e.limit
             /\ \A k \in u.start..(u.limit - 1) : u.at[k] = V[k] /\ Covered(map, k)
  <2>1. /\ IsEntry(u) /\ u.start \in Int /\ u.limit \in Int /\ u.start < u.limit
        /\ (u.limit <= s \/ l <= u.start)
    BY UntouchedIs DEF IsEntry
  <2>2. PICK e \in map : /\ Cut(u, e, s, l) /\ e.start <= u.start /\ u.limit <= e.limit
                         /\ \A k \in u.start..(u.limit - 1) : u.at[k] = e.at[k]
    BY UntouchedIs
  <2>3. ASSUME NEW k \in u.start..(u.limit - 1) PROVE u.at[k] = V[k] /\ Covered(map, k)
    <3>1. k \in Int /\ Holds(e, k) /\ ~ (s <= k /\ k < l)
      BY <1>1, <2>1, <2>2 DEF Holds
    <3>2. At(map, k) = e.at[k] /\ Covered(map, k)
      BY <3>1, AtIs
    <3> QED
      BY <2>2, <3>1, <3>2
  <2> QED
    BY <2>1, <2>2, <2>3
<1>3. ASSUME NEW g \in Gaps(map, s, l)
      PROVE  LET u == Entry(g[1], g[2], f)
             IN  /\ IsEntry(u) /\ u.start = g[1] /\ u.limit = g[2] /\ s <= g[1] /\ g[2] <= l
                 /\ \A k \in u.start..(u.limit - 1) : u.at[k] = V[k]
  <2> DEFINE u == Entry(g[1], g[2], f)
  <2>1. /\ g[1] \in Int /\ g[2] \in Int /\ s <= g[1] /\ g[1] < g[2] /\ g[2] <= l
        /\ \A e \in map : ~ (e.start < g[2] /\ g[1] < e.limit)
    BY GapIs
  <2>2. IsEntry(u) /\ u.start = g[1] /\ u.limit = g[2] /\ \A k \in g[1]..(g[2] - 1) : u.at[k] = f[k]
    BY <2>1, EntryIs
  <2> HIDE DEF u
  <2>3. ASSUME NEW k \in u.start..(u.limit - 1) PROVE u.at[k] = V[k]
    <3>1. k \in Int /\ s <= k /\ k < l /\ u.at[k] = f[k]
      BY <2>1, <2>2
    <3>2. ~ Covered(map, k)
      BY <1>1, <2>1, <2>2, <3>1 DEF Covered, Holds
    <3> QED
      BY <3>1, <3>2 DEF SumAt
  <2> QED
    BY <2>1, <2>2, <2>3 DEF u
<1>4. ASSUME NEW e \in Find(map, s, l)
      PROVE  LET u == Sum(Shared(e, s, l))
             IN  /\ IsEntry(u) /\ Cut(u, e, s, l) /\ e.start <= u.start /\ u.limit <= e.limit
                 /\ s <= u.start /\ u.limit <= l
                 /\ \A k \in u.start..(u.limit - 1) : u.at[k] = V[k] /\ Covered(map, k)
                 /\ \A k \in Int : s <= k /\ k < l /\ Holds(e, k) => Holds(u, k)
  <2> DEFINE a == Shared(e, s, l)
             g == [k \in DOMAIN a.at |-> Added(a.at[k], f[k])]
             u == Sum(a)
  <2>1. e \in map
    BY DEF Find
  <2>2. /\ IsEntry(a) /\ s <= a.start /\ a.limit <= l /\ Cut(a, e, s, l)
        /\ e.start <= a.start /\ a.limit <= e.limit
        /\ \A k \in a.start..(a.limit - 1) : a.at[k] = e.at[k]
        /\ \A k \in Int : s <= k /\ k < l /\ Holds(e, k) => Holds(a, k)
    BY SharedIs
  <2> HIDE DEF a
  <2>3. a.start \in Int /\ a.limit \in Int /\ DOMAIN a.at = a.start..(a.limit - 1)
    BY <2>2 DEF IsEntry, Entry
  <2>4. /\ \A k \in a.start..(a.limit - 1) : g[k] = Added(a.at[k], f[k])
        /\ u = [a EXCEPT !.at = [k \in DOMAIN a.at |-> g[k]]]
    BY <2>3
  <2> HIDE DEF g, u
  <2>5. IsEntry(u) /\ u.start = a.start /\ u.limit = a.limit
        /\ \A k \in a.start..(a.limit - 1) : u.at[k] = g[k]
    BY <2>2, <2>4, Replaced
  <2>6. ASSUME NEW k \in u.start..(u.limit - 1) PROVE u.at[k] = V[k] /\ Covered(map, k)
    <3>1. k \in Int /\ s <= k /\ k < l /\ Holds(e, k) /\ k \in a.start..(a.limit - 1)
      BY <1>1, <2>1, <2>2, <2>3, <2>5 DEF Holds
    <3>2. At(map, k) = e.at[k] /\ Covered(map, k)
      BY <2>1, <3>1, AtIs
    <3>3. u.at[k] = Added(e.at[k], f[k])
      BY <2>2, <2>4, <2>5, <3>1
    <3> QED
      BY <3>1, <3>2, <3>3 DEF SumAt
  <2>7. Cut(u, e, s, l)
    BY <2>2, <2>5 DEF Cut
  <2> QED
    BY <2>2, <2>5, <2>6, <2>7 DEF Holds, a, u
<1>5. ASSUME NEW u \in new
      PROVE  \/ u \in Untouched(map, s, l)
             \/ \E g \in Gaps(map, s, l) : u = Entry(g[1], g[2], f)
             \/ \E e \in Find(map, s, l) : u = Sum(Shared(e, s, l))
  BY DEF AddedTo, Affected
<1>6. /\ Untouched(map, s, l) \subseteq new
      /\ \A g \in Gaps(map, s, l) : Entry(g[1], g[2], f) \in new
      /\ \A e \in Find(map, s, l) : Sum(Shared(e, s, l)) \in new
  BY DEF AddedTo, Affected
<1> HIDE DEF Sum
<1>7. Pieces(new, map, s, l)
  <2> SUFFICES ASSUME NEW u \in new
               PROVE  /\ IsEntry(u)
                      /\ \/ \E e \in map : Cut(u, e, s, l) /\ e.start <= u.start /\ u.limit <= e.limit
                         \/ \E g \in Gaps(map, s, l) : u.start = g[1] /\ u.limit = g[2]
    BY DEF Pieces
  <2>1. CASE u \in Untouched(map, s, l)
    BY <1>2, <2>1
  <2>2. CASE \E g \in Gaps(map, s, l) : u = Entry(g[1], g[2], f)
    BY <1>3, <2>2
  <2>3. CASE \E e \in Find(map, s, l) : u = Sum(Shared(e, s, l))
    BY <1>4, <2>3 DEF Find
  <2> QED
    BY <1>5, <2>1, <2>2, <2>3
<1>8. \A u \in new : \A k \in u.start..(u.limit - 1) : u.at[k] = V[k]
  BY <1>2, <1>3, <1>4, <1>5
<1>9. ASSUME NEW k \in Int, Covered(new, k) PROVE Covered(map, k) \/ (s <= k /\ k < l)
  <2>1. PICK u \in new : Holds(u, k)
    BY <1>9 DEF Covered
  <2>2. k \in u.start..(u.limit - 1) /\ u.start \in Int /\ u.limit \in Int
    BY <1>7, <2>1 DEF Pieces, IsEntry, Holds
  <2>3. CASE \E g \in Gaps(map, s, l) : u = Entry(g[1], g[2], f)
    <3>1. PICK g \in Gaps(map, s, l) : u = Entry(g[1], g[2], f)
      BY <2>3
    <3>2. u.start = g[1] /\ u.limit = g[2] /\ s <= g[1] /\ g[2] <= l
      BY <1>3, <3>1
    <3>3. g[1] \in Int /\ g[2] \in Int
      BY GapIs
    <3> QED
      BY <2>1, <3>2, <3>3 DEF Holds
  <2> QED
    BY <1>2, <1>4, <1>5, <2>2, <2>3
<1>10. ASSUME NEW k \in Int, Covered(map, k) \/ (s <= k /\ k < l) PROVE Covered(new, k)
  <2>1. CASE ~ Covered(map, k)
    <3>1. PICK g \in Gaps(map, s, l) : g[1] <= k /\ k < g[2]
      BY <1>10, <2>1, GapOf
    <3> QED
      BY <1>3, <1>6, <3>1 DEF Covered, Holds
  <2>2. ASSUME NEW e \in map, Holds(e, k) PROVE Covered(new, k)
    <3>1. CASE s <= k /\ k < l
      <4>1. e \in Find(map, s, l)
        BY <1>1, <2>2, <3>1 DEF Find, Holds
      <4> QED
        BY <1>4, <1>6, <2>2, <3>1, <4>1 DEF Covered
    <3>2. CASE k < s \/ l <= k
      <4>1. \E u \in Untouched(map, s, l) : Holds(u, k)
        BY <2>2, <3>2, UntouchedHolds
      <4> QED
        BY <1>6, <4>1 DEF Covered
    <3> QED
      BY <3>1, <3>2
  <2> QED
    BY <2>1, <2>2 DEF Covered
<1> QED
  BY <1>7, <1>8, <1>9, <1>10

\* What a key keeps when f is taken away: {} if nothing.
LeftAt(map, f, k) == Remaining(At(map, k), f[k])
LeftOf(map, f, k) == CHOOSE x \in LeftAt(map, f, k) : TRUE

\* RemoveFrom decides for the part of an entry in [s, l) as a whole.
Uniform(map, s, l, f) ==
  \A e \in map : \A j, k \in s..(l - 1) :
    Holds(e, j) /\ Holds(e, k) /\ Remaining(e.at[j], f[j]) = {} => Remaining(e.at[k], f[k]) = {}

LEMMA RemovedFromIs ==
  ASSUME NEW map, IsMap(map), NEW s \in Int, NEW l \in Int, s < l, NEW f, Uniform(map, s, l, f),
         NEW V, V = [k \in Int |-> IF s <= k /\ k < l THEN LeftOf(map, f, k)
                                                 ELSE At(map, k)]
  PROVE  /\ Pieces(RemovedFrom(map, s, l, f), map, s, l)
         /\ \A u \in RemovedFrom(map, s, l, f) : \A k \in u.start..(u.limit - 1) : u.at[k] = V[k]
         /\ \A k \in Int : Covered(RemovedFrom(map, s, l, f), k) <=>
                            Covered(map, k) /\ (s <= k /\ k < l => LeftAt(map, f, k) # {})
<1> DEFINE new == RemovedFrom(map, s, l, f)
           Left(a) == [a EXCEPT !.at = [k \in DOMAIN a.at |-> CHOOSE x \in Remaining(a.at[k], f[k]) : TRUE]]
           Kept(e) == \A k \in DOMAIN Shared(e, s, l).at : Remaining(Shared(e, s, l).at[k], f[k]) # {}
<1>1. \A c \in map : IsEntry(c) /\ c.start \in Int /\ c.limit \in Int /\ c.start < c.limit
  BY DEF IsMap, IsEntry
<1>2. ASSUME NEW u \in Untouched(map, s, l)
      PROVE  /\ IsEntry(u) /\ \E e \in map : Cut(u, e, s, l) /\ e.start <= u.start /\ u.limit <= e.limit
             /\ \A k \in u.start..(u.limit - 1) : u.at[k] = V[k] /\ Covered(map, k)
  <2>1. /\ IsEntry(u) /\ u.start \in Int /\ u.limit \in Int /\ u.start < u.limit
        /\ (u.limit <= s \/ l <= u.start)
    BY UntouchedIs DEF IsEntry
  <2>2. PICK e \in map : /\ Cut(u, e, s, l) /\ e.start <= u.start /\ u.limit <= e.limit
                         /\ \A k \in u.start..(u.limit - 1) : u.at[k] = e.at[k]
    BY UntouchedIs
  <2>3. ASSUME NEW k \in u.start..(u.limit - 1) PROVE u.at[k] = V[k] /\ Covered(map, k)
    <3>1. k \in Int /\ Holds(e, k) /\ ~ (s <= k /\ k < l)
      BY <1>1, <2>1, <2>2 DEF Holds
    <3>2. At(map, k) = e.at[k] /\ Covered(map, k)
      BY <3>1, AtIs
    <3> QED
      BY <2>2, <3>1, <3>2
  <2> QED
    BY <2>1, <2>2, <2>3
<1>3. ASSUME NEW e \in Find(map, s, l)
      PROVE  LET u == Left(Shared(e, s, l))
             IN  /\ IsEntry(u) /\ Cut(u, e, s, l) /\ e.start <= u.start /\ u.limit <= e.limit
                 /\ s <= u.start /\ u.limit <= l
                 /\ \A k \in u.start..(u.limit - 1) : u.at[k] = V[k] /\ Covered(map, k)
                 /\ \A k \in u.start..(u.limit - 1) : Kept(e) <=> LeftAt(map, f, k) # {}
                 /\ \A k \in Int : s <= k /\ k < l /\ Holds(e, k) => Holds(u, k)
  <2> DEFINE a == Shared(e, s, l)
             value(k) == CHOOSE x \in Remaining(a.at[k], f[k]) : TRUE
             g == [k \in DOMAIN a.at |-> value(k)]
             u == Left(a)
  <2>1. e \in map
    BY DEF Find
  <2>2. /\ IsEntry(a) /\ s <= a.start /\ a.limit <= l /\ Cut(a, e, s, l)
        /\ e.start <= a.start /\ a.limit <= e.limit
        /\ \A k \in a.start..(a.limit - 1) : a.at[k] = e.at[k]
        /\ \A k \in Int : s <= k /\ k < l /\ Holds(e, k) => Holds(a, k)
    BY SharedIs
  <2>3. Kept(e) <=> \A k \in DOMAIN a.at : Remaining(a.at[k], f[k]) # {}
    OBVIOUS
  <2> HIDE DEF a, Kept
  <2>4. a.start \in Int /\ a.limit \in Int /\ DOMAIN a.at = a.start..(a.limit - 1)
    BY <2>2 DEF IsEntry, Entry
  <2>5. /\ \A k \in a.start..(a.limit - 1) : g[k] = CHOOSE x \in Remaining(a.at[k], f[k]) : TRUE
        /\ u = [a EXCEPT !.at = [k \in DOMAIN a.at |-> g[k]]]
    <3>1. u = [a EXCEPT !.at = g]
      OBVIOUS
    <3> HIDE DEF value
    <3>2. (\A k \in DOMAIN a.at : g[k] = value(k)) /\ g = [k \in DOMAIN a.at |-> g[k]]
      OBVIOUS
    <3> HIDE DEF g, u
    <3>3. \A k \in a.start..(a.limit - 1) : g[k] = value(k)
      BY <2>4, <3>2
    <3> QED
      BY <3>1, <3>2, <3>3 DEF value
  <2> HIDE DEF g, u
  <2>6. IsEntry(u) /\ u.start = a.start /\ u.limit = a.limit
        /\ \A k \in a.start..(a.limit - 1) : u.at[k] = g[k]
    BY <2>2, <2>5, Replaced
  <2>7. ASSUME NEW k \in a.start..(a.limit - 1)
        PROVE  /\ k \in Int /\ s <= k /\ k < l /\ Holds(e, k)
               /\ At(map, k) = e.at[k] /\ Covered(map, k)
    <3>1. k \in Int /\ s <= k /\ k < l /\ Holds(e, k)
      BY <1>1, <2>1, <2>2, <2>4 DEF Holds
    <3> QED
      BY <2>1, <3>1, AtIs
  <2>8. ASSUME NEW k \in u.start..(u.limit - 1) PROVE u.at[k] = V[k] /\ Covered(map, k)
    <3>1. k \in a.start..(a.limit - 1)
      BY <2>6
    <3>2. u.at[k] = CHOOSE x \in Remaining(e.at[k], f[k]) : TRUE
      BY <2>2, <2>5, <2>6, <3>1
    <3>3. V[k] = LeftOf(map, f, k)
      BY <2>7, <3>1
    <3>4. LeftAt(map, f, k) = Remaining(e.at[k], f[k])
      BY <2>7, <3>1 DEF LeftAt
    <3>5. LeftOf(map, f, k) = CHOOSE x \in Remaining(e.at[k], f[k]) : TRUE
      BY <3>4 DEF LeftOf
    <3> QED
      BY <2>7, <3>1, <3>2, <3>3, <3>5
  <2>9. ASSUME NEW k \in u.start..(u.limit - 1) PROVE Kept(e) <=> LeftAt(map, f, k) # {}
    <3>1. k \in a.start..(a.limit - 1)
      BY <2>6
    <3>2. LeftAt(map, f, k) = Remaining(e.at[k], f[k]) /\ a.at[k] = e.at[k]
      BY <2>2, <2>7, <3>1 DEF LeftAt
    <3>3. ASSUME Kept(e) PROVE LeftAt(map, f, k) # {}
      BY <2>3, <2>4, <3>1, <3>2, <3>3
    <3>4. ASSUME LeftAt(map, f, k) # {}, NEW j \in DOMAIN a.at PROVE Remaining(a.at[j], f[j]) # {}
      <4>1. j \in a.start..(a.limit - 1) /\ a.at[j] = e.at[j]
        BY <2>2, <2>4, <3>4
      <4>2. k \in s..(l - 1) /\ j \in s..(l - 1) /\ Holds(e, k) /\ Holds(e, j)
        BY <2>7, <3>1, <4>1
      <4>3. Remaining(e.at[j], f[j]) # {}
        BY <2>1, <3>2, <3>4, <4>2 DEF Uniform
      <4> QED
        BY <4>1, <4>3
    <3> QED
      BY <2>3, <3>3, <3>4
  <2>10. Cut(u, e, s, l)
    BY <2>2, <2>6 DEF Cut
  <2> QED
    BY <2>2, <2>6, <2>8, <2>9, <2>10 DEF Holds, a, u
<1>4. ASSUME NEW u \in new
      PROVE  \/ u \in Untouched(map, s, l)
             \/ \E e \in Find(map, s, l) : Kept(e) /\ u = Left(Shared(e, s, l))
  BY DEF RemovedFrom, Affected
<1>5. /\ Untouched(map, s, l) \subseteq new
      /\ \A e \in Find(map, s, l) : Kept(e) => Left(Shared(e, s, l)) \in new
  BY DEF RemovedFrom, Affected
<1> HIDE DEF Left, Kept
<1>6. Pieces(new, map, s, l)
  <2> SUFFICES ASSUME NEW u \in new
               PROVE  IsEntry(u) /\ \E e \in map : Cut(u, e, s, l) /\ e.start <= u.start /\ u.limit <= e.limit
    BY DEF Pieces
  <2>1. CASE u \in Untouched(map, s, l)
    BY <1>2, <2>1
  <2>2. ASSUME NEW e \in Find(map, s, l), u = Left(Shared(e, s, l))
        PROVE  IsEntry(u) /\ \E d \in map : Cut(u, d, s, l) /\ d.start <= u.start /\ u.limit <= d.limit
    <3>1. IsEntry(u) /\ Cut(u, e, s, l) /\ e.start <= u.start /\ u.limit <= e.limit
      BY <1>3, <2>2
    <3>2. e \in map
      BY DEF Find
    <3> QED
      BY <3>1, <3>2
  <2> QED
    BY <1>4, <2>1, <2>2
<1>7. \A u \in new : \A k \in u.start..(u.limit - 1) : u.at[k] = V[k]
  BY <1>2, <1>3, <1>4
<1>8. ASSUME NEW k \in Int, Covered(new, k)
      PROVE  Covered(map, k) /\ (s <= k /\ k < l => LeftAt(map, f, k) # {})
  <2>1. PICK u \in new : Holds(u, k)
    BY <1>8 DEF Covered
  <2>2. k \in u.start..(u.limit - 1) /\ u.start \in Int /\ u.limit \in Int
    BY <1>6, <2>1 DEF Pieces, IsEntry, Holds
  <2>3. CASE u \in Untouched(map, s, l)
    <3>1. u.limit <= s \/ l <= u.start
      BY <2>3, UntouchedIs
    <3> QED
      BY <1>2, <2>2, <2>3, <3>1
  <2>4. CASE \E e \in Find(map, s, l) : Kept(e) /\ u = Left(Shared(e, s, l))
    BY <1>3, <2>2, <2>4
  <2> QED
    BY <1>4, <2>3, <2>4
<1>9. ASSUME NEW k \in Int, Covered(map, k), s <= k /\ k < l => LeftAt(map, f, k) # {}
      PROVE  Covered(new, k)
  <2>1. PICK e \in map : Holds(e, k)
    BY <1>9 DEF Covered
  <2>2. CASE s <= k /\ k < l
    <3>1. e \in Find(map, s, l)
      BY <1>1, <2>1, <2>2 DEF Find, Holds
    <3> DEFINE u == Left(Shared(e, s, l))
    <3>2. IsEntry(u) /\ Holds(u, k) /\ (k \in u.start..(u.limit - 1) => (Kept(e) <=> LeftAt(map, f, k) # {}))
      BY <1>3, <2>1, <2>2, <3>1
    <3>3. k \in u.start..(u.limit - 1)
      BY <3>2 DEF IsEntry, Holds
    <3>4. Kept(e)
      BY <1>9, <2>2, <3>2, <3>3
    <3> QED
      BY <1>5, <3>1, <3>2, <3>4 DEF Covered
  <2>3. CASE k < s \/ l <= k
    <3>1. \E u \in Untouched(map, s, l) : Holds(u, k)
      BY <2>1, <2>3, UntouchedHolds
    <3> QED
      BY <1>5, <3>1 DEF Covered
  <2> QED
    BY <2>2, <2>3
<1> QED
  BY <1>6, <1>7, <1>8, <1>9

\* RangeMap::Add keeps a map in normal form and does to each key of the range what AddTo
\* does, and nothing to any other.
THEOREM AddIsPointwise ==
  ASSUME NEW map, IsMap(map), NEW s \in Int, NEW l \in Int, s < l, NEW f
  PROVE  /\ IsMap(Add(map, s, l, f)) /\ (Canonical(map) => Canonical(Add(map, s, l, f)))
         /\ \A k \in Int : Covered(Add(map, s, l, f), k) <=> Covered(map, k) \/ (s <= k /\ k < l)
         /\ \A k \in Int : Covered(Add(map, s, l, f), k) =>
              At(Add(map, s, l, f), k) = IF s <= k /\ k < l THEN SumAt(map, f, k) ELSE At(map, k)
<1> DEFINE V == [k \in Int |-> IF s <= k /\ k < l THEN SumAt(map, f, k) ELSE At(map, k)]
           new == AddedTo(map, s, l, f)
<1>1. \A k \in Int : V[k] = IF s <= k /\ k < l THEN SumAt(map, f, k) ELSE At(map, k)
  OBVIOUS
<1>2. /\ Pieces(new, map, s, l)
      /\ \A u \in new : \A k \in u.start..(u.limit - 1) : u.at[k] = V[k]
      /\ \A k \in Int : Covered(new, k) <=> Covered(map, k) \/ (s <= k /\ k < l)
  BY AddedToIs
<1> HIDE DEF V, new
<1>3. \A k \in Int : (k < s \/ l <= k) /\ Covered(map, k) => V[k] = At(map, k)
  BY <1>1
<1>4. /\ IsMap(Merge(new, s, l)) /\ (Canonical(map) => Canonical(Merge(new, s, l)))
      /\ \A k \in Int : Covered(Merge(new, s, l), k) <=> Covered(new, k)
      /\ \A k \in Int : Covered(new, k) => At(Merge(new, s, l), k) = V[k]
  BY <1>2, <1>3, ChangeIs
<1>5. Add(map, s, l, f) = Merge(new, s, l)
  BY DEF Add, new
<1> QED
  BY <1>1, <1>2, <1>4, <1>5

\* RangeMap::Remove, likewise, with RemoveFrom.
THEOREM RemoveIsPointwise ==
  ASSUME NEW map, IsMap(map), NEW s \in Int, NEW l \in Int, s < l, NEW f, Uniform(map, s, l, f)
  PROVE  /\ IsMap(Remove(map, s, l, f)) /\ (Canonical(map) => Canonical(Remove(map, s, l, f)))
         /\ \A k \in Int : Covered(Remove(map, s, l, f), k) <=>
                            Covered(map, k) /\ (s <= k /\ k < l => LeftAt(map, f, k) # {})
         /\ \A k \in Int : Covered(Remove(map, s, l, f), k) =>
              At(Remove(map, s, l, f), k) = IF s <= k /\ k < l THEN LeftOf(map, f, k)
                                            ELSE At(map, k)
<1> DEFINE V == [k \in Int |-> IF s <= k /\ k < l THEN LeftOf(map, f, k)
                              ELSE At(map, k)]
           new == RemovedFrom(map, s, l, f)
<1>1. \A k \in Int : V[k] = IF s <= k /\ k < l THEN LeftOf(map, f, k) ELSE At(map, k)
  OBVIOUS
<1>2. /\ Pieces(new, map, s, l)
      /\ \A u \in new : \A k \in u.start..(u.limit - 1) : u.at[k] = V[k]
      /\ \A k \in Int : Covered(new, k) <=>
                         Covered(map, k) /\ (s <= k /\ k < l => LeftAt(map, f, k) # {})
  BY RemovedFromIs
<1> HIDE DEF V, new
<1>3. \A k \in Int : (k < s \/ l <= k) /\ Covered(map, k) => V[k] = At(map, k)
  BY <1>1
<1>4. /\ IsMap(Merge(new, s, l)) /\ (Canonical(map) => Canonical(Merge(new, s, l)))
      /\ \A k \in Int : Covered(Merge(new, s, l), k) <=> Covered(new, k)
      /\ \A k \in Int : Covered(new, k) => At(Merge(new, s, l), k) = V[k]
  BY <1>2, <1>3, ChangeIs
<1>5. Remove(map, s, l, f) = Merge(new, s, l)
  BY DEF Remove, new
<1> QED
  BY <1>1, <1>2, <1>4, <1>5

-----------------------------------------------------------------------------
(* Entries with one value, as those of a map of permissions have *)

OneValue(map) ==
  \A e \in map : \A j, k \in Int : Holds(e, j) /\ Holds(e, k) => e.at[j] = e.at[k]

\* Neighbours that are merged have the same value.
SameMerge == \A a, b : CanMerge(a, b) => a = b

LEMMA MergeKeepsOneValue ==
  ASSUME SameMerge, NEW map, IsMap(map), OneValue(map), NEW s \in Int, NEW l \in Int
  PROVE  OneValue(Merge(map, s, l))
<1> DEFINE new == Merge(map, s, l)
<1>1. /\ IsMap(new)
      /\ \A k \in Int : Covered(new, k) <=> Covered(map, k)
      /\ \A k \in Int : Covered(map, k) => At(new, k) = At(map, k)
  BY MergeIs
<1>2. \A e \in new : e.start \in Int /\ e.limit \in Int /\ e.start < e.limit
  BY <1>1 DEF IsMap, IsEntry
<1>3. ASSUME NEW e \in new, NEW k \in Int, e.start < k, k < e.limit PROVE e.at[k] = e.at[k - 1]
  <2>1. k - 1 \in Int /\ Holds(e, k - 1) /\ Holds(e, k)
    BY <1>2, <1>3 DEF Holds
  <2>2. /\ Covered(new, k) /\ At(new, k) = e.at[k]
        /\ Covered(new, k - 1) /\ At(new, k - 1) = e.at[k - 1]
    <3> HIDE DEF new
    <3> QED
      BY <1>1, <2>1, AtIs
  <2>3. At(map, k) = e.at[k] /\ At(map, k - 1) = e.at[k - 1]
    BY <1>1, <2>1, <2>2
  <2>4. \/ \E c \in map : Holds(c, k - 1) /\ Holds(c, k)
        \/ CanMerge(At(map, k - 1), At(map, k))
    BY <1>3, MergeSteps
  <2>5. ASSUME NEW c \in map, Holds(c, k - 1), Holds(c, k) PROVE At(map, k) = At(map, k - 1)
    <3>1. At(map, k) = c.at[k] /\ At(map, k - 1) = c.at[k - 1]
      BY <2>1, <2>5, AtIs
    <3>2. c.at[k] = c.at[k - 1]
      BY <2>1, <2>5 DEF OneValue
    <3> QED
      BY <3>1, <3>2
  <2>6. At(map, k) = At(map, k - 1)
    BY <2>4, <2>5 DEF SameMerge
  <2> QED
    BY <2>3, <2>6
<1>4. ASSUME NEW e \in new, NEW k \in Int, Holds(e, k) PROVE e.at[k] = e.at[e.start]
  <2> DEFINE T == {n \in Nat : e.start + n < e.limit /\ e.at[e.start + n] # e.at[e.start]}
  <2>1. T = {}
    <3> SUFFICES ASSUME T # {} PROVE FALSE
      OBVIOUS
    <3>1. PICK n \in T : \A m \in T : n <= m
      <4>1. T \in SUBSET Nat
        OBVIOUS
      <4> HIDE DEF T
      <4> QED
        BY <4>1, LeastNumber
    <3>2. n \in Nat /\ e.start + n < e.limit /\ e.at[e.start + n] # e.at[e.start]
      OBVIOUS
    <3>3. n # 0
      BY <1>2, <3>2
    <3>4. n - 1 \in Nat /\ ~ (n <= n - 1) /\ e.start + (n - 1) < e.limit
      BY <1>2, <3>2, <3>3
    <3>5. e.at[e.start + (n - 1)] = e.at[e.start]
      BY <3>1, <3>4
    <3>6. /\ e.start + n \in Int /\ e.start < e.start + n
          /\ (e.start + n) - 1 = e.start + (n - 1)
      BY <1>2, <3>2, <3>3
    <3> QED
      BY <1>3, <3>2, <3>5, <3>6
  <2>2. k - e.start \in Nat /\ e.start + (k - e.start) = k /\ k < e.limit
    BY <1>2, <1>4 DEF Holds
  <2> QED
    BY <2>1, <2>2
<1> QED
  BY <1>4 DEF OneValue

\* What is cut from an entry with one value, or fills a gap with one, has one.
LEMMA PiecesKeepOneValue ==
  ASSUME NEW map, IsMap(map), OneValue(map), NEW s \in Int, NEW l \in Int, s < l,
         NEW new, Pieces(new, map, s, l),
         NEW V, \A u \in new : \A k \in u.start..(u.limit - 1) : u.at[k] = V[k],
         \A k \in Int : (k < s \/ l <= k) /\ Covered(map, k) => V[k] = At(map, k),
         \A e \in map : \A j, k \in s..(l - 1) : Holds(e, j) /\ Holds(e, k) => V[j] = V[k],
         \A j, k \in s..(l - 1) : ~ Covered(map, j) /\ ~ Covered(map, k) => V[j] = V[k]
  PROVE  OneValue(new)
<1> SUFFICES ASSUME NEW u \in new, NEW j \in Int, NEW k \in Int, Holds(u, j), Holds(u, k)
             PROVE  u.at[j] = u.at[k]
  BY DEF OneValue
<1>1. \A c \in map : c.start \in Int /\ c.limit \in Int /\ c.start < c.limit
  BY DEF IsMap, IsEntry
<1>2. /\ u.start \in Int /\ u.limit \in Int /\ u.start < u.limit
      /\ \/ \E e \in map : Cut(u, e, s, l) /\ e.start <= u.start /\ u.limit <= e.limit
         \/ \E g \in Gaps(map, s, l) : u.start = g[1] /\ u.limit = g[2]
  BY DEF Pieces, IsEntry
<1>3. u.at[j] = V[j] /\ u.at[k] = V[k]
  <2>1. j \in u.start..(u.limit - 1) /\ k \in u.start..(u.limit - 1)
    BY <1>2 DEF Holds
  <2> QED
    BY <2>1
<1>4. ASSUME NEW e \in map, Cut(u, e, s, l), e.start <= u.start, u.limit <= e.limit
      PROVE  V[j] = V[k]
  <2>1. Holds(e, j) /\ Holds(e, k)
    BY <1>1, <1>2, <1>4 DEF Holds
  <2>2. CASE u.limit <= s \/ l <= u.start
    <3>1. (j < s \/ l <= j) /\ (k < s \/ l <= k)
      BY <1>2, <2>2 DEF Holds
    <3>2. At(map, j) = e.at[j] /\ At(map, k) = e.at[k] /\ Covered(map, j) /\ Covered(map, k)
      BY <2>1, AtIs
    <3>3. e.at[j] = e.at[k]
      BY <2>1 DEF OneValue
    <3> QED
      BY <3>1, <3>2, <3>3
  <2>3. CASE s <= u.start /\ u.limit <= l
    <3>1. j \in s..(l - 1) /\ k \in s..(l - 1)
      BY <1>2, <2>3 DEF Holds
    <3> QED
      BY <2>1, <3>1
  <2> QED
    BY <1>4, <2>2, <2>3 DEF Cut
<1>5. ASSUME NEW g \in Gaps(map, s, l), u.start = g[1], u.limit = g[2] PROVE V[j] = V[k]
  <2>1. /\ s <= g[1] /\ g[2] <= l /\ \A e \in map : ~ (e.start < g[2] /\ g[1] < e.limit)
    BY GapIs
  <2>2. j \in s..(l - 1) /\ k \in s..(l - 1)
    BY <1>2, <1>5, <2>1 DEF Holds
  <2>3. ~ Covered(map, j) /\ ~ Covered(map, k)
    BY <1>1, <1>2, <1>5, <2>1 DEF Holds, Covered
  <2> QED
    BY <2>2, <2>3
<1> QED
  BY <1>2, <1>3, <1>4, <1>5

\* Add and Remove leave entries with one value where they change ranges with one value.
LEMMA AddKeepsOneValue ==
  ASSUME SameMerge, NEW map, IsMap(map), OneValue(map), NEW s \in Int, NEW l \in Int, s < l, NEW f,
         \A j, k \in s..(l - 1) : f[j] = f[k]
  PROVE  OneValue(Add(map, s, l, f))
<1> DEFINE V == [k \in Int |-> IF s <= k /\ k < l THEN SumAt(map, f, k) ELSE At(map, k)]
           new == AddedTo(map, s, l, f)
<1>1. \A k \in Int : V[k] = IF s <= k /\ k < l THEN SumAt(map, f, k) ELSE At(map, k)
  OBVIOUS
<1>2. /\ Pieces(new, map, s, l)
      /\ \A u \in new : \A k \in u.start..(u.limit - 1) : u.at[k] = V[k]
      /\ \A k \in Int : Covered(new, k) <=> Covered(map, k) \/ (s <= k /\ k < l)
  BY AddedToIs
<1> HIDE DEF V
<1>3. \A k \in Int : (k < s \/ l <= k) /\ Covered(map, k) => V[k] = At(map, k)
  BY <1>1
<1>4. ASSUME NEW e \in map, NEW j \in s..(l - 1), NEW k \in s..(l - 1), Holds(e, j), Holds(e, k)
      PROVE  V[j] = V[k]
  <2>1. At(map, j) = e.at[j] /\ At(map, k) = e.at[k] /\ Covered(map, j) /\ Covered(map, k)
    BY <1>4, AtIs
  <2>2. e.at[j] = e.at[k]
    BY <1>4 DEF OneValue
  <2>3. V[j] = Added(At(map, j), f[j]) /\ V[k] = Added(At(map, k), f[k])
    BY <1>1, <2>1 DEF SumAt
  <2>4. f[j] = f[k]
    OBVIOUS
  <2> QED
    BY <2>1, <2>2, <2>3, <2>4
<1>5. \A j, k \in s..(l - 1) : ~ Covered(map, j) /\ ~ Covered(map, k) => V[j] = V[k]
  BY <1>1 DEF SumAt
<1> HIDE DEF new
<1>6. OneValue(new)
  BY <1>2, <1>3, <1>4, <1>5, PiecesKeepOneValue
<1>7. IsMap(new) /\ IsMap(Merge(new, s, l))
  <2>1. Pieces(new, map, s, l) /\ \A u \in new : \A k \in u.start..(u.limit - 1) : u.at[k] = V[k]
    BY <1>2
  <2> QED
    BY ONLY IsMap(map), s \in Int, l \in Int, s < l, <2>1, <1>3, ChangeIs
<1>8. OneValue(Merge(new, s, l))
  BY <1>6, <1>7, MergeKeepsOneValue
<1> QED
  BY <1>8 DEF Add, new

LEMMA OneValueIsUniform ==
  ASSUME NEW map, OneValue(map), NEW s \in Int, NEW l \in Int, NEW f,
         \A j, k \in s..(l - 1) : f[j] = f[k]
  PROVE  Uniform(map, s, l, f)
<1> SUFFICES ASSUME NEW e \in map, NEW j \in s..(l - 1), NEW k \in s..(l - 1), Holds(e, j), Holds(e, k)
             PROVE  Remaining(e.at[j], f[j]) = {} => Remaining(e.at[k], f[k]) = {}
  BY DEF Uniform
<1>1. e.at[j] = e.at[k] /\ f[j] = f[k]
  BY DEF OneValue
<1> QED
  BY <1>1

LEMMA RemoveKeepsOneValue ==
  ASSUME SameMerge, NEW map, IsMap(map), OneValue(map), NEW s \in Int, NEW l \in Int, s < l, NEW f,
         \A j, k \in s..(l - 1) : f[j] = f[k]
  PROVE  OneValue(Remove(map, s, l, f))
<1> DEFINE W == [k \in Int |-> IF s <= k /\ k < l THEN LeftOf(map, f, k)
                              ELSE At(map, k)]
           V == [k \in Int |-> IF Covered(map, k) THEN W[k] ELSE {}]
           new == RemovedFrom(map, s, l, f)
<1>1. \A k \in Int : W[k] = IF s <= k /\ k < l THEN LeftOf(map, f, k) ELSE At(map, k)
  OBVIOUS
<1>2. /\ Pieces(new, map, s, l)
      /\ \A u \in new : \A k \in u.start..(u.limit - 1) : u.at[k] = W[k]
      /\ \A k \in Int : Covered(new, k) <=>
                         Covered(map, k) /\ (s <= k /\ k < l => LeftAt(map, f, k) # {})
  <2>1. Uniform(map, s, l, f)
    BY OneValueIsUniform
  <2> QED
    BY <2>1, RemovedFromIs
<1>3. \A k \in Int : V[k] = IF Covered(map, k) THEN W[k] ELSE {}
  OBVIOUS
<1> HIDE DEF V, W
<1>4. ASSUME NEW u \in new, NEW k \in u.start..(u.limit - 1) PROVE u.at[k] = V[k]
  <2>1. u.start \in Int /\ u.limit \in Int
    BY <1>2 DEF Pieces, IsEntry
  <2> HIDE DEF new
  <2>2. k \in Int /\ Holds(u, k)
    BY <2>1 DEF Holds
  <2>3. Covered(map, k)
    BY <1>2, <2>2 DEF Covered
  <2> QED
    BY <1>2, <1>3, <2>2, <2>3
<1>5. \A k \in Int : (k < s \/ l <= k) /\ Covered(map, k) => V[k] = At(map, k)
  BY <1>1, <1>3
<1>6. ASSUME NEW e \in map, NEW j \in s..(l - 1), NEW k \in s..(l - 1), Holds(e, j), Holds(e, k)
      PROVE  V[j] = V[k]
  <2>1. At(map, j) = e.at[j] /\ At(map, k) = e.at[k] /\ Covered(map, j) /\ Covered(map, k)
    BY <1>6, AtIs
  <2>2. e.at[j] = e.at[k]
    BY <1>6 DEF OneValue
  <2>3. V[j] = LeftOf(map, f, j) /\ V[k] = LeftOf(map, f, k)
    BY <1>1, <1>3, <2>1
  <2>4. f[j] = f[k]
    OBVIOUS
  <2>5. LeftAt(map, f, j) = LeftAt(map, f, k)
    BY <2>1, <2>2, <2>4 DEF LeftAt
  <2> QED
    BY <2>3, <2>5 DEF LeftOf
<1>7. \A j, k \in s..(l - 1) : ~ Covered(map, j) /\ ~ Covered(map, k) => V[j] = V[k]
  BY <1>3
<1> HIDE DEF new
<1>8. OneValue(new)
  BY <1>2, <1>4, <1>5, <1>6, <1>7, PiecesKeepOneValue
<1>9. IsMap(new) /\ IsMap(Merge(new, s, l))
  BY <1>2, <1>4, <1>5, ChangeIs
<1>10. OneValue(Merge(new, s, l))
  BY <1>8, <1>9, MergeKeepsOneValue
<1> QED
  BY <1>10 DEF Remove, new

-----------------------------------------------------------------------------
(* AddRangeMap and RemoveRangeMap *)

\* The entries lie between two keys.
Bounded(E) == \E lo, hi \in Int : \A e \in E : lo <= e.start /\ e.start < hi

LEMMA PartIsMap ==
  ASSUME NEW E, IsMap(E), Bounded(E), NEW S \in SUBSET E
  PROVE  IsMap(S) /\ Bounded(S)
BY DEF IsMap, Disjoint, Bounded

LEMMA LastIs ==
  ASSUME NEW S, IsMap(S), Bounded(S), S # {}
  PROVE  /\ Last(S) \in S
         /\ \A d \in S \ {Last(S)} : d.start < Last(S).start
<1> DEFINE Starts == {e.start : e \in S}
<1>1. \A e \in S : e.start \in Int /\ e.limit \in Int /\ e.start < e.limit
  BY DEF IsMap, IsEntry
<1>2. PICK hi \in Int : \A e \in S : e.start < hi
  BY DEF Bounded
<1>3. Starts \in SUBSET Int /\ Starts # {} /\ \A x \in Starts : x <= hi
  BY <1>1, <1>2
<1> HIDE DEF Starts
<1>4. PICK x \in Starts : \A y \in Starts : y <= x
  BY <1>3, Largest
<1>5. \E e \in S : \A d \in S : d.start <= e.start
  BY <1>4 DEF Starts
<1>6. Last(S) \in S /\ \A d \in S : d.start <= Last(S).start
  BY <1>5 DEF Last
<1> DEFINE last == Last(S)
<1> HIDE DEF last
<1>7. last \in S /\ \A d \in S : d.start <= last.start
  BY <1>6 DEF last
<1>8. ASSUME NEW d \in S, d # last PROVE d.start < last.start
  <2>1. CASE d.start = last.start
    <3>1. Holds(d, d.start) /\ Holds(last, d.start)
      BY <1>1, <1>7, <2>1 DEF Holds
    <3> QED
      BY <1>1, <1>7, <1>8, <3>1, OneHolder
  <2> QED
    BY <1>1, <1>7, <2>1
<1> QED
  BY <1>7, <1>8 DEF last

\* f is what ChangeRangeMap computes for the parts of E.
Changes(f, map, E, mode) ==
  f = [S \in SUBSET E |-> IF S = {} THEN map ELSE Change(f[S \ {Last(S)}], Last(S), mode)]

\* The recursion of ChangeRangeMap goes back to earlier and earlier keys, so it ends.
LEMMA ChangesExist ==
  ASSUME NEW map, NEW E, IsMap(E), Bounded(E), NEW mode
  PROVE  \E f : Changes(f, map, E, mode)
<1> DEFINE Value(f, S) == IF S = {} THEN map ELSE Change(f[S \ {Last(S)}], Last(S), mode)
<1>1. PICK lo \in Int, hi \in Int : \A e \in E : lo <= e.start /\ e.start < hi
  BY DEF Bounded
<1>2. \A e \in E : e.start \in Int
  BY DEF IsMap, IsEntry
<1> DEFINE Under(S, n) == \A e \in S : e.start < lo + n
           T == {n \in Nat : ~ \E f : \A S \in SUBSET E : Under(S, n) => f[S] = Value(f, S)}
<1>3. ASSUME NEW S \in SUBSET E, S # {}
      PROVE  /\ Last(S) \in S /\ S \ {Last(S)} \in SUBSET E
             /\ \A n \in Nat : Under(S, n + 1) => Under(S \ {Last(S)}, n)
  <2>1. Last(S) \in S /\ \A d \in S \ {Last(S)} : d.start < Last(S).start
    BY <1>3, PartIsMap, LastIs
  <2>2. ASSUME NEW n \in Nat, Under(S, n + 1), NEW d \in S \ {Last(S)} PROVE d.start < lo + n
    <3>1. d.start < Last(S).start /\ Last(S).start < lo + (n + 1)
      BY <2>1, <2>2
    <3>2. d.start \in Int /\ Last(S).start \in Int
      BY <1>2, <2>1
    <3> QED
      BY <3>1, <3>2
  <2> QED
    BY <2>1, <2>2
<1>4. T = {}
  <2> SUFFICES ASSUME T # {} PROVE FALSE
    OBVIOUS
  <2>1. PICK n \in T : \A m \in T : n <= m
    <3>1. T \in SUBSET Nat
      OBVIOUS
    <3> HIDE DEF T
    <3> QED
      BY <3>1, LeastNumber
  <2>2. n \in Nat
    OBVIOUS
  <2>3. CASE n = 0
    <3> DEFINE f == [S \in SUBSET E |-> map]
    <3>1. ASSUME NEW S \in SUBSET E, Under(S, 0) PROVE f[S] = Value(f, S)
      <4>1. S = {}
        BY <1>1, <1>2, <3>1
      <4> QED
        BY <4>1
    <3> HIDE DEF f, Value, Under
    <3>2. \E g : \A S \in SUBSET E : Under(S, 0) => g[S] = Value(g, S)
      BY <3>1
    <3> QED
      BY <2>1, <2>3, <3>2
  <2>4. CASE n # 0
    <3>1. n - 1 \in Nat /\ n = (n - 1) + 1 /\ ~ (n <= n - 1)
      BY <2>2, <2>4
    <3>2. n - 1 \notin T
      BY <2>1, <3>1
    <3>3. PICK g : \A S \in SUBSET E : Under(S, n - 1) => g[S] = Value(g, S)
      BY <3>1, <3>2
    <3> DEFINE f == [S \in SUBSET E |-> IF Under(S, n - 1) THEN g[S] ELSE Value(g, S)]
    <3>4. \A S \in SUBSET E : f[S] = IF Under(S, n - 1) THEN g[S] ELSE Value(g, S)
      OBVIOUS
    <3>5. \A S \in SUBSET E : f[S] = Value(g, S)
      BY <3>3, <3>4
    <3>6. \A S \in SUBSET E : Under(S, n - 1) => f[S] = g[S]
      BY <3>4
    <3> HIDE DEF f
    <3>7. ASSUME NEW S \in SUBSET E, Under(S, n) PROVE f[S] = Value(f, S)
      <4>1. CASE S = {}
        BY <3>5, <4>1
      <4>2. CASE S # {}
        <5>1. S \ {Last(S)} \in SUBSET E /\ Under(S \ {Last(S)}, n - 1)
          <6>1. Under(S, (n - 1) + 1)
            BY <3>1, <3>7
          <6> HIDE DEF Under
          <6> QED
            BY <1>3, <3>1, <4>2, <6>1
        <5> HIDE DEF Under
        <5>2. f[S \ {Last(S)}] = g[S \ {Last(S)}]
          BY <3>6, <5>1
        <5> QED
          BY <3>5, <4>2, <5>2
      <4> QED
        BY <4>1, <4>2
    <3> HIDE DEF Value, Under
    <3>8. \E h : \A S \in SUBSET E : Under(S, n) => h[S] = Value(h, S)
      BY <3>7
    <3> QED
      BY <2>1, <3>8
  <2> QED
    BY <2>3, <2>4
<1>5. PICK n \in Nat : n = IF lo <= hi THEN hi - lo ELSE 0
  BY <1>1
<1>6. \A S \in SUBSET E : Under(S, n)
  BY <1>1, <1>2, <1>5
<1>7. PICK f : \A S \in SUBSET E : f[S] = Value(f, S)
  <2>1. n \notin T
    BY <1>4
  <2>2. PICK f : \A S \in SUBSET E : Under(S, n) => f[S] = Value(f, S)
    BY <2>1
  <2> HIDE DEF Under, Value
  <2> QED
    BY <1>6, <2>2
<1> DEFINE h == [S \in SUBSET E |-> f[S]]
<1>8. \A S \in SUBSET E : h[S] = f[S]
  OBVIOUS
<1>9. \A S \in SUBSET E : f[S] = Value(h, S)
  <2> SUFFICES ASSUME NEW S \in SUBSET E PROVE f[S] = Value(h, S)
    OBVIOUS
  <2> HIDE DEF h
  <2>1. S \ {Last(S)} \in SUBSET E
    OBVIOUS
  <2>2. h[S \ {Last(S)}] = f[S \ {Last(S)}]
    BY <1>8, <2>1
  <2> QED
    BY <1>7, <2>2
<1>10. h = [S \in SUBSET E |-> Value(h, S)]
  <2> HIDE DEF Value
  <2>1. [S \in SUBSET E |-> f[S]] = [S \in SUBSET E |-> Value(h, S)]
    BY <1>9
  <2> QED
    BY <2>1
<1> HIDE DEF h
<1>11. Changes(h, map, E, mode)
  BY <1>10 DEF Changes
<1> QED
  BY <1>11

\* f[S] is the map after the changes by S, the last of them by Last(S).
Steps(f, map, E, mode) ==
  /\ ChangeRangeMap(map, E, mode) = f[E] /\ f[{}] = map
  /\ \A S \in SUBSET E : S # {} => f[S] = Change(f[S \ {Last(S)}], Last(S), mode)

LEMMA ChangedIs ==
  ASSUME NEW map, NEW E, IsMap(E), Bounded(E), NEW mode
  PROVE  \E f : Steps(f, map, E, mode)
<1> DEFINE f == CHOOSE f : Changes(f, map, E, mode)
<1>1. \E g : Changes(g, map, E, mode)
  BY ChangesExist
<1>2. Changes(f, map, E, mode)
  BY <1>1
<1>3. ChangeRangeMap(map, E, mode) = f[E]
  BY DEF ChangeRangeMap, Changes
<1> HIDE DEF f
<1>4. \A S \in SUBSET E : f[S] = IF S = {} THEN map ELSE Change(f[S \ {Last(S)}], Last(S), mode)
  BY <1>2 DEF Changes
<1>5. {} \in SUBSET E
  OBVIOUS
<1>6. Steps(f, map, E, mode)
  BY <1>3, <1>4, <1>5 DEF Steps
<1> QED
  BY <1>6

\* Induction over the parts of E that ChangeRangeMap goes through.
LEMMA PartsInduction ==
  ASSUME NEW E, IsMap(E), Bounded(E), NEW Good, {} \in Good,
         \A S \in SUBSET E : S # {} /\ S \ {Last(S)} \in Good => S \in Good
  PROVE  E \in Good
<1>1. PICK lo \in Int, hi \in Int : \A e \in E : lo <= e.start /\ e.start < hi
  BY DEF Bounded
<1>2. \A e \in E : e.start \in Int
  BY DEF IsMap, IsEntry
<1> DEFINE Under(S, n) == \A e \in S : e.start < lo + n
           T == {n \in Nat : ~ \A S \in SUBSET E : Under(S, n) => S \in Good}
<1>3. T = {}
  <2> SUFFICES ASSUME T # {} PROVE FALSE
    OBVIOUS
  <2>1. PICK n \in T : \A m \in T : n <= m
    <3>1. T \in SUBSET Nat
      OBVIOUS
    <3> HIDE DEF T
    <3> QED
      BY <3>1, LeastNumber
  <2>2. PICK S \in SUBSET E : Under(S, n) /\ S \notin Good
    OBVIOUS
  <2>3. n \in Nat /\ S # {}
    BY <2>2
  <2>4. n # 0
    BY <1>1, <1>2, <2>2, <2>3
  <2>5. n - 1 \in Nat /\ ~ (n <= n - 1)
    BY <2>3, <2>4
  <2>6. \A R \in SUBSET E : Under(R, n - 1) => R \in Good
    BY <2>1, <2>5
  <2>7. Last(S) \in S /\ \A d \in S \ {Last(S)} : d.start < Last(S).start
    BY <2>3, PartIsMap, LastIs
  <2>8. Under(S \ {Last(S)}, n - 1)
    <3> SUFFICES ASSUME NEW d \in S \ {Last(S)} PROVE d.start < lo + (n - 1)
      OBVIOUS
    <3>1. d.start < Last(S).start /\ Last(S).start < lo + n
      BY <2>2, <2>7
    <3>2. d.start \in Int /\ Last(S).start \in Int
      BY <1>2, <2>7
    <3> QED
      BY <2>3, <3>1, <3>2
  <2>9. S \ {Last(S)} \in Good
    <3>1. S \ {Last(S)} \in SUBSET E
      OBVIOUS
    <3> HIDE DEF Under
    <3> QED
      BY <2>6, <2>8, <3>1
  <2> QED
    BY <2>2, <2>3, <2>9
<1>4. PICK n \in Nat : n = IF lo <= hi THEN hi - lo ELSE 0
  BY <1>1
<1>5. Under(E, n)
  BY <1>1, <1>2, <1>4
<1>6. n \notin T
  BY <1>3
<1> QED
  BY <1>5, <1>6

\* What the last entry has to do with the keys of S.
LEMMA LastSplits ==
  ASSUME NEW S, IsMap(S), NEW e \in S, NEW k \in Int
  PROVE  /\ Holds(e, k) => Covered(S, k) /\ At(S, k) = e.at[k] /\ ~ Covered(S \ {e}, k)
         /\ ~ Holds(e, k) => /\ Covered(S, k) <=> Covered(S \ {e}, k)
                             /\ Covered(S, k) => At(S, k) = At(S \ {e}, k)
<1>1. IsMap(S \ {e})
  BY DEF IsMap, Disjoint
<1>2. CASE Holds(e, k)
  <2>1. Covered(S, k) /\ At(S, k) = e.at[k]
    BY <1>2, AtIs
  <2>2. ~ Covered(S \ {e}, k)
    BY <1>2, OneHolder DEF Covered
  <2> QED
    BY <1>2, <2>1, <2>2
<1>3. CASE ~ Holds(e, k)
  <2>1. Covered(S, k) <=> Covered(S \ {e}, k)
    BY <1>3 DEF Covered
  <2>2. ASSUME Covered(S, k) PROVE At(S, k) = At(S \ {e}, k)
    <3>1. PICK d \in S \ {e} : Holds(d, k)
      BY <2>1, <2>2 DEF Covered
    <3>2. d \in S
      OBVIOUS
    <3>3. At(S, k) = d.at[k]
      BY <3>1, <3>2, AtIs
    <3>4. At(S \ {e}, k) = d.at[k]
      BY <1>1, <3>1, AtIs
    <3> QED
      BY <3>3, <3>4
  <2> QED
    BY <1>3, <2>1, <2>2
<1> QED
  BY <1>2, <1>3

\* r is map with the entries of S added.
IsSum(r, map, S) ==
  /\ IsMap(r) /\ (Canonical(map) => Canonical(r))
  /\ SameMerge /\ OneValue(map) /\ OneValue(S) => OneValue(r)
  /\ \A k \in Int : Covered(r, k) <=> Covered(map, k) \/ Covered(S, k)
  /\ \A k \in Int : Covered(r, k) =>
       At(r, k) = IF ~ Covered(S, k) THEN At(map, k)
                  ELSE IF Covered(map, k) THEN Added(At(map, k), At(S, k)) ELSE At(S, k)

LEMMA OneValueFlat ==
  ASSUME NEW S, IsMap(S), OneValue(S), NEW e \in S
  PROVE  \A j, k \in e.start..(e.limit - 1) : e.at[j] = e.at[k]
BY DEF OneValue, IsMap, IsEntry, Holds

LEMMA AddLast ==
  ASSUME NEW map, NEW S, IsMap(S), NEW e \in S, NEW r, IsSum(r, map, S \ {e})
  PROVE  IsSum(Add(r, e.start, e.limit, e.at), map, S)
<1> DEFINE new == Add(r, e.start, e.limit, e.at)
<1>1. e.start \in Int /\ e.limit \in Int /\ e.start < e.limit
  BY DEF IsMap, IsEntry
<1>2. /\ IsMap(r) /\ (Canonical(map) => Canonical(r))
      /\ SameMerge /\ OneValue(map) /\ OneValue(S \ {e}) => OneValue(r)
      /\ \A k \in Int : Covered(r, k) <=> Covered(map, k) \/ Covered(S \ {e}, k)
      /\ \A k \in Int : Covered(r, k) =>
           At(r, k) = IF ~ Covered(S \ {e}, k) THEN At(map, k)
                      ELSE IF Covered(map, k) THEN Added(At(map, k), At(S \ {e}, k)) ELSE At(S \ {e}, k)
  BY DEF IsSum
<1>3. /\ IsMap(new) /\ (Canonical(r) => Canonical(new))
      /\ \A k \in Int : Covered(new, k) <=> Covered(r, k) \/ (e.start <= k /\ k < e.limit)
      /\ \A k \in Int : Covered(new, k) =>
           At(new, k) = IF e.start <= k /\ k < e.limit THEN SumAt(r, e.at, k) ELSE At(r, k)
  BY <1>1, <1>2, AddIsPointwise
<1>4. SameMerge /\ OneValue(map) /\ OneValue(S) => OneValue(new)
  <2> SUFFICES ASSUME SameMerge, OneValue(map), OneValue(S) PROVE OneValue(new)
    OBVIOUS
  <2>1. OneValue(S \ {e})
    BY DEF OneValue
  <2>2. OneValue(r)
    BY <1>2, <2>1
  <2>3. \A j, k \in e.start..(e.limit - 1) : e.at[j] = e.at[k]
    BY OneValueFlat
  <2> QED
    BY <1>1, <1>2, <2>2, <2>3, AddKeepsOneValue
<1> HIDE DEF new
<1>5. ASSUME NEW k \in Int
      PROVE  /\ Covered(new, k) <=> Covered(map, k) \/ Covered(S, k)
             /\ Covered(new, k) =>
                  At(new, k) = IF ~ Covered(S, k) THEN At(map, k)
                               ELSE IF Covered(map, k) THEN Added(At(map, k), At(S, k)) ELSE At(S, k)
  <2>1. CASE Holds(e, k)
    <3>1. Covered(S, k) /\ At(S, k) = e.at[k] /\ ~ Covered(S \ {e}, k)
      BY <2>1, LastSplits
    <3>2. e.start <= k /\ k < e.limit
      BY <2>1 DEF Holds
    <3>3. Covered(r, k) <=> Covered(map, k)
      BY <1>2, <3>1
    <3>4. Covered(map, k) => At(r, k) = At(map, k)
      BY <1>2, <3>1, <3>3
    <3>5. Covered(new, k) /\ At(new, k) = SumAt(r, e.at, k)
      BY <1>3, <3>2
    <3> QED
      BY <3>1, <3>3, <3>4, <3>5 DEF SumAt
  <2>2. CASE ~ Holds(e, k)
    <3>1. /\ Covered(S, k) <=> Covered(S \ {e}, k)
          /\ Covered(S, k) => At(S, k) = At(S \ {e}, k)
      BY <2>2, LastSplits
    <3>2. ~ (e.start <= k /\ k < e.limit)
      BY <2>2 DEF Holds
    <3>3. Covered(new, k) <=> Covered(r, k)
      BY <1>3, <3>2
    <3>4. Covered(new, k) => At(new, k) = At(r, k)
      BY <1>3, <3>2
    <3>5. Covered(r, k) <=> Covered(map, k) \/ Covered(S, k)
      BY <1>2, <3>1
    <3>6. Covered(r, k) => At(r, k) = IF ~ Covered(S, k) THEN At(map, k)
                               ELSE IF Covered(map, k) THEN Added(At(map, k), At(S, k)) ELSE At(S, k)
      BY <1>2, <3>1
    <3> QED
      BY <3>3, <3>4, <3>5, <3>6
  <2> QED
    BY <2>1, <2>2
<1> QED
  BY <1>2, <1>3, <1>4, <1>5 DEF IsSum, new

\* Adding a map to a map adds at every key what it has there.
THEOREM AddRangeMapIsPointwise ==
  ASSUME NEW map, IsMap(map), NEW E, IsMap(E), Bounded(E)
  PROVE  IsSum(ChangeRangeMap(map, E, "add"), map, E)
<1>1. PICK f : Steps(f, map, E, "add")
  BY ChangedIs
<1> DEFINE Good == {S \in SUBSET E : IsSum(f[S], map, S)}
<1>2. {} \in Good
  BY <1>1 DEF IsSum, Covered, Steps
<1>3. ASSUME NEW S \in SUBSET E, S # {}, S \ {Last(S)} \in Good PROVE S \in Good
  <2>1. IsMap(S) /\ Last(S) \in S
    BY <1>3, PartIsMap, LastIs
  <2>2. IsSum(f[S \ {Last(S)}], map, S \ {Last(S)})
    BY <1>3
  <2>3. f[S] = Add(f[S \ {Last(S)}], Last(S).start, Last(S).limit, Last(S).at)
    BY <1>1, <1>3 DEF Change, Steps
  <2>4. IsSum(f[S], map, S)
    BY <2>1, <2>2, <2>3, AddLast
  <2> QED
    BY <2>4
<1> HIDE DEF Good
<1>4. E \in Good
  BY <1>2, <1>3, PartsInduction
<1> QED
  BY <1>1, <1>4 DEF Good, Steps

\* r is map with the entries of S removed.
IsRest(r, map, S) ==
  /\ IsMap(r) /\ (Canonical(map) => Canonical(r))
  /\ SameMerge /\ OneValue(map) /\ OneValue(S) => OneValue(r)
  /\ \A k \in Int : Covered(r, k) <=>
       Covered(map, k) /\ (Covered(S, k) => Remaining(At(map, k), At(S, k)) # {})
  /\ \A k \in Int : Covered(r, k) =>
       At(r, k) = IF Covered(S, k) THEN CHOOSE x \in Remaining(At(map, k), At(S, k)) : TRUE
                  ELSE At(map, k)

\* RemoveFrom decides for every part of an entry alike: it leaves nothing of any value, or
\* entries have one value.
AllAlike(map, E) ==
  \/ \A x, y : Remaining(x, y) = {}
  \/ SameMerge /\ OneValue(map) /\ OneValue(E)

LEMMA RemoveLast ==
  ASSUME NEW map, NEW S, IsMap(S), AllAlike(map, S), NEW e \in S, NEW r, IsRest(r, map, S \ {e})
  PROVE  IsRest(Remove(r, e.start, e.limit, e.at), map, S)
<1> DEFINE new == Remove(r, e.start, e.limit, e.at)
<1>1. e.start \in Int /\ e.limit \in Int /\ e.start < e.limit
  BY DEF IsMap, IsEntry
<1>2. /\ IsMap(r) /\ (Canonical(map) => Canonical(r))
      /\ SameMerge /\ OneValue(map) /\ OneValue(S \ {e}) => OneValue(r)
      /\ \A k \in Int : Covered(r, k) <=>
           Covered(map, k) /\ (Covered(S \ {e}, k) => Remaining(At(map, k), At(S \ {e}, k)) # {})
      /\ \A k \in Int : Covered(r, k) =>
           At(r, k) = IF Covered(S \ {e}, k)
                      THEN CHOOSE x \in Remaining(At(map, k), At(S \ {e}, k)) : TRUE ELSE At(map, k)
  BY DEF IsRest
<1>3. ASSUME SameMerge, OneValue(map), OneValue(S)
      PROVE  OneValue(r) /\ \A j, k \in e.start..(e.limit - 1) : e.at[j] = e.at[k]
  <2>1. OneValue(S \ {e})
    BY <1>3 DEF OneValue
  <2> QED
    BY <1>2, <1>3, <2>1, OneValueFlat
<1>4. Uniform(r, e.start, e.limit, e.at)
  <2>1. CASE \A x, y : Remaining(x, y) = {}
    BY <2>1 DEF Uniform
  <2>2. CASE SameMerge /\ OneValue(map) /\ OneValue(S)
    BY <1>1, <1>3, <2>2, OneValueIsUniform
  <2> QED
    BY <2>1, <2>2 DEF AllAlike
<1>5. /\ IsMap(new) /\ (Canonical(r) => Canonical(new))
      /\ \A k \in Int : Covered(new, k) <=>
           Covered(r, k) /\ (e.start <= k /\ k < e.limit => LeftAt(r, e.at, k) # {})
      /\ \A k \in Int : Covered(new, k) =>
           At(new, k) = IF e.start <= k /\ k < e.limit
                        THEN LeftOf(r, e.at, k) ELSE At(r, k)
  BY <1>1, <1>2, <1>4, RemoveIsPointwise
<1>6. SameMerge /\ OneValue(map) /\ OneValue(S) => OneValue(new)
  BY <1>1, <1>2, <1>3, RemoveKeepsOneValue
<1> HIDE DEF new
<1>7. ASSUME NEW k \in Int
      PROVE  /\ Covered(new, k) <=>
                  Covered(map, k) /\ (Covered(S, k) => Remaining(At(map, k), At(S, k)) # {})
             /\ Covered(new, k) =>
                  At(new, k) = IF Covered(S, k) THEN CHOOSE x \in Remaining(At(map, k), At(S, k)) : TRUE
                               ELSE At(map, k)
  <2>1. CASE Holds(e, k)
    <3>1. Covered(S, k) /\ At(S, k) = e.at[k] /\ ~ Covered(S \ {e}, k)
      BY <2>1, LastSplits
    <3>2. e.start <= k /\ k < e.limit
      BY <2>1 DEF Holds
    <3>3. Covered(r, k) <=> Covered(map, k)
      BY <1>2, <3>1
    <3>4. Covered(map, k) => At(r, k) = At(map, k)
      BY <1>2, <3>1, <3>3
    <3>5. Covered(new, k) <=> Covered(r, k) /\ LeftAt(r, e.at, k) # {}
      BY <1>5, <3>2
    <3>6. Covered(new, k) => At(new, k) = LeftOf(r, e.at, k)
      BY <1>5, <3>2
    <3>7. Covered(map, k) => LeftAt(r, e.at, k) = Remaining(At(map, k), At(S, k))
      BY <3>1, <3>4 DEF LeftAt
    <3> QED
      BY <3>1, <3>3, <3>5, <3>6, <3>7 DEF LeftOf
  <2>2. CASE ~ Holds(e, k)
    <3>1. /\ Covered(S, k) <=> Covered(S \ {e}, k)
          /\ Covered(S, k) => At(S, k) = At(S \ {e}, k)
      BY <2>2, LastSplits
    <3>2. ~ (e.start <= k /\ k < e.limit)
      BY <2>2 DEF Holds
    <3>3. Covered(new, k) <=> Covered(r, k)
      BY <1>5, <3>2
    <3>4. Covered(new, k) => At(new, k) = At(r, k)
      BY <1>5, <3>2
    <3>5. Covered(r, k) <=> Covered(map, k) /\ (Covered(S, k) => Remaining(At(map, k), At(S, k)) # {})
      BY <1>2, <3>1
    <3>6. Covered(r, k) =>
            At(r, k) = IF Covered(S, k) THEN CHOOSE x \in Remaining(At(map, k), At(S, k)) : TRUE
                       ELSE At(map, k)
      BY <1>2, <3>1
    <3> QED
      BY <3>3, <3>4, <3>5, <3>6
  <2> QED
    BY <2>1, <2>2
<1> QED
  BY <1>2, <1>5, <1>6, <1>7 DEF IsRest, new

\* Removing a map from a map takes away at every key what it has there.
THEOREM RemoveRangeMapIsPointwise ==
  ASSUME NEW map, IsMap(map), NEW E, IsMap(E), Bounded(E), AllAlike(map, E)
  PROVE  IsRest(ChangeRangeMap(map, E, "remove"), map, E)
<1>1. PICK f : Steps(f, map, E, "remove")
  BY ChangedIs
<1> DEFINE Good == {S \in SUBSET E : IsRest(f[S], map, S)}
<1>2. {} \in Good
  BY <1>1 DEF IsRest, Covered, Steps
<1>3. ASSUME NEW S \in SUBSET E, S # {}, S \ {Last(S)} \in Good PROVE S \in Good
  <2>1. IsMap(S) /\ Last(S) \in S
    BY <1>3, PartIsMap, LastIs
  <2>2. IsRest(f[S \ {Last(S)}], map, S \ {Last(S)})
    BY <1>3
  <2>3. f[S] = Remove(f[S \ {Last(S)}], Last(S).start, Last(S).limit, Last(S).at)
    BY <1>1, <1>3 DEF Change, Steps
  <2>4. AllAlike(map, S)
    BY DEF AllAlike, OneValue
  <2>5. IsRest(f[S], map, S)
    BY <2>1, <2>2, <2>3, <2>4, RemoveLast
  <2> QED
    BY <2>5
<1> HIDE DEF Good
<1>4. E \in Good
  BY <1>2, <1>3, PartsInduction
<1> QED
  BY <1>1, <1>4 DEF Good, Steps
=============================================================================
