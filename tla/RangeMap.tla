------------------------------ MODULE RangeMap ------------------------------
(***************************************************************************)
(* util/range_map.h: a map from ranges of keys to values, kept as disjoint *)
(* ranges that are split where a change begins or ends and joined with     *)
(* their neighbours afterwards.                                            *)
(*                                                                         *)
(* A map is a set of entries; an entry maps [start, limit) and holds the   *)
(* value of every key in "at", which is how Slice and Merge of the three   *)
(* Methods classes of the repository see a value: one value for the whole  *)
(* range (permissions, set membership) or one byte per key.  The order of  *)
(* the entries in std::map follows from their starts.                      *)
(***************************************************************************)
EXTENDS Integers

CONSTANTS Added(_, _),     \* Methods::AddTo, for one key: old value, value added
          Remaining(_, _), \* Methods::RemoveFrom: {} when nothing is left, else {what is left}
          CanMerge(_, _)   \* Methods::CanMerge: the last value before, the first after

\* The part of f on [s, l) as an entry (Methods::Slice).
Entry(s, l, f) == [start |-> s, limit |-> l, at |-> [k \in s..(l - 1) |-> f[k]]]

\* The same value v for all keys of [s, l).
Flat(s, l, v) == [k \in s..(l - 1) |-> v]

Holds(e, k) == e.start <= k /\ k < e.limit

\* The entries that overlap [s, l).
Find(map, s, l) == {e \in map : e.start < l /\ s < e.limit}

Covered(map, k) == \E e \in map : Holds(e, k)

At(map, k) == (CHOOSE e \in map : Holds(e, k)).at[k]

\* Whether [s, l) is covered without a gap.
Covers(map, s, l) == \A k \in s..(l - 1) : Covered(map, k)

-----------------------------------------------------------------------------

\* The ranges of [s, l) between the entries.
Gaps(map, s, l) ==
  LET F == Find(map, s, l)
  IN  {g \in ({s} \cup {e.limit : e \in F}) \X ({l} \cup {e.start : e \in F}) :
         /\ s <= g[1] /\ g[1] < g[2] /\ g[2] <= l
         /\ Find(map, g[1], g[2]) = {}}

\* Mutant: what lies beyond the end of the change is lost.
RestLeft(e, s, l) == {Entry(p[1], p[2], e.at) : p \in {q \in {<<e.start, s>>} : q[1] < q[2]}}

\* What a change of [s, l) leaves of the entry e, and what it changes of it.
Rest(e, s, l) == {Entry(p[1], p[2], e.at) :
                    p \in {q \in {<<e.start, s>>, <<l, e.limit>>} : q[1] < q[2]}}
Shared(e, s, l) == Entry(IF s < e.start THEN e.start ELSE s,
                         IF e.limit < l THEN e.limit ELSE l, e.at)

Untouched(map, s, l) ==
  (map \ Find(map, s, l)) \cup UNION {Rest(e, s, l) : e \in Find(map, s, l)}
Affected(map, s, l) == {Shared(e, s, l) : e \in Find(map, s, l)}

\* Where entries touch within [s, l] and may be merged.
Joints(map, s, l) ==
  {b.start : b \in {b \in map : \E a \in map : /\ a.limit = b.start
                                             /\ s <= b.start /\ b.start <= l
                                             /\ CanMerge(a.at[a.limit - 1], b.at[b.start])}}

\* The first and the last entry of every stretch that becomes one entry.
Runs(map, s, l) ==
  {r \in map \X map :
     /\ r[1].start <= r[2].start
     /\ r[1].start \notin Joints(map, s, l) /\ r[2].limit \notin Joints(map, s, l)
     /\ \A c \in map : r[1].start < c.start /\ c.start <= r[2].start
                          => c.start \in Joints(map, s, l)}
Joined(map, r) ==
  Entry(r[1].start, r[2].limit, [k \in r[1].start..(r[2].limit - 1) |-> At(map, k)])
Merge(map, s, l) == {Joined(map, r) : r \in Runs(map, s, l)}

\* Adds f on [s, l): to the values there, and as new entries in the gaps.
AddedTo(map, s, l, f) ==
  Untouched(map, s, l)
    \cup {Entry(g[1], g[2], f) : g \in Gaps(map, s, l)}
    \cup {[e EXCEPT !.at = [k \in DOMAIN e.at |-> Added(e.at[k], f[k])]] :
            e \in Affected(map, s, l)}
Add(map, s, l, f) == Merge(AddedTo(map, s, l, f), s, l)

\* Takes f away on [s, l); an entry of which nothing is left goes.
RemovedFrom(map, s, l, f) ==
  Untouched(map, s, l)
    \cup {[e EXCEPT !.at = [k \in DOMAIN e.at |->
                              CHOOSE x \in Remaining(e.at[k], f[k]) : TRUE]] :
            e \in {e \in Affected(map, s, l) :
                     \A k \in DOMAIN e.at : Remaining(e.at[k], f[k]) # {}}}
Remove(map, s, l, f) == Merge(RemovedFrom(map, s, l, f), s, l)

Change(map, e, mode) == IF mode = "add" THEN Add(map, e.start, e.limit, e.at)
                                        ELSE Remove(map, e.start, e.limit, e.at)

Last(E) == CHOOSE e \in E : \A d \in E : d.start <= e.start

\* Adds or removes every entry of E, in the order of their keys.
ChangeRangeMap(map, E, mode) ==
  LET changed[S \in SUBSET E] ==
        IF S = {} THEN map ELSE Change(changed[S \ {Last(S)}], Last(S), mode)
  IN  changed[E]

-----------------------------------------------------------------------------

\* The entries of y inside [s, l), cut to it.
Clipped(y, s, l) == {Shared(e, s, l) : e \in Find(y, s, l)}

Disjoint(map) == \A a, b \in map : a # b => a.limit <= b.start \/ b.limit <= a.start

\* No two neighbours could be joined: equal contents have equal entries, which
\* is what operator== relies on.
Canonical(map) == \A a, b \in map :
                    a.limit = b.start => ~ CanMerge(a.at[a.limit - 1], b.at[b.start])
=============================================================================
