------------------------------ MODULE SnapGroup ------------------------------
(***************************************************************************)
(* The groups of tool_libs/snap_group.cc: which snapshots may share a      *)
(* runner.  A snapshot is known by its summary; its mappings are a set of  *)
(* entries of MappedMemoryMap.                                             *)
(***************************************************************************)
EXTENDS MappedMemoryMap

EmptyGroup == [ids |-> {}, map |-> {}]

\* The policy kAllowWriteConflictsWithSamePerm, which PartitionCorpus chooses.
CanAddSnapshot(group, s) ==
  /\ s.id \notin group.ids
  /\ \A m \in s.mappings : \A e \in P!Find(group.map, m.start, m.limit) :
       "w" \in PermsOf(m) /\ PermsOf(e) = PermsOf(m) \cup {kMapped}

AddSnapshot(group, s) ==
  [ids |-> group.ids \cup {s.id},
   map |-> P!ChangeRangeMap(group.map, {Ranged(m, PermsOf(m) \cup {kMapped}) : m \in s.mappings},
                            "add")]

\* Two snapshots may share a runner: what both map, both may write, with the same
\* permissions.
Compatible(s, t) ==
  \A m \in s.mappings, n \in t.mappings :
    Cells(m) \cap Cells(n) # {} => "w" \in PermsOf(m) /\ PermsOf(m) = PermsOf(n)
=============================================================================
