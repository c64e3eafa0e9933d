------------------------------- MODULE MCData -------------------------------
(***************************************************************************)
(* The data the programs share and the tools that compute something, with   *)
(* nothing to wait for: "part" chooses which one the behaviour is about,   *)
(* the others stay where they start.                                       *)
(***************************************************************************)
EXTENDS Orchestrator, MemoryState, Snapshot, FaultSweep, Proxies, Evolution

VARIABLE part

DataInit ==
  /\ part \in {"memory", "snapshot", "sweep", "proxy", "evolution", "variants", "session"}
  /\ MemoryInit /\ SnapInit
  /\ IF part = "sweep" THEN SweepInit
     ELSE /\ order = [tool |-> Plain, jobs |-> 1] /\ items = <<>> /\ output = <<>>
          /\ goldens = <<>> /\ climbed = <<>> /\ verdict = [status |-> "idle", selected |-> {}]
  /\ IF part = "proxy" THEN ProxyInit
     ELSE /\ proxy = [at |-> "none"] /\ run_state = NoRun /\ gen = BeforeBatch /\ pmu = NoEvents
  /\ IF part = "evolution" THEN EvoInit ELSE evo = [at |-> "none"]
  /\ IF part = "variants" THEN VariantsInit ELSE variants = [at |-> "none"]
  /\ Init /\ (part # "session" => ~session_logging /\ ~past_deadline)

DataNext ==
  /\ UNCHANGED part
  /\ \/ part = "memory" /\ MemoryNext
     \/ part # "memory" /\ UNCHANGED memvars
  /\ \/ part = "snapshot" /\ SnapNext
     \/ part # "snapshot" /\ UNCHANGED snap
  /\ \/ part = "sweep" /\ SweepNext
     \/ part # "sweep" /\ UNCHANGED sweepvars
  /\ \/ part = "proxy" /\ ProxyNext
     \/ part # "proxy" /\ UNCHANGED proxyvars
  /\ \/ part = "evolution" /\ EvoNext
     \/ part # "evolution" /\ UNCHANGED evo
  /\ \/ part = "variants" /\ WriteVariant
     \/ part # "variants" /\ UNCHANGED variants
  /\ \/ part = "session" /\ Next
     \/ part # "session" /\ UNCHANGED vars

DataSpec ==
  DataInit /\ [][DataNext]_<<part, memvars, snap, sweepvars, proxyvars, evo, variants, vars>>
-----------------------------------------------------------------------------
(* Memory state *)

\* After any sequence of operations the three maps agree, and the commands and bytes for
\* a snapshot are what takes the memory there.
MemoryIsRight == part = "memory" => MapsConsistent /\ DeltaIsRight

LOCAL E(s, l, v) == P!Entry(s, l, P!Flat(s, l, v))

\* Touching mappings beside forbidden permissions; forbidden permissions on both
\* sides of a mapping; one mapping of everything.
SomeSnapshots ==
  {SnapshotOf({E(0, 1, {"r"}), E(1, 2, {"r", "w"})}, {E(0, 1, {"w"}), E(2, 3, {"w"})}, {E(0, 2, 1)}),
   SnapshotOf({E(1, 2, {"w"})}, {E(0, 3, {"r"})}, {E(1, 2, 1)}),
   SnapshotOf({E(0, 3, {"r"})}, {}, {P!Entry(0, 3, [k \in 0..2 |-> k % 2])})}
SomePatterns == {[k \in 0..2 |-> k % 2]}

-----------------------------------------------------------------------------
(* Snapshots *)

\* Three pages of two addresses; the last page lacks its last address.
SomeMappings == {E(0, 2, {"r", "x"}), E(2, 4, {"r", "w"}), E(0, 4, {"r", "w", "x"}),
                 E(4, 5, {"r"})}
SomeBytes == {E(0, 2, 0), E(0, 3, 1), E(3, 4, 1)}
SomeRegisters == {[ip |-> 0, sp |-> 4]}
StopAt(k) == [type |-> "instruction", ip |-> k]
Segv(k, cause) == [type |-> "segv", ip |-> 1, address |-> k, cause |-> cause]
End(endpoint, registers, b, platforms) ==
  [endpoint |-> endpoint, registers |-> registers, bytes |-> b, platforms |-> platforms]
SomeEndStates ==
  {End(StopAt(1), {"some"}, {E(2, 4, 1)}, {"p1"}),
   End(StopAt(1), {"some"}, {E(2, 3, 1), E(3, 4, 1)}, {}),
   End(StopAt(3), NoRegisters, {}, {}),
   End(Segv(5, "read"), {"some"}, {}, {"p1"}),
   End(Segv(2, "exec"), NoRegisters, {}, {})}

-----------------------------------------------------------------------------
(* Proxies *)

LOCAL Unit(answer, present, dfl, core) ==
  [answer |-> answer, present |-> present, dfl |-> dfl, core |-> core, counters |-> 2]
LOCAL Event(n, subs) == [name |-> n, subs |-> subs]
LOCAL Encoding(f, i) == [full_name |-> f, idx |-> i]

\* Event 4 is 2 under another name, 6 has to be paired with another; one unit too few or
\* too many, one that cannot be asked; no events.
SomeLibraries ==
  LET core == Unit("ok", TRUE, FALSE, TRUE)
      library == [units |-> <<Unit("unavailable", FALSE, FALSE, FALSE), Unit("ok", TRUE, TRUE, TRUE), core>>,
                  apm |-> -1, paired_only |-> {6},
                  listing |-> {Event(1, {2, 3}), Event(4, {}), Event(5, {}), Event(6, {})},
                  encoding |-> [e \in 2..6 |->
                    CASE e = 2 -> Encoding("a", 1) [] e = 3 -> Encoding("b", 1) [] e = 4 -> Encoding("a", 1)
                      [] e = 5 -> Encoding("c", 2) [] e = 6 -> Encoding("d", 3)]]
  IN  {library, [library EXCEPT !.apm = 1], [library EXCEPT !.units = <<core, core>>],
       [library EXCEPT !.units = <<Unit("error", TRUE, FALSE, TRUE), core>>],
       [library EXCEPT !.listing = {}]}

SomeLayouts ==
  LET Map(s, l, w) == [start |-> s, limit |-> l, writable |-> w]
  IN  {[arch |-> "any", stack |-> 0, data1 |-> 0, data2 |-> 10,
        maps |-> {Map(0, 3, TRUE), Map(3, 5, FALSE), Map(11, 13, TRUE)}],
       [arch |-> "unicorn_aarch64", stack |-> 0, data1 |-> 4, data2 |-> 10,
        maps |-> {Map(0, 1, TRUE), Map(4, 7, TRUE), Map(10, 11, TRUE)}]}
SomeRegisterStates == {{}, {0, 1, 2}}
SomeMeans == {<<0, 5, 300>>, <<300, 1, 5>>, <<0, 0, 0>>}
SomeDirty == {{}, {<<0, 1>>, <<1, 0>>, <<2, 3>>, <<4, 0>>, <<10, 0>>, <<11, 2>>}}

-----------------------------------------------------------------------------
(* Operands *)

\* The climbs return what they measured and give up nothing they climb by, the files they
\* write reproduce it, and the files written from a template are its variants.
OperandsAreSound ==
  /\ part = "evolution" => EvolutionIsSound
  /\ part = "variants" => VariantsAreOperands

LOCAL Op(op, d, a, b) == [op |-> op, d |-> d, a |-> a, b |-> b]
SomeTemplates == {<<Op("add", 0, 1, 2), Op("eor", 2, 1, 0)>>, <<Op("mul", 1, 2, 0)>>}
SomeCodes == SomeTemplates \union
  {<<[op |-> "cbz", a |-> 1, to |-> 2], Op("add", 0, 1, 1), Op("eor", 1, 0, 2)>>,
   <<Op("eor", 1, 0, 2), [op |-> "ldr", a |-> 1], Op("add", 0, 0, 2)>>,
   <<Op("add", 0, 0, 2), [op |-> "cbz", a |-> 1, to |-> 0]>>}
SomeHighPower == <<Op("add", 2, 2, 2)>>
SomeEntropy == [n \in 0..2 |-> IF n = 1 THEN 1000 ELSE 0]
SomeStarts == {[r \in 0..2 |-> (r + k) % 4] : k \in 0..3} \union {[r \in 0..2 |-> 0]}

LOCAL Code(reg) == [kind |-> "code", slot |-> "none", reg |-> reg]
LOCAL Mark(slot) == [kind |-> "comment", slot |-> slot, reg |-> "none"]
LOCAL Blank == [kind |-> "blank", slot |-> "none", reg |-> "none"]
SomeFiles ==
  {<<Code("x3"), Mark("int"), Blank, Code("x4"), Code("none"), Mark("pair"), Code("x5"), Blank, Code("none")>>,
   <<Mark("pair"), Mark("fsu"), Code("d1"), Mark("pair"), Code("x2")>>,
   <<Mark("fsu"), [Code("d2") EXCEPT !.slot = "int"], Code("x1"), Mark("int")>>,
   <<Code("x1"), Blank>>}
SomeSlots == [operand_mutator |-> [int |-> <<"a", "b", "c">>, fsu |-> <<"n", "s">>],
              csp_targeted_generator |-> [pair |-> <<"p", "q", "r">>, fsu |-> <<"m", "l">>]]
=============================================================================
