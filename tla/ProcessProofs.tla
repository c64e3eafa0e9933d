---------------------------- MODULE ProcessProofs ----------------------------
(***************************************************************************)
(* Theorems about processes that others watch: the scans of a device and   *)
(* of any number of boards over connections that fail; RunImpl with and    *)
(* without a tracer, for any number of threads, calls and stops; the calls *)
(* of the runner driver, for every corpus, number of iterations and of     *)
(* attempts; and the gem5 processes of fault injection, for any script and *)
(* any number of items, jobs and injections.                               *)
(***************************************************************************)
EXTENDS HarnessTracer, RunnerDriver, BoardScan, FaultSweep, SpanUtilProofs, FiniteSetTheorems,
        Functions, TLAPS

-----------------------------------------------------------------------------
(* The scans of a device and of the boards                                 *)
(*                                                                         *)
(* The invariant is in two halves that share only the count of failed      *)
(* connections: the device with the errand and what was found, and the     *)
(* boards with the dictionary and the summary.  Each half's steps leave    *)
(* the other alone but for that count, which only grows.                   *)

\* What a count of a log's entries is, and what it becomes with the log.
LEMMA CountIs ==
  ASSUME NEW S, NEW log \in Seq(S), NEW K
  PROVE  /\ Count(log, K) \in Nat
         /\ \A L : K \subseteq L => Count(log, K) <= Count(log, L)
         /\ \A x \in S : Count(log, K) <= Count(Append(log, x), K)
         /\ \A n \in 0..Len(log) : /\ Count(SubSeq(log, 1, n), K) \in Nat
                                   /\ Count(SubSeq(log, 1, n), K) <= Count(log, K)
         /\ Count(SubSeq(log, 1, Len(log)), K) = Count(log, K)
<1> DEFINE At(l, M) == {i \in DOMAIN l : l[i] \in M}
<1>1. ASSUME NEW l \in Seq(S), NEW M PROVE IsFiniteSet(At(l, M))
  <2>1. DOMAIN l = 1..Len(l) /\ Len(l) \in Nat
    OBVIOUS
  <2>2. IsFiniteSet(DOMAIN l)
    BY <2>1, FS_Interval
  <2> QED
    BY <2>2, FS_Subset
<1>2. ASSUME NEW l \in Seq(S), NEW M, NEW T, T \subseteq At(l, M)
      PROVE  Cardinality(T) <= Cardinality(At(l, M))
  BY <1>1, <1>2, FS_Subset
<1>3. \A l \in Seq(S) : \A M : Count(l, M) = Cardinality(At(l, M)) /\ Count(l, M) \in Nat
  BY <1>1, FS_CardinalityType DEF Count
<1>4. ASSUME NEW L, K \subseteq L PROVE Count(log, K) <= Count(log, L)
  <2>1. At(log, K) \subseteq At(log, L)
    BY <1>4
  <2>2. Cardinality(At(log, K)) <= Cardinality(At(log, L))
    BY <2>1, <1>2
  <2> HIDE DEF At
  <2> QED
    BY <2>2, <1>3
<1>5. ASSUME NEW x \in S PROVE Count(log, K) <= Count(Append(log, x), K)
  <2>1. Append(log, x) \in Seq(S)
    OBVIOUS
  <2>2. /\ DOMAIN log = 1..Len(log) /\ DOMAIN Append(log, x) = 1..(Len(log) + 1)
        /\ Len(log) \in Nat /\ \A i \in 1..Len(log) : Append(log, x)[i] = log[i]
    OBVIOUS
  <2>3. At(log, K) \subseteq At(Append(log, x), K)
    BY <2>2
  <2>4. Cardinality(At(log, K)) <= Cardinality(At(Append(log, x), K))
    BY <2>1, <2>3, <1>2
  <2> HIDE DEF At
  <2> QED
    BY <2>1, <2>4, <1>3
<1>6. ASSUME NEW n \in 0..Len(log)
      PROVE  /\ Count(SubSeq(log, 1, n), K) \in Nat
             /\ Count(SubSeq(log, 1, n), K) <= Count(log, K)
  <2>1. SubSeq(log, 1, n) \in Seq(S)
    OBVIOUS
  <2>2. /\ DOMAIN log = 1..Len(log) /\ DOMAIN SubSeq(log, 1, n) = 1..n
        /\ Len(log) \in Nat /\ \A i \in 1..n : SubSeq(log, 1, n)[i] = log[i]
    OBVIOUS
  <2>3. At(SubSeq(log, 1, n), K) \subseteq At(log, K)
    BY <2>2
  <2>4. Cardinality(At(SubSeq(log, 1, n), K)) <= Cardinality(At(log, K))
    BY <2>3, <1>2
  <2> HIDE DEF At
  <2> QED
    BY <2>1, <2>4, <1>3
<1>7. SubSeq(log, 1, Len(log)) = log
  OBVIOUS
<1> QED
  BY <1>3, <1>4, <1>5, <1>6, <1>7

LEMMA UpToIsFinite == \A n \in Nat : IsFiniteSet(1..n)
BY FS_Interval

\* The connections that fail are counted, so where none was counted all was answered.
LEMMA LostIs ==
  ASSUME lost \in Nat, NEW nets, IsFiniteSet(DOMAIN nets), LoseFor(nets)
  PROVE  /\ lost' \in Nat /\ lost <= lost'
         /\ lost' = 0 => \A i \in DOMAIN nets : nets[i] = "whole"
<1> DEFINE F == {i \in DOMAIN nets : nets[i] # "whole"}
<1>1. IsFiniteSet(F)
  BY FS_Subset
<1>2. Cardinality(F) \in Nat /\ (Cardinality(F) = 0 => F = {})
  BY <1>1, FS_CardinalityType, FS_EmptySet
<1>3. lost' = lost + Cardinality(F)
  BY DEF LoseFor
<1> QED
  BY <1>2, <1>3

LEMMA LostFew ==
  ASSUME lost \in Nat, NEW a, NEW b, NEW c
  PROVE  /\ LoseFor(<<a>>) => lost' \in Nat /\ lost <= lost' /\ (lost' = 0 => a = "whole")
         /\ LoseFor(<<a, b>>) => /\ lost' \in Nat /\ lost <= lost'
                                 /\ lost' = 0 => a = "whole" /\ b = "whole"
         /\ LoseFor(<<a, b, c>>) => lost' \in Nat /\ lost <= lost'
<1>1. ASSUME LoseFor(<<a>>) PROVE lost' \in Nat /\ lost <= lost' /\ (lost' = 0 => a = "whole")
  <2> DEFINE nets == <<a>>
  <2>1. DOMAIN nets = 1..1 /\ nets[1] = a
    OBVIOUS
  <2>2. 1 \in Nat /\ IsFiniteSet(1..1)
    BY UpToIsFinite
  <2>3. IsFiniteSet(DOMAIN nets)
    BY <2>1, <2>2
  <2>4. LoseFor(nets)
    BY <1>1 DEF LoseFor
  <2> HIDE DEF nets
  <2>5. lost' \in Nat /\ lost <= lost' /\ (lost' = 0 => \A i \in DOMAIN nets : nets[i] = "whole")
    BY <2>3, <2>4, LostIs
  <2> QED
    BY <2>1, <2>5
<1>2. ASSUME LoseFor(<<a, b>>)
      PROVE  lost' \in Nat /\ lost <= lost' /\ (lost' = 0 => a = "whole" /\ b = "whole")
  <2> DEFINE nets == <<a, b>>
  <2>1. DOMAIN nets = 1..2 /\ nets[1] = a /\ nets[2] = b
    OBVIOUS
  <2>2. 2 \in Nat /\ IsFiniteSet(1..2)
    BY UpToIsFinite
  <2>3. IsFiniteSet(DOMAIN nets)
    BY <2>1, <2>2
  <2>4. LoseFor(nets)
    BY <1>2 DEF LoseFor
  <2> HIDE DEF nets
  <2>5. lost' \in Nat /\ lost <= lost' /\ (lost' = 0 => \A i \in DOMAIN nets : nets[i] = "whole")
    BY <2>3, <2>4, LostIs
  <2> QED
    BY <2>1, <2>5
<1>3. ASSUME LoseFor(<<a, b, c>>) PROVE lost' \in Nat /\ lost <= lost'
  <2> DEFINE nets == <<a, b, c>>
  <2>1. DOMAIN nets = 1..3
    OBVIOUS
  <2>2. 3 \in Nat /\ IsFiniteSet(1..3)
    BY UpToIsFinite
  <2>3. IsFiniteSet(DOMAIN nets)
    BY <2>1, <2>2
  <2>4. LoseFor(nets)
    BY <1>3 DEF LoseFor
  <2> HIDE DEF nets
  <2> QED
    BY <2>3, <2>4, LostIs
<1> QED
  BY <1>1, <1>2, <1>3

-----------------------------------------------------------------------------
Phases == {"md5", "skip", "put", "probe", "corpus", "work", "list", "metadata", "start", "wait",
           "read", "reported"}
Scans == [status : {"none"}]
         \cup [status : {"ok", "no corpus", "no log"}, orch_rc : Int, sdc_hits : Int, total_failed : Int]
ToolReports == {"none", "FAILED(no source)", "FAILED(put)", "skip(md5 match)",
                "BAD(probe after skip)", "deployed", "BAD(probe)"}
DeviceLogs == Seq(LogKinds)

DeviceType ==
  /\ errand \in [phase : Phases, device : {"local", "remote"}, source : BOOLEAN, force : BOOLEAN,
                 corpus : {"dir", "file"}]
                  \cup [phase : {"boards"}, device : {"remote"}]
  /\ dev \in [tool : {"none", "old", "new", "part"}, files : Int, work : BOOLEAN, listed : Int, metadata : BOOLEAN,
              orch : {"idle", "running", "ended"}, rc : Int, logged : BOOLEAN, log : DeviceLogs]
  /\ found \in [tool : ToolReports, corpus : BOOLEAN, orch_rc : Int, scan : Scans]
  /\ lost \in Nat

\* Until the scan is started there is no log and no report.
Unstarted == {"md5", "skip", "put", "probe", "corpus", "work", "list", "metadata", "start", "boards"}
PhaseInv ==
  /\ errand.phase \in Unstarted => dev.orch = "idle" /\ found.orch_rc = -1
  /\ errand.phase # "reported" => found.scan.status = "none"
  /\ errand.phase = "wait" => found.orch_rc = -1
  /\ dev.logged <=> dev.orch # "idle"

\* What is known of the tool on the device.
ToolInv ==
  /\ errand.phase \in {"md5", "skip", "put", "probe"} => found.tool = "none"
  /\ errand.phase = "skip" => dev.tool = "new"
  /\ errand.phase = "probe" /\ lost = 0 => dev.tool = "new"
  /\ found.tool = "skip(md5 match)" \/ (found.tool = "deployed" /\ lost = 0) => dev.tool = "new"

Equipped == CanRun(dev.tool) /\ dev.metadata /\ dev.listed > 0

\* Only an orchestrator that had all it needs runs, or ends without an error.
OrchInv ==
  /\ errand.phase \in {"metadata", "start"} => dev.listed > 0
  /\ dev.orch = "running" => Equipped
  /\ dev.orch = "ended" /\ dev.rc = 0 => Equipped /\ Count(dev.log, {"sdc"}) = 0

\* An exit code that came is that of a scan that has ended, and so has the log that was
\* read after it.
ReadInv ==
  /\ found.orch_rc >= 0 => dev.orch # "running" /\ (dev.orch = "ended" => found.orch_rc = dev.rc)
  /\ found.scan.status = "ok" =>
       /\ dev.orch # "idle" /\ found.scan.orch_rc = found.orch_rc
       /\ found.scan.total_failed <= Count(dev.log, FailedKinds)
       /\ found.orch_rc >= 0 => /\ found.scan.sdc_hits = Count(dev.log, {"sdc"})
                                /\ found.scan.total_failed = Count(dev.log, FailedKinds)

DeviceInv == DeviceType /\ PhaseInv /\ ToolInv /\ OrchInv /\ ReadInv

LEMMA DeviceInvMeans == DeviceInv => DeviceReportIsTrue
<1> SUFFICES ASSUME DeviceInv PROVE DeviceReportIsTrue
  OBVIOUS
<1>1. found.tool = "skip(md5 match)" \/ (found.tool = "deployed" /\ lost = 0) => dev.tool = "new"
  BY DEF DeviceInv, ToolInv
<1>2. ASSUME found.scan.status = "ok"
      PROVE  /\ found.scan.total_failed <= Count(dev.log, FailedKinds)
             /\ found.scan.orch_rc >= 0 =>
                  /\ dev.orch = "ended"
                  /\ found.scan.sdc_hits = Count(dev.log, {"sdc"})
                  /\ found.scan.total_failed = Count(dev.log, {"sdc", "runaway", "misbehave"})
             /\ found.scan.orch_rc = 0 =>
                  found.scan.sdc_hits = 0 /\ CanRun(dev.tool) /\ dev.metadata /\ dev.listed > 0
  <2>1. dev.orch \in {"idle", "running", "ended"}
    BY DEF DeviceInv, DeviceType
  <2> QED
    BY <1>2, <2>1 DEF DeviceInv, ReadInv, OrchInv, Equipped, FailedKinds
<1> QED
  BY <1>1, <1>2 DEF DeviceReportIsTrue

LEMMA InitDevice == BoardInit => DeviceInv
<1> SUFFICES ASSUME BoardInit PROVE DeviceInv
  OBVIOUS
<1>1. <<>> \in DeviceLogs
  BY DEF DeviceLogs
<1>2. DeviceType
  <2>1. errand \in [phase : Phases, device : {"local", "remote"}, source : BOOLEAN, force : BOOLEAN,
                 corpus : {"dir", "file"}]
                    \cup [phase : {"boards"}, device : {"remote"}]
    BY DEF BoardInit, Phases
  <2>2. PICK tool \in {"none", "old", "new"} :
          dev = [tool |-> tool, files |-> -1, work |-> FALSE, listed |-> 0, metadata |-> FALSE,
                 orch |-> "idle", rc |-> 0, logged |-> FALSE, log |-> <<>>]
    BY DEF BoardInit
  <2>3. dev \in [tool : {"none", "old", "new", "part"}, files : Int, work : BOOLEAN, listed : Int, metadata : BOOLEAN,
                 orch : {"idle", "running", "ended"}, rc : Int, logged : BOOLEAN, log : DeviceLogs]
    BY <1>1, <2>2
  <2>4. found \in [tool : ToolReports, corpus : BOOLEAN, orch_rc : Int, scan : Scans]
    <3>1. Unreported \in Scans
      BY DEF Unreported, Scans
    <3>2. "none" \in ToolReports
      BY DEF ToolReports
    <3> QED
      BY <3>1, <3>2 DEF BoardInit
  <2> QED
    BY <2>1, <2>3, <2>4 DEF DeviceType, BoardInit
<1>3. /\ dev.orch = "idle" /\ ~ dev.logged /\ found.orch_rc = -1 /\ found.scan.status = "none"
      /\ found.tool = "none" /\ errand.phase \in {"md5", "boards"}
  BY DEF BoardInit, Unreported
<1> QED
  BY <1>2, <1>3 DEF DeviceInv, PhaseInv, ToolInv, OrchInv, ReadInv

\* What the steps before the scan leave of it.
LEMMA EarlyKeeps ==
  ASSUME DeviceInv, DeviceType', errand.phase \in Unstarted \ {"boards"}, lost <= lost',
         dev'.orch = dev.orch, dev'.logged = dev.logged, found'.scan = found.scan,
         found'.orch_rc = found.orch_rc, errand'.phase \in Unstarted
  PROVE  PhaseInv' /\ ReadInv' /\ ((errand'.phase \in {"metadata", "start"} => dev'.listed > 0) => OrchInv')
<1>1. dev.orch = "idle" /\ found.orch_rc = -1 /\ found.scan.status = "none" /\ dev.logged = FALSE
  BY DEF DeviceInv, DeviceType, PhaseInv, Unstarted
<1>2. dev'.orch = "idle" /\ dev'.logged = FALSE /\ found'.orch_rc = -1 /\ found'.scan.status = "none"
  BY <1>1
<1> QED
  BY <1>2 DEF PhaseInv, ReadInv, OrchInv, Unstarted

DeviceErrands == [phase : Phases, device : {"local", "remote"}, source : BOOLEAN, force : BOOLEAN,
                  corpus : {"dir", "file"}]

LEMMA GoToIs ==
  ASSUME DeviceInv, errand.phase # "boards", NEW phase \in Phases, GoTo(phase)
  PROVE  errand' \in DeviceErrands /\ errand'.phase = phase
<1>1. errand \in DeviceErrands
  BY DEF DeviceInv, DeviceType, DeviceErrands
<1> QED
  BY <1>1 DEF GoTo, DeviceErrands

\* Where the comparison leads.
Md5Goes(phase) ==
  /\ errand' = [errand EXCEPT !.phase = phase]
  /\ phase = "skip" => dev.tool = "new"
  /\ IF phase = "corpus" THEN found' = [found EXCEPT !.tool = "FAILED(no source)"]
     ELSE found' = found

LEMMA Md5KeepsDevice ==
  ASSUME DeviceInv, CompareMd5
  PROVE  DeviceInv' /\ lost <= lost'
<1>1. errand.phase = "md5" /\ dev' = dev /\ lost \in Nat
  BY DEF CompareMd5, DeviceInv, DeviceType
<1>2. errand \in [phase : Phases, device : {"local", "remote"}, source : BOOLEAN, force : BOOLEAN,
                 corpus : {"dir", "file"}]
  BY <1>1 DEF DeviceInv, DeviceType
<1>3. /\ lost' \in Nat /\ lost <= lost'
      /\ \E phase \in {"corpus", "skip", "put"} : Md5Goes(phase)
  <2>1. CASE ~ errand.source
    <3>1. Md5Goes("corpus") /\ lost' = lost
      BY <2>1 DEF CompareMd5, GoTo, Md5Goes
    <3> QED
      BY <1>1, <3>1
  <2>2. CASE errand.source
    <3>1. PICK net \in Net(Remote) :
            /\ LoseFor(<<net>>) /\ UNCHANGED found
            /\ \E seen \in IF net = "cut" THEN BOOLEAN ELSE {net = "whole"} :
                 GoTo(IF seen /\ dev.tool = "new" /\ ~errand.force THEN "skip" ELSE "put")
      BY <2>2 DEF CompareMd5
    <3>2. lost' \in Nat /\ lost <= lost'
      BY <1>1, <3>1, LostFew
    <3>3. (GoTo("skip") /\ dev.tool = "new") \/ GoTo("put")
      BY <3>1
    <3>4. Md5Goes("skip") \/ Md5Goes("put")
      BY <3>1, <3>3 DEF GoTo, Md5Goes
    <3> QED
      BY <3>2, <3>4
  <2> QED
    BY <1>2, <2>1, <2>2
<1>4. PICK phase \in {"corpus", "skip", "put"} : Md5Goes(phase)
  BY <1>3
<1>5. errand' \in [phase : Phases, device : {"local", "remote"}, source : BOOLEAN, force : BOOLEAN,
                  corpus : {"dir", "file"}] /\ errand'.phase = phase
  BY <1>2, <1>4 DEF Md5Goes, Phases
<1>6. /\ found' \in [tool : ToolReports, corpus : BOOLEAN, orch_rc : Int, scan : Scans]
      /\ found'.scan = found.scan /\ found'.orch_rc = found.orch_rc
      /\ found'.tool = IF phase = "corpus" THEN "FAILED(no source)" ELSE found.tool
  BY <1>4 DEF Md5Goes, DeviceInv, DeviceType, ToolReports
<1>7. DeviceType'
  BY <1>1, <1>3, <1>5, <1>6 DEF DeviceInv, DeviceType
<1>8. PhaseInv' /\ ReadInv' /\ OrchInv'
  BY <1>1, <1>3, <1>5, <1>6, <1>7, EarlyKeeps DEF Unstarted
<1>9. ToolInv'
  BY <1>1, <1>4, <1>5, <1>6 DEF Md5Goes, DeviceInv, ToolInv
<1> QED
  BY <1>3, <1>7, <1>8, <1>9 DEF DeviceInv

LEMMA PutKeepsDevice ==
  ASSUME DeviceInv, PutTool
  PROVE  DeviceInv' /\ lost <= lost'
<1>1. PICK copy \in {"whole", "cut", "refused"}, net \in Net(Remote) :
       /\ LoseFor(<<copy, net>>)
       /\ \E tool \in CASE copy = "whole" -> {"new"}
                       [] copy = "cut" -> {"part"}
                       [] OTHER -> IF Remote THEN {dev.tool} ELSE {"none"} :
            LET ok == IF Remote THEN Rc(net, IF tool = "none" THEN 1 ELSE 0) = 0
                      ELSE copy = "whole"
            IN  /\ dev' = [dev EXCEPT !.tool = tool]
                /\ GoTo(IF ok THEN "probe" ELSE "corpus")
                /\ found' = [found EXCEPT !.tool = IF ok THEN @ ELSE "FAILED(put)"]
  BY DEF PutTool
<1>2. errand.phase = "put" /\ lost \in Nat /\ dev.tool \in {"none", "old", "new", "part"}
  BY DEF PutTool, DeviceInv, DeviceType
<1>3. lost' \in Nat /\ lost <= lost' /\ (lost' = 0 => copy = "whole")
  BY <1>1, <1>2, LostFew
<1>4. PICK tool \in {"none", "old", "new", "part"}, ok \in BOOLEAN :
        /\ copy = "whole" => tool = "new"
        /\ dev' = [dev EXCEPT !.tool = tool]
        /\ GoTo(IF ok THEN "probe" ELSE "corpus")
        /\ found' = [found EXCEPT !.tool = IF ok THEN @ ELSE "FAILED(put)"]
  <2>1. PICK tool \in {"none", "old", "new", "part"} :
        LET ok == IF Remote THEN Rc(net, IF tool = "none" THEN 1 ELSE 0) = 0
                      ELSE copy = "whole"
        IN  /\ copy = "whole" => tool = "new"
            /\ dev' = [dev EXCEPT !.tool = tool]
            /\ GoTo(IF ok THEN "probe" ELSE "corpus")
            /\ found' = [found EXCEPT !.tool = IF ok THEN @ ELSE "FAILED(put)"]
    BY <1>1, <1>2
  <2> QED
    BY <2>1
<1> DEFINE phase == IF ok THEN "probe" ELSE "corpus"
<1>5. errand' \in DeviceErrands /\ errand'.phase = phase
  BY <1>2, <1>4, GoToIs DEF Phases
<1>6. /\ found' \in [tool : ToolReports, corpus : BOOLEAN, orch_rc : Int, scan : Scans]
      /\ found'.scan = found.scan /\ found'.orch_rc = found.orch_rc
      /\ found'.tool = IF ok THEN found.tool ELSE "FAILED(put)"
  BY <1>4 DEF DeviceInv, DeviceType, ToolReports
<1>7. /\ dev' \in [tool : {"none", "old", "new", "part"}, files : Int, work : BOOLEAN, listed : Int,
                   metadata : BOOLEAN, orch : {"idle", "running", "ended"}, rc : Int,
                   logged : BOOLEAN, log : DeviceLogs]
      /\ dev'.tool = tool /\ dev'.orch = dev.orch /\ dev'.logged = dev.logged
  BY <1>4 DEF DeviceInv, DeviceType
<1>8. DeviceType'
  BY <1>3, <1>5, <1>6, <1>7 DEF DeviceType, DeviceErrands
<1>9. PhaseInv' /\ ReadInv' /\ OrchInv'
  BY <1>2, <1>3, <1>5, <1>6, <1>7, <1>8, EarlyKeeps DEF Unstarted
<1>10. ToolInv'
  BY <1>2, <1>3, <1>4, <1>5, <1>6, <1>7 DEF DeviceInv, ToolInv
<1> QED
  BY <1>3, <1>8, <1>9, <1>10 DEF DeviceInv

LEMMA ProbeKeepsDevice ==
  ASSUME DeviceInv, ProbeTool
  PROVE  DeviceInv' /\ lost <= lost'
<1>1. PICK net \in Net(Remote) :
       /\ LoseFor(<<net>>)
       /\ \E said \in IF net = "cut" THEN BOOLEAN ELSE {TRUE} :
            LET ok == Rc(net, IF CanRun(dev.tool) THEN 0 ELSE 126) \in {0, 1} /\ said
            IN  found' = [found EXCEPT !.tool =
                  IF errand.phase = "skip"
                  THEN IF ok THEN "skip(md5 match)" ELSE "BAD(probe after skip)"
                  ELSE IF ok THEN "deployed" ELSE "BAD(probe)"]
  BY DEF ProbeTool
<1>2. /\ errand.phase \in {"probe", "skip"} /\ lost \in Nat /\ dev' = dev /\ GoTo("corpus")
  BY DEF ProbeTool, DeviceInv, DeviceType
<1>3. lost' \in Nat /\ lost <= lost'
  BY <1>1, <1>2, LostFew
<1>4. PICK tool \in ToolReports :
        /\ found' = [found EXCEPT !.tool = tool]
        /\ tool = "skip(md5 match)" => errand.phase = "skip"
        /\ tool = "deployed" => errand.phase = "probe"
  <2>1. \E ok \in BOOLEAN : found' = [found EXCEPT !.tool =
                  IF errand.phase = "skip"
                  THEN IF ok THEN "skip(md5 match)" ELSE "BAD(probe after skip)"
                  ELSE IF ok THEN "deployed" ELSE "BAD(probe)"]
    BY <1>1
  <2> QED
    BY <1>2, <2>1 DEF ToolReports
<1>5. errand' \in DeviceErrands /\ errand'.phase = "corpus"
  BY <1>2, GoToIs DEF Phases
<1>6. /\ found' \in [tool : ToolReports, corpus : BOOLEAN, orch_rc : Int, scan : Scans]
      /\ found'.scan = found.scan /\ found'.orch_rc = found.orch_rc /\ found'.tool = tool
  BY <1>4 DEF DeviceInv, DeviceType
<1>7. DeviceType'
  BY <1>2, <1>3, <1>5, <1>6 DEF DeviceInv, DeviceType, DeviceErrands
<1>8. PhaseInv' /\ ReadInv' /\ OrchInv'
  BY <1>2, <1>3, <1>5, <1>6, <1>7, EarlyKeeps DEF Unstarted
<1>9. ToolInv'
  <2>1. lost' = 0 => lost = 0
    BY <1>2, <1>3
  <2>2. found'.tool = "skip(md5 match)" \/ (found'.tool = "deployed" /\ lost' = 0) => dev'.tool = "new"
    BY <1>2, <1>4, <1>6, <2>1 DEF DeviceInv, ToolInv
  <2> QED
    BY <1>5, <2>2 DEF ToolInv
<1> QED
  BY <1>3, <1>7, <1>8, <1>9 DEF DeviceInv

LEMMA CorpusKeepsDevice ==
  ASSUME DeviceInv, PutCorpus
  PROVE  DeviceInv' /\ lost <= lost'
<1>1. errand.phase = "corpus" /\ lost \in Nat /\ GoTo("work")
  BY DEF PutCorpus, DeviceInv, DeviceType
<1>2. /\ lost' \in Nat /\ lost <= lost'
      /\ dev' \in [tool : {"none", "old", "new", "part"}, files : Int, work : BOOLEAN, listed : Int,
                   metadata : BOOLEAN, orch : {"idle", "running", "ended"}, rc : Int,
                   logged : BOOLEAN, log : DeviceLogs]
      /\ dev'.tool = dev.tool /\ dev'.orch = dev.orch /\ dev'.logged = dev.logged
      /\ found' \in [tool : ToolReports, corpus : BOOLEAN, orch_rc : Int, scan : Scans]
      /\ found'.scan = found.scan /\ found'.orch_rc = found.orch_rc /\ found'.tool = found.tool
  <2>1. CASE errand.corpus # "dir"
    BY <1>1, <2>1 DEF PutCorpus, DeviceInv, DeviceType
  <2>2. CASE errand.corpus = "dir"
    <3>1. PICK copy \in Net(Remote), net \in Net(Remote) :
            /\ LoseFor(<<copy, net>>)
            /\ \E files \in CASE copy = "whole" -> {CorpusFiles}
                             [] copy = "cut" -> 0..(CorpusFiles - 1)
                             [] OTHER -> {-1} :
                 /\ dev' = [dev EXCEPT !.files = files]
                 /\ found' = [found EXCEPT !.corpus = Rc(net, IF files >= 0 THEN 0 ELSE 1) = 0]
      BY <2>2 DEF PutCorpus
    <3>2. lost' \in Nat /\ lost <= lost'
      BY <1>1, <3>1, LostFew
    <3>3. PICK files \in Int, ok \in BOOLEAN :
            dev' = [dev EXCEPT !.files = files] /\ found' = [found EXCEPT !.corpus = ok]
      <4>1. \A n \in 0..(CorpusFiles - 1) : n \in Int
        BY BoardAssumption
      <4>2. PICK files : /\ files \in Int /\ dev' = [dev EXCEPT !.files = files]
                         /\ found' = [found EXCEPT !.corpus = Rc(net, IF files >= 0 THEN 0 ELSE 1) = 0]
        BY <3>1, <4>1, BoardAssumption
      <4> DEFINE ok == Rc(net, IF files >= 0 THEN 0 ELSE 1) = 0
      <4>3. ok \in BOOLEAN /\ found' = [found EXCEPT !.corpus = ok]
        BY <4>2
      <4> HIDE DEF ok
      <4> QED
        BY <4>2, <4>3
    <3> QED
      BY <3>2, <3>3 DEF DeviceInv, DeviceType
  <2> QED
    BY <2>1, <2>2
<1>3. errand' \in DeviceErrands /\ errand'.phase = "work"
  BY <1>1, GoToIs DEF Phases
<1>4. DeviceType'
  BY <1>2, <1>3 DEF DeviceType, DeviceErrands
<1>5. PhaseInv' /\ ReadInv' /\ OrchInv'
  BY <1>1, <1>2, <1>3, <1>4, EarlyKeeps DEF Unstarted
<1>6. ToolInv'
  <2>1. lost' = 0 => lost = 0
    BY <1>1, <1>2
  <2> QED
    BY <1>1, <1>2, <1>3, <2>1 DEF DeviceInv, ToolInv
<1> QED
  BY <1>2, <1>4, <1>5, <1>6 DEF DeviceInv

\* Once it was seen to, the tool stays as it is.
LEMMA ToolStays ==
  ASSUME DeviceInv, DeviceType', errand'.phase \notin {"md5", "skip", "put", "probe"}, lost <= lost',
         dev'.tool = dev.tool, found'.tool = found.tool
  PROVE  ToolInv'
<1>1. lost' = 0 => lost = 0
  BY DEF DeviceInv, DeviceType
<1> QED
  BY <1>1 DEF DeviceInv, ToolInv

DeviceStates == [tool : {"none", "old", "new", "part"}, files : Int, work : BOOLEAN, listed : Int,
                 metadata : BOOLEAN, orch : {"idle", "running", "ended"}, rc : Int,
                 logged : BOOLEAN, log : DeviceLogs]

LEMMA WorkKeepsDevice ==
  ASSUME DeviceInv, MakeWork
  PROVE  DeviceInv' /\ lost <= lost'
<1>1. PICK net \in Net(Remote) : LoseFor(<<net>>) /\ dev' = [dev EXCEPT !.work = GotThrough(net)]
  BY DEF MakeWork
<1>2. errand.phase = "work" /\ lost \in Nat /\ GoTo("list") /\ found' = found /\ dev \in DeviceStates
  BY DEF MakeWork, DeviceInv, DeviceType, DeviceStates
<1>3. lost' \in Nat /\ lost <= lost'
  BY <1>1, <1>2, LostFew
<1>4. /\ dev' \in DeviceStates
      /\ dev'.tool = dev.tool /\ dev'.orch = dev.orch /\ dev'.logged = dev.logged
  BY <1>1, <1>2 DEF DeviceStates, GotThrough
<1>5. errand' \in DeviceErrands /\ errand'.phase = "list"
  BY <1>2, GoToIs DEF Phases
<1>6. DeviceType'
  BY <1>2, <1>3, <1>4, <1>5 DEF DeviceInv, DeviceType, DeviceErrands, DeviceStates
<1>7. PhaseInv' /\ ReadInv' /\ OrchInv'
  BY <1>2, <1>3, <1>4, <1>5, <1>6, EarlyKeeps DEF Unstarted
<1>8. ToolInv'
  BY <1>2, <1>3, <1>4, <1>5, <1>6, ToolStays
<1> QED
  BY <1>3, <1>6, <1>7, <1>8 DEF DeviceInv

LEMMA MetadataKeepsDevice ==
  ASSUME DeviceInv, WriteMetadata
  PROVE  DeviceInv' /\ lost <= lost'
<1>1. PICK net \in Net(Remote) :
        LoseFor(<<net>>) /\ dev' = [dev EXCEPT !.metadata = GotThrough(net) /\ dev.work]
  BY DEF WriteMetadata
<1>2. /\ errand.phase = "metadata" /\ lost \in Nat /\ GoTo("start") /\ found' = found
      /\ dev \in DeviceStates
  BY DEF WriteMetadata, DeviceInv, DeviceType, DeviceStates
<1>3. lost' \in Nat /\ lost <= lost'
  BY <1>1, <1>2, LostFew
<1>4. /\ dev' \in DeviceStates /\ dev'.listed = dev.listed
      /\ dev'.tool = dev.tool /\ dev'.orch = dev.orch /\ dev'.logged = dev.logged
  BY <1>1, <1>2 DEF DeviceStates, GotThrough
<1>5. errand' \in DeviceErrands /\ errand'.phase = "start"
  BY <1>2, GoToIs DEF Phases
<1>6. DeviceType'
  BY <1>2, <1>3, <1>4, <1>5 DEF DeviceInv, DeviceType, DeviceErrands, DeviceStates
<1>7. dev'.listed > 0
  BY <1>2, <1>4 DEF DeviceInv, OrchInv
<1>8. PhaseInv' /\ ReadInv' /\ OrchInv'
  BY <1>2, <1>3, <1>4, <1>5, <1>6, <1>7, EarlyKeeps DEF Unstarted
<1>9. ToolInv'
  BY <1>2, <1>3, <1>4, <1>5, <1>6, ToolStays
<1> QED
  BY <1>3, <1>6, <1>8, <1>9 DEF DeviceInv

LEMMA ListKeepsDevice ==
  ASSUME DeviceInv, ListCorpus
  PROVE  DeviceInv' /\ lost <= lost'
<1>1. /\ errand.phase = "list" /\ lost \in Nat /\ dev \in DeviceStates /\ errand \in DeviceErrands
      /\ found \in [tool : ToolReports, corpus : BOOLEAN, orch_rc : Int, scan : Scans]
  BY DEF ListCorpus, DeviceInv, DeviceType, DeviceStates, DeviceErrands
<1>2. PICK isdir \in Net(Remote), list \in Net(Remote), count \in Net(Remote) :
       LET dir == Rc(isdir, IF errand.corpus = "dir" /\ dev.files >= 0 THEN 0 ELSE 1) = 0
           lines == IF ~dev.work \/ ~GotThrough(list) THEN 0
                    ELSE IF dir THEN dev.files ELSE 1
           good == IF dir THEN count = "whole" /\ lines >= 1
                   ELSE /\ Rc(count, IF errand.corpus = "file" THEN 0 ELSE 1) = 0
                        /\ Rc(list, IF dev.work THEN 0 ELSE 1) = 0
       IN  /\ LoseFor(<<isdir, list, count>>)
           /\ dev' = [dev EXCEPT !.listed = lines]
           /\ IF good THEN GoTo("metadata") /\ UNCHANGED found
              ELSE GoTo("reported") /\ found' = [found EXCEPT !.scan = ErrorResult("no corpus")]
  BY DEF ListCorpus
<1>3. PICK lines \in Int, good \in BOOLEAN :
        /\ dev' = [dev EXCEPT !.listed = lines] /\ (good => lines > 0)
        /\ IF good THEN GoTo("metadata") /\ UNCHANGED found
           ELSE GoTo("reported") /\ found' = [found EXCEPT !.scan = ErrorResult("no corpus")]
  <2> DEFINE dir == Rc(isdir, IF errand.corpus = "dir" /\ dev.files >= 0 THEN 0 ELSE 1) = 0
             lines == IF ~dev.work \/ ~GotThrough(list) THEN 0
                      ELSE IF dir THEN dev.files ELSE 1
             good == IF dir THEN count = "whole" /\ lines >= 1
                     ELSE /\ Rc(count, IF errand.corpus = "file" THEN 0 ELSE 1) = 0
                          /\ Rc(list, IF dev.work THEN 0 ELSE 1) = 0
  <2>1. lines \in Int
    BY <1>1 DEF DeviceStates
  <2>2. good \in BOOLEAN
    OBVIOUS
  <2>3. ASSUME good PROVE lines > 0
    <3>1. CASE dir
      BY <2>1, <2>3, <3>1
    <3>2. CASE ~ dir
      BY <1>1, <2>3, <3>2 DEF Rc, GotThrough, DeviceStates
    <3> QED
      BY <3>1, <3>2
  <2>4. /\ dev' = [dev EXCEPT !.listed = lines]
        /\ IF good THEN GoTo("metadata") /\ UNCHANGED found
           ELSE GoTo("reported") /\ found' = [found EXCEPT !.scan = ErrorResult("no corpus")]
    BY <1>2
  <2> HIDE DEF dir, lines, good
  <2> QED
    BY <2>1, <2>2, <2>3, <2>4
<1>4. LoseFor(<<isdir, list, count>>)
  BY <1>2
<1>5. lost' \in Nat /\ lost <= lost'
  BY <1>1, <1>4, LostFew
<1>6. /\ dev' \in DeviceStates /\ dev'.listed = lines /\ dev'.log = dev.log
      /\ dev'.tool = dev.tool /\ dev'.orch = dev.orch /\ dev'.logged = dev.logged
  BY <1>1, <1>3 DEF DeviceStates
<1>7. ErrorResult("no corpus") \in Scans /\ ErrorResult("no corpus").status = "no corpus"
  BY DEF ErrorResult, Scans
<1>8. CASE good
  <2>1. errand' \in DeviceErrands /\ errand'.phase = "metadata" /\ found' = found
    BY <1>1, <1>3, <1>8, GoToIs DEF Phases
  <2>2. DeviceType'
    BY <1>1, <1>5, <1>6, <2>1 DEF DeviceType, DeviceErrands, DeviceStates
  <2>3. PhaseInv' /\ ReadInv' /\ OrchInv'
    BY <1>1, <1>3, <1>5, <1>6, <1>8, <2>1, <2>2, EarlyKeeps DEF Unstarted
  <2>4. ToolInv'
    BY <1>5, <1>6, <2>1, <2>2, ToolStays
  <2> QED
    BY <1>5, <2>2, <2>3, <2>4 DEF DeviceInv
<1>9. CASE ~ good
  <2>1. errand' \in DeviceErrands /\ errand'.phase = "reported"
    BY <1>1, <1>3, <1>9, GoToIs DEF Phases
  <2>2. /\ found' \in [tool : ToolReports, corpus : BOOLEAN, orch_rc : Int, scan : Scans]
        /\ found'.tool = found.tool /\ found'.orch_rc = found.orch_rc
        /\ found'.scan.status = "no corpus"
    BY <1>1, <1>3, <1>7, <1>9
  <2>3. DeviceType'
    BY <1>5, <1>6, <2>1, <2>2 DEF DeviceType, DeviceErrands, DeviceStates
  <2>4. dev.orch = "idle" /\ found.orch_rc = -1 /\ ~ dev.logged
    BY <1>1 DEF DeviceInv, PhaseInv, Unstarted
  <2>5. PhaseInv' /\ OrchInv' /\ ReadInv'
    BY <1>6, <2>1, <2>2, <2>4 DEF PhaseInv, OrchInv, ReadInv, Unstarted
  <2>6. ToolInv'
    BY <1>5, <1>6, <2>1, <2>2, <2>3, ToolStays
  <2> QED
    BY <1>5, <2>3, <2>5, <2>6 DEF DeviceInv
<1> QED
  BY <1>8, <1>9

EndsWith(rc) ==
  /\ dev' \in DeviceStates /\ dev'.tool = dev.tool /\ dev'.metadata = dev.metadata
  /\ dev'.listed = dev.listed /\ dev'.logged = TRUE /\ dev'.orch = "ended" /\ dev'.rc = rc

LEMMA EndedAtOnce ==
  ASSUME dev \in DeviceStates, NEW rc \in Int,
         dev' = [dev EXCEPT !.orch = "ended", !.rc = rc, !.logged = TRUE]
  PROVE  EndsWith(rc)
BY DEF DeviceStates, EndsWith

LEMMA StartKeepsDevice ==
  ASSUME DeviceInv, StartScan
  PROVE  DeviceInv' /\ lost <= lost'
<1>1. PICK net \in Net(Remote) :
       /\ LoseFor(<<net>>)
       /\ GoTo(IF net = "whole" THEN "wait" ELSE "read")
       /\ dev' = IF ~GotThrough(net) \/ ~dev.work THEN dev
                 ELSE IF ~CanRun(dev.tool) THEN [dev EXCEPT !.orch = "ended", !.rc = 126, !.logged = TRUE]
                 ELSE IF ~dev.metadata THEN [dev EXCEPT !.orch = "ended", !.rc = 1, !.logged = TRUE]
                 ELSE [dev EXCEPT !.orch = "running", !.logged = TRUE]
  BY DEF StartScan
<1>2. errand.phase = "start" /\ lost \in Nat /\ found' = found /\ dev \in DeviceStates
  BY DEF StartScan, DeviceInv, DeviceType, DeviceStates
<1>3. lost' \in Nat /\ lost <= lost'
  BY <1>1, <1>2, LostFew
<1>4. /\ dev.orch = "idle" /\ ~ dev.logged /\ found.orch_rc = -1 /\ found.scan.status = "none"
      /\ dev.listed > 0
  BY <1>2 DEF DeviceInv, PhaseInv, OrchInv, Unstarted
<1>5. errand' \in DeviceErrands /\ errand'.phase \in {"wait", "read"}
  <2>1. CASE net = "whole"
    BY <1>1, <1>2, <2>1, GoToIs DEF Phases
  <2>2. CASE net # "whole"
    BY <1>1, <1>2, <2>2, GoToIs DEF Phases
  <2> QED
    BY <2>1, <2>2
<1>6. /\ dev' \in DeviceStates /\ dev'.tool = dev.tool /\ dev'.metadata = dev.metadata
      /\ dev'.listed = dev.listed /\ (dev'.logged <=> dev'.orch # "idle")
      /\ dev'.orch = "running" => CanRun(dev.tool) /\ dev.metadata
      /\ dev'.orch = "ended" => dev'.rc # 0
  <2>1. CASE ~GotThrough(net) \/ ~dev.work
    BY <1>1, <1>2, <1>4, <2>1
  <2>2. CASE ~ (~GotThrough(net) \/ ~dev.work) /\ ~ CanRun(dev.tool)
    <3>1. PICK rc \in Int : rc = 126
      OBVIOUS
    <3>2. dev' = [dev EXCEPT !.orch = "ended", !.rc = rc, !.logged = TRUE]
      BY <1>1, <2>2, <3>1
    <3>3. EndsWith(rc)
      BY <1>2, <3>2, EndedAtOnce
    <3> QED
      BY <3>1, <3>3 DEF EndsWith
  <2>3. CASE ~ (~GotThrough(net) \/ ~dev.work) /\ CanRun(dev.tool) /\ ~ dev.metadata
    <3>1. PICK rc \in Int : rc = 1
      OBVIOUS
    <3>2. dev' = [dev EXCEPT !.orch = "ended", !.rc = rc, !.logged = TRUE]
      BY <1>1, <2>3, <3>1
    <3>3. EndsWith(rc)
      BY <1>2, <3>2, EndedAtOnce
    <3> QED
      BY <3>1, <3>3 DEF EndsWith
  <2>4. CASE ~ (~GotThrough(net) \/ ~dev.work) /\ CanRun(dev.tool) /\ dev.metadata
    <3>1. dev' = [dev EXCEPT !.orch = "running", !.logged = TRUE]
      BY <1>1, <2>4
    <3> QED
      BY <1>2, <2>4, <3>1 DEF DeviceStates
  <2> QED
    BY <2>1, <2>2, <2>3, <2>4
<1>7. DeviceType'
  BY <1>2, <1>3, <1>5, <1>6 DEF DeviceInv, DeviceType, DeviceErrands, DeviceStates
<1>8. PhaseInv' /\ ReadInv'
  BY <1>2, <1>4, <1>5, <1>6 DEF PhaseInv, ReadInv, Unstarted
<1>9. OrchInv'
  BY <1>4, <1>5, <1>6 DEF OrchInv, Equipped
<1>10. ToolInv'
  BY <1>2, <1>3, <1>5, <1>6, <1>7, ToolStays
<1> QED
  BY <1>3, <1>7, <1>8, <1>9, <1>10 DEF DeviceInv

LEMMA ReturnKeepsDevice ==
  ASSUME DeviceInv, ScanReturns \/ ScanIsLeft
  PROVE  DeviceInv' /\ lost <= lost'
<1>1. errand.phase = "wait" /\ lost \in Nat /\ dev' = dev /\ GoTo("read") /\ dev \in DeviceStates
  BY DEF ScanReturns, ScanIsLeft, DeviceInv, DeviceType, DeviceStates
<1>2. lost' \in Nat /\ lost <= lost'
  <2>1. ASSUME ScanIsLeft PROVE lost' \in Nat /\ lost <= lost'
    BY <1>1, <2>1, LostFew DEF ScanIsLeft
  <2> QED
    BY <1>1, <2>1 DEF ScanReturns
<1>3. /\ found' \in [tool : ToolReports, corpus : BOOLEAN, orch_rc : Int, scan : Scans]
      /\ found'.tool = found.tool /\ found'.scan = found.scan
      /\ found'.orch_rc >= 0 => dev.orch # "running" /\ (dev.orch = "ended" => found'.orch_rc = dev.rc)
  <2>1. ASSUME ScanIsLeft PROVE found' = found
    BY <2>1 DEF ScanIsLeft
  <2>2. ASSUME ScanReturns
        PROVE  /\ dev.orch # "running"
               /\ found' = [found EXCEPT !.orch_rc = IF dev.orch = "ended" THEN dev.rc ELSE 1]
    BY <2>2 DEF ScanReturns
  <2> QED
    BY <1>1, <2>1, <2>2 DEF DeviceInv, DeviceType, PhaseInv, DeviceStates
<1>4. errand' \in DeviceErrands /\ errand'.phase = "read"
  BY <1>1, GoToIs DEF Phases
<1>5. DeviceType'
  BY <1>1, <1>2, <1>3, <1>4 DEF DeviceInv, DeviceType, DeviceErrands
<1>6. found.scan.status = "none"
  BY <1>1 DEF DeviceInv, PhaseInv
<1>7. PhaseInv' /\ ReadInv'
  BY <1>1, <1>3, <1>4, <1>6 DEF DeviceInv, PhaseInv, ReadInv, Unstarted
<1>8. OrchInv'
  BY <1>1, <1>4 DEF DeviceInv, OrchInv, Equipped
<1>9. ToolInv'
  BY <1>1, <1>2, <1>3, <1>4, <1>5, ToolStays
<1> QED
  BY <1>2, <1>5, <1>7, <1>8, <1>9 DEF DeviceInv

LEMMA ReadKeepsDevice ==
  ASSUME DeviceInv, ReadLog
  PROVE  DeviceInv' /\ lost <= lost'
<1>1. PICK net \in Net(Remote), n \in 0..Len(dev.log) :
       /\ net = "cut" \/ n = Len(dev.log)
       /\ LoseFor(<<net>>)
       /\ found' = [found EXCEPT !.scan =
            IF ~CameWhole(net) THEN ErrorResult("no log")
            ELSE LET parsed == ParseLog(SubSeq(dev.log, 1, n))
                 IN  [status |-> "ok", orch_rc |-> found.orch_rc,
                      sdc_hits |-> parsed.sdc_hits, total_failed |-> parsed.total_failed]]
  BY DEF ReadLog
<1>2. /\ errand.phase = "read" /\ lost \in Nat /\ dev' = dev /\ GoTo("reported")
      /\ dev \in DeviceStates /\ dev.log \in Seq(LogKinds)
      /\ found \in [tool : ToolReports, corpus : BOOLEAN, orch_rc : Int, scan : Scans]
  BY DEF ReadLog, DeviceInv, DeviceType, DeviceStates, DeviceLogs
<1>3. lost' \in Nat /\ lost <= lost'
  BY <1>1, <1>2, LostFew
<1>4. errand' \in DeviceErrands /\ errand'.phase = "reported"
  BY <1>2, GoToIs DEF Phases
<1>5. /\ found' \in [tool : ToolReports, corpus : BOOLEAN, orch_rc : Int, scan : Scans]
      /\ found'.tool = found.tool /\ found'.orch_rc = found.orch_rc
      /\ found'.scan.status = "ok" =>
           /\ dev.orch # "idle" /\ found'.scan.orch_rc = found.orch_rc
           /\ found'.scan.total_failed = Count(dev.log, FailedKinds)
           /\ found'.scan.sdc_hits = Count(dev.log, {"sdc"})
  <2>1. CASE ~ CameWhole(net)
    <3>1. ErrorResult("no log") \in Scans /\ ErrorResult("no log").status = "no log"
      BY DEF ErrorResult, Scans
    <3> QED
      BY <1>1, <1>2, <2>1, <3>1
  <2>2. CASE CameWhole(net)
    <3>1. net = "whole" /\ dev.logged
      BY <2>2 DEF CameWhole, Rc
    <3>2. n = Len(dev.log) /\ dev.orch # "idle"
      BY <1>1, <3>1 DEF DeviceInv, PhaseInv
    <3> DEFINE hits == Count(SubSeq(dev.log, 1, n), SdcKinds)
               failed == Count(SubSeq(dev.log, 1, n), FailedKinds)
    <3>3. hits = Count(dev.log, {"sdc"}) /\ failed = Count(dev.log, FailedKinds)
      BY <1>2, <3>2, CountIs DEF SdcKinds
    <3>4. hits \in Nat /\ failed \in Nat
      BY <1>2, <3>3, CountIs
    <3>5. found' = [found EXCEPT !.scan = [status |-> "ok", orch_rc |-> found.orch_rc,
                                           sdc_hits |-> hits, total_failed |-> failed]]
      BY <1>1, <2>2 DEF ParseLog
    <3> HIDE DEF hits, failed
    <3>6. [status |-> "ok", orch_rc |-> found.orch_rc, sdc_hits |-> hits, total_failed |-> failed]
            \in Scans
      <4>1. found.orch_rc \in Int
        BY <1>2
      <4> QED
        BY <3>4, <4>1 DEF Scans
    <3> QED
      BY <1>2, <3>2, <3>3, <3>5, <3>6
  <2> QED
    BY <2>1, <2>2
<1>6. DeviceType'
  BY <1>2, <1>3, <1>4, <1>5 DEF DeviceInv, DeviceType, DeviceErrands
<1>7. Count(dev.log, FailedKinds) \in Nat
  BY <1>2, CountIs
<1>8. PhaseInv'
  BY <1>2, <1>4 DEF DeviceInv, PhaseInv, Unstarted
<1>9. ReadInv'
  BY <1>2, <1>5, <1>7 DEF DeviceInv, ReadInv
<1>10. OrchInv'
  BY <1>2, <1>4 DEF DeviceInv, OrchInv, Equipped
<1>11. ToolInv'
  BY <1>2, <1>3, <1>4, <1>5, <1>6, ToolStays
<1> QED
  BY <1>3, <1>6, <1>8, <1>9, <1>10, <1>11 DEF DeviceInv

LEMMA OrchestratorKeepsDevice ==
  ASSUME DeviceInv, OrchestratorLogs \/ OrchestratorEnds
  PROVE  DeviceInv' /\ lost <= lost'
<1>1. /\ dev.orch = "running" /\ UNCHANGED <<errand, found, lost>> /\ dev \in DeviceStates
      /\ dev.log \in Seq(LogKinds)
  BY DEF OrchestratorLogs, OrchestratorEnds, DeviceInv, DeviceType, DeviceStates, DeviceLogs
<1>2. lost' \in Nat /\ lost <= lost'
  BY <1>1 DEF DeviceInv, DeviceType
<1>3. Equipped /\ ~ (found.orch_rc >= 0) /\ dev.logged /\ errand.phase \notin Unstarted
  BY <1>1 DEF DeviceInv, PhaseInv, OrchInv, ReadInv
<1>4. /\ dev' \in DeviceStates /\ dev'.tool = dev.tool /\ dev'.metadata = dev.metadata
      /\ dev'.listed = dev.listed /\ dev'.logged /\ dev'.orch # "idle"
      /\ Count(dev.log, FailedKinds) <= Count(dev'.log, FailedKinds)
      /\ dev'.orch = "ended" /\ dev'.rc = 0 => Count(dev'.log, {"sdc"}) = 0
  <2>1. CASE OrchestratorLogs
    <3>1. PICK kind \in LogKinds : dev' = [dev EXCEPT !.log = Append(@, kind)]
      BY <2>1 DEF OrchestratorLogs
    <3>2. Append(dev.log, kind) \in DeviceLogs
      BY <1>1 DEF DeviceLogs
    <3>3. Count(dev.log, FailedKinds) <= Count(Append(dev.log, kind), FailedKinds)
      BY <1>1, CountIs
    <3>4. /\ dev' \in DeviceStates /\ dev'.tool = dev.tool /\ dev'.metadata = dev.metadata
          /\ dev'.listed = dev.listed /\ dev'.logged = dev.logged /\ dev'.orch = dev.orch
          /\ dev'.log = Append(dev.log, kind)
      BY <1>1, <3>1, <3>2 DEF DeviceStates
    <3> QED
      BY <1>1, <1>3, <3>3, <3>4
  <2>2. CASE OrchestratorEnds
    <3>1. PICK rc \in {OrchestratorRc(dev.log), 124} :
            dev' = [dev EXCEPT !.orch = "ended", !.rc = rc]
      BY <2>2 DEF OrchestratorEnds
    <3>2. OrchestratorRc(dev.log) \in {0, 1}
      BY DEF OrchestratorRc
    <3>3. /\ dev' \in DeviceStates /\ dev'.tool = dev.tool /\ dev'.metadata = dev.metadata
          /\ dev'.listed = dev.listed /\ dev'.logged = dev.logged /\ dev'.orch = "ended"
          /\ dev'.log = dev.log /\ dev'.rc = rc
      <4>1. rc \in Int
        BY <3>2
      <4> QED
        BY <1>1, <3>1, <4>1 DEF DeviceStates
    <3>4. ASSUME rc = 0 PROVE Count(dev.log, {"sdc"}) = 0
      <4>1. /\ Count(dev.log, {"sdc"}) \in Nat /\ Count(dev.log, {"sdc", "misbehave"}) \in Nat
            /\ Count(dev.log, {"sdc"}) <= Count(dev.log, {"sdc", "misbehave"})
        BY <1>1, CountIs
      <4>2. ~ (Count(dev.log, {"sdc", "misbehave"}) > 0)
        BY <3>4 DEF OrchestratorRc
      <4> QED
        BY <4>1, <4>2
    <3>5. Count(dev.log, FailedKinds) \in Nat
      BY <1>1, CountIs
    <3> QED
      BY <1>3, <3>3, <3>4, <3>5
  <2> QED
    BY <2>1, <2>2
<1>5. DeviceType'
  BY <1>1, <1>2, <1>4 DEF DeviceInv, DeviceType, DeviceStates
<1>6. PhaseInv'
  BY <1>1, <1>3, <1>4 DEF DeviceInv, PhaseInv
<1>7. OrchInv'
  BY <1>1, <1>3, <1>4 DEF OrchInv, Equipped, Unstarted
<1>8. Count(dev.log, FailedKinds) \in Nat /\ Count(dev'.log, FailedKinds) \in Nat
  BY <1>1, <1>4, CountIs DEF DeviceStates, DeviceLogs
<1>9. found.scan.status = "ok" => found.scan.total_failed \in Int
  BY DEF DeviceInv, DeviceType, Scans
<1>10. ReadInv'
  BY <1>1, <1>3, <1>4, <1>8, <1>9 DEF DeviceInv, ReadInv
<1>11. ToolInv'
  BY <1>1, <1>2, <1>3, <1>4, <1>5, ToolStays DEF Unstarted
<1> QED
  BY <1>2, <1>5, <1>6, <1>7, <1>10, <1>11 DEF DeviceInv

\* What has nothing to do with the device leaves it alone, but for lost connections.
LEMMA OthersKeepDevice ==
  ASSUME DeviceInv, UNCHANGED <<errand, dev, found>>, lost' \in Nat, lost <= lost'
  PROVE  DeviceInv'
<1>1. lost' = 0 => lost = 0
  BY DEF DeviceInv, DeviceType
<1>2. DeviceType' /\ PhaseInv' /\ OrchInv' /\ ReadInv'
  BY DEF DeviceInv, DeviceType, PhaseInv, OrchInv, ReadInv, Equipped
<1>3. ToolInv'
  BY <1>1 DEF DeviceInv, ToolInv
<1> QED
  BY <1>2, <1>3 DEF DeviceInv

LEMMA DeviceKeepsDevice ==
  ASSUME DeviceInv, DeviceNext
  PROVE  DeviceInv' /\ lost <= lost' /\ UNCHANGED <<boards, results, summary>>
<1>1. UNCHANGED <<boards, results, summary>>
  BY DEF DeviceNext, CompareMd5, PutTool, ProbeTool, PutCorpus, MakeWork, ListCorpus, WriteMetadata,
         StartScan, ScanReturns, ScanIsLeft, ReadLog, OrchestratorLogs, OrchestratorEnds, Device
<1>2. DeviceInv' /\ lost <= lost'
  BY Md5KeepsDevice, PutKeepsDevice, ProbeKeepsDevice, CorpusKeepsDevice, WorkKeepsDevice,
     ListKeepsDevice, MetadataKeepsDevice, StartKeepsDevice, ReturnKeepsDevice, ReadKeepsDevice,
     OrchestratorKeepsDevice DEF DeviceNext
<1> QED
  BY <1>1, <1>2

-----------------------------------------------------------------------------
\* The boards: the hits in a log and the lines a poll counts, the counts it may be said
\* to have, and a board with its entry of the dictionary.
Hits(log) == Count(log, {"sdc"})
Matches(log) == Count(log, {"mismatch"})
BoardLogSet == Seq(BoardKinds \cup {"none", "sdc", "mismatch"})
WasLogged(x, n) == n <= Matches(x.log) \/ n <= Matches(x.before)

BoardStates == [thread : {"start", "wait", "return", "raise", "done"},
                orch : {"idle", "running", "ended"},
                log : BoardLogSet, before : BoardLogSet, closed : BOOLEAN,
                poll : {"asleep", "read", "stopped"}, stat : Seq(Nat)]
BoardEntries == [status : {"?", "done", "error"}, closed : BOOLEAN, stat : Seq(Nat)]

\* The log is begun anew once, after the last was counted.
LogEnded(x) == x.orch = "ended" \/ (x.orch = "idle" /\ x.log = NoLog)

\* Under the closing line the command has ended, and a thread that returned without a
\* failed call has that line; what a poll took from the log, or put in the dictionary,
\* stays covered by it.
BoardOk(x, r, failed) ==
  /\ x \in BoardStates /\ r \in BoardEntries
  /\ x.thread = "done" => r.status # "?"
  /\ x.thread = "start" => x.log = x.before /\ x.orch = "idle" /\ ~x.closed
  /\ x.closed => x.thread \in {"return", "done"} /\ LogEnded(x)
  /\ r.closed => x.closed /\ r.status = "done" /\ x.thread = "done"
  /\ failed = 0 => /\ x.thread # "raise"
                   /\ x.thread = "return" => x.closed
                   /\ x.thread = "done" => r.closed
  /\ HitsIn(x.stat) \in Nat /\ WasLogged(x, HitsIn(x.stat))
  /\ HitsIn(r.stat) \in Nat /\ WasLogged(x, HitsIn(r.stat))

\* What was printed or collected of board b, whose state is x with the entry r.
PrintedOk(p, x, failed) ==
  /\ p.status \in {"done", "error"} /\ p.sdc \in Nat /\ WasLogged(x, p.sdc)
  /\ p.closed => p.status = "done" /\ LogEnded(x)
  /\ failed = 0 => p.closed
PrintedInv ==
  summary.printed # <<>> =>
    summary.main # "running" /\ \A b \in Boards : PrintedOk(summary.printed[b], boards[b], lost)

CollectedOk(n, b, x, r, failed) ==
  /\ n \in Nat /\ n <= Hits(x.log)
  /\ failed = 0 \/ (b = LocalBoard /\ r.closed) => n = Hits(x.log)
CollectedInv ==
  summary.main = "collected" =>
    \A b \in Boards : CollectedOk(summary.collected[b], b, boards[b], results[b], lost)

Stages == {"running", "print", "dump", "crashed", "over", "collected"}
BoardsInv ==
  /\ boards = [b \in Boards |-> boards[b]] /\ results = [b \in Boards |-> results[b]]
  /\ summary = [main |-> summary.main, printed |-> summary.printed, collected |-> summary.collected]
  /\ summary.main \in Stages /\ lost \in Nat
  /\ \A b \in Boards : BoardOk(boards[b], results[b], lost)
  /\ summary.main # "running" => \A b \in Boards : boards[b].thread = "done"
  /\ PrintedInv /\ CollectedInv

LEMMA BoardsInvMeans == BoardsInv => BoardReportIsTrue
BY DEF BoardsInv, PrintedInv, PrintedOk, CollectedInv, CollectedOk, LogEnded, WasLogged, Hits,
       Matches, BoardReportIsTrue

LEMMA HitsAre ==
  /\ HitsIn(<<>>) = 0
  /\ \A m \in Nat : HitsIn(<<m>>) = 0 /\ <<m>> \in Seq(Nat)
  /\ \A m, n \in Nat : HitsIn(<<m, n>>) = n /\ <<m, n>> \in Seq(Nat)
BY DEF HitsIn

LEMMA HitsOfLogs ==
  ASSUME NEW log \in BoardLogSet
  PROVE  /\ Hits(log) \in Nat /\ Matches(log) \in Nat
         /\ \A kind \in BoardKinds : /\ Append(log, kind) \in BoardLogSet
                                     /\ Hits(log) <= Hits(Append(log, kind))
                                     /\ Matches(log) <= Matches(Append(log, kind))
         /\ \A n \in 0..Len(log) : Hits(SubSeq(log, 1, n)) \in Nat /\ Hits(SubSeq(log, 1, n)) <= Hits(log)
         /\ Hits(SubSeq(log, 1, Len(log))) = Hits(log)
<1> DEFINE S == BoardKinds \cup {"none", "sdc", "mismatch"}
<1>1. log \in Seq(S)
  BY DEF BoardLogSet
<1>2. \A kind \in BoardKinds : kind \in S /\ Append(log, kind) \in BoardLogSet
  BY <1>1 DEF BoardLogSet
<1> HIDE DEF S
<1> QED
  BY <1>1, <1>2, CountIs DEF Hits, Matches

LEMMA InitBoards == BoardInit => BoardsInv
<1> SUFFICES ASSUME BoardInit PROVE BoardsInv
  OBVIOUS
<1>1. PICK old \in {NoLog, <<"sdc", "mismatch">>} : boards = [b \in Boards |-> NewBoard(old)]
  BY DEF BoardInit
<1>2. old \in BoardLogSet /\ <<>> \in Seq(Nat)
  <2>1. NoLog \in BoardLogSet
    BY DEF BoardLogSet, NoLog
  <2>2. <<"sdc", "mismatch">> \in BoardLogSet
    BY DEF BoardLogSet
  <2> QED
    BY <2>1, <2>2
<1>3. Matches(old) \in Nat
  BY <1>2, HitsOfLogs
<1>4. results = [b \in Boards |-> [status |-> "?", closed |-> FALSE, stat |-> <<>>]]
  BY DEF BoardInit
<1>5. \A b \in Boards : BoardOk(boards[b], results[b], lost)
  BY <1>1, <1>2, <1>3, <1>4, HitsAre DEF NewBoard, BoardOk, BoardStates, BoardEntries, WasLogged
<1>6. summary = [main |-> "running", printed |-> <<>>, collected |-> <<>>] /\ lost = 0
  BY DEF BoardInit
<1> QED
  BY <1>1, <1>4, <1>5, <1>6 DEF BoardsInv, PrintedInv, CollectedInv, Stages

\* A step of one board's threads, and of the orchestrator on it: its log grows, not after
\* a command that has ended, and what its thread has stored stays.
Follows(x, y, r, q) ==
  /\ y.thread = "done" => x.thread = "done" /\ r.closed = q.closed
  /\ y.thread # "start" =>
       /\ Hits(y.log) <= Hits(x.log) /\ Matches(y.log) <= Matches(x.log) /\ x.before = y.before
       /\ LogEnded(y) => x.log = y.log /\ x.orch = y.orch

LEMMA BoardMoves ==
  ASSUME BoardsInv, NEW b \in Boards, NEW x, NEW r, NEW main \in Stages,
         boards' = [boards EXCEPT ![b] = x], results' = [results EXCEPT ![b] = r],
         summary' = [summary EXCEPT !.main = main],
         main = summary.main \/ (summary.main = "dump" /\ main = "crashed"),
         lost' \in Nat, lost <= lost', BoardOk(x, r, lost'),
         Follows(x, boards[b], r, results[b])
  PROVE  BoardsInv'
<1>1. /\ boards' = [c \in Boards |-> boards'[c]] /\ results' = [c \in Boards |-> results'[c]]
      /\ \A c \in Boards : boards'[c] = IF c = b THEN x ELSE boards[c]
      /\ \A c \in Boards : results'[c] = IF c = b THEN r ELSE results[c]
  BY DEF BoardsInv
<1>2. summary' = [main |-> main, printed |-> summary.printed, collected |-> summary.collected]
  BY DEF BoardsInv
<1>3. lost' = 0 => lost = 0
  BY DEF BoardsInv
<1>4. \A c \in Boards : BoardOk(boards'[c], results'[c], lost')
  BY <1>1, <1>3, ZenonT(30) DEF BoardsInv, BoardOk
<1>5. main # "running" => \A c \in Boards : boards[c].thread = "done" /\ boards'[c].thread = "done"
  <2> SUFFICES ASSUME main # "running", NEW c \in Boards
               PROVE  boards[c].thread = "done" /\ boards'[c].thread = "done"
    OBVIOUS
  <2>1. boards[c].thread = "done" /\ boards[b].thread = "done"
    BY DEF BoardsInv
  <2>2. x.thread = "done"
    BY <2>1 DEF Follows
  <2> QED
    BY <1>1, <2>1, <2>2
<1>6. \A c \in Boards : /\ Hits(boards[c].log) \in Nat /\ Hits(boards'[c].log) \in Nat
                        /\ Matches(boards[c].log) \in Nat /\ Matches(boards'[c].log) \in Nat
                        /\ Matches(boards[c].before) \in Nat
  BY <1>4, HitsOfLogs DEF BoardsInv, BoardOk, BoardStates
<1>7. ASSUME main # "running", NEW c \in Boards
      PROVE  /\ Hits(boards[c].log) <= Hits(boards'[c].log)
             /\ Matches(boards[c].log) <= Matches(boards'[c].log)
             /\ boards'[c].before = boards[c].before
             /\ results'[c].closed = results[c].closed
             /\ LogEnded(boards[c]) => LogEnded(boards'[c]) /\ boards'[c].log = boards[c].log
  <2>1. boards[c].thread = "done"
    BY <1>5, <1>7
  <2>2. CASE c = b
    BY <1>1, <2>1, <2>2 DEF Follows, LogEnded
  <2>3. CASE c # b
    BY <1>1, <1>6, <2>3
  <2> QED
    BY <2>2, <2>3
<1>8. PrintedInv'
  <2>1. ASSUME summary.printed # <<>>, NEW c \in Boards
        PROVE  main # "running" /\ PrintedOk(summary.printed[c], boards'[c], lost')
    <3>1. main # "running" /\ PrintedOk(summary.printed[c], boards[c], lost)
      BY <2>1 DEF BoardsInv, PrintedInv
    <3>2. /\ Matches(boards[c].log) <= Matches(boards'[c].log) /\ boards'[c].before = boards[c].before
          /\ LogEnded(boards[c]) => LogEnded(boards'[c])
      BY <1>7, <3>1
    <3>3. summary.printed[c].sdc \in Nat /\ WasLogged(boards'[c], summary.printed[c].sdc)
      BY <1>6, <3>1, <3>2 DEF PrintedOk, WasLogged
    <3> QED
      BY <1>3, <3>1, <3>2, <3>3 DEF PrintedOk
  <2>2. summary.printed # <<>> => main # "running"
    BY DEF BoardsInv, PrintedInv
  <2> QED
    BY <1>2, <2>1, <2>2 DEF PrintedInv
<1>9. CollectedInv'
  <2>1. ASSUME main = "collected", NEW c \in Boards
        PROVE  CollectedOk(summary.collected[c], c, boards'[c], results'[c], lost')
    <3>1. /\ CollectedOk(summary.collected[c], c, boards[c], results[c], lost)
          /\ BoardOk(boards[c], results[c], lost) /\ boards[c].thread = "done"
      BY <2>1 DEF BoardsInv, CollectedInv
    <3>2. /\ Hits(boards[c].log) <= Hits(boards'[c].log) /\ results'[c].closed = results[c].closed
          /\ LogEnded(boards[c]) => boards'[c].log = boards[c].log
      BY <1>7, <2>1
    <3>3. lost' = 0 \/ results[c].closed => boards'[c].log = boards[c].log
      BY <1>3, <3>1, <3>2 DEF BoardOk
    <3> QED
      BY <1>3, <1>6, <3>1, <3>2, <3>3 DEF CollectedOk
  <2> QED
    BY <1>2, <2>1 DEF CollectedInv
<1> QED
  BY <1>1, <1>2, <1>4, <1>5, <1>8, <1>9 DEF BoardsInv


LEMMA LostOne ==
  ASSUME lost \in Nat
  PROVE  \A net : LoseFor(<<net>>) => lost' \in Nat /\ lost <= lost' /\ (lost' = 0 => net = "whole")
<1> SUFFICES ASSUME NEW net, LoseFor(<<net>>)
             PROVE  lost' \in Nat /\ lost <= lost' /\ (lost' = 0 => net = "whole")
  OBVIOUS
<1> QED
  BY LostFew

LEMMA LostOneMore ==
  ASSUME lost \in Nat, NEW net, LoseFor(<<net>>)
  PROVE  lost' \in Nat /\ lost <= lost' /\ (lost' = 0 => lost = 0)
<1>1. lost' \in Nat /\ lost <= lost'
  BY LostOne
<1> QED
  BY <1>1

LEMMA BoardMovesAlone ==
  ASSUME BoardsInv, NEW b \in Boards, NEW x, boards' = [boards EXCEPT ![b] = x],
         UNCHANGED <<results, summary>>,
         lost' \in Nat, lost <= lost', BoardOk(x, results[b], lost'),
         Follows(x, boards[b], results[b], results[b])
  PROVE  BoardsInv'
<1> DEFINE r == results[b]
           main == summary.main
<1>1. results' = [results EXCEPT ![b] = r]
  BY DEF BoardsInv
<1>2. summary' = [summary EXCEPT !.main = main] /\ main \in Stages
  BY DEF BoardsInv
<1>3. main = summary.main \/ (summary.main = "dump" /\ main = "crashed")
  OBVIOUS
<1>4. BoardOk(x, r, lost') /\ Follows(x, boards[b], r, results[b])
  OBVIOUS
<1> HIDE DEF r, main
<1> QED
  BY <1>1, <1>2, <1>3, <1>4, BoardMoves

\* What a board's log has to do with counts.
LEMMA LogsOfBoards ==
  ASSUME BoardsInv, NEW b \in Boards
  PROVE  /\ BoardOk(boards[b], results[b], lost) /\ lost \in Nat
         /\ boards[b] \in BoardStates
         /\ boards[b].log \in BoardLogSet /\ boards[b].before \in BoardLogSet
         /\ Hits(boards[b].log) \in Nat /\ Matches(boards[b].log) \in Nat
         /\ Matches(boards[b].before) \in Nat
<1>1. /\ BoardOk(boards[b], results[b], lost) /\ lost \in Nat
      /\ boards[b].log \in BoardLogSet /\ boards[b].before \in BoardLogSet
  BY DEF BoardsInv, BoardOk, BoardStates
<1> QED
  BY <1>1, HitsOfLogs DEF BoardOk

\* What has nothing to do with the boards leaves them alone, but for lost connections.
LEMMA OthersKeepBoards ==
  ASSUME BoardsInv, UNCHANGED <<boards, results, summary>>, lost' \in Nat, lost <= lost'
  PROVE  BoardsInv'
<1>1. lost' = 0 => lost = 0
  BY DEF BoardsInv
<1>2. \A b \in Boards : BoardOk(boards'[b], results'[b], lost')
  BY <1>1 DEF BoardsInv, BoardOk
<1>3. PrintedInv' /\ CollectedInv'
  BY <1>1 DEF BoardsInv, PrintedInv, PrintedOk, CollectedInv, CollectedOk
<1> QED
  BY <1>2, <1>3 DEF BoardsInv

LEMMA StartKeepsBoards ==
  ASSUME BoardsInv, NEW b \in Boards, BoardStarts(b)
  PROVE  BoardsInv' /\ lost' \in Nat /\ lost <= lost'
<1>1. /\ lost \in Nat /\ UNCHANGED <<results, summary>>
      /\ boards[b].thread = "start" /\ BoardOk(boards[b], results[b], lost)
      /\ boards[b].log \in BoardLogSet /\ Matches(boards[b].log) \in Nat
  BY LogsOfBoards DEF BoardStarts
<1>2. <<>> \in BoardLogSet /\ Matches(<<>>) \in Nat /\ boards[b].before = boards[b].log
  <2>1. <<>> \in BoardLogSet
    BY DEF BoardLogSet
  <2> QED
    BY <1>1, <2>1, HitsOfLogs DEF BoardOk
<1> DEFINE started == [boards[b] EXCEPT !.thread = "wait", !.orch = "running", !.log = <<>>]
           answered == [boards[b] EXCEPT !.thread = "return", !.closed = TRUE]
           left == [boards[b] EXCEPT !.thread = "return"]
           raised == [boards[b] EXCEPT !.thread = "raise"]
<1>3. CASE LoseFor(<<"whole">>) /\ boards' = [boards EXCEPT ![b] = started]
  <2>1. lost' \in Nat /\ lost <= lost' /\ (lost' = 0 => lost = 0)
    BY <1>1, <1>3, LostOneMore
  <2>2. BoardOk(started, results[b], lost') /\ Follows(started, boards[b], results[b], results[b])
    BY <1>1, <1>2, <2>1 DEF BoardOk, BoardStates, WasLogged, Follows
  <2> HIDE DEF started
  <2> QED
    BY <1>1, <1>3, <2>1, <2>2, BoardMovesAlone
<1>4. CASE /\ boards[b].log = NoLog /\ LoseFor(<<"whole">>)
           /\ boards' = [boards EXCEPT ![b] = answered]
  <2>1. lost' \in Nat /\ lost <= lost' /\ (lost' = 0 => lost = 0)
    BY <1>1, <1>4, LostOneMore
  <2>2. BoardOk(answered, results[b], lost') /\ Follows(answered, boards[b], results[b], results[b])
    BY <1>1, <1>2, <1>4, <2>1 DEF BoardOk, BoardStates, WasLogged, LogEnded, Follows
  <2> HIDE DEF answered
  <2> QED
    BY <1>1, <1>4, <2>1, <2>2, BoardMovesAlone
<1>5. CASE LoseFor(<<"refused">>) /\ boards' = [boards EXCEPT ![b] = left]
  <2>1. lost' \in Nat /\ lost <= lost' /\ lost' # 0
    BY <1>1, <1>5, LostOne
  <2>2. BoardOk(left, results[b], lost') /\ Follows(left, boards[b], results[b], results[b])
    BY <1>1, <1>2, <2>1 DEF BoardOk, BoardStates, WasLogged, Follows
  <2> HIDE DEF left
  <2> QED
    BY <1>1, <1>5, <2>1, <2>2, BoardMovesAlone
<1>6. CASE LoseFor(<<"raised">>) /\ boards' = [boards EXCEPT ![b] = raised]
  <2>1. lost' \in Nat /\ lost <= lost' /\ lost' # 0
    BY <1>1, <1>6, LostOne
  <2>2. BoardOk(raised, results[b], lost') /\ Follows(raised, boards[b], results[b], results[b])
    BY <1>1, <1>2, <2>1 DEF BoardOk, BoardStates, WasLogged, Follows
  <2> HIDE DEF raised
  <2> QED
    BY <1>1, <1>6, <2>1, <2>2, BoardMovesAlone
<1> QED
  BY <1>3, <1>4, <1>5, <1>6 DEF BoardStarts, BoardsInv

LEMMA LogsKeepBoards ==
  ASSUME BoardsInv, NEW b \in Boards, BoardLogs(b) \/ BoardEnds(b)
  PROVE  BoardsInv' /\ lost' \in Nat /\ lost <= lost'
<1>1. /\ lost' = lost /\ lost \in Nat /\ UNCHANGED <<results, summary>>
      /\ boards[b].orch = "running" /\ BoardOk(boards[b], results[b], lost)
  BY LogsOfBoards DEF BoardLogs, BoardEnds
<1>2. boards[b].log \in BoardLogSet /\ boards[b].before \in BoardLogSet /\ boards[b].thread # "start"
  BY <1>1 DEF BoardOk, BoardStates
<1>3. lost' \in Nat /\ lost <= lost' /\ ~LogEnded(boards[b])
  BY <1>1 DEF LogEnded
<1>4. /\ Hits(boards[b].log) \in Nat /\ Matches(boards[b].log) \in Nat
      /\ Matches(boards[b].before) \in Nat
  BY <1>2, HitsOfLogs
<1>5. ASSUME BoardLogs(b) PROVE BoardsInv'
  <2>1. PICK kind \in BoardKinds : boards' = [boards EXCEPT ![b].log = Append(@, kind)]
    BY <1>5 DEF BoardLogs
  <2> DEFINE log == Append(boards[b].log, kind)
             x == [boards[b] EXCEPT !.log = log]
  <2>2. boards' = [boards EXCEPT ![b] = x]
    BY <2>1 DEF BoardsInv
  <2>3. /\ log \in BoardLogSet /\ Hits(boards[b].log) <= Hits(log) /\ Matches(boards[b].log) <= Matches(log)
        /\ Hits(log) \in Nat /\ Matches(log) \in Nat
    BY <1>2, HitsOfLogs
  <2> HIDE DEF log
  <2>4. /\ x \in BoardStates /\ x.log = log /\ x.before = boards[b].before
        /\ x.thread = boards[b].thread /\ x.orch = boards[b].orch /\ x.closed = boards[b].closed
        /\ x.stat = boards[b].stat
    BY <1>1, <2>3 DEF BoardOk, BoardStates
  <2> HIDE DEF x
  <2>5. \A n \in Nat : WasLogged(boards[b], n) => WasLogged(x, n)
    BY <1>4, <2>3, <2>4 DEF WasLogged
  <2>6. BoardOk(x, results[b], lost')
    BY <1>1, <1>3, <2>4, <2>5 DEF BoardOk
  <2>7. Follows(x, boards[b], results[b], results[b])
    BY <1>3, <2>3, <2>4 DEF Follows
  <2> QED
    BY <1>3, <1>1, <2>2, <2>6, <2>7, BoardMovesAlone
<1>6. ASSUME BoardEnds(b) PROVE BoardsInv'
  <2> DEFINE x == [boards[b] EXCEPT !.orch = "ended"]
  <2>1. boards' = [boards EXCEPT ![b] = x]
    BY <1>6 DEF BoardsInv, BoardEnds
  <2>2. BoardOk(x, results[b], lost') /\ x.log = boards[b].log /\ x.before = boards[b].before
        /\ x.thread = boards[b].thread
    BY <1>1, <1>2 DEF BoardOk, BoardStates, WasLogged, LogEnded
  <2> HIDE DEF x
  <2>3. Follows(x, boards[b], results[b], results[b])
    BY <1>3, <1>4, <2>2 DEF Follows
  <2> QED
    BY <1>3, <1>1, <2>1, <2>2, <2>3, BoardMovesAlone
<1> QED
  BY <1>1, <1>5, <1>6

LEMMA AnswerKeepsBoards ==
  ASSUME BoardsInv, NEW b \in Boards, BoardAnswers(b)
  PROVE  BoardsInv' /\ lost' \in Nat /\ lost <= lost'
<1>1. /\ lost \in Nat /\ UNCHANGED <<results, summary>>
      /\ boards[b].thread = "wait" /\ BoardOk(boards[b], results[b], lost)
      /\ Hits(boards[b].log) \in Nat /\ Matches(boards[b].log) \in Nat
  BY LogsOfBoards DEF BoardAnswers
<1> DEFINE answered == [boards[b] EXCEPT !.thread = "return", !.closed = TRUE]
           left == [boards[b] EXCEPT !.thread = "return"]
           raised == [boards[b] EXCEPT !.thread = "raise"]
<1>2. ASSUME NEW x, x = answered \/ x = left \/ x = raised
      PROVE  Follows(x, boards[b], results[b], results[b])
  <2>1. /\ x.log = boards[b].log /\ x.before = boards[b].before /\ x.orch = boards[b].orch
    BY <1>1, <1>2 DEF BoardOk, BoardStates
  <2> QED
    BY <1>1, <2>1 DEF Follows
<1>3. CASE boards[b].orch = "ended" /\ lost' = lost /\ boards' = [boards EXCEPT ![b] = answered]
  <2>1. BoardOk(answered, results[b], lost')
    BY <1>1, <1>3 DEF BoardOk, BoardStates, WasLogged, LogEnded
  <2>2. lost' \in Nat /\ lost <= lost' /\ Follows(answered, boards[b], results[b], results[b])
    BY <1>1, <1>2, <1>3
  <2> HIDE DEF answered
  <2> QED
    BY <1>1, <1>3, <2>1, <2>2, BoardMovesAlone
<1>4. CASE LoseFor(<<"cut">>) /\ boards' = [boards EXCEPT ![b] = left]
  <2>1. lost' \in Nat /\ lost <= lost' /\ lost' # 0
    BY <1>1, <1>4, LostOne
  <2>2. BoardOk(left, results[b], lost') /\ Follows(left, boards[b], results[b], results[b])
    BY <1>1, <1>2, <2>1 DEF BoardOk, BoardStates, WasLogged
  <2> HIDE DEF left
  <2> QED
    BY <1>1, <1>4, <2>1, <2>2, BoardMovesAlone
<1>5. CASE LoseFor(<<"raised">>) /\ boards' = [boards EXCEPT ![b] = raised]
  <2>1. lost' \in Nat /\ lost <= lost' /\ lost' # 0
    BY <1>1, <1>5, LostOne
  <2>2. BoardOk(raised, results[b], lost') /\ Follows(raised, boards[b], results[b], results[b])
    BY <1>1, <1>2, <2>1 DEF BoardOk, BoardStates, WasLogged
  <2> HIDE DEF raised
  <2> QED
    BY <1>1, <1>5, <2>1, <2>2, BoardMovesAlone
<1> QED
  BY <1>3, <1>4, <1>5 DEF BoardAnswers, BoardsInv

LEMMA ReturnKeepsBoards ==
  ASSUME BoardsInv, NEW b \in Boards, BoardReturns(b)
  PROVE  BoardsInv' /\ lost' \in Nat /\ lost <= lost'
<1>1. /\ lost \in Nat /\ lost' = lost /\ UNCHANGED summary
      /\ boards[b].thread \in {"return", "raise"} /\ BoardOk(boards[b], results[b], lost)
      /\ Hits(boards[b].log) \in Nat /\ Matches(boards[b].log) \in Nat
      /\ Matches(boards[b].before) \in Nat
  BY LogsOfBoards DEF BoardReturns
<1> DEFINE x == [boards[b] EXCEPT !.thread = "done"]
           r == [status |-> IF boards[b].thread = "return" THEN "done" ELSE "error",
                 closed |-> boards[b].closed, stat |-> <<>>]
<1>2. boards' = [boards EXCEPT ![b] = x] /\ results' = [results EXCEPT ![b] = r]
  BY DEF BoardsInv, BoardReturns
<1>3. <<>> \in Seq(Nat) /\ HitsIn(<<>>) = 0
  BY HitsAre
<1>4. /\ x \in BoardStates /\ x.log = boards[b].log /\ x.before = boards[b].before
      /\ x.thread = "done" /\ x.stat = boards[b].stat /\ x.orch = boards[b].orch
      /\ x.closed = boards[b].closed
  BY <1>1 DEF BoardOk, BoardStates
<1>5. /\ r \in BoardEntries /\ r.status # "?" /\ r.closed = boards[b].closed /\ HitsIn(r.stat) = 0
      /\ boards[b].closed => r.status = "done"
  BY <1>1, <1>3 DEF BoardEntries, BoardOk, BoardStates
<1> HIDE DEF x, r
<1>6. BoardOk(x, r, lost')
  BY <1>1, <1>4, <1>5 DEF BoardOk, WasLogged, LogEnded
<1>7. Follows(x, boards[b], r, results[b])
  BY <1>1, <1>4 DEF Follows
<1>8. PICK main \in Stages : main = summary.main /\ summary' = [summary EXCEPT !.main = main]
  BY <1>1 DEF BoardsInv
<1>9. lost' \in Nat /\ lost <= lost'
  BY <1>1
<1>10. BoardsInv'
  BY <1>2, <1>6, <1>7, <1>8, <1>9, BoardMoves
<1> QED
  BY <1>9, <1>10

\* Of an answer no more arrives than was counted.
LEMMA ArrivalsAre ==
  ASSUME NEW b \in Boards, boards[b].log \in BoardLogSet, NEW net \in Net(TRUE),
         NEW stat \in Arrives(Counts(b), net)
  PROVE  stat \in Seq(Nat) /\ HitsIn(stat) \in Nat /\ HitsIn(stat) <= Matches(boards[b].log)
<1> DEFINE segvs == Count(boards[b].log, {"segv"})
           lines == Matches(boards[b].log)
<1>1. segvs \in Nat /\ lines \in Nat
  BY CountIs DEF BoardLogSet, Matches
<1>2. Counts(b) = <<>> \/ Counts(b) = <<segvs, lines>>
  BY DEF Counts, Matches
<1> HIDE DEF segvs, lines
<1>3. ASSUME NEW n \in Nat, NEW m \in Beginnings(n) PROVE m \in Nat /\ m <= n
  <2>1. m \in 0..n
    BY <1>3 DEF Beginnings
  <2> QED
    BY <2>1
<1>4. \/ stat = <<>> \/ stat = <<segvs, lines>>
      \/ \E m \in Beginnings(segvs) : stat = <<m>>
      \/ \E m \in Beginnings(lines) : stat = <<segvs, m>>
  <2>1. CASE net = "whole" \/ net = "refused"
    BY <1>2, <2>1 DEF Arrives
  <2>2. CASE net = "cut" /\ Counts(b) = <<>>
    BY <2>2 DEF Arrives
  <2>3. CASE net = "cut" /\ Counts(b) = <<segvs, lines>>
    <3>1. <<segvs, lines>>[1] = segvs /\ <<segvs, lines>>[2] = lines /\ <<segvs, lines>> # <<>>
      OBVIOUS
    <3> QED
      BY <2>3, <3>1 DEF Arrives
  <2> QED
    BY <1>2, <2>1, <2>2, <2>3 DEF Net
<1>5. CASE stat = <<>>
  BY <1>1, <1>5, HitsAre DEF lines
<1>6. CASE stat = <<segvs, lines>>
  BY <1>1, <1>6, HitsAre DEF lines
<1>7. CASE \E m \in Beginnings(segvs) : stat = <<m>>
  BY <1>1, <1>3, <1>7, HitsAre DEF lines
<1>8. CASE \E m \in Beginnings(lines) : stat = <<segvs, m>>
  BY <1>1, <1>3, <1>8, HitsAre DEF lines
<1> QED
  BY <1>4, <1>5, <1>6, <1>7, <1>8

LEMMA PollKeepsBoards ==
  ASSUME BoardsInv, NEW b \in Boards, PollReads(b)
  PROVE  BoardsInv' /\ lost' \in Nat /\ lost <= lost'
<1>1. /\ lost \in Nat /\ UNCHANGED <<results, summary>> /\ BoardOk(boards[b], results[b], lost)
      /\ boards[b].log \in BoardLogSet
      /\ Hits(boards[b].log) \in Nat /\ Matches(boards[b].log) \in Nat
  BY LogsOfBoards DEF PollReads
<1>2. PICK call : LoseFor(<<call>>)
  BY DEF PollReads
<1>3. lost' \in Nat /\ lost <= lost' /\ (lost' = 0 => lost = 0)
  <2>1. lost' \in Nat /\ lost <= lost'
    BY <1>1, <1>2, LostOne
  <2> QED
    BY <1>1, <2>1
<1>4. CASE UNCHANGED boards
  BY <1>1, <1>3, <1>4, OthersKeepBoards
<1>5. CASE \E net \in Net(TRUE) : \E stat \in Arrives(Counts(b), net) :
             boards' = [boards EXCEPT ![b] = [@ EXCEPT !.poll = "read", !.stat = stat]]
  <2>1. PICK net \in Net(TRUE) : \E stat \in Arrives(Counts(b), net) :
          boards' = [boards EXCEPT ![b] = [@ EXCEPT !.poll = "read", !.stat = stat]]
    BY <1>5
  <2>2. PICK stat \in Arrives(Counts(b), net) :
          boards' = [boards EXCEPT ![b] = [@ EXCEPT !.poll = "read", !.stat = stat]]
    BY <2>1
  <2>3. stat \in Seq(Nat) /\ HitsIn(stat) \in Nat /\ HitsIn(stat) <= Matches(boards[b].log)
    BY <1>1, ArrivalsAre
  <2> DEFINE x == [boards[b] EXCEPT !.poll = "read", !.stat = stat]
  <2>4. boards' = [boards EXCEPT ![b] = x]
    BY <2>2 DEF BoardsInv
  <2>5. /\ x \in BoardStates /\ x.log = boards[b].log /\ x.before = boards[b].before
        /\ x.thread = boards[b].thread /\ x.orch = boards[b].orch /\ x.closed = boards[b].closed
        /\ x.stat = stat
    BY <1>1, <2>3 DEF BoardOk, BoardStates
  <2> HIDE DEF x
  <2>6. BoardOk(x, results[b], lost')
    BY <1>1, <1>3, <2>3, <2>5 DEF BoardOk, WasLogged, LogEnded
  <2>7. Follows(x, boards[b], results[b], results[b])
    BY <1>1, <2>5 DEF Follows
  <2> QED
    BY <1>1, <1>3, <2>4, <2>6, <2>7, BoardMovesAlone
<1> QED
  BY <1>3, <1>4, <1>5 DEF PollReads

LEMMA StoreKeepsBoards ==
  ASSUME BoardsInv, NEW b \in Boards, PollStores(b)
  PROVE  BoardsInv' /\ lost' \in Nat /\ lost <= lost'
<1>1. /\ lost \in Nat /\ lost' = lost /\ BoardOk(boards[b], results[b], lost)
      /\ Hits(boards[b].log) \in Nat /\ Matches(boards[b].log) \in Nat
  BY LogsOfBoards DEF PollStores
<1> DEFINE x == Polled(boards[b])
           r == [results[b] EXCEPT !.stat = boards[b].stat]
<1>2. boards' = [boards EXCEPT ![b] = x] /\ results' = [results EXCEPT ![b] = r]
  BY DEF BoardsInv, PollStores
<1>3. PICK main \in Stages : /\ summary' = [summary EXCEPT !.main = main]
                             /\ main = summary.main \/ (summary.main = "dump" /\ main = "crashed")
  BY DEF PollStores, BoardsInv, Stages
<1>4. <<>> \in Seq(Nat) /\ HitsIn(<<>>) = 0
  BY HitsAre
<1>5. /\ x \in BoardStates /\ x.log = boards[b].log /\ x.before = boards[b].before
      /\ x.thread = boards[b].thread /\ x.orch = boards[b].orch /\ x.closed = boards[b].closed
      /\ x.stat = <<>>
  BY <1>1, <1>4 DEF BoardOk, BoardStates, Polled
<1>6. /\ r \in BoardEntries /\ r.status = results[b].status /\ r.closed = results[b].closed
      /\ r.stat = boards[b].stat
  BY <1>1 DEF BoardOk, BoardStates, BoardEntries
<1> HIDE DEF x, r
<1>7. BoardOk(x, r, lost')
  BY <1>1, <1>4, <1>5, <1>6 DEF BoardOk, WasLogged, LogEnded
<1>8. Follows(x, boards[b], r, results[b])
  BY <1>1, <1>5, <1>6 DEF Follows
<1>9. lost' \in Nat /\ lost <= lost'
  BY <1>1
<1>10. BoardsInv'
  BY <1>2, <1>3, <1>7, <1>8, <1>9, BoardMoves
<1> QED
  BY <1>9, <1>10


\* The main thread goes on, and may print what the dictionary has once all threads are
\* done.
MayPrint(printed) ==
  printed # <<>> => \A b \in Boards : PrintedOk(printed[b], boards[b], lost)
AllDone == \A b \in Boards : boards[b].thread = "done"

LEMMA MainMoves ==
  ASSUME BoardsInv, NEW main \in Stages \ {"running", "collected"}, NEW printed,
         summary' = [main |-> main, printed |-> printed, collected |-> summary.collected],
         UNCHANGED <<boards, results, lost>>, AllDone, MayPrint(printed)
  PROVE  BoardsInv'
<1>1. /\ boards' = [b \in Boards |-> boards'[b]] /\ results' = [b \in Boards |-> results'[b]]
      /\ \A b \in Boards : BoardOk(boards'[b], results'[b], lost')
      /\ \A b \in Boards : boards'[b].thread = "done"
      /\ lost' \in Nat
  BY DEF BoardsInv, AllDone
<1>2. summary'.main = main /\ summary'.printed = printed /\ summary'.collected = summary.collected
  OBVIOUS
<1>3. PrintedInv'
  BY <1>2 DEF PrintedInv, MayPrint
<1>4. CollectedInv'
  BY <1>2 DEF CollectedInv
<1>5. /\ summary' = [main |-> summary'.main, printed |-> summary'.printed, collected |-> summary'.collected]
      /\ summary'.main \in Stages
  BY <1>2
<1> QED
  BY <1>1, <1>3, <1>4, <1>5 DEF BoardsInv

LEMMA SummaryKeepsBoards ==
  ASSUME BoardsInv, JoinBoards \/ PrintSummary \/ DumpSummary
  PROVE  BoardsInv' /\ lost' \in Nat /\ lost <= lost'
<1>1. UNCHANGED <<boards, results, lost>> /\ lost \in Nat
  BY DEF BoardsInv, JoinBoards, PrintSummary, DumpSummary
<1>2. AllDone
  BY DEF AllDone, BoardsInv, JoinBoards, PrintSummary, DumpSummary
<1> DEFINE old == summary.printed
           new == [b \in Boards |-> [status |-> results[b].status, closed |-> results[b].closed,
                                     sdc |-> HitsIn(results[b].stat)]]
<1>3. ASSUME summary.main # "running" PROVE MayPrint(old)
  BY DEF MayPrint, BoardsInv, PrintedInv
<1>4. MayPrint(new)
  <2>1. ASSUME NEW b \in Boards PROVE PrintedOk(new[b], boards[b], lost)
    <3>1. BoardOk(boards[b], results[b], lost) /\ boards[b].thread = "done"
      BY <1>2 DEF AllDone, BoardsInv
    <3>2. /\ new[b].status = results[b].status /\ new[b].closed = results[b].closed
          /\ new[b].sdc = HitsIn(results[b].stat)
      OBVIOUS
    <3> HIDE DEF new
    <3> QED
      BY <3>1, <3>2 DEF PrintedOk, BoardOk, BoardEntries
  <2> HIDE DEF new
  <2> QED
    BY <2>1 DEF MayPrint
<1>5. old # <<>> => MayPrint(old)
  BY DEF MayPrint, BoardsInv, PrintedInv
<1>6. old = <<>> => MayPrint(old)
  BY DEF MayPrint
<1>7. PICK printed \in {old, new} :
        \E main \in Stages \ {"running", "collected"} :
          summary' = [main |-> main, printed |-> printed, collected |-> summary.collected]
  BY DEF JoinBoards, DumpSummary, PrintSummary, BoardsInv, Stages
<1> HIDE DEF old, new
<1>8. BoardsInv'
  <2>1. PICK main \in Stages \ {"running", "collected"} :
          summary' = [main |-> main, printed |-> printed, collected |-> summary.collected]
    BY <1>7
  <2>2. MayPrint(printed)
    BY <1>4, <1>5, <1>6
  <2> QED
    BY <1>1, <1>2, <2>1, <2>2, MainMoves
<1> QED
  BY <1>1, <1>8

\* What is collected of a log is a part of it, and all of it where the connection held.
LEMMA CollectKeepsBoards ==
  ASSUME BoardAssumption, BoardsInv, Collect
  PROVE  BoardsInv' /\ lost' \in Nat /\ lost <= lost'
<1>1. /\ UNCHANGED <<boards, results>> /\ lost \in Nat /\ summary.main \in {"over", "crashed"}
      /\ \A b \in Boards : BoardOk(boards[b], results[b], lost) /\ boards[b].thread = "done"
  BY DEF BoardsInv, Collect
<1>2. PICK net \in [Boards -> Net(TRUE)], n \in [Boards -> 0..MaxLogged] :
        /\ net[LocalBoard] = "whole" /\ LoseFor(net)
        /\ \A b \in Boards : CASE net[b] = "whole" -> n[b] = Len(boards[b].log)
                               [] net[b] = "cut" -> n[b] <= Len(boards[b].log)
                               [] OTHER -> n[b] = 0
        /\ summary' = [summary EXCEPT !.main = "collected",
             !.collected = [b \in Boards |-> ParseLog(SubSeq(boards[b].log, 1, n[b])).sdc_hits]]
  BY DEF Collect
<1>3. lost' \in Nat /\ lost <= lost' /\ (lost' = 0 => \A b \in Boards : net[b] = "whole")
  <2>1. IsFiniteSet(DOMAIN net) /\ DOMAIN net = Boards
    BY DEF BoardAssumption
  <2> QED
    BY <1>1, <1>2, <2>1, LostIs
<1>4. lost' = 0 => lost = 0
  BY <1>1, <1>3
<1> DEFINE collected == [b \in Boards |-> ParseLog(SubSeq(boards[b].log, 1, n[b])).sdc_hits]
<1>5. ASSUME NEW b \in Boards
      PROVE  CollectedOk(collected[b], b, boards[b], results[b], lost')
  <2>1. collected[b] = Hits(SubSeq(boards[b].log, 1, n[b]))
    BY DEF ParseLog, Hits, SdcKinds
  <2>2. boards[b].log \in BoardLogSet
    BY <1>1 DEF BoardOk, BoardStates
  <2>3. Len(boards[b].log) \in Nat
    BY <2>2 DEF BoardLogSet
  <2>4. n[b] \in 0..MaxLogged /\ net[b] \in {"whole", "cut", "refused"}
    BY <1>2 DEF Net
  <2>5. n[b] \in Nat
    BY <2>4 DEF BoardAssumption
  <2>6. n[b] \in 0..Len(boards[b].log) /\ (net[b] = "whole" => n[b] = Len(boards[b].log))
    BY <1>2, <2>3, <2>4, <2>5
  <2>7. lost' = 0 \/ b = LocalBoard => net[b] = "whole"
    BY <1>2, <1>3
  <2> HIDE DEF collected
  <2>8. /\ collected[b] \in Nat /\ collected[b] <= Hits(boards[b].log)
        /\ lost' = 0 \/ b = LocalBoard => collected[b] = Hits(boards[b].log)
    BY <2>1, <2>2, <2>6, <2>7, HitsOfLogs
  <2> QED
    BY <2>8 DEF CollectedOk
<1> HIDE DEF collected
<1>6. summary' = [summary EXCEPT !.main = "collected", !.collected = collected]
  BY <1>2 DEF collected
<1>7. /\ summary' = [main |-> "collected", printed |-> summary.printed, collected |-> collected]
      /\ summary'.main = "collected" /\ summary'.printed = summary.printed
      /\ summary'.collected = collected
  BY <1>6 DEF BoardsInv
<1>8. PrintedInv'
  BY <1>1, <1>4, <1>7 DEF BoardsInv, PrintedInv, PrintedOk
<1>9. CollectedInv'
  BY <1>1, <1>5, <1>7 DEF CollectedInv
<1>10. /\ boards' = [b \in Boards |-> boards'[b]] /\ results' = [b \in Boards |-> results'[b]]
       /\ \A b \in Boards : BoardOk(boards'[b], results'[b], lost')
       /\ \A b \in Boards : boards'[b].thread = "done"
  BY <1>1, <1>4 DEF BoardsInv, BoardOk
<1>11. /\ summary' = [main |-> summary'.main, printed |-> summary'.printed, collected |-> summary'.collected]
       /\ summary'.main \in Stages
  BY <1>7 DEF Stages
<1> QED
  BY <1>3, <1>8, <1>9, <1>10, <1>11 DEF BoardsInv

LEMMA BoardsKeepBoards ==
  ASSUME BoardAssumption, BoardsInv, BoardsNext
  PROVE  BoardsInv' /\ lost' \in Nat /\ lost <= lost' /\ UNCHANGED <<errand, dev, found>>
<1>1. UNCHANGED <<errand, dev, found>>
  BY DEF BoardsNext, BoardStarts, BoardLogs, BoardEnds, BoardAnswers, BoardReturns, PollReads,
         PollStores, JoinBoards, PrintSummary, DumpSummary, Collect, Distributed
<1>2. BoardsInv' /\ lost' \in Nat /\ lost <= lost'
  BY StartKeepsBoards, LogsKeepBoards, AnswerKeepsBoards, ReturnKeepsBoards, PollKeepsBoards,
     StoreKeepsBoards, SummaryKeepsBoards, CollectKeepsBoards DEF BoardsNext
<1> QED
  BY <1>1, <1>2

-----------------------------------------------------------------------------
ScanInv == DeviceInv /\ BoardsInv

LEMMA ScanStep ==
  ASSUME BoardAssumption, ScanInv, [BoardNext]_boardvars
  PROVE  ScanInv'
<1>1. CASE DeviceNext
  <2>1. DeviceInv' /\ lost <= lost' /\ UNCHANGED <<boards, results, summary>>
    BY <1>1, DeviceKeepsDevice DEF ScanInv
  <2>2. lost' \in Nat
    BY <2>1 DEF DeviceInv, DeviceType
  <2> QED
    BY <2>1, <2>2, OthersKeepBoards DEF ScanInv
<1>2. CASE BoardsNext
  <2>1. BoardsInv' /\ lost' \in Nat /\ lost <= lost' /\ UNCHANGED <<errand, dev, found>>
    BY <1>2, BoardsKeepBoards DEF ScanInv
  <2> QED
    BY <2>1, OthersKeepDevice DEF ScanInv
<1>3. CASE UNCHANGED boardvars
  <2>1. /\ UNCHANGED <<errand, dev, found>> /\ UNCHANGED <<boards, results, summary>>
        /\ lost' = lost /\ lost \in Nat
    BY <1>3 DEF boardvars, ScanInv, BoardsInv
  <2>2. lost' \in Nat /\ lost <= lost'
    BY <2>1
  <2> QED
    BY <2>1, <2>2, OthersKeepDevice, OthersKeepBoards DEF ScanInv
<1> QED
  BY <1>1, <1>2, <1>3 DEF BoardNext

\* Whatever connections fail, on however many boards: a report of a device or of the
\* boards says no more than the logs, and where it claims a whole scan, all of it.
THEOREM ReportsStayTrue == BoardSpec => []ReportsAreTrue
<1>1. BoardInit => ScanInv
  BY InitDevice, InitBoards DEF ScanInv
<1>2. ScanInv /\ [BoardNext]_boardvars => ScanInv'
  BY BoardAssumption, ScanStep
<1>3. ScanInv => ReportsAreTrue
  BY DeviceInvMeans, BoardsInvMeans DEF ScanInv, ReportsAreTrue
<1> QED
  BY <1>1, <1>2, <1>3, PTL DEF BoardSpec

-----------------------------------------------------------------------------
(* RunImpl and its tracer                                                  *)
(*                                                                         *)
(* The invariant has a part for each thing that is shared: the child, its  *)
(* pipe, the tracer's state, the exit status and the toggles.  A step of   *)
(* one thread leaves every other thread's part alone, except for who holds *)
(* its pipe.                                                               *)

USE SubprocessAssumption, TracerAssumption
    DEF subprocessVars, tracerVars, harness_vars, Goto, Gone, ExitStatuses, EmptyInfo, Never,
        NewTracer, NewTracee

\* The steps of a thread, its child and its tracer.
ThreadStep(t) ==
  CallStep(t) \/ ChildStep(t) \/ TracerStep(t)
  \/ RaiseSigstop(t) \/ PtraceStop(t) \/ KillStopped(t)
-----------------------------------------------------------------------------
\* What has become of the child where the thread is; what is gone has a status.
ChildInv(t) ==
  /\ thread_pc[t] \in {"idle", "failed"} => child[t] \in {"none", "reaped"}
  /\ thread_pc[t] = "piped" => child[t] = "none"
  /\ thread_pc[t] = "forked" => child[t] \in {"forked", "running", "stopped", "zombie"}
  /\ thread_pc[t] = "reading" => child[t] \in {"running", "stopped", "zombie", "reaped"}
  /\ thread_pc[t] = "waiting" => Gone(t)
  /\ thread_pc[t] \in {"joining", "returned"} => child[t] = "reaped"
  /\ Gone(t) => ended[t] # "none"

\* Until Start has returned the parent holds the pipe, which is why the child has it;
\* the child keeps it until it ends, so Communicate reads to its end.
PipeInv(t) ==
  /\ thread_pc[t] \in {"piped", "forked"} => Parent \in pipe_writers[t]
  /\ child[t] \in {"forked", "running", "stopped"} => t \in pipe_writers[t]

\* A tracer lives from Attach to Join; before and after it, nothing is left of the last
\* call's.
FreshInv(t) ==
  /\ tracer[t].at = "none" => tracer[t] = NewTracer
  /\ tracer[t].at # "none" => t \in Traced /\ thread_pc[t] \in {"reading", "waiting", "joining"}
  /\ t \in Traced /\ thread_pc[t] \in {"waiting", "joining"} => tracer[t].at # "none"
  /\ child[t] \in {"none", "forked"} \/ thread_pc[t] \in {"idle", "failed", "returned"}
       => tracee[t] = NewTracee

\* One of wait4 and waitpid gets the status: the tracer, if the child is reaped before
\* Communicate is done with it, and otherwise Communicate.
StatusInv(t) ==
  /\ tracer[t].at # "done" => tracer[t].exit_status = "none"
  /\ tracer[t].at = "done" => child[t] = "reaped"
  /\ tracer[t].exit_status # "none" => tracer[t].exit_status = ended[t]
  /\ child[t] = "reaped" /\ thread_pc[t] \in {"reading", "waiting"}
       => tracer[t].exit_status # "none"
  /\ thread_pc[t] = "joining" /\ tracer[t].exit_status = "none" => info[t] = ended[t]
  /\ thread_pc[t] = "returned" => info[t] = ended[t]

\* is_active is the parity of the SIGSTOPs raised, less the one that is being handled.
SnapInv(t) ==
  /\ child[t] = "running" => tracer[t].is_active = InSnap(t)
  /\ child[t] = "stopped" /\ tracee[t].stop = "SIGSTOP" => tracer[t].is_active # InSnap(t)
  /\ child[t] = "stopped" /\ tracee[t].stop # "SIGSTOP" => tracer[t].is_active = InSnap(t)

\* Those parts, for every thread.
CallInv ==
  \A t \in Threads : ChildInv(t) /\ PipeInv(t) /\ FreshInv(t) /\ StatusInv(t) /\ SnapInv(t)

\* The inductive invariant.
HarnessInv == TracerTypeOK /\ CallInv

\* The types of a tracer and a tracee.
TracerRecord ==
  [at : {"none", "attach", "wait", "handle", "done"}, is_active : BOOLEAN,
   exit_status : ExitStatuses \union {"none"}, told_inactive : 0..Never]
TraceeRecord ==
  [seized : BOOLEAN, stop : {"none", "SIGSTOP", "step", "signal"},
   stepping : BOOLEAN, toggles : 0..MaxToggles, stops : 0..MaxStops]

\* The types of the other variables.
CallTypeOK ==
  /\ thread_pc \in [Threads -> {"idle", "piped", "forked", "failed", "reading",
                         "waiting", "joining", "returned"}]
  /\ child \in [Threads -> {"none", "forked", "running", "stopped", "zombie",
                        "reaped"}]
  /\ ended \in [Threads -> ExitStatuses \union {"none"}]
  /\ pipe_writers \in [Threads -> SUBSET (Threads \union {Parent})]
  /\ info \in [Threads -> ExitStatuses \union {"none"}]
  /\ calls \in [Threads -> 0..MaxCalls]
  /\ died \in BOOLEAN

\* The invariant holds before the first call.
LEMMA InvInit == HarnessInit => HarnessInv
<1> SUFFICES ASSUME HarnessInit PROVE HarnessInv
  OBVIOUS
<1> USE DEF HarnessInit, SubprocessInit, TracerInit
<1>1. TracerTypeOK
  <2>1. thread_pc \in [Threads -> {"idle", "piped", "forked", "failed", "reading",
                         "waiting", "joining", "returned"}]
    OBVIOUS
  <2>2. NewTracer \in TracerRecord /\ NewTracee \in TraceeRecord
    BY DEF TracerRecord, TraceeRecord
  <2>3. tracer \in [Threads -> TracerRecord] /\ tracee \in [Threads -> TraceeRecord]
    BY <2>2
  <2>4. /\ child \in [Threads -> {"none", "forked", "running", "stopped", "zombie",
                            "reaped"}]
        /\ ended \in [Threads -> ExitStatuses \union {"none"}]
        /\ pipe_writers \in [Threads -> SUBSET (Threads \union {Parent})]
        /\ info \in [Threads -> ExitStatuses \union {"none"}]
        /\ died \in BOOLEAN
    OBVIOUS
  <2>5. calls \in [Threads -> 0..MaxCalls]
    <3>1. 0 \in 0..MaxCalls /\ calls = [t \in Threads |-> 0]
      OBVIOUS
    <3> QED BY <3>1
  <2> QED BY <2>1, <2>3, <2>4, <2>5 DEF TracerTypeOK, TracerRecord, TraceeRecord
<1>2. ASSUME NEW t \in Threads
      PROVE  /\ tracer[t] = NewTracer /\ tracee[t] = NewTracee /\ thread_pc[t] = "idle"
             /\ child[t] = "none"
  OBVIOUS
<1>3. ASSUME NEW t \in Threads
      PROVE  ChildInv(t) /\ PipeInv(t) /\ FreshInv(t) /\ StatusInv(t) /\ SnapInv(t)
  BY <1>2 DEF ChildInv, PipeInv, FreshInv, StatusInv, SnapInv
<1> QED
  BY <1>1, <1>3 DEF HarnessInv, CallInv
-----------------------------------------------------------------------------
\* No step leaves a tracee outside of its type, nor a tracer, nor the rest.
LEMMA TraceeStep ==
  ASSUME TracerTypeOK, NEW t \in Threads, ThreadStep(t)
  PROVE  tracee' \in [Threads -> TraceeRecord]
<1> DEFINE Changes(r) == tracee' = [tracee EXCEPT ![t] = r]
<1>a. tracee \in [Threads -> TraceeRecord] /\ tracee[t] \in TraceeRecord
  BY DEF TracerTypeOK, TraceeRecord
<1>1. ASSUME NEW r \in TraceeRecord, Changes(r) PROVE tracee' \in [Threads -> TraceeRecord]
  BY <1>a, <1>1
<1>2. CASE UNCHANGED tracee
  BY <1>a, <1>2
<1>3. CASE Join(t)
  <2>1. NewTracee \in TraceeRecord
    BY DEF TraceeRecord
  <2> QED BY <1>3, <2>1, <1>1 DEF Join
<1>4. CASE Seize(t)
  <2>1. [tracee[t] EXCEPT !.seized = ~Gone(t)] \in TraceeRecord
    BY <1>a DEF TraceeRecord
  <2> QED BY <1>4, <2>1, <1>1 DEF Seize
<1>5. ASSUME NEW b \in BOOLEAN, NEW c, NEW d, Resume(t, b, c, d)
      PROVE tracee' \in [Threads -> TraceeRecord]
  <2>1. [tracee[t] EXCEPT !.stop = "none", !.stepping = b] \in TraceeRecord
    BY <1>a DEF TraceeRecord
  <2> QED BY <1>5, <2>1, <1>1 DEF Resume
<1>6. CASE RaiseSigstop(t)
  <2> DEFINE r == [tracee[t] EXCEPT !.stop = "SIGSTOP", !["toggles"] = @ + 1]
  <2>1. tracee[t].toggles + 1 \in 0..MaxToggles
    BY <1>a, <1>6 DEF TraceeRecord, RaiseSigstop
  <2>2. r \in TraceeRecord
    BY <1>a, <2>1 DEF TraceeRecord
  <2>3. Changes(r)
    BY <1>6 DEF RaiseSigstop, StopFor
  <2> QED BY <2>2, <2>3, <1>1
<1>7. ASSUME NEW s \in {"step", "signal"}, tracee[t].stops < MaxStops, StopFor(t, s, "stops")
      PROVE  tracee' \in [Threads -> TraceeRecord]
  <2> DEFINE r == [tracee[t] EXCEPT !.stop = s, !["stops"] = @ + 1]
  <2>1. tracee[t].stops + 1 \in 0..MaxStops
    BY <1>a, <1>7 DEF TraceeRecord
  <2>2. r \in TraceeRecord
    BY <1>a, <2>1 DEF TraceeRecord
  <2>3. Changes(r)
    BY <1>7 DEF StopFor
  <2> QED BY <2>2, <2>3, <1>1
<1>8. CASE CallStep(t) \/ ChildStep(t) \/ KillStopped(t)
  BY <1>2, <1>3, <1>8 DEF CallStep, ChildStep, KillStopped, Attach
<1>9. CASE TracerStep(t)
  <2>1. tracer[t].is_active \in BOOLEAN
    BY DEF TracerTypeOK
  <2>2. CASE Toggle(t) \/ PassOn(t)
    BY <1>5, <2>1, <2>2 DEF Toggle, PassOn
  <2>3. CASE KeepTracing(t) \/ StopTracing(t)
    BY <1>5, <2>3 DEF KeepTracing, StopTracing
  <2>4. CASE SeeStop(t) \/ SeeExit(t) \/ TraceDies(t)
    BY <1>2, <2>4 DEF SeeStop, SeeExit, TraceDies
  <2> QED
    BY <1>4, <1>9, <2>2, <2>3, <2>4 DEF TracerStep
<1>10. CASE PtraceStop(t)
  BY <1>7, <1>10 DEF PtraceStop
<1> QED
  BY <1>6, <1>8, <1>9, <1>10 DEF ThreadStep

\* See TraceeStep.
LEMMA TracerRecordStep ==
  ASSUME TracerTypeOK, NEW t \in Threads, ThreadStep(t)
  PROVE  tracer' \in [Threads -> TracerRecord]
<1> DEFINE Changes(r) == tracer' = [tracer EXCEPT ![t] = r]
<1>1. tracer \in [Threads -> TracerRecord] /\ tracer[t] \in TracerRecord
  BY DEF TracerTypeOK, TracerRecord
<1>2. ASSUME NEW r \in TracerRecord, Changes(r) PROVE tracer' \in [Threads -> TracerRecord]
  BY <1>1, <1>2
<1>3. ASSUME NEW at \in {"attach", "wait", "handle", "done"},
             NEW reaped_with \in ExitStatuses \union {"none"},
             Changes([tracer[t] EXCEPT !.at = at, !.exit_status = reaped_with])
      PROVE  tracer' \in [Threads -> TracerRecord]
  <2>1. [tracer[t] EXCEPT !.at = at, !.exit_status = reaped_with] \in TracerRecord
    BY <1>1 DEF TracerRecord
  <2> QED BY <1>2, <1>3, <2>1
<1>4. ASSUME NEW b, NEW active \in BOOLEAN, NEW told \in 0..Never,
             Resume(t, b, active, told)
      PROVE  tracer' \in [Threads -> TracerRecord]
  <2>1. [tracer[t] EXCEPT !.at = "wait", !.is_active = active, !.told_inactive = told]
           \in TracerRecord
    BY <1>1 DEF TracerRecord
  <2> QED BY <1>2, <1>4, <2>1 DEF Resume
<1>5. CASE Join(t)
  <2>1. NewTracer \in TracerRecord
    BY DEF TracerRecord
  <2> QED BY <1>2, <1>5, <2>1 DEF Join
<1>6. CASE Attach(t) \/ Seize(t) \/ SeeStop(t)
  <2>1. ASSUME NEW at \in {"attach", "wait", "handle"}, tracer' = [tracer EXCEPT ![t].at = at]
        PROVE  tracer' \in [Threads -> TracerRecord]
    <3>1. [tracer[t] EXCEPT !.at = at] \in TracerRecord
      BY <1>1 DEF TracerRecord
    <3> QED BY <1>2, <2>1, <3>1
  <2> QED BY <1>6, <2>1 DEF Attach, Seize, SeeStop
<1>7. CASE SeeExit(t)
  <2> DEFINE reaped_with == IF child[t] = "zombie" THEN ended[t] ELSE "none"
  <2>1. reaped_with \in ExitStatuses \union {"none"}
    BY DEF TracerTypeOK
  <2>2. Changes([tracer[t] EXCEPT !.at = "done", !.exit_status = reaped_with])
    BY <1>7 DEF SeeExit
  <2> QED BY <1>3, <2>1, <2>2
<1>8. CASE Toggle(t) \/ PassOn(t) \/ KeepTracing(t)
  <2>1. tracer[t].is_active \in BOOLEAN /\ tracer[t].told_inactive \in 0..Never
    BY <1>1 DEF TracerRecord
  <2> QED BY <1>4, <1>8, <2>1 DEF Toggle, PassOn, KeepTracing
<1>9. CASE StopTracing(t)
  <2>1. tracee[t].toggles \in 0..MaxToggles
    BY DEF TracerTypeOK
  <2>2. tracee[t].toggles \in 0..Never
    BY <2>1
  <2> QED BY <1>4, <1>9, <2>2 DEF StopTracing
<1>10. CASE UNCHANGED tracer
  BY <1>1, <1>10
<1>11. CASE CallStep(t) \/ ChildStep(t) \/ RaiseSigstop(t) \/ PtraceStop(t) \/ KillStopped(t)
  BY <1>5, <1>6, <1>10, <1>11
     DEF CallStep, ChildStep, RaiseSigstop, PtraceStop, StopFor, KillStopped
<1> QED
  BY <1>6, <1>7, <1>8, <1>9, <1>10, <1>11 DEF ThreadStep, TracerStep, TraceDies

\* See TraceeStep.
LEMMA CallTyped ==
  ASSUME TracerTypeOK, NEW t \in Threads, ThreadStep(t)
  PROVE  CallTypeOK'
<1> USE DEF CallTypeOK
<1>a. CallTypeOK /\ tracer[t].exit_status \in ExitStatuses \union {"none"}
  BY DEF TracerTypeOK
<1>1. CASE MakePipe(t) /\ UNCHANGED tracerVars
  <2>1. calls' \in [Threads -> 0..MaxCalls]
    <3>1. calls[t] + 1 \in 0..MaxCalls
      BY <1>a, <1>1 DEF MakePipe
    <3> QED BY <1>a, <1>1, <3>1 DEF MakePipe
  <2> QED BY <1>a, <1>1, <2>1 DEF MakePipe
<1>2. CASE (Fork(t) \/ ForkFails(t) \/ Started(t) \/ NextCall(t)) /\ UNCHANGED tracerVars
  BY <1>a, <1>2 DEF Fork, ForkFails, Started, NextCall
<1>3. CASE (ReadEof(t) \/ Wait4(t)) /\ UNCHANGED tracerVars
  BY <1>a, <1>3 DEF ReadEof, Wait4
<1>4. CASE Attach(t) \/ Join(t)
  BY <1>a, <1>4 DEF Attach, Join
<1>5. CASE ChildStep(t) \/ KillStopped(t)
  BY <1>a, <1>5 DEF ChildStep, Exec, ChildEnds, KillStopped, Die
<1>6. CASE Seize(t) \/ SeeStop(t) \/ SeeExit(t) \/ TraceDies(t)
  BY <1>a, <1>6 DEF Seize, SeeStop, SeeExit, TraceDies
<1>7. CASE Toggle(t) \/ PassOn(t) \/ KeepTracing(t) \/ StopTracing(t)
  BY <1>a, <1>7 DEF Toggle, PassOn, KeepTracing, StopTracing, Resume
<1>8. CASE RaiseSigstop(t) \/ PtraceStop(t)
  BY <1>a, <1>8 DEF RaiseSigstop, PtraceStop, StopFor
<1> HIDE DEF CallTypeOK
<1> QED
  BY <1>1, <1>2, <1>3, <1>4, <1>5, <1>6, <1>7, <1>8
     DEF ThreadStep, CallStep, TracerStep, TracerStarted

\* Types are kept.
LEMMA TypeStep ==
  ASSUME TracerTypeOK, NEW t \in Threads, ThreadStep(t)
  PROVE  TracerTypeOK'
BY TracerRecordStep, TraceeStep, CallTyped
   DEF TracerTypeOK, TracerRecord, TraceeRecord, CallTypeOK
-----------------------------------------------------------------------------
\* All of a thread's own state; its pipe is shared.
Record(t) ==
  <<thread_pc[t], child[t], ended[t], info[t], calls[t], tracer[t], tracee[t]>>

\* A step of one thread leaves the others' alone.
LEMMA OthersKeep ==
  ASSUME TracerTypeOK, NEW t \in Threads, ThreadStep(t), NEW u \in Threads, u # t
  PROVE  UNCHANGED Record(u)
<1> USE DEF TracerTypeOK, Record
<1>1. CASE MakePipe(t) /\ UNCHANGED tracerVars
  BY <1>1 DEF MakePipe
<1>2. CASE Fork(t) /\ UNCHANGED tracerVars
  BY <1>2 DEF Fork
<1>3. CASE (ForkFails(t) \/ NextCall(t)) /\ UNCHANGED tracerVars
  BY <1>3 DEF ForkFails, NextCall
<1>4. CASE Started(t) /\ UNCHANGED tracerVars
  BY <1>4 DEF Started
<1>5. CASE ReadEof(t) /\ TracerStarted(t) /\ UNCHANGED tracerVars
  BY <1>5 DEF ReadEof, TracerStarted
<1>6. CASE Wait4(t) /\ TracerStarted(t) /\ UNCHANGED tracerVars
  BY <1>6 DEF Wait4, TracerStarted
<1>7. CASE Attach(t)
  BY <1>7 DEF Attach
<1>8. CASE Join(t)
  BY <1>8 DEF Join
<1>9. CASE Exec(t) /\ UNCHANGED tracerVars
  BY <1>9 DEF Exec
<1>10. CASE ChildEnds(t) /\ UNCHANGED tracerVars
  BY <1>10 DEF ChildEnds, Die
<1>11. CASE KillStopped(t)
  BY <1>11 DEF KillStopped, Die
<1>12. CASE Seize(t)
  BY <1>12 DEF Seize
<1>13. CASE SeeStop(t) \/ TraceDies(t)
  BY <1>13 DEF SeeStop, TraceDies
<1>14. CASE SeeExit(t)
  BY <1>14 DEF SeeExit
<1>15. CASE Toggle(t) \/ PassOn(t) \/ KeepTracing(t) \/ StopTracing(t)
  BY <1>15 DEF Toggle, PassOn, KeepTracing, StopTracing, Resume
<1>16. CASE RaiseSigstop(t) \/ PtraceStop(t)
  BY <1>16 DEF RaiseSigstop, PtraceStop, StopFor
<1> QED
  BY <1>1, <1>2, <1>3, <1>4, <1>5, <1>6, <1>7, <1>8, <1>9, <1>10, <1>11, <1>12, <1>13,
     <1>14, <1>15, <1>16 DEF ThreadStep, CallStep, ChildStep, TracerStep

\* The rest of the invariant, for the thread that steps.
LEMMA OwnKept ==
  ASSUME TracerTypeOK, NEW t \in Threads, ThreadStep(t),
         ChildInv(t), PipeInv(t), FreshInv(t), StatusInv(t)
  PROVE  (ChildInv(t) /\ FreshInv(t) /\ StatusInv(t))'
<1> USE DEF TracerTypeOK, ChildInv, PipeInv, FreshInv, StatusInv
<1>1. CASE MakePipe(t) /\ UNCHANGED tracerVars
  BY <1>1 DEF MakePipe
<1>2. CASE Fork(t) /\ UNCHANGED tracerVars
  BY <1>2 DEF Fork
<1>3. CASE (ForkFails(t) \/ NextCall(t)) /\ UNCHANGED tracerVars
  BY <1>3 DEF ForkFails, NextCall
<1>4. CASE Started(t) /\ UNCHANGED tracerVars
  BY <1>4 DEF Started
<1>5. CASE ReadEof(t) /\ TracerStarted(t) /\ UNCHANGED tracerVars
  BY <1>5 DEF ReadEof, TracerStarted
<1>6. CASE Wait4(t) /\ TracerStarted(t) /\ UNCHANGED tracerVars
  BY <1>6 DEF Wait4, TracerStarted
<1>7. CASE Attach(t)
  BY <1>7 DEF Attach
<1>8. CASE Join(t)
  BY <1>8 DEF Join
<1>9. CASE Exec(t) /\ UNCHANGED tracerVars
  BY <1>9 DEF Exec
<1>10. CASE ChildEnds(t) /\ UNCHANGED tracerVars
  BY <1>10 DEF ChildEnds, Die
<1>11. CASE KillStopped(t)
  BY <1>11 DEF KillStopped, Die
<1>12. CASE Seize(t)
  BY <1>12 DEF Seize
<1>13. CASE SeeStop(t) \/ TraceDies(t)
  BY <1>13 DEF SeeStop, TraceDies
<1>14. CASE SeeExit(t)
  BY <1>14 DEF SeeExit
<1>15. CASE Toggle(t) \/ PassOn(t) \/ KeepTracing(t) \/ StopTracing(t)
  BY <1>15 DEF Toggle, PassOn, KeepTracing, StopTracing, Resume
<1>16. CASE RaiseSigstop(t) \/ PtraceStop(t)
  <2>1. CASE RaiseSigstop(t)
    <3>1. /\ t \in Traced /\ child[t] = "running" /\ child'[t] = "stopped"
          /\ UNCHANGED <<thread_pc, ended, info, tracer>>
      BY <2>1 DEF RaiseSigstop, StopFor
    <3> QED
      BY <3>1
  <2>2. CASE PtraceStop(t)
    <3>1. /\ child[t] = "running" /\ child'[t] = "stopped"
          /\ UNCHANGED <<thread_pc, ended, info, tracer>>
      BY <2>2 DEF PtraceStop, StopFor
    <3> QED
      BY <3>1
  <2> QED
    BY <1>16, <2>1, <2>2
<1> QED
  BY <1>1, <1>2, <1>3, <1>4, <1>5, <1>6, <1>7, <1>8, <1>9, <1>10, <1>11, <1>12, <1>13,
     <1>14, <1>15, <1>16 DEF ThreadStep, CallStep, ChildStep, TracerStep

\* The tracer keeps step with the child.
LEMMA SnapKept ==
  ASSUME TracerTypeOK, NEW t \in Threads, ThreadStep(t),
         ChildInv(t), FreshInv(t), SnapInv(t)
  PROVE  SnapInv(t)'
<1> USE DEF TracerTypeOK, ChildInv, FreshInv, SnapInv, InSnap
<1>1. CASE MakePipe(t) /\ UNCHANGED tracerVars
  BY <1>1 DEF MakePipe
<1>2. CASE Fork(t) /\ UNCHANGED tracerVars
  BY <1>2 DEF Fork
<1>3. CASE (ForkFails(t) \/ NextCall(t)) /\ UNCHANGED tracerVars
  BY <1>3 DEF ForkFails, NextCall
<1>4. CASE Started(t) /\ UNCHANGED tracerVars
  BY <1>4 DEF Started
<1>5. CASE ReadEof(t) /\ TracerStarted(t) /\ UNCHANGED tracerVars
  BY <1>5 DEF ReadEof, TracerStarted
<1>6. CASE Wait4(t) /\ TracerStarted(t) /\ UNCHANGED tracerVars
  BY <1>6 DEF Wait4, TracerStarted
<1>7. CASE Attach(t)
  BY <1>7 DEF Attach
<1>8. CASE Join(t)
  BY <1>8 DEF Join
<1>9. CASE Exec(t) /\ UNCHANGED tracerVars
  BY <1>9 DEF Exec
<1>10. CASE ChildEnds(t) /\ UNCHANGED tracerVars
  BY <1>10 DEF ChildEnds, Die
<1>11. CASE KillStopped(t)
  BY <1>11 DEF KillStopped, Die
<1>12. CASE Seize(t)
  BY <1>12 DEF Seize
<1>13. CASE SeeStop(t) \/ TraceDies(t)
  BY <1>13 DEF SeeStop, TraceDies
<1>14. CASE SeeExit(t)
  BY <1>14 DEF SeeExit
<1>15. CASE Toggle(t) \/ PassOn(t) \/ KeepTracing(t) \/ StopTracing(t)
  BY <1>15 DEF Toggle, PassOn, KeepTracing, StopTracing, Resume
<1>16. CASE RaiseSigstop(t) \/ PtraceStop(t)
  BY <1>16 DEF RaiseSigstop, PtraceStop, StopFor
<1> QED
  BY <1>1, <1>2, <1>3, <1>4, <1>5, <1>6, <1>7, <1>8, <1>9, <1>10, <1>11, <1>12, <1>13,
     <1>14, <1>15, <1>16 DEF ThreadStep, CallStep, ChildStep, TracerStep

\* Whoever forks or ends, a thread's pipe is held by its own child.
LEMMA PipeKept ==
  ASSUME TracerTypeOK, NEW t \in Threads, ThreadStep(t), NEW u \in Threads,
         ChildInv(u), PipeInv(u)
  PROVE  PipeInv(u)'
<1> USE DEF TracerTypeOK, ChildInv, PipeInv
<1>1. CASE MakePipe(t) /\ UNCHANGED tracerVars
  BY <1>1 DEF MakePipe
<1>2. CASE Fork(t) /\ UNCHANGED tracerVars
  BY <1>2 DEF Fork
<1>3. CASE (ForkFails(t) \/ NextCall(t)) /\ UNCHANGED tracerVars
  BY <1>3 DEF ForkFails, NextCall
<1>4. CASE Started(t) /\ UNCHANGED tracerVars
  BY <1>4 DEF Started
<1>5. CASE ReadEof(t) /\ TracerStarted(t) /\ UNCHANGED tracerVars
  BY <1>5 DEF ReadEof, TracerStarted
<1>6. CASE Wait4(t) /\ TracerStarted(t) /\ UNCHANGED tracerVars
  BY <1>6 DEF Wait4, TracerStarted
<1>7. CASE Attach(t)
  BY <1>7 DEF Attach
<1>8. CASE Join(t)
  BY <1>8 DEF Join
<1>9. CASE Exec(t) /\ UNCHANGED tracerVars
  BY <1>9 DEF Exec
<1>10. CASE ChildEnds(t) /\ UNCHANGED tracerVars
  BY <1>10 DEF ChildEnds, Die
<1>11. CASE KillStopped(t)
  BY <1>11 DEF KillStopped, Die
<1>12. CASE Seize(t)
  BY <1>12 DEF Seize
<1>13. CASE SeeStop(t) \/ TraceDies(t)
  BY <1>13 DEF SeeStop, TraceDies
<1>14. CASE SeeExit(t)
  BY <1>14 DEF SeeExit
<1>15. CASE Toggle(t) \/ PassOn(t) \/ KeepTracing(t) \/ StopTracing(t)
  BY <1>15 DEF Toggle, PassOn, KeepTracing, StopTracing, Resume
<1>16. CASE RaiseSigstop(t) \/ PtraceStop(t)
  BY <1>16 DEF RaiseSigstop, PtraceStop, StopFor
<1> QED
  BY <1>1, <1>2, <1>3, <1>4, <1>5, <1>6, <1>7, <1>8, <1>9, <1>10, <1>11, <1>12, <1>13,
     <1>14, <1>15, <1>16 DEF ThreadStep, CallStep, ChildStep, TracerStep
-----------------------------------------------------------------------------
\* The invariant is inductive.
LEMMA InvStep == HarnessInv /\ [HarnessNext]_harness_vars => HarnessInv'
<1> SUFFICES ASSUME HarnessInv, [HarnessNext]_harness_vars PROVE HarnessInv'
  OBVIOUS
<1>1. CASE UNCHANGED harness_vars
  <2>1. TracerTypeOK'
    BY <1>1 DEF HarnessInv, TracerTypeOK
  <2>2. ASSUME NEW u \in Threads
        PROVE  (ChildInv(u) /\ PipeInv(u) /\ FreshInv(u) /\ StatusInv(u) /\ SnapInv(u))'
    BY <1>1 DEF HarnessInv, CallInv, ChildInv, PipeInv, FreshInv, StatusInv, SnapInv, InSnap
  <2> QED
    BY <2>1, <2>2 DEF HarnessInv, CallInv
<1>2. ASSUME NEW t \in Threads, ThreadStep(t) PROVE HarnessInv'
  <2>1. TracerTypeOK'
    BY <1>2, TypeStep DEF HarnessInv
  <2>2. ASSUME NEW u \in Threads
        PROVE  (ChildInv(u) /\ PipeInv(u) /\ FreshInv(u) /\ StatusInv(u) /\ SnapInv(u))'
    <3> /\ TracerTypeOK
        /\ ChildInv(u) /\ PipeInv(u) /\ FreshInv(u) /\ StatusInv(u) /\ SnapInv(u)
      BY DEF HarnessInv, CallInv
    <3>1. PipeInv(u)'
      BY <1>2, PipeKept
    <3>2. CASE u = t
      BY <1>2, <3>1, <3>2, OwnKept, SnapKept
    <3>3. CASE u # t
      <4>1. UNCHANGED Record(u)
        BY <1>2, <3>3, OthersKeep
      <4> QED
        BY <3>1, <4>1 DEF Record, ChildInv, FreshInv, StatusInv, SnapInv, InSnap
    <3> QED
      BY <3>2, <3>3
  <2> QED
    BY <2>1, <2>2 DEF HarnessInv, CallInv
<1> QED
  BY <1>1, <1>2 DEF HarnessNext, Finished, ThreadStep

\* What RunImpl returns is its own child's, however many threads fork at once
\* (Subprocess::Start has no descriptor close-on-exec) and whether Communicate's wait4
\* or the tracer's waitpid reaps the child: the status it ended with and all it wrote.
THEOREM ChildIsOwn == HarnessSpec => []OwnChild
<1>1. HarnessInv => OwnChild
  BY DEF HarnessInv, CallInv, OwnChild, StatusGenuine, OutputComplete, ChildInv, StatusInv
<1> QED
  BY InvInit, InvStep, <1>1, PTL DEF HarnessSpec

\* HarnessTracer::Trace loses no toggle: however late Attach seizes the child and
\* whatever the callback answers, is_active says whether the running child is in a snap.
THEOREM TracerKeepsStep == HarnessSpec => []TracerInStep
<1>1. HarnessInv => TracerInStep
  BY DEF HarnessInv, CallInv, TracerInStep, SnapInv
<1> QED
  BY InvInit, InvStep, <1>1, PTL DEF HarnessSpec

-----------------------------------------------------------------------------
(* The runner driver                                                       *)
(*                                                                         *)
(* What a call returns is true of its runner processes, and the timers are *)
(* masked where they must be.  The argument follows a process first: how   *)
(* far it is (ProgressInv), the one failure it can find (FailureInv), what *)
(* stands on its stdout (StdoutInv), when its timers are masked (TimerInv) *)
(* and how it ends (EndingInv).  The driver then reads a status and a      *)
(* stdout of which all this is true, and its RunResult (ResultFacts) can   *)
(* only say so.                                                            *)

HIDE DEF subprocessVars, tracerVars, harness_vars, Goto, Gone, ExitStatuses, EmptyInfo, Never,
         NewTracer, NewTracee
USE RunnerAssumption, DriverAssumption
    DEF runnerVars, driverVars, driver_vars, TimerSignals, CaughtSignals, Deadly

\* How far the process is: there is a snap from the head of the loop to the report, and
\* what ended as expected ended the whole loop.
ProgressInv ==
  /\ pc \in {"entering", "snap", "ended"} => executed < NumIterations
  /\ pc \in {"entering", "snap", "ended", "report", "checksum", "result"} => snap \in Snaps
  /\ pc \in {"report", "checksum", "result"} => outcome # "none"
  /\ pc \in {"report", "checksum", "result", "return"} /\ outcome = "as_expected"
       => executed = NumIterations

\* The process finds at most one failure, the outcome of the snap it ran last.
FailureInv ==
  /\ pc \in {"setup", "loop", "entering", "snap", "ended", "quit"}
       => outcome \in {"none", "as_expected"}
  /\ outcome \in {"none", "as_expected"} => detected = <<>>
  /\ outcome \notin {"none", "as_expected"} => detected = <<<<snap, outcome>>>>

\* Before its report nothing whole is on stdout; a player result is that of the snap run
\* last; and "ok" is written only after all iterations.
MessageOK(m) ==
  /\ pc \in {"setup", "loop", "entering", "snap", "ended", "quit"} => m = Torn
  /\ m.field = "failed_snapshot_execution" => m.value = <<snap, outcome>>
  /\ m = ExecutionResult("ok")
       => /\ outcome = "as_expected" /\ executed = NumIterations
          /\ pc \in {"return", "gone"}

StdoutInv == \A i \in DOMAIN stdout : MessageOK(stdout[i])

\* The timers are masked exactly since a signal ended a snap; no snap is entered then,
\* and a runaway or misbehaving one leaves them masked.
TimerInv ==
  /\ timers_masked <=> signum # "none"
  /\ timers_masked => pc \notin {"setup", "loop", "entering", "snap", "quit"}
  /\ enter_snap_context => ~timers_masked /\ pc \in {"entering", "snap", "gone", "quit"}
  /\ outcome \in {"runaway", "misbehave"} => timers_masked

\* An exit with 0 is the snap's or the end of all iterations; the timers do not end the
\* process of a snap that a signal ended.
EndingInv ==
  /\ status = Exited(0)
       => pc = "quit" \/ (outcome = "as_expected" /\ executed = NumIterations)
  /\ status = Exited(2) => outcome \notin {"runaway", "misbehave"}

ProcessInv == ProgressInv /\ FailureInv /\ StdoutInv /\ TimerInv /\ EndingInv

\* What SuccessIsComplete says of each process.
Complete(ending) ==
  \/ ending.status = Killed("SIGINT")
  \/ ending.status = Exited(0) /\ ending.at = "quit"
  \/ ending.status = Exited(2) /\ options.call = "Run"
  \/ ending.executed = NumIterations /\ ending.detected = <<>>

\* One ending for each attempt, complete as long as the driver goes on.
AttemptsInv ==
  /\ run_result = NoResult => Len(endings) = attempt - 1
  /\ Success(run_result) => Len(endings) = attempt
  /\ run_result = NoResult \/ Success(run_result)
       => \A i \in DOMAIN endings : Complete(endings[i])

\* The inductive invariant.
DriverInv == DriverTypeOK /\ ProcessInv /\ ReportGenuine /\ SuccessHidesNothing /\ AttemptsInv
-----------------------------------------------------------------------------
AllOptions == CorpusOptions \union PlayOptions \union MakeOptions \union VerifyOptions

\* The flags the driver's calls start a runner with.
LEMMA OptionFacts ==
  ASSUME options \in AllOptions
  PROVE  /\ options.mode \in {"run", "sequential", "make"}
         /\ options.call \in {"Run", "PlayOne", "MakeOne", "VerifyOneRepeatedly"}
         /\ options.budgets \subseteq TimerSignals
         /\ options.max_pages_to_add \in Nat
         /\ options.num_iterations \in Nat \ {0}
         /\ options.snap_id \in Snaps \union {kNone}
         /\ options.snap_id = kNone <=> options.call = "Run"
<1>1. CASE options \in CorpusOptions
  <2> PICK mode \in {"run", "sequential"}, strict \in BOOLEAN :
        options = CorpusRun(mode, strict)
    BY <1>1 DEF CorpusOptions
  <2> DEFINE r == RunnerOptions("Run", mode, kNone, CorpusIterations, TimerSignals)
  <2>1. /\ r.mode = mode /\ r.call = "Run" /\ r.budgets = TimerSignals
        /\ r.max_pages_to_add = 0 /\ r.num_iterations = CorpusIterations /\ r.snap_id = kNone
    BY DEF RunnerOptions
  <2>2. DOMAIN r = {"call", "mode", "snap_id", "num_iterations", "budgets",
                    "max_pages_to_add", "strict", "skip_end_state_check"}
    BY DEF RunnerOptions
  <2> HIDE DEF r
  <2>3. /\ options.mode = mode /\ options.call = "Run" /\ options.budgets = TimerSignals
        /\ options.max_pages_to_add = 0 /\ options.num_iterations = CorpusIterations
        /\ options.snap_id = kNone
    BY <2>1, <2>2 DEF r, CorpusRun
  <2> QED
    BY <2>3
<1>2. CASE options \in PlayOptions
  BY <1>2 DEF PlayOptions, RunnerOptions
<1>3. CASE options \in MakeOptions
  <2> PICK id \in Snaps :
        options = [RunnerOptions("MakeOne", "make", id, 1, {"SIGXCPU"})
                     EXCEPT !.max_pages_to_add = MaxPagesToAdd]
    BY <1>3 DEF MakeOptions
  <2>1. /\ options.mode = "make" /\ options.call = "MakeOne" /\ options.budgets = {"SIGXCPU"}
        /\ options.max_pages_to_add = MaxPagesToAdd /\ options.num_iterations = 1
        /\ options.snap_id = id
    BY DEF RunnerOptions
  <2> QED
    BY <2>1
<1>4. CASE options \in VerifyOptions
  BY <1>4 DEF VerifyOptions, RunnerOptions
<1> QED
  BY <1>1, <1>2, <1>3, <1>4 DEF AllOptions

\* Each of them runs some snap at least once, in make mode exactly once.
LEMMA IterationFacts ==
  ASSUME options \in AllOptions
  PROVE  /\ NumIterations \in Nat \ {0}
         /\ options.mode = "make" => NumIterations = 1
         /\ RunCorpus \in Seq(Snaps) /\ RunCorpus # <<>>
         /\ Attempts \in Nat \ {0}
<1>1. RunCorpus \in Seq(Snaps) /\ RunCorpus # <<>>
  BY OptionFacts DEF RunCorpus
<1>2. Len(RunCorpus) \in Nat \ {0}
  BY <1>1
<1>3. NumIterations \in Nat \ {0} /\ (options.mode = "make" => NumIterations = 1)
  <2>1. CASE options.mode = "make"
    BY <2>1 DEF NumIterations
  <2>2. CASE options.mode = "sequential"
    BY <1>2, <2>2 DEF NumIterations
  <2>3. CASE options.mode = "run"
    BY <2>3, OptionFacts DEF NumIterations
  <2> QED
    BY <2>1, <2>2, <2>3, OptionFacts
<1> QED
  BY <1>1, <1>3 DEF Attempts
-----------------------------------------------------------------------------
\* All that the process and the signals to it can do.
ProcessStep ==
  \/ RunnerStep \/ SnapStep
  \/ \E sig \in CaughtSignals : Deliver(sig)
  \/ \E sig \in Deadly : Kill(sig)

\* What is written are messages.
LEMMA MessageFacts ==
  /\ \A code \in Codes : ExecutionResult(code) \in Messages
  /\ \A id \in Snaps, o \in SnapOutcomes : FailedSnapshot(id, o) \in Messages
  /\ \A c \in {"match", "mismatch"} : Postfailure(c) \in Messages
  /\ Torn \in Messages
BY DEF Messages

\* Exit codes and signals are ends of a process.
LEMMA StatusFacts ==
  /\ \A code \in 0..2 : Exited(code) \in Statuses /\ Exited(code) # NotEnded
  /\ \A sig \in CaughtSignals \union Deadly \union {"SIGSYS"} :
       Killed(sig) \in Statuses /\ Killed(sig) # NotEnded
  /\ NotEnded \in Statuses
BY DEF Statuses, Exited, Killed, NotEnded

\* The types of the variables of a process, but for its output.
ProcessTypeOK ==
  /\ pc \in Pcs /\ snap \in Snaps \union {kNone}
  /\ executed \in 0..NumIterations /\ outcome \in SnapOutcomes \union {"none"}
  /\ enter_snap_context \in BOOLEAN /\ context_saved \in BOOLEAN
  /\ signum \in CaughtSignals \union {"none"} /\ timers_masked \in BOOLEAN
  /\ num_added_pages \in 0..options.max_pages_to_add
  /\ status \in Statuses /\ (IsRunning <=> pc \notin {"gone", "quit"})

\* A step of the process keeps the types of its variables, one action at a time.
LEMMA ProcessTyped ==
  ASSUME options \in AllOptions, options' = options, ProcessTypeOK, ProgressInv, ProcessStep
  PROVE  ProcessTypeOK'
<1>1. /\ NumIterations \in Nat \ {0} /\ NumIterations' = NumIterations
      /\ RunCorpus \in Seq(Snaps) /\ options.max_pages_to_add \in Nat
  BY OptionFacts, IterationFacts DEF NumIterations, RunCorpus
<1> USE DEF ProcessTypeOK, Pcs, SnapOutcomes, IsRunning
<1>2. CASE SetupFails
  BY <1>1, <1>2, StatusFacts DEF SetupFails, ExitWith
<1>3. CASE SetupDone \/ SaveContext
  BY <1>1, <1>3 DEF SetupDone, SaveContext
<1>4. CASE EnterSnap
  BY <1>1, <1>4 DEF EnterSnap
<1>5. CASE Evaluate
  <2>1. executed + 1 \in 0..NumIterations
    BY <1>1, <1>5 DEF Evaluate, ProgressInv
  <2> QED BY <1>1, <1>5, <2>1 DEF Evaluate, Outcomes
<1>6. CASE Report \/ Checksum \/ Finish
  BY <1>1, <1>6 DEF Report, Checksum, Finish
<1>7. CASE Return
  BY <1>1, <1>7, StatusFacts DEF Return, ExitWith
<1>8. CASE SnapStep
  <2>1. CASE SnapExits \/ SnapWrites
    BY <1>1, <2>1 DEF SnapExits, SnapWrites
  <2>2. CASE SnapExitsProcess
    BY <1>1, <2>2, StatusFacts DEF SnapExitsProcess
  <2>3. CASE SnapMakesSyscall
    BY <1>1, <2>3, StatusFacts DEF SnapMakesSyscall
  <2> QED
    BY <1>8, <2>1, <2>2, <2>3 DEF SnapStep
<1>9. ASSUME NEW sig \in CaughtSignals, Deliver(sig) PROVE ProcessTypeOK'
  <2>1. UNCHANGED <<snap, executed, outcome, context_saved>> /\ IsRunning
    BY <1>9 DEF Deliver
  <2>2. CASE DieDuringSetup(sig)
    BY <1>1, <2>1, <2>2, StatusFacts DEF DieDuringSetup
  <2>3. CASE ExitOnTimeout(sig)
    BY <1>1, <2>1, <2>3, StatusFacts DEF ExitOnTimeout, ExitWith
  <2>4. CASE ExitOnUnhandled(sig)
    BY <1>1, <2>1, <2>4, StatusFacts DEF ExitOnUnhandled, ExitWith
  <2>5. CASE AddPage(sig)
    BY <1>1, <2>1, <2>5 DEF AddPage
  <2>6. CASE Reenter(sig)
    <3>1. pc' = "ended" /\ UNCHANGED <<num_added_pages, status>> /\ timers_masked'
      BY <2>6 DEF Reenter
    <3> QED BY <1>1, <2>1, <2>6, <3>1 DEF Reenter
  <2>7. CASE ReenterNowhere(sig)
    <3>1. /\ pc' = "gone" /\ status' = Exited(1) /\ UNCHANGED num_added_pages
          /\ timers_masked' = TRUE /\ enter_snap_context' = FALSE /\ signum' = sig
      BY <2>7 DEF ReenterNowhere, ExitWith
    <3>2. status' \in Statuses /\ status' # NotEnded
      BY <3>1, StatusFacts
    <3>3. signum' \in CaughtSignals \union {"none"}
      BY <3>1
    <3> QED BY <1>1, <2>1, <3>1, <3>2, <3>3
  <2> QED
    BY <1>9, <2>2, <2>3, <2>4, <2>5, <2>6, <2>7 DEF Deliver
<1>10. ASSUME NEW sig \in Deadly, Kill(sig) PROVE ProcessTypeOK'
  BY <1>1, <1>10, StatusFacts DEF Kill
<1> QED
  BY <1>2, <1>3, <1>4, <1>5, <1>6, <1>7, <1>8, <1>9, <1>10 DEF ProcessStep, RunnerStep

\* It writes messages only.
LEMMA StdoutTyped ==
  ASSUME ProcessTypeOK, ProgressInv, stdout \in Seq(Messages), ProcessStep
  PROVE  stdout' \in Seq(Messages)
<1>1. ASSUME NEW m \in Messages, NEW out \in Seq(Messages) PROVE Append(out, m) \in Seq(Messages)
  OBVIOUS
<1>2. \A out \in CutShort : out \in Seq(Messages)
  BY <1>1, MessageFacts DEF CutShort
<1>3. /\ ExecutionResult("ok") \in Messages /\ ExecutionResult("snapshot_failed") \in Messages
      /\ ExecutionResult("unhandled_signal") \in Messages
  BY MessageFacts DEF Codes
<1>4. CASE SetupFails
  <2>1. \A code \in {"mmap_failed", "overlapping_mappings", "initial_checksum_mismatch"} :
          ExecutionResult(code) \in Messages
    BY MessageFacts DEF Codes
  <2> QED BY <1>1, <1>4, <2>1 DEF SetupFails
<1>5. CASE SetupDone \/ EnterSnap \/ SaveContext \/ Evaluate \/ Return
  BY <1>5 DEF SetupDone, EnterSnap, SaveContext, Evaluate, Return
<1>6. CASE Report
  <2>1. snap \in Snaps /\ outcome \in SnapOutcomes
    BY <1>6 DEF Report, ProgressInv, ProcessTypeOK
  <2> QED BY <1>1, <1>6, <2>1, MessageFacts DEF Report
<1>7. CASE Checksum
  BY <1>1, <1>7, MessageFacts DEF Checksum
<1>8. CASE Finish
  BY <1>1, <1>3, <1>8 DEF Finish
<1>9. CASE SnapStep
  BY <1>1, <1>9, MessageFacts
     DEF SnapStep, SnapExits, SnapWrites, SnapExitsProcess, SnapMakesSyscall
<1>10. ASSUME NEW sig \in CaughtSignals, Deliver(sig) PROVE stdout' \in Seq(Messages)
  BY <1>1, <1>2, <1>3, <1>10
     DEF Deliver, DieDuringSetup, ExitOnTimeout, ExitOnUnhandled, AddPage, Reenter, ReenterNowhere
<1>11. ASSUME NEW sig \in Deadly, Kill(sig) PROVE stdout' \in Seq(Messages)
  BY <1>11 DEF Kill
<1> QED
  BY <1>4, <1>5, <1>6, <1>7, <1>8, <1>9, <1>10, <1>11 DEF ProcessStep, RunnerStep

\* It keeps ProgressInv: the loop ends before another iteration is counted.
LEMMA ProgressStep ==
  ASSUME options \in AllOptions, options' = options, ProcessTypeOK, ProgressInv, TimerInv,
         ProcessStep
  PROVE  ProgressInv'
<1>1. /\ NumIterations \in Nat \ {0} /\ NumIterations' = NumIterations
      /\ RunCorpus \in Seq(Snaps) /\ (options.mode = "make" => NumIterations = 1)
  BY IterationFacts DEF NumIterations, RunCorpus
<1> USE DEF ProcessTypeOK, ProgressInv
<1>2. CASE SetupFails \/ SetupDone
  BY <1>1, <1>2 DEF SetupFails, SetupDone, ExitWith
<1>3. CASE EnterSnap
  BY <1>1, <1>3 DEF EnterSnap
<1>4. CASE SaveContext
  BY <1>1, <1>4 DEF SaveContext
<1>5. CASE Evaluate
  <2>1. outcome' # "none"
    BY <1>5 DEF Evaluate, Outcomes
  <2>2. CASE outcome' = "as_expected"
    <3>1. executed' = executed + 1 /\ executed < NumIterations
          /\ pc' = IF options.mode = "make" THEN "report" ELSE "loop"
      BY <1>5, <2>2 DEF Evaluate
    <3> QED BY <1>1, <1>5, <2>2, <3>1 DEF Evaluate
  <2>3. CASE outcome' # "as_expected"
    BY <1>1, <1>5, <2>1, <2>3 DEF Evaluate
  <2> QED BY <2>2, <2>3
<1>6. CASE Report \/ Checksum \/ Finish \/ Return
  BY <1>1, <1>6 DEF Report, Checksum, Finish, Return, ExitWith
<1>7. CASE SnapStep
  BY <1>1, <1>7 DEF SnapStep, SnapExits, SnapWrites, SnapExitsProcess, SnapMakesSyscall
<1>8. ASSUME NEW sig \in CaughtSignals, Deliver(sig) PROVE ProgressInv'
  <2>1. UNCHANGED <<snap, executed, outcome>> /\ IsRunning
    BY <1>8 DEF Deliver
  <2>2. CASE DieDuringSetup(sig) \/ ExitOnTimeout(sig) \/ ExitOnUnhandled(sig)
             \/ ReenterNowhere(sig)
    <3>1. pc' = "gone"
      BY <2>2 DEF DieDuringSetup, ExitOnTimeout, ExitOnUnhandled, ReenterNowhere, ExitWith
    <3> QED BY <1>1, <2>1, <3>1
  <2>3. CASE AddPage(sig)
    BY <1>1, <2>1, <2>3 DEF AddPage
  <2>4. CASE Reenter(sig)
    <3>1. pc \in {"entering", "snap"} /\ pc' = "ended"
      BY <2>1, <2>4 DEF Reenter, TimerInv
    <3> QED BY <1>1, <2>1, <3>1
  <2> QED
    BY <1>8, <2>2, <2>3, <2>4 DEF Deliver
<1>9. ASSUME NEW sig \in Deadly, Kill(sig) PROVE ProgressInv'
  BY <1>1, <1>9 DEF Kill
<1> QED
  BY <1>2, <1>3, <1>4, <1>5, <1>6, <1>7, <1>8, <1>9 DEF ProcessStep, RunnerStep

\* It keeps TimerInv: SigAction masks the timers and leaves the snap at once.
LEMMA TimerStep ==
  ASSUME ProcessTypeOK, TimerInv, FailureInv, ProcessStep
  PROVE  TimerInv'
<1> USE DEF ProcessTypeOK, TimerInv, FailureInv
<1>1. CASE SetupFails \/ SetupDone \/ EnterSnap \/ SaveContext
  BY <1>1 DEF SetupFails, SetupDone, EnterSnap, SaveContext, ExitWith
<1>2. CASE Evaluate
  BY <1>2 DEF Evaluate, Outcomes
<1>3. CASE Report \/ Checksum \/ Finish \/ Return
  BY <1>3 DEF Report, Checksum, Finish, Return, ExitWith
<1>4. CASE SnapStep
  BY <1>4 DEF SnapStep, SnapExits, SnapWrites, SnapExitsProcess, SnapMakesSyscall
<1>5. ASSUME NEW sig \in CaughtSignals, Deliver(sig) PROVE TimerInv'
  <2>1. UNCHANGED outcome /\ IsRunning
    BY <1>5 DEF Deliver
  <2>2. CASE DieDuringSetup(sig) \/ ExitOnTimeout(sig) \/ ExitOnUnhandled(sig)
    BY <2>1, <2>2 DEF DieDuringSetup, ExitOnTimeout, ExitOnUnhandled, ExitWith
  <2>3. CASE AddPage(sig)
    BY <2>1, <2>3 DEF AddPage
  <2>4. CASE Reenter(sig) \/ ReenterNowhere(sig)
    BY <2>1, <2>4 DEF Reenter, ReenterNowhere, ExitWith
  <2> QED
    BY <1>5, <2>2, <2>3, <2>4 DEF Deliver
<1>6. ASSUME NEW sig \in Deadly, Kill(sig) PROVE TimerInv'
  BY <1>6 DEF Kill
<1> QED
  BY <1>1, <1>2, <1>3, <1>4, <1>5, <1>6 DEF ProcessStep, RunnerStep

\* It keeps FailureInv: after a failure only the report is left to do.
LEMMA FailureStep ==
  ASSUME ProcessTypeOK, FailureInv, TimerInv, ProcessStep
  PROVE  FailureInv'
<1> USE DEF ProcessTypeOK, FailureInv
<1>1. CASE SetupFails \/ SetupDone \/ EnterSnap \/ SaveContext
  BY <1>1 DEF SetupFails, SetupDone, EnterSnap, SaveContext, ExitWith
<1>2. CASE Evaluate
  <2>1. detected = <<>> /\ outcome' # "none" /\ snap' = snap
    BY <1>2 DEF Evaluate, Outcomes
  <2>2. CASE outcome' = "as_expected"
    BY <1>2, <2>1, <2>2 DEF Evaluate
  <2>3. CASE outcome' # "as_expected"
    <3>1. detected' = Append(detected, <<snap, outcome'>>) /\ pc' = "report"
      BY <1>2, <2>3 DEF Evaluate
    <3>2. Append(<<>>, <<snap, outcome'>>) = <<<<snap, outcome'>>>>
      OBVIOUS
    <3>3. detected' = <<<<snap', outcome'>>>>
      BY <2>1, <3>1, <3>2
    <3> QED BY <2>1, <2>3, <3>1, <3>3
  <2> QED BY <2>2, <2>3
<1>3. CASE Report \/ Checksum \/ Finish \/ Return
  BY <1>3 DEF Report, Checksum, Finish, Return, ExitWith
<1>4. CASE SnapStep
  BY <1>4 DEF SnapStep, SnapExits, SnapWrites, SnapExitsProcess, SnapMakesSyscall
<1>5. ASSUME NEW sig \in CaughtSignals, Deliver(sig) PROVE FailureInv'
  <2>1. UNCHANGED <<snap, outcome, detected>> /\ IsRunning
    BY <1>5 DEF Deliver
  <2>2. CASE DieDuringSetup(sig) \/ ExitOnTimeout(sig) \/ ExitOnUnhandled(sig)
             \/ ReenterNowhere(sig)
    BY <2>1, <2>2
       DEF DieDuringSetup, ExitOnTimeout, ExitOnUnhandled, ReenterNowhere, ExitWith
  <2>3. CASE AddPage(sig) \/ Reenter(sig)
    BY <2>1, <2>3 DEF AddPage, Reenter, TimerInv
  <2> QED
    BY <1>5, <2>2, <2>3 DEF Deliver
<1>6. ASSUME NEW sig \in Deadly, Kill(sig) PROVE FailureInv'
  BY <1>6 DEF Kill
<1> QED
  BY <1>1, <1>2, <1>3, <1>4, <1>5, <1>6 DEF ProcessStep, RunnerStep

\* It keeps EndingInv: the timers are masked when the report of a runaway is written.
LEMMA StatusStep ==
  ASSUME options \in AllOptions, options' = options, ProcessTypeOK, ProgressInv, TimerInv,
         EndingInv, ProcessStep
  PROVE  EndingInv'
<1>1. NumIterations' = NumIterations
  BY DEF NumIterations, RunCorpus
<1>a. /\ \A c, d \in 0..2 : Exited(c) = Exited(d) => c = d
      /\ \A c \in 0..2, sig \in CaughtSignals \union Deadly \union {"SIGSYS"} :
           Exited(c) # Killed(sig) /\ Exited(c) # NotEnded
  BY DEF Exited, Killed, NotEnded
<1> USE DEF ProcessTypeOK, EndingInv, IsRunning
<1>2. CASE \/ SetupDone \/ EnterSnap \/ SaveContext \/ Evaluate \/ Report \/ Checksum
           \/ Finish
  BY <1>1, <1>a, <1>2
     DEF SetupDone, EnterSnap, SaveContext, Evaluate, Report, Checksum, Finish
<1>3. CASE SetupFails
  BY <1>1, <1>a, <1>3 DEF SetupFails, ExitWith
<1>4. CASE Return
  BY <1>1, <1>a, <1>4 DEF Return, ExitWith, ProgressInv
<1>5. CASE SnapStep
  BY <1>1, <1>a, <1>5
     DEF SnapStep, SnapExits, SnapWrites, SnapExitsProcess, SnapMakesSyscall, TimerInv
<1>6. ASSUME NEW sig \in CaughtSignals, Deliver(sig) PROVE EndingInv'
  <2>1. /\ UNCHANGED <<executed, outcome>> /\ IsRunning
        /\ sig \in TimerSignals => ~timers_masked
    BY <1>6 DEF Deliver
  <2>2. CASE DieDuringSetup(sig)
    BY <1>1, <1>a, <2>1, <2>2 DEF DieDuringSetup
  <2>3. CASE ExitOnTimeout(sig)
    BY <1>1, <1>a, <2>1, <2>3 DEF ExitOnTimeout, ExitWith, TimerInv
  <2>4. CASE ExitOnUnhandled(sig) \/ ReenterNowhere(sig)
    BY <1>1, <1>a, <2>1, <2>4 DEF ExitOnUnhandled, ReenterNowhere, ExitWith
  <2>5. CASE AddPage(sig) \/ Reenter(sig)
    BY <1>1, <1>a, <2>1, <2>5 DEF AddPage, Reenter
  <2> QED
    BY <1>6, <2>2, <2>3, <2>4, <2>5 DEF Deliver
<1>7. ASSUME NEW sig \in Deadly, Kill(sig) PROVE EndingInv'
  BY <1>1, <1>a, <1>7 DEF Kill
<1> QED
  BY <1>2, <1>3, <1>4, <1>5, <1>6, <1>7 DEF ProcessStep, RunnerStep

\* What is on stdout stays as MessageOK says: nothing is run after a report.
LEMMA OldMessages ==
  ASSUME options \in AllOptions, options' = options, ProcessTypeOK, ProgressInv, TimerInv,
         FailureInv, ProcessStep, NEW m \in Messages, MessageOK(m)
  PROVE  MessageOK(m)'
<1>1. NumIterations' = NumIterations
  BY DEF NumIterations, RunCorpus
<1>a. m = Torn => m.field # "failed_snapshot_execution" /\ m # ExecutionResult("ok")
  BY DEF Torn, ExecutionResult, Message
<1> USE DEF MessageOK
<1>2. CASE SetupFails \/ SetupDone \/ EnterSnap \/ SaveContext \/ Evaluate \/ SnapStep
  BY <1>1, <1>a, <1>2
     DEF SetupFails, SetupDone, EnterSnap, SaveContext, Evaluate, SnapStep, SnapExits,
         SnapWrites, SnapExitsProcess, SnapMakesSyscall, ExitWith
<1>3. CASE Report \/ Checksum \/ Finish \/ Return
  BY <1>1, <1>a, <1>3 DEF Report, Checksum, Finish, Return, ExitWith
<1>4. ASSUME NEW sig \in CaughtSignals, Deliver(sig) PROVE MessageOK(m)'
  <2>1. UNCHANGED <<snap, executed, outcome>> /\ IsRunning
    BY <1>4 DEF Deliver
  <2>2. CASE DieDuringSetup(sig) \/ ExitOnTimeout(sig) \/ ExitOnUnhandled(sig)
             \/ ReenterNowhere(sig)
    BY <1>1, <1>a, <2>1, <2>2
       DEF DieDuringSetup, ExitOnTimeout, ExitOnUnhandled, ReenterNowhere, ExitWith
  <2>3. CASE AddPage(sig) \/ Reenter(sig)
    BY <1>1, <1>a, <2>1, <2>3 DEF AddPage, Reenter, TimerInv, ProcessTypeOK
  <2> QED
    BY <1>4, <2>2, <2>3 DEF Deliver
<1>5. ASSUME NEW sig \in Deadly, Kill(sig) PROVE MessageOK(m)'
  BY <1>1, <1>a, <1>5 DEF Kill
<1> QED
  BY <1>2, <1>3, <1>4, <1>5 DEF ProcessStep, RunnerStep

\* The message of an execution result tells its code.
LEMMA ResultMessages ==
  ASSUME NEW code \in Codes
  PROVE  /\ ExecutionResult(code) \in Messages
         /\ ExecutionResult(code).field = "execution_result"
         /\ ExecutionResult(code) # Torn
         /\ ExecutionResult(code).value = <<code>>
         /\ ExecutionResult(code) = ExecutionResult("ok") => code = "ok"
<1>1. /\ ExecutionResult(code) \in Messages
      /\ ExecutionResult(code).field = "execution_result"
      /\ ExecutionResult(code) # Torn
      /\ ExecutionResult(code).value = <<code>>
  BY MessageFacts DEF ExecutionResult, Message, Torn
<1>2. ExecutionResult("ok").value = <<"ok">>
  BY DEF ExecutionResult, Message
<1>3. <<code>> = <<"ok">> => code = "ok"
  OBVIOUS
<1> QED
  BY <1>1, <1>2, <1>3

\* A step writes nothing, one message or two, each as MessageOK says.
LEMMA NewMessages ==
  ASSUME options \in AllOptions, options' = options, ProcessTypeOK, ProgressInv, TimerInv,
         FailureInv, ProcessStep
  PROVE  \/ stdout' = stdout
         \/ \E m \in Messages : stdout' = Append(stdout, m) /\ MessageOK(m)'
         \/ \E m, n \in Messages :
              stdout' = Append(Append(stdout, m), n) /\ MessageOK(m)' /\ MessageOK(n)'
<1>1. NumIterations' = NumIterations
  BY DEF NumIterations, RunCorpus
<1>a. /\ Torn.field = "torn" /\ Torn # ExecutionResult("ok") /\ Torn \in Messages
      /\ \A id \in Snaps, o \in SnapOutcomes :
           FailedSnapshot(id, o).value = <<id, o>> /\ FailedSnapshot(id, o) # ExecutionResult("ok")
      /\ \A c \in {"match", "mismatch"} :
           /\ Postfailure(c).field = "postfailure_checksum_status"
           /\ Postfailure(c) # ExecutionResult("ok")
  BY MessageFacts DEF Torn, ExecutionResult, FailedSnapshot, Postfailure, Message
<1> DEFINE Goal == \/ stdout' = stdout
                   \/ \E m \in Messages : stdout' = Append(stdout, m) /\ MessageOK(m)'
                   \/ \E m, n \in Messages :
                        stdout' = Append(Append(stdout, m), n) /\ MessageOK(m)' /\ MessageOK(n)'
<1>b. MessageOK(Torn)'
  BY <1>a DEF MessageOK
<1>2. ASSUME NEW code \in Codes \ {"ok"}, pc' = "gone"
      PROVE  ExecutionResult(code) \in Messages /\ MessageOK(ExecutionResult(code))'
  <2> DEFINE e == ExecutionResult(code)
  <2>1. e \in Messages /\ e.field = "execution_result" /\ e # ExecutionResult("ok")
    BY ResultMessages
  <2> HIDE DEF e
  <2>2. MessageOK(e)'
    BY <1>2, <2>1 DEF MessageOK
  <2> QED BY <2>1, <2>2 DEF e
<1>3. CASE SetupFails
  <2>1. {"mmap_failed", "overlapping_mappings", "initial_checksum_mismatch"}
          \subseteq Codes \ {"ok"}
    BY DEF Codes
  <2>2. \/ stdout' = stdout
        \/ \E code \in Codes \ {"ok"} : stdout' = Append(stdout, ExecutionResult(code))
    BY <1>3, <2>1 DEF SetupFails
  <2>3. pc' = "gone"
    BY <1>3 DEF SetupFails, ExitWith
  <2> QED BY <1>2, <2>2, <2>3
<1>4. CASE SetupDone \/ EnterSnap \/ SaveContext \/ Evaluate \/ Return
  BY <1>4 DEF SetupDone, EnterSnap, SaveContext, Evaluate, Return
<1>5. CASE Report
  <2>1. snap \in Snaps /\ outcome \in SnapOutcomes
    BY <1>5 DEF Report, ProgressInv, ProcessTypeOK
  <2>2. MessageOK(FailedSnapshot(snap, outcome))'
    BY <1>5, <1>a, <2>1 DEF Report, MessageOK
  <2> QED BY <1>5, <2>1, <2>2, MessageFacts DEF Report
<1>6. CASE Checksum
  <2>1. ASSUME NEW c \in {"match", "mismatch"} PROVE MessageOK(Postfailure(c))'
    BY <1>6, <1>a DEF Checksum, MessageOK
  <2> QED BY <1>6, <2>1, MessageFacts DEF Checksum
<1>7. CASE Finish
  <2>1. CASE outcome = "as_expected"
    <3> DEFINE e == ExecutionResult("ok")
    <3>1. /\ stdout' = Append(stdout, e) /\ pc' = "return" /\ outcome' = "as_expected"
          /\ executed' = NumIterations
      BY <1>7, <2>1 DEF Finish, ProgressInv
    <3>2. e \in Messages /\ e.field = "execution_result"
      BY ResultMessages DEF Codes
    <3> HIDE DEF e
    <3>3. MessageOK(e)'
      BY <1>1, <3>1, <3>2 DEF MessageOK
    <3> QED BY <3>1, <3>2, <3>3
  <2>2. CASE outcome # "as_expected"
    <3> DEFINE e == ExecutionResult("snapshot_failed")
    <3>1. stdout' = Append(stdout, e) /\ pc' = "return"
      BY <1>7, <2>2 DEF Finish
    <3>2. e \in Messages /\ e.field = "execution_result" /\ e # ExecutionResult("ok")
      BY ResultMessages DEF Codes
    <3> HIDE DEF e
    <3>3. MessageOK(e)'
      BY <3>1, <3>2 DEF MessageOK
    <3> QED BY <3>1, <3>2, <3>3
  <2> QED BY <2>1, <2>2
<1>8. CASE SnapStep
  BY <1>8, <1>a, <1>b DEF SnapStep, SnapExits, SnapWrites, SnapExitsProcess, SnapMakesSyscall
<1>9. ASSUME NEW sig \in CaughtSignals, Deliver(sig) PROVE Goal
  <2>1. "unhandled_signal" \in Codes \ {"ok"}
    BY DEF Codes
  <2>2. CASE DieDuringSetup(sig) \/ AddPage(sig) \/ Reenter(sig)
    BY <2>2 DEF DieDuringSetup, AddPage, Reenter
  <2>3. CASE ExitOnTimeout(sig)
    BY <1>a, <1>b, <2>3 DEF ExitOnTimeout, CutShort
  <2>4. CASE ReenterNowhere(sig)
    <3>1. pc' = "gone" /\ stdout' = Append(stdout, ExecutionResult("unhandled_signal"))
      BY <2>4 DEF ReenterNowhere, ExitWith
    <3> QED BY <1>2, <2>1, <3>1
  <2>5. CASE ExitOnUnhandled(sig)
    <3> DEFINE e == ExecutionResult("unhandled_signal")
    <3>1. /\ pc' = "gone"
          /\ stdout' = Append(stdout, e) \/ stdout' = Append(Append(stdout, Torn), e)
      BY <2>5 DEF ExitOnUnhandled, CutShort, ExitWith
    <3>2. e \in Messages /\ MessageOK(e)'
      BY <1>2, <2>1, <3>1
    <3> HIDE DEF e
    <3> QED BY <1>a, <1>b, <3>1, <3>2
  <2> QED
    BY <1>9, <2>2, <2>3, <2>4, <2>5 DEF Deliver
<1>10. ASSUME NEW sig \in Deadly, Kill(sig) PROVE Goal
  BY <1>10 DEF Kill
<1> QED
  BY <1>3, <1>4, <1>5, <1>6, <1>7, <1>8, <1>9, <1>10 DEF ProcessStep, RunnerStep

\* So it keeps StdoutInv.
LEMMA StdoutStep ==
  ASSUME options \in AllOptions, options' = options, ProcessTypeOK, ProgressInv, TimerInv,
         FailureInv, StdoutInv, stdout \in Seq(Messages), ProcessStep
  PROVE  StdoutInv'
<1>1. ASSUME NEW i \in DOMAIN stdout PROVE \E m \in Messages : m = stdout[i] /\ MessageOK(m)'
  <2> PICK m \in Messages : m = stdout[i]
    OBVIOUS
  <2> QED BY OldMessages DEF StdoutInv
<1>2. SUFFICES ASSUME NEW i \in DOMAIN stdout'
               PROVE  \E m \in Messages : m = stdout'[i] /\ MessageOK(m)'
  BY DEF StdoutInv
<1>3. ASSUME NEW out \in Seq(Messages), NEW m \in Messages,
             NEW k \in DOMAIN Append(out, m)
      PROVE  \/ k \in DOMAIN out /\ Append(out, m)[k] = out[k]
             \/ Append(out, m)[k] = m
  OBVIOUS
<1>4. CASE stdout' = stdout
  BY <1>1, <1>4
<1>5. CASE \E m \in Messages : stdout' = Append(stdout, m) /\ MessageOK(m)'
  BY <1>1, <1>3, <1>5
<1>6. CASE \E m, n \in Messages :
             stdout' = Append(Append(stdout, m), n) /\ MessageOK(m)' /\ MessageOK(n)'
  <2> PICK m \in Messages, n \in Messages :
        stdout' = Append(Append(stdout, m), n) /\ MessageOK(m)' /\ MessageOK(n)'
    BY <1>6
  <2>1. Append(stdout, m) \in Seq(Messages)
    OBVIOUS
  <2> QED BY <1>1, <1>3, <2>1
<1> QED
  BY <1>4, <1>5, <1>6, NewMessages

\* Only Evaluate finds failures, of the snap being run.
LEMMA DetectedStep ==
  ASSUME ProcessTypeOK, ProgressInv, detected \in Seq(Snaps \X SnapOutcomes), ProcessStep
  PROVE  detected' \in Seq(Snaps \X SnapOutcomes)
<1>1. CASE Evaluate
  <2>1. snap \in Snaps /\ outcome' \in SnapOutcomes
    BY <1>1 DEF Evaluate, Outcomes, ProgressInv, SnapOutcomes
  <2>2. <<snap, outcome'>> \in Snaps \X SnapOutcomes
    BY <2>1
  <2>3. detected' = detected \/ detected' = Append(detected, <<snap, outcome'>>)
    BY <1>1 DEF Evaluate
  <2> DEFINE S == Snaps \X SnapOutcomes
             pair == <<snap, outcome'>>
  <2> HIDE DEF S, pair
  <2>4. pair \in S /\ detected \in Seq(S) /\ (detected' = detected \/ detected' = Append(detected, pair))
    BY <2>2, <2>3 DEF S, pair
  <2>5. detected' \in Seq(S)
    BY ONLY <2>4
  <2> QED
    BY <2>5 DEF S
<1>2. CASE ~Evaluate
  <2>1. UNCHANGED detected
    BY <1>2 DEF ProcessStep, RunnerStep, SetupFails, SetupDone, EnterSnap, SaveContext, Report,
                Checksum, Finish, Return, SnapStep, SnapExits, SnapWrites, SnapExitsProcess,
                SnapMakesSyscall, Deliver, Kill
  <2> QED
    BY <2>1
<1> QED
  BY <1>1, <1>2

\* The types of the process's variables.
ProcessOK ==
  ProcessTypeOK /\ stdout \in Seq(Messages) /\ detected \in Seq(Snaps \X SnapOutcomes)

\* The step of a process, put together.
LEMMA ProcessKept ==
  ASSUME options \in AllOptions, options' = options, ProcessOK, ProcessInv, ProcessStep
  PROVE  ProcessOK' /\ ProcessInv'
BY ProcessTyped, StdoutTyped, DetectedStep, ProgressStep, TimerStep, FailureStep, StatusStep,
   StdoutStep DEF ProcessOK, ProcessInv

\* The first process starts well,
LEMMA NewProcess ==
  ASSUME options \in AllOptions, RunnerStart
  PROVE  ProcessOK /\ ProcessInv
<1>1. NumIterations \in Nat \ {0} /\ options.max_pages_to_add \in Nat
  BY OptionFacts, IterationFacts
<1>2. ProcessOK
  <2>1. stdout \in Seq(Messages) /\ detected \in Seq(Snaps \X SnapOutcomes)
    BY DEF RunnerStart
  <2>2. /\ pc \in Pcs /\ snap \in Snaps \union {kNone}
        /\ outcome \in SnapOutcomes \union {"none"}
        /\ signum \in CaughtSignals \union {"none"}
    BY DEF RunnerStart, Pcs, SnapOutcomes
  <2>3. (IsRunning <=> pc \notin {"gone", "quit"}) /\ status \in Statuses
    BY StatusFacts DEF RunnerStart, IsRunning
  <2>4. 0 \in 0..NumIterations /\ 0 \in 0..options.max_pages_to_add
    BY <1>1
  <2> QED
    BY <1>1, <2>1, <2>2, <2>3, <2>4 DEF RunnerStart, ProcessOK, ProcessTypeOK
<1>3. status # Exited(0) /\ status # Exited(2)
  BY StatusFacts DEF RunnerStart
<1> QED
  BY <1>1, <1>2, <1>3
     DEF RunnerStart, ProcessInv, ProgressInv, FailureInv, StdoutInv, TimerInv, EndingInv

\* and so does each process of VerifyOneRepeatedly,
LEMMA AnotherProcess ==
  ASSUME options \in AllOptions, options' = options, RunnerStarts
  PROVE  ProcessOK' /\ ProcessInv'
<1>1. /\ NumIterations \in Nat \ {0} /\ options.max_pages_to_add \in Nat
      /\ NumIterations' = NumIterations
  BY OptionFacts, IterationFacts DEF NumIterations, RunCorpus
<1>2. ProcessOK'
  <2>1. stdout' \in Seq(Messages) /\ detected' \in Seq(Snaps \X SnapOutcomes)
    BY DEF RunnerStarts
  <2>2. /\ pc' \in Pcs /\ snap' \in Snaps \union {kNone}
        /\ outcome' \in SnapOutcomes \union {"none"}
        /\ signum' \in CaughtSignals \union {"none"}
    BY DEF RunnerStarts, Pcs, SnapOutcomes
  <2>3. (IsRunning <=> pc \notin {"gone", "quit"})' /\ status' \in Statuses
    BY StatusFacts DEF RunnerStarts, IsRunning
  <2>4. 0 \in 0..NumIterations /\ 0 \in 0..options.max_pages_to_add
    BY <1>1
  <2> QED
    BY <1>1, <2>1, <2>2, <2>3, <2>4 DEF RunnerStarts, ProcessOK, ProcessTypeOK
<1>3. status' # Exited(0) /\ status' # Exited(2)
  BY StatusFacts DEF RunnerStarts
<1> QED
  BY <1>1, <1>2, <1>3
     DEF RunnerStarts, ProcessInv, ProgressInv, FailureInv, StdoutInv, TimerInv, EndingInv
\* and what has ended stays as it is.
LEMMA ProcessFrozen ==
  ASSUME UNCHANGED runnerVars, options' = options, ProcessOK, ProcessInv
  PROVE  ProcessOK' /\ ProcessInv'
<1>1. NumIterations' = NumIterations
  BY DEF NumIterations, RunCorpus
<1>2. ProcessOK'
  BY <1>1 DEF ProcessOK, ProcessTypeOK, IsRunning
<1>3. ProgressInv' /\ FailureInv' /\ TimerInv'
  BY <1>1 DEF ProcessInv, ProgressInv, FailureInv, TimerInv
<1>4. StdoutInv'
  BY <1>1 DEF ProcessInv, StdoutInv, MessageOK
<1>5. EndingInv'
  BY <1>1 DEF ProcessInv, EndingInv
<1> QED
  BY <1>2, <1>3, <1>4, <1>5 DEF ProcessInv
-----------------------------------------------------------------------------
\* The execution result that HandleRunnerOutput parses: "ok" only if all was run.
LEMMA ResultMessage ==
  ASSUME ProcessOK, ProcessInv, ~IsRunning, Has("execution_result")
  PROVE  /\ Value("execution_result")[1] \in Codes
         /\ Value("execution_result")[1] = "ok" => outcome = "as_expected" /\ executed = NumIterations
<1> DEFINE i == CHOOSE k \in Positions("execution_result") : TRUE
           m == stdout[i]
<1>1. i \in DOMAIN stdout /\ m.field = "execution_result" /\ m.value = Value("execution_result")
  BY DEF Has, Positions, Value
<1>2. m \in Messages /\ MessageOK(m)
  BY <1>1 DEF ProcessOK, ProcessInv, StdoutInv
<1> HIDE DEF i, m
<1>3. PICK code \in Codes : m = ExecutionResult(code)
  BY <1>1, <1>2 DEF Messages, FailedSnapshot, Postfailure, Torn, Message
<1>4. Value("execution_result")[1] = code
  BY <1>1, <1>3 DEF ExecutionResult, Message
<1> QED
  BY <1>2, <1>3, <1>4 DEF MessageOK

\* The player result that it parses: that of the snap run last.
LEMMA PlayerMessage ==
  ASSUME ProcessOK, ProcessInv, ~IsRunning, Has("failed_snapshot_execution")
  PROVE  /\ Value("failed_snapshot_execution") = <<snap, outcome>>
         /\ snap \in Snaps /\ outcome \in SnapOutcomes
<1> DEFINE i == CHOOSE k \in Positions("failed_snapshot_execution") : TRUE
           m == stdout[i]
<1>1. /\ i \in DOMAIN stdout /\ m.field = "failed_snapshot_execution"
      /\ m.value = Value("failed_snapshot_execution")
  BY DEF Has, Positions, Value
<1>2. m \in Messages /\ MessageOK(m)
  BY <1>1 DEF ProcessOK, ProcessInv, StdoutInv
<1> HIDE DEF i, m
<1>3. PICK id \in Snaps, o \in SnapOutcomes : m = FailedSnapshot(id, o)
  BY <1>1, <1>2 DEF Messages, ExecutionResult, Postfailure, Torn, Message
<1>4. m.value = <<id, o>>
  BY <1>3 DEF FailedSnapshot, Message
<1>5. m.value = <<snap, outcome>>
  BY <1>1, <1>2 DEF MessageOK
<1>6. snap = id /\ outcome = o
  BY <1>4, <1>5
<1> QED
  BY <1>1, <1>5, <1>6

\* What a RunResult says of the process that ended.
ResultOK(result) ==
  /\ result \in [code : Codes \union {"none"}, player : Players] /\ result # NoResult
  /\ result.player # <<>> /\ result.player[2] # "as_expected"
       => ~Success(result) /\ detected = <<result.player>>
  /\ Success(result)
       => \/ status \in {Killed("SIGINT"), Exited(0)} \/ GracefulTimeout
          \/ outcome = "as_expected" /\ executed = NumIterations

\* HandleRunnerOutput makes such a result, whatever is on stdout and however the process
\* ended.
LEMMA ResultFacts ==
  ASSUME ProcessOK, ProcessInv, ~IsRunning
  PROVE  ResultOK(HandleRunnerOutput)
<1> DEFINE result == HandleRunnerOutput
<1> SUFFICES ResultOK(result)
  OBVIOUS
<1>1. CASE status \in {Killed("SIGINT"), Exited(0)} \/ GracefulTimeout
  <2>1. result = Successful
    BY <1>1 DEF HandleRunnerOutput
  <2> HIDE DEF result
  <2>2. result.code = "ok" /\ result.player = <<>>
    BY <2>1 DEF Successful, RunResult
  <2>3. result \in [code : Codes \union {"none"}, player : Players] /\ result # NoResult
    BY <2>1 DEF Successful, RunResult, NoResult, Codes, Players
  <2> QED
    BY <1>1, <2>2, <2>3 DEF ResultOK
<1>2. CASE ~(status \in {Killed("SIGINT"), Exited(0)} \/ GracefulTimeout)
  <2> DEFINE code   == Value("execution_result")[1]
             player == Value("failed_snapshot_execution")
  <2>1. \/ result = InternalError
        \/ Has("execution_result") /\ result = RunResult(code, <<>>)
        \/ /\ Has("execution_result") /\ Has("failed_snapshot_execution")
           /\ result = RunResult(code, player)
    BY <1>2 DEF HandleRunnerOutput
  <2> HIDE DEF result
  <2>2. CASE result = InternalError
    BY <2>2 DEF ResultOK, InternalError, RunResult, NoResult, Success, Codes, Players
  <2>3. CASE Has("execution_result") /\ result = RunResult(code, <<>>)
    <3>1. code \in Codes /\ (code = "ok" => outcome = "as_expected" /\ executed = NumIterations)
      BY <2>3, ResultMessage
    <3> HIDE DEF code
    <3> QED
      BY <2>3, <3>1 DEF ResultOK, RunResult, NoResult, Success, Codes, Players
  <2>4. CASE /\ Has("execution_result") /\ Has("failed_snapshot_execution")
             /\ result = RunResult(code, player)
    <3>1. code \in Codes /\ (code = "ok" => outcome = "as_expected" /\ executed = NumIterations)
      BY <2>4, ResultMessage
    <3>2. player = <<snap, outcome>> /\ snap \in Snaps /\ outcome \in SnapOutcomes
      BY <2>4, PlayerMessage
    <3> HIDE DEF code, player
    <3>3. player \in Players /\ player # <<>> /\ player[2] = outcome /\ outcome # "none"
      BY <3>2 DEF Players, SnapOutcomes
    <3>4. result.code = code /\ result.player = player
      BY <2>4 DEF RunResult
    <3>5. outcome # "as_expected" => detected = <<player>> /\ code # "ok"
      BY <3>1, <3>2, <3>3 DEF ProcessInv, FailureInv
    <3>6. result \in [code : Codes \union {"none"}, player : Players] /\ result # NoResult
      BY <2>4, <3>1, <3>3 DEF RunResult, NoResult
    <3> QED
      BY <3>1, <3>3, <3>4, <3>5, <3>6 DEF ResultOK, Success
  <2> QED
    BY <2>1, <2>2, <2>3, <2>4
<1> QED
  BY <1>1, <1>2

\* The types of the driver's own variables.
DriverOK ==
  /\ options \in AllOptions /\ attempt \in 1..Attempts
  /\ run_result \in [code : Codes \union {"none"}, player : Players]
  /\ endings \in Seq([status : Statuses, at : Pcs, executed : 0..NumIterations,
                     detected : Seq(Snaps \X SnapOutcomes)])

\* DriverTypeOK is about the process and the driver.
LEMMA TypeParts == DriverTypeOK <=> ProcessOK /\ DriverOK
BY DEF DriverTypeOK, ProcessOK, ProcessTypeOK, DriverOK, AllOptions

\* The same for the next state.
LEMMA NextTypeParts ==
  ASSUME ProcessOK', DriverOK'
  PROVE  DriverTypeOK'
BY DEF DriverTypeOK, ProcessOK, ProcessTypeOK, DriverOK, AllOptions

\* The invariant holds when the driver has started its first process.
LEMMA InitEstablishes == DriverInit => DriverInv
<1> SUFFICES ASSUME DriverInit PROVE DriverInv
  OBVIOUS
<1>1. options \in AllOptions
  BY DEF DriverInit, AllOptions
<1>2. ProcessOK /\ ProcessInv
  BY <1>1, NewProcess DEF DriverInit
<1>3. /\ NoResult.code = "none" /\ NoResult.player = <<>>
      /\ NoResult \in [code : Codes \union {"none"}, player : Players]
  BY DEF NoResult, RunResult, Players
<1>4. DriverOK
  BY <1>1, <1>3, IterationFacts DEF DriverInit, DriverOK
<1>5. ReportGenuine /\ SuccessHidesNothing /\ AttemptsInv
  BY <1>3 DEF DriverInit, ReportGenuine, SuccessHidesNothing, AttemptsInv, Success
<1> QED
  BY <1>2, <1>4, <1>5, TypeParts DEF DriverInv

\* While the driver waits in Communicate, its own state is frozen.
LEMMA StepOfProcess ==
  ASSUME DriverInv, Waiting, ProcessStep
  PROVE  DriverInv'
<1>1. /\ options' = options /\ attempt' = attempt /\ run_result' = run_result
      /\ endings' = endings /\ run_result = NoResult
  BY DEF Waiting
<1>2. /\ ProcessOK /\ DriverOK /\ ProcessInv /\ options \in AllOptions /\ AttemptsInv
  BY TypeParts DEF DriverInv, DriverOK
<1>3. ProcessOK' /\ ProcessInv'
  BY <1>1, <1>2, ProcessKept
<1>4. /\ Attempts' = Attempts /\ NumIterations' = NumIterations /\ AllOptions' = AllOptions
      /\ \A e : Complete(e)' <=> Complete(e)
  BY <1>1 DEF Attempts, NumIterations, RunCorpus, Complete, AllOptions, CorpusOptions, PlayOptions,
     MakeOptions, VerifyOptions
<1>5. DriverOK'
  BY <1>1, <1>2, <1>4 DEF DriverOK
<1>6. run_result.code = "none" /\ run_result.player = <<>>
  BY <1>1 DEF NoResult, RunResult
<1>7. ReportGenuine' /\ SuccessHidesNothing'
  BY <1>1, <1>6 DEF ReportGenuine, SuccessHidesNothing, Success
<1>8. AttemptsInv'
  BY <1>1, <1>2, <1>4 DEF AttemptsInv, Complete, Success
<1> QED
  BY <1>3, <1>5, <1>7, <1>8, NextTypeParts DEF DriverInv

\* HandleRunnerOutput: the result is made of the process that has just ended.
LEMMA RunReturnsKeeps ==
  ASSUME DriverInv, RunReturns
  PROVE  DriverInv'
<1> DEFINE ending == [status |-> status, at |-> pc, executed |-> executed, detected |-> detected]
<1>1. /\ UNCHANGED <<runnerVars, options, attempt>> /\ run_result = NoResult /\ ~IsRunning
      /\ run_result' = HandleRunnerOutput /\ endings' = Append(endings, ending)
  BY DEF RunReturns
<1>2. /\ ProcessOK /\ DriverOK /\ ProcessInv /\ options \in AllOptions /\ AttemptsInv
  BY TypeParts DEF DriverInv, DriverOK
<1>3. ProcessOK' /\ ProcessInv'
  BY <1>1, <1>2, ProcessFrozen
<1>4. /\ Attempts' = Attempts /\ NumIterations' = NumIterations /\ AllOptions' = AllOptions
      /\ SnapshotId' = SnapshotId
  BY <1>1 DEF Attempts, NumIterations, RunCorpus, SnapshotId, AllOptions, CorpusOptions, PlayOptions,
     MakeOptions, VerifyOptions
<1>5. ending \in [status : Statuses, at : Pcs, executed : 0..NumIterations,
                 detected : Seq(Snaps \X SnapOutcomes)]
  BY <1>2 DEF ProcessOK, ProcessTypeOK
<1>6. ResultOK(run_result')
  BY <1>1, <1>2, ResultFacts
<1>7. DriverOK'
  <2> HIDE DEF ending
  <2> QED
    BY <1>1, <1>2, <1>4, <1>5, <1>6 DEF DriverOK, ResultOK
<1>8. ReportGenuine'
  BY <1>1, <1>6 DEF ReportGenuine, Success, ResultOK
<1>9. outcome = "as_expected" => detected = <<>>
  BY <1>2 DEF ProcessInv, FailureInv
<1>10. SuccessHidesNothing'
  <2>1. status = Exited(0) => pc = "quit" \/ outcome = "as_expected"
    BY <1>2 DEF ProcessInv, EndingInv
  <2>2. pc = "quit" => detected = <<>>
    BY <1>2 DEF ProcessInv, FailureInv
  <2> QED
    BY <1>1, <1>4, <1>6, <1>9, <2>1, <2>2 DEF SuccessHidesNothing, GracefulTimeout, Success, ResultOK
<1>11. Success(run_result') => Complete(ending)
  <2>1. SnapshotId = kNone => options.call = "Run"
    BY <1>2, OptionFacts DEF SnapshotId
  <2>2. status = Exited(0) => pc = "quit" \/ (outcome = "as_expected" /\ executed = NumIterations)
    BY <1>2 DEF ProcessInv, EndingInv
  <2> QED
    BY <1>6, <1>9, <2>1, <2>2 DEF Complete, GracefulTimeout, ResultOK
<1>12. AttemptsInv'
  <2> HIDE DEF ending
  <2>1. /\ Len(endings) = attempt - 1 /\ \A i \in DOMAIN endings : Complete(endings[i])
        /\ attempt \in Nat /\ endings \in Seq([status : Statuses, at : Pcs,
             executed : 0..NumIterations, detected : Seq(Snaps \X SnapOutcomes)])
    BY <1>1, <1>2, IterationFacts DEF AttemptsInv, DriverOK
  <2>2. Len(endings') = attempt
    BY <1>1, <1>5, <2>1
  <2>3. ASSUME Success(run_result'), NEW i \in DOMAIN endings' PROVE Complete(endings'[i])
    <3>1. CASE i \in DOMAIN endings
      BY <1>1, <1>5, <2>1, <3>1
    <3>2. CASE i \notin DOMAIN endings
      <4>1. endings'[i] = ending
        BY <1>1, <1>5, <2>1, <3>2
      <4> QED
        BY <1>11, <2>3, <4>1
    <3> QED
      BY <3>1, <3>2
  <2>4. ASSUME Success(run_result'), NEW i \in DOMAIN endings' PROVE Complete(endings[i])'
    BY <1>1, <1>4, <2>3, <2>4 DEF Complete
  <2> QED
    BY <1>1, <1>6, <2>2, <2>4 DEF AttemptsInv, Success, ResultOK
<1> QED
  BY <1>3, <1>7, <1>8, <1>10, <1>12, NextTypeParts DEF DriverInv

\* A process that cannot be started is a failure without a player result.
LEMMA StartFailsKeeps ==
  ASSUME DriverInv, StartFails
  PROVE  DriverInv'
<1>1. /\ UNCHANGED <<runnerVars, options, attempt, endings>> /\ run_result' = InternalError
  BY DEF StartFails
<1>2. /\ ProcessOK /\ DriverOK /\ ProcessInv /\ options \in AllOptions
  BY TypeParts DEF DriverInv, DriverOK
<1>3. ProcessOK' /\ ProcessInv'
  BY <1>1, <1>2, ProcessFrozen
<1>4. /\ Attempts' = Attempts /\ NumIterations' = NumIterations /\ AllOptions' = AllOptions
  BY <1>1 DEF Attempts, NumIterations, RunCorpus, AllOptions, CorpusOptions, PlayOptions,
     MakeOptions, VerifyOptions
<1>5. /\ InternalError.code = "internal_error" /\ InternalError.player = <<>>
      /\ InternalError \in [code : Codes \union {"none"}, player : Players]
      /\ InternalError # NoResult
  BY DEF InternalError, RunResult, NoResult, Codes, Players
<1>6. DriverOK'
  BY <1>1, <1>2, <1>4, <1>5 DEF DriverOK
<1>7. ReportGenuine' /\ SuccessHidesNothing' /\ AttemptsInv'
  BY <1>1, <1>5 DEF ReportGenuine, SuccessHidesNothing, AttemptsInv, Success
<1> QED
  BY <1>3, <1>6, <1>7, NextTypeParts DEF DriverInv

\* VerifyOneRepeatedly starts another process only after a success.
LEMMA RunAgainKeeps ==
  ASSUME DriverInv, RunAgain
  PROVE  DriverInv'
<1>1. /\ UNCHANGED <<options, endings>> /\ run_result' = NoResult /\ Success(run_result)
      /\ attempt < Attempts /\ attempt' = attempt + 1 /\ RunnerStarts
  BY DEF RunAgain
<1>2. /\ DriverOK /\ options \in AllOptions /\ AttemptsInv
  BY TypeParts DEF DriverInv, DriverOK
<1>3. ProcessOK' /\ ProcessInv'
  BY <1>1, <1>2, AnotherProcess
<1>4. /\ Attempts' = Attempts /\ NumIterations' = NumIterations /\ AllOptions' = AllOptions
      /\ Attempts \in Nat \ {0}
  BY <1>1, <1>2, IterationFacts
     DEF Attempts, NumIterations, RunCorpus, AllOptions, CorpusOptions, PlayOptions, MakeOptions,
         VerifyOptions
<1>5. /\ NoResult.code = "none" /\ NoResult.player = <<>>
      /\ NoResult \in [code : Codes \union {"none"}, player : Players]
  BY DEF NoResult, RunResult, Players
<1>6. attempt' \in 1..Attempts /\ attempt' - 1 = attempt
  BY <1>1, <1>2, <1>4 DEF DriverOK
<1>7. DriverOK'
  BY <1>1, <1>2, <1>4, <1>5, <1>6 DEF DriverOK
<1>8. ReportGenuine' /\ SuccessHidesNothing'
  BY <1>1, <1>5 DEF ReportGenuine, SuccessHidesNothing, Success
<1>9. AttemptsInv'
  BY <1>1, <1>2, <1>4, <1>5, <1>6 DEF AttemptsInv, Complete, Success
<1> QED
  BY <1>3, <1>7, <1>8, <1>9, NextTypeParts DEF DriverInv

\* Nothing happens.
LEMMA StutterKeeps ==
  ASSUME DriverInv, UNCHANGED driver_vars
  PROVE  DriverInv'
<1>1. UNCHANGED runnerVars /\ UNCHANGED driverVars
  OBVIOUS
<1>2. /\ ProcessOK /\ DriverOK /\ ProcessInv
  BY TypeParts DEF DriverInv
<1>3. ProcessOK' /\ ProcessInv'
  BY <1>1, <1>2, ProcessFrozen
<1>4. /\ Attempts' = Attempts /\ NumIterations' = NumIterations /\ AllOptions' = AllOptions
  BY <1>1 DEF Attempts, NumIterations, RunCorpus, AllOptions, CorpusOptions, PlayOptions,
     MakeOptions, VerifyOptions
<1>5. DriverOK'
  BY <1>1, <1>2, <1>4 DEF DriverOK
<1>6. ReportGenuine' /\ SuccessHidesNothing'
  BY <1>1 DEF DriverInv, ReportGenuine, SuccessHidesNothing, SnapshotId
<1>7. AttemptsInv'
  BY <1>1 DEF DriverInv, AttemptsInv, Complete, NumIterations, RunCorpus
<1> QED
  BY <1>3, <1>6, <1>7, <1>5, NextTypeParts DEF DriverInv

\* Each step keeps the invariant, one step per action.
LEMMA NextPreserves == DriverInv /\ [DriverNext]_driver_vars => DriverInv'
<1> SUFFICES ASSUME DriverInv, [DriverNext]_driver_vars PROVE DriverInv'
  OBVIOUS
<1>1. CASE RunnerSteps \/ (Waiting /\ SnapStep)
  BY <1>1, StepOfProcess DEF RunnerSteps, ProcessStep
<1>2. CASE TimerFires
  <2>1. options.budgets \subseteq TimerSignals
    BY TypeParts, OptionFacts DEF DriverInv, DriverOK
  <2> QED
    BY <1>2, <2>1, StepOfProcess DEF TimerFires, ProcessStep
<1>3. CASE Waiting /\ \E sig \in {"SIGSEGV", "SIGTERM"} : Deliver(sig)
  BY <1>3, StepOfProcess DEF ProcessStep
<1>4. CASE Waiting /\ \E sig \in Deadly : Kill(sig)
  BY <1>4, StepOfProcess DEF ProcessStep
<1>5. CASE RunReturns \/ StartFails \/ RunAgain
  BY <1>5, RunReturnsKeeps, StartFailsKeeps, RunAgainKeeps
<1>6. CASE UNCHANGED driver_vars
  BY <1>6, StutterKeeps
<1> QED
  BY <1>1, <1>2, <1>3, <1>4, <1>5, <1>6 DEF DriverNext

\* So it always holds.
LEMMA AlwaysDriverInv == DriverSpec => []DriverInv
BY InitEstablishes, NextPreserves, PTL DEF DriverSpec
-----------------------------------------------------------------------------
\* What a call of the driver returns is what its processes did (RunnerDriver::RunImpl,
\* HandleRunnerOutput, VerifyOneRepeatedly): a failing player result is the one failure
\* the process found, a failure is hidden only by a timer or the terminal, and success
\* means that each process did all it was started for.
THEOREM ResultsAreGenuine == DriverSpec => []ResultIsGenuine
<1>1. DriverInv => ResultIsGenuine
  <2> SUFFICES ASSUME DriverInv PROVE SuccessIsComplete
    BY DEF DriverInv, ResultIsGenuine
  <2>1. SUFFICES ASSUME Returns, Success(run_result)
                 PROVE  Len(endings) = Attempts /\ \A i \in DOMAIN endings : Complete(endings[i])
    BY DEF SuccessIsComplete, Complete
  <2> QED
    BY <2>1 DEF Returns, DriverInv, AttemptsInv
<1> QED
  BY <1>1, AlwaysDriverInv, PTL

\* The mask that SigAction leaves behind by not returning is never in force in a snap, and
\* always while a runaway is reported, so that no timer turns it into a timeout.
THEOREM TimersStayInPlace == DriverSpec => []TimersInPlace
<1>1. DriverInv => TimersInPlace
  <2> SUFFICES ASSUME DriverInv PROVE TimersInPlace
    OBVIOUS
  <2>1. TimersLiveInSnap
    BY DEF DriverInv, ProcessInv, TimerInv, TimersLiveInSnap
  <2>2. RunawayNotTimeout
    <3>1. \/ detected = <<>>
          \/ detected = <<<<snap, outcome>>>>
      BY DEF DriverInv, ProcessInv, FailureInv
    <3>2. status = Exited(2) => outcome \notin {"runaway", "misbehave"}
      BY DEF DriverInv, ProcessInv, EndingInv
    <3>3. ASSUME NEW i \in DOMAIN detected PROVE detected[i][2] = outcome
      BY <3>1, <3>3
    <3> QED
      BY <3>2, <3>3 DEF RunawayNotTimeout
  <2> QED
    BY <2>1, <2>2 DEF DriverInv, TimersInPlace
<1> QED
  BY <1>1, AlwaysDriverInv, PTL

-----------------------------------------------------------------------------
(* Fault injection: counting *)

\* What a function from 1 to n is as a sequence.
LEMMA LenIs ==
  ASSUME NEW n \in Nat, NEW S, NEW f \in [1..n -> S]
  PROVE  f \in Seq(S) /\ Len(f) = n
OBVIOUS

IsRow(row, j, K) == row = {<<j, k>> : k \in K}

\* A row of a table is as large as the set of its columns.
LEMMA RowIs ==
  ASSUME NEW j, NEW K, IsFiniteSet(K), NEW row, IsRow(row, j, K)
  PROVE  IsFiniteSet(row) /\ Cardinality(row) = Cardinality(K)
<1> DEFINE f == [k \in K |-> <<j, k>>]
<1>1. f \in [K -> row]
  BY DEF IsRow
<1>2. \A a, b \in K : f[a] = f[b] => a = b
  OBVIOUS
<1>3. \A t \in row : \E k \in K : f[k] = t
  BY DEF IsRow
<1>4. f \in Bijection(K, row)
  <2> HIDE DEF f
  <2> QED
    BY <1>1, <1>2, <1>3 DEF Bijection, Injection, Surjection, IsInjective
<1> HIDE DEF f
<1> QED
  BY <1>4, FS_Bijection DEF ExistsBijection

\* counts are how many of the rows of R there are.
RowCounts(R, n, m, counts) ==
  /\ n \in Nat /\ m \in Nat /\ R \subseteq (1..n) \X (1..m) /\ counts \in [1..n -> Nat]
  /\ \A i \in 1..n : counts[i] = Cardinality({k \in 1..m : <<i, k>> \in R})

\* The sum of what is counted in each row is what is counted.
LEMMA SumCounts ==
  ASSUME NEW n, NEW m, NEW R, NEW counts, RowCounts(R, n, m, counts)
  PROVE  SumOf(counts) = Cardinality(R)
<1> n \in Nat /\ m \in Nat /\ R \subseteq (1..n) \X (1..m) /\ counts \in [1..n -> Nat]
  BY DEF RowCounts
<1>0. \A i \in 1..n : counts[i] = Cardinality({k \in 1..m : <<i, k>> \in R})
  BY DEF RowCounts
<1> DEFINE Part(j) == {r \in R : r[1] <= j}
           Recurs(f) == f = [j \in 0..Len(counts) |-> IF j = 0 THEN 0 ELSE f[j - 1] + counts[j]]
           g == CHOOSE f : Recurs(f)
           h == [j \in 0..n |-> Cardinality(Part(j))]
<1>1. Len(counts) = n
  BY LenIs
<1>2. IsFiniteSet(R)
  <2>1. IsFiniteSet(1..n) /\ IsFiniteSet(1..m)
    BY FS_Interval
  <2>2. IsFiniteSet((1..n) \X (1..m))
    BY <2>1, FS_Product
  <2> QED
    BY <2>2, FS_Subset
<1>3. \A j : IsFiniteSet(Part(j)) /\ Cardinality(Part(j)) \in Nat
  <2> TAKE j
  <2>1. Part(j) \subseteq R
    OBVIOUS
  <2> HIDE DEF Part
  <2> QED
    BY <1>2, <2>1, FS_Subset, FS_CardinalityType
<1>4. ASSUME NEW j \in 1..n PROVE Cardinality(Part(j)) = Cardinality(Part(j - 1)) + counts[j]
  <2> DEFINE K == {k \in 1..m : <<j, k>> \in R}
             row == {<<j, k>> : k \in K}
  <2>1. IsFiniteSet(K)
    <3>1. K \subseteq 1..m /\ IsFiniteSet(1..m)
      BY FS_Interval
    <3> QED
      BY <3>1, FS_Subset
  <2>2. IsFiniteSet(row) /\ Cardinality(row) = Cardinality(K)
    <3> HIDE DEF K
    <3>1. IsRow(row, j, K)
      BY DEF IsRow
    <3> HIDE DEF row
    <3> QED
      BY <2>1, <3>1, RowIs
  <2>3. \A r \in R : r[1] \in 1..n /\ r[2] \in 1..m /\ r = <<r[1], r[2]>>
    OBVIOUS
  <2>4. Part(j) = Part(j - 1) \cup row /\ Part(j - 1) \cap row = {}
    <3>1. ASSUME NEW r \in Part(j), r \notin Part(j - 1) PROVE r \in row
      <4>1. r \in R /\ r[1] <= j /\ ~ (r[1] <= j - 1)
        BY <3>1
      <4>2. r[1] \in 1..n /\ r[2] \in 1..m /\ r = <<r[1], r[2]>>
        BY <2>3, <4>1
      <4> DEFINE r1 == r[1]
      <4>3. r1 \in 1..n /\ r1 <= j /\ ~ (r1 <= j - 1)
        BY <4>1, <4>2
      <4> HIDE DEF r1
      <4>4. r1 = j
        BY ONLY <4>3, j \in 1..n, n \in Nat
      <4> QED
        BY <4>1, <4>2, <4>4 DEF r1
    <3>2. ASSUME NEW r \in row PROVE r \in Part(j) /\ r \notin Part(j - 1)
      <4>1. PICK k \in K : r = <<j, k>>
        OBVIOUS
      <4>2. r \in R /\ r[1] = j
        BY <4>1
      <4> QED
        BY <4>2
    <3>3. Part(j - 1) \subseteq Part(j)
      BY <2>3
    <3> HIDE DEF Part, row
    <3> QED
      BY <3>1, <3>2, <3>3
  <2>6. Cardinality(K) = counts[j] /\ counts[j] \in Nat
    BY <1>0
  <2> HIDE DEF Part, row, K
  <2> DEFINE before == Part(j - 1)
  <2>5. IsFiniteSet(before) /\ Cardinality(before) \in Nat /\ before \cap row = {}
    BY <1>3, <2>4
  <2> HIDE DEF before
  <2>7. Cardinality(before \cup row) = Cardinality(before) + Cardinality(row) - Cardinality({})
    BY <2>2, <2>5, FS_Union
  <2> QED
    BY <2>2, <2>4, <2>5, <2>6, <2>7, FS_EmptySet DEF before
<1>5. Cardinality(Part(0)) = 0
  <2>1. Part(0) = {}
    OBVIOUS
  <2> HIDE DEF Part
  <2> QED
    BY <2>1, FS_EmptySet
<1>6. Part(n) = R
  OBVIOUS
<1> HIDE DEF Part
<1>7. Recurs(h)
  <2> SUFFICES ASSUME NEW j \in 0..n
               PROVE  Cardinality(Part(j)) = IF j = 0 THEN 0 ELSE h[j - 1] + counts[j]
    BY <1>1
  <2> QED
    BY <1>4, <1>5
<1>8. Recurs(g)
  BY <1>7
<1>9. SumOf(counts) = g[n]
  BY <1>1 DEF SumOf
<1> HIDE DEF g
<1> DEFINE T == {j \in 0..n : g[j] # h[j]}
<1>10. T = {}
  <2> SUFFICES ASSUME T # {} PROVE FALSE
    OBVIOUS
  <2>1. PICK k \in T : \A j \in T : k <= j
    <3>1. T \in SUBSET Nat
      OBVIOUS
    <3> HIDE DEF T
    <3> QED
      BY <3>1, LeastNumber
  <2>2. k # 0
    BY <1>1, <1>7, <1>8
  <2>3. k - 1 \in 0..n /\ k - 1 \notin T
    BY <2>1, <2>2
  <2>4. g[k - 1] = h[k - 1]
    BY <2>3
  <2>5. g[k] = g[k - 1] + counts[k] /\ h[k] = h[k - 1] + counts[k]
    <3> HIDE DEF h
    <3> QED
      BY <1>1, <1>7, <1>8, <2>2
  <2> QED
    BY <2>4, <2>5
<1>11. g[n] = h[n]
  <2>1. n \in 0..n
    OBVIOUS
  <2> HIDE DEF h
  <2> QED
    BY <1>10, <2>1
<1> QED
  BY <1>6, <1>9, <1>11

-----------------------------------------------------------------------------
(* The invariant of the sweeps *)

Troubles == {"fine", "late", "hung", "dead", "broken"}
ItemPhases == {"queued", "ready", "running", "ended", "failed", "done"}
Active == {"ready", "running", "ended"}
Lines == {NoLine} \cup (Nat \X Effects)
Classes == {"masked", "clean_diverge", "exit_diverge", "no_output", "noinj", "skipped"}
IsItem == [phase : ItemPhases, step : 0..Injections, golden : Lines, got : Seq(Classes),
           trouble : [0..Injections -> Troubles]]
IsOutput == [line : Lines, whole : BOOLEAN, injected : BOOLEAN]

\* What the order o asks for.
KindOf(o) == o.tool.goldens
ShotsOf(o) == IF KindOf(o) # "table" THEN Injections ELSE 1
OwnOf(o, i, k) ==
  LET effect == o.effects[i][k]
  IN  CASE effect = "not_injected" -> "noinj"
        [] effect = "exit_diverge" /\ KindOf(o) = "own" -> "no_output"
        [] OTHER -> effect
IsOrder(o, n) ==
  /\ o.tool \in AllScripts /\ o.jobs \in o.tool.jobs
  /\ o.programs \in [1..n -> 1..MaxItems]
  /\ o.effects \in [1..n -> [1..ShotsOf(o) -> EffectsOn(o.tool)]]

StaleItem(o, it) == KindOf(o) = "climb" /\ it.trouble[0] = "dead"

\* Run k of an item is classified by its own fault, or says nothing.
ClassIsOwn(o, i, it, k) ==
  LET class == it.got[k]
  IN  IF it.trouble[k] = "fine" THEN class = OwnOf(o, i, k) \/ StaleItem(o, it)
      ELSE class \in o.tool.diverging =>
             StaleItem(o, it) \/ (o.tool.timeout = "read" /\ class = OwnOf(o, i, k))

\* What an injection has left.
RunLeft(o, i, it, seen) ==
  LET trouble == it.trouble[it.step]
      effect == o.effects[i][it.step]
  IN  /\ trouble \in {"fine", "late", "hung", "dead"}
      /\ trouble = "dead" => seen = Nothing
      /\ trouble # "dead" =>
           /\ seen.injected = (effect # "not_injected")
           /\ seen.line = IF effect = "no_output" \/ trouble = "hung" THEN NoLine
                          ELSE IF effect = "not_injected" THEN GoldenLine(o.programs[i])
                          ELSE Line(o.programs[i], effect)

\* What a golden run has left.
GoldenLeft(o, i, it, seen) ==
  LET trouble == it.trouble[0]
  IN  /\ trouble = "fine" => seen.whole /\ seen.line = GoldenLine(o.programs[i])
      /\ trouble \in {"late", "hung"} => KindOf(o) = "climb" \/ ~ seen.whole
      /\ trouble = "dead" /\ seen.whole /\ KindOf(o) # "climb" => seen.line = GoldenLine(o.programs[i])

\* Item i, whose output directory holds what is seen.
ItemOk(o, i, it, seen) ==
  /\ it.step = 0 => it.got = <<>> /\ it.phase # "done"
  /\ it.phase \in {"queued", "failed"} => it.step = 0
  /\ it.phase = "failed" => it.trouble[0] # "fine"
  /\ KindOf(o) = "table" /\ it.phase # "queued" => it.step > 0
  /\ it.step > 0 => /\ it.step <= ShotsOf(o)
                    /\ it.golden = GoldenLine(o.programs[i]) \/ StaleItem(o, it)
                    /\ Len(it.got) = IF it.phase = "done" THEN ShotsOf(o) ELSE it.step - 1
  /\ \A k \in 1..Len(it.got) : ClassIsOwn(o, i, it, k)
  /\ it.phase = "running" /\ (it.step > 0 \/ KindOf(o) = "own") => seen = Nothing
  /\ it.phase = "ended" =>
       IF it.step > 0 THEN RunLeft(o, i, it, seen) ELSE GoldenLeft(o, i, it, seen)

\* Where golden outputs are registered, they are of the program they are registered for.
GoldensInv ==
  KindOf(order) = "registered" =>
    /\ \A prog \in 1..MaxItems : goldens[prog] \in {NoLine, GoldenLine(prog)}
    /\ \A prog \in 1..MaxItems : LET seen == output[<<"golden", prog, 0>>]
                                 IN  seen.whole => seen.line = GoldenLine(prog)

ItemsInv ==
  /\ items \in Seq(IsItem) /\ Total <= MaxItems /\ IsOrder(order, Total)
  /\ output \in [Dirs -> IsOutput]
  /\ goldens \in [1..MaxItems -> Lines]
  /\ \A i \in 1..Total : ItemOk(order, i, items[i], output[Dir(i)])
  /\ GoldensInv

\* Items begin in order, no more at a time than there are jobs.
JobsInv ==
  /\ \A i, j \in 1..Total : items[i].phase = "queued" /\ i < j => items[j].phase = "queued"
  /\ Cardinality(Busy) <= order.jobs
  /\ Busy # {} /\ Limited => order.jobs \in 1..MAX_JOBS

Over == {"done", "failed"}
Better(i) == Diverging(items[i].got) <= climbed.best
             /\ (i < climbed.item => Diverging(items[i].got) < climbed.best)
ClimbInv ==
  /\ climbed = [item |-> climbed.item, best |-> climbed.best, golden |-> climbed.golden]
  /\ KindOf(order) = "climb" =>
     /\ climbed.item \in 0..Total /\ climbed.best \in Int
     /\ climbed.item > 0 => items[climbed.item].phase = "done"
     /\ \A i, j \in 1..Total : items[i].phase \in Active /\ i < j => items[j].phase = "queued"
     /\ \A i \in 1..Total : items[i].phase = "done" => Better(i)

ClassHits(S) == {r \in Injected : items[r[1]].got[r[2]] \in S}
VerdictInv ==
  /\ verdict = [status |-> verdict.status, n |-> verdict.n, diverging |-> verdict.diverging,
                selected |-> verdict.selected]
  /\ verdict.status \in {"reported", "selected"} =>
       /\ \A i \in 1..Total : items[i].phase \in Over
       /\ verdict.n = Cardinality(ClassHits(Classes \ {"skipped", "noinj"}))
       /\ verdict.diverging = Cardinality(ClassHits(Tool.diverging))
  /\ verdict.status # "selected" => verdict.selected = {}
  /\ \A i \in verdict.selected : i \in 1..Total /\ Selected(i) /\ KindOf(order) = "own"

SweepInv == ItemsInv /\ JobsInv /\ ClimbInv /\ VerdictInv

-----------------------------------------------------------------------------
(* What the tools are *)

\* What the proofs need to know of the scripts.
LEMMA ToolIs ==
  ASSUME NEW tool \in AllScripts
  PROVE  /\ tool.goldens \in {"table", "registered", "own", "climb"}
         /\ tool.goldens \in {"registered", "climb"} => tool.jobs = {1}
         /\ tool.jobs \subseteq Nat
         /\ tool.timeout \in {"no_output", "raises", "skipped", "read"}
         /\ tool.diverging \subseteq {"clean_diverge", "exit_diverge"}
         /\ "clean_diverge" \in tool.diverging
         /\ tool.goldens = "own" => tool.diverging = {"clean_diverge"} /\ tool.timeout = "no_output"
<1> USE DEF Plain
<1>1. MAX_JOBS \in Nat \ {0}
  BY SweepAssumption
<1>2. CASE tool = Plain
  BY <1>2
<1>3. CASE tool = gem5_sweep_abcd
  <2>1. tool.goldens = "table" /\ tool.jobs = {1} /\ tool.timeout = "no_output"
        /\ tool.diverging = {"clean_diverge"}
    BY <1>3 DEF gem5_sweep_abcd
  <2> QED
    BY <2>1
<1>4. CASE tool = gem5_ace_scanner
  BY <1>4 DEF gem5_ace_scanner
<1>5. CASE tool = gem5_sweep_sdc_probe
  BY <1>5 DEF gem5_sweep_sdc_probe
<1>6. CASE tool = sim_sweep
  BY <1>1, <1>6 DEF sim_sweep
<1>7. CASE tool = e7_evolve_vs_random
  BY <1>7 DEF e7_evolve_vs_random
<1>8. CASE tool = e8v2_power_sdc
  BY <1>8 DEF e8v2_power_sdc, e7_evolve_vs_random
<1>9. CASE tool = sdcbench_eval
  BY <1>1, <1>9 DEF sdcbench_eval
<1>10. CASE tool = gem5_ace_hillclimb
  BY <1>10 DEF gem5_ace_hillclimb
<1> QED
  BY <1>2, <1>3, <1>4, <1>5, <1>6, <1>7, <1>8, <1>9, <1>10
     DEF AllScripts, gem5_sweep_ab_csp, gem5_sweep_ab_random, gem5_sweep_multibit,
         gem5_sweep_structural_abc, d6_sweep, d9_sweep, d10_sweep, d11_sweep, d12_sweep, d13_sweep,
         e8_power_sdc

\* Lines are told apart by their program and by what became of it.
LEMMA LineIs ==
  /\ \A prog, effect : Line(prog, effect) # NoLine /\ Line(prog, effect)[2] = effect
  /\ \A prog, effect, other : Line(prog, effect) = Line(prog, other) => effect = other
BY DEF Line, NoLine

\* What a fault is found to be, if its run was not disturbed.
LEMMA OwnIs ==
  ASSUME NEW o, NEW n, IsOrder(o, n), NEW i \in 1..n, NEW k \in 1..ShotsOf(o)
  PROVE  /\ o.effects[i][k] \in Effects \cup {"not_injected"}
         /\ o.effects[i][k] = "not_injected" => KindOf(o) = "own"
         /\ OwnOf(o, i, k) \in Classes
<1> DEFINE effect == o.effects[i][k]
<1>1. effect \in EffectsOn(o.tool)
  BY DEF IsOrder
<1>2. effect \in Effects \cup {"not_injected"} /\ (effect = "not_injected" => KindOf(o) = "own")
  BY <1>1 DEF EffectsOn, KindOf, Effects
<1> QED
  BY <1>2 DEF OwnOf, Effects, Classes

-----------------------------------------------------------------------------
(* Directories *)

Place(o, i, step) ==
  CASE o.tool.goldens = "registered" -> <<IF step = 0 THEN "golden" ELSE "inject", o.programs[i], step>>
    [] o.tool.goldens = "climb" -> IF step = 0 THEN <<"golden", i, 0>> ELSE <<"probe", 0, step>>
    [] OTHER -> <<"run", i, step>>

DirsAre == \A i : Dir(i) = Place(order, i, items[i].step)

LEMMA DirIs == DirsAre
<1> SUFFICES ASSUME NEW i PROVE Dir(i) = Place(order, i, items[i].step)
  BY DEF DirsAre
<1>1. CASE items[i].step = 0
  BY <1>1 DEF Dir, Place, GoldenDir, Tool
<1>2. CASE items[i].step # 0
  BY <1>2 DEF Dir, Place, RunDir, Tool
<1> QED
  BY <1>1, <1>2

LEMMA PlaceIs ==
  ASSUME NEW o, NEW n \in Nat, n <= MaxItems, IsOrder(o, n), NEW i \in 1..n, NEW step \in 0..Injections
  PROVE  /\ Place(o, i, step) \in Dirs
         /\ KindOf(o) \in {"table", "own"} =>
              \A j, other : i # j => Place(o, i, step) # Place(o, j, other)
         /\ KindOf(o) = "registered" =>
              \A prog : Place(o, i, step) = <<"golden", prog, 0>> <=> step = 0 /\ prog = o.programs[i]
<1>1. MaxItems \in Nat /\ Injections \in Nat
  BY SweepAssumption
<1>2. o.programs[i] \in 0..MaxItems /\ i \in 0..MaxItems /\ 0 \in 0..MaxItems /\ 0 \in 0..Injections
  BY <1>1 DEF IsOrder
<1>3. Place(o, i, step) \in Dirs
  BY <1>2 DEF Place, Dirs
<1>4. CASE KindOf(o) \in {"table", "own"}
  BY <1>3, <1>4 DEF Place, KindOf
<1>5. CASE KindOf(o) = "registered"
  BY <1>3, <1>5 DEF Place, KindOf
<1> QED
  BY <1>3, <1>4, <1>5

-----------------------------------------------------------------------------
(* One item goes on *)

LEMMA ItemIs ==
  ASSUME items \in Seq(IsItem), NEW i \in 1..Total
  PROVE  /\ items[i] \in IsItem /\ items[i].phase \in ItemPhases /\ items[i].step \in 0..Injections
         /\ items[i].golden \in Lines /\ items[i].got \in Seq(Classes)
         /\ items[i].trouble \in [0..Injections -> Troubles]
<1>1. items[i] \in IsItem
  BY DEF Total
<1> QED
  BY <1>1 DEF IsItem

\* Of items that go on one at a time, one changes and the others do not.
LEMMA OneChanges ==
  ASSUME ItemsInv, order' = order, NEW i \in 1..Total, NEW new \in IsItem,
         items' = [items EXCEPT ![i] = new]
  PROVE  /\ items' \in Seq(IsItem) /\ Total' = Total /\ items'[i] = new
         /\ \A j \in 1..Total : j # i => items'[j] = items[j]
         /\ Dir(i)' = Place(order, i, new.step)
         /\ \A j \in 1..Total : j # i => Dir(j)' = Dir(j)
<1>1. items \in Seq(IsItem)
  BY DEF ItemsInv
<1>2. /\ items' \in Seq(IsItem) /\ Len(items') = Len(items) /\ items'[i] = new
      /\ \A j \in 1..Len(items) : j # i => items'[j] = items[j]
  BY <1>1 DEF Total
<1>3. DirsAre'
  BY DirIs, PTL
<1> QED
  BY <1>2, <1>3, DirIs DEF Total, DirsAre

\* Two items at work have directories of their own.
LEMMA DirsApart ==
  ASSUME ItemsInv, JobsInv, NEW i \in 1..Total, NEW j \in 1..Total, i # j,
         items[i].phase \in Active, items[j].phase \in Active
  PROVE  Dir(i) # Dir(j)
<1>1. order.tool \in AllScripts /\ order.jobs \in order.tool.jobs /\ IsOrder(order, Total)
      /\ Total \in Nat /\ Total <= MaxItems /\ items \in Seq(IsItem)
  BY DEF ItemsInv, IsOrder, Total
<1>2. {i, j} \subseteq Busy
  BY DEF Busy, Active
<1>3. KindOf(order) \in {"table", "own"}
  <2> SUFFICES ASSUME KindOf(order) \notin {"table", "own"} PROVE FALSE
    OBVIOUS
  <2>1. order.jobs = 1
    BY <1>1, ToolIs DEF KindOf
  <2>2. IsFiniteSet(Busy)
    <3>1. IsFiniteSet(1..Total) /\ Busy \subseteq 1..Total
      BY <1>1, FS_Interval DEF Busy
    <3> QED
      BY <3>1, FS_Subset
  <2>3. Cardinality({i, j}) <= 1
    <3>1. Cardinality({i, j}) <= Cardinality(Busy) /\ Cardinality({i, j}) \in Nat /\ Cardinality(Busy) \in Nat
      BY <1>2, <2>2, FS_Subset, FS_CardinalityType
    <3> QED
      BY <2>1, <3>1 DEF JobsInv
  <2>4. Cardinality({i} \cup {j}) = 2
    <3> DEFINE one == {i}
    <3>1. IsFiniteSet(one) /\ Cardinality(one) = 1 /\ j \notin one
      BY FS_Singleton
    <3> HIDE DEF one
    <3>2. Cardinality(one \cup {j}) = IF j \in one THEN Cardinality(one) ELSE Cardinality(one) + 1
      BY <3>1, FS_AddElement, Zenon
    <3>3. Cardinality(one \cup {j}) = 2
      BY ONLY <3>1, <3>2
    <3> QED
      BY <3>3, Zenon DEF one
  <2>5. {i, j} = {i} \cup {j}
    OBVIOUS
  <2>6. Cardinality({i, j}) = 2
    BY <2>4, <2>5, Zenon
  <2> QED
    BY ONLY <2>3, <2>6
<1>4. items[i].step \in 0..Injections
  BY <1>1, ItemIs
<1> QED
  BY <1>1, <1>3, <1>4, PlaceIs, DirIs DEF DirsAre

\* An item that is not at work is fine whatever is in its directory.
LEMMA AtRest ==
  ASSUME NEW o, NEW i, NEW it, it.phase \notin Active, NEW seen, ItemOk(o, i, it, seen), NEW other
  PROVE  ItemOk(o, i, it, other)
BY DEF ItemOk, Active

\* What one item does in its own directory leaves the others as they are.
LEMMA ItemStep ==
  ASSUME ItemsInv, JobsInv, order' = order, NEW i \in 1..Total, NEW new \in IsItem,
         items' = [items EXCEPT ![i] = new],
         output' \in [Dirs -> IsOutput], goldens' \in [1..MaxItems -> Lines],
         \A d \in Dirs : output'[d] = output[d] \/ (d = Dir(i) /\ items[i].phase \in Active),
         ItemOk(order, i, new, output'[Place(order, i, new.step)]), GoldensInv'
  PROVE  ItemsInv'
<1>1. /\ items' \in Seq(IsItem) /\ Total' = Total /\ items'[i] = new
      /\ \A j \in 1..Total : j # i => items'[j] = items[j]
      /\ Dir(i)' = Place(order, i, new.step)
      /\ \A j \in 1..Total : j # i => Dir(j)' = Dir(j)
  BY OneChanges
<1>2. ASSUME NEW j \in 1..Total PROVE ItemOk(order', j, items'[j], output'[Dir(j)'])
  <2>1. CASE j = i
    BY <1>1, <2>1
  <2>2. CASE j # i
    <3>1. ItemOk(order, j, items[j], output[Dir(j)])
      BY DEF ItemsInv
    <3>2. items'[j] = items[j] /\ Dir(j)' = Dir(j)
      BY <1>1, <2>2
    <3>3. CASE items[j].phase \notin Active
      <4>1. ItemOk(order, j, items[j], output'[Dir(j)])
        BY <3>1, <3>3, AtRest
      <4> QED
        BY <3>2, <4>1
    <3>4. CASE items[j].phase \in Active
      <4>1. Dir(j) \in Dirs
        <5>1. /\ items \in Seq(IsItem) /\ Total \in Nat /\ Total <= MaxItems /\ IsOrder(order, Total)
          BY DEF ItemsInv, Total
        <5>2. items[j].step \in 0..Injections
          BY <5>1, ItemIs
        <5> QED
          BY <5>1, <5>2, PlaceIs, DirIs DEF DirsAre
      <4>2. output'[Dir(j)] = output[Dir(j)]
        BY <2>2, <3>4, <4>1, DirsApart
      <4> QED
        BY <3>1, <3>2, <4>2
    <3> QED
      BY <3>3, <3>4
  <2> QED
    BY <2>1, <2>2
<1>3. IsOrder(order', Total') /\ Total' <= MaxItems
  BY <1>1 DEF ItemsInv
<1> QED
  BY <1>1, <1>2, <1>3 DEF ItemsInv

\* What is known of an item, its program and its directory.
LEMMA Known ==
  ASSUME ItemsInv, NEW i \in 1..Total
  PROVE  /\ items \in Seq(IsItem) /\ Total \in Nat /\ Total <= MaxItems /\ i \in 1..MaxItems
         /\ MaxItems \in Nat /\ Injections \in Nat /\ Injections >= 1
         /\ ShotsOf(order) \in 1..Injections /\ Shots = ShotsOf(order) /\ IsOrder(order, Total)
         /\ Tool = order.tool /\ Tool.goldens = KindOf(order)
         /\ KindOf(order) \in {"table", "registered", "own", "climb"}
         /\ order.programs[i] \in 1..MaxItems /\ GoldenLine(order.programs[i]) \in Lines
         /\ GoldenLine(order.programs[i]) # NoLine
         /\ Dir(i) = Place(order, i, items[i].step)
         /\ Dir(i) \in Dirs /\ output[Dir(i)] \in IsOutput /\ output \in [Dirs -> IsOutput]
         /\ ItemOk(order, i, items[i], output[Dir(i)])
<1>1. /\ items \in Seq(IsItem) /\ Total \in Nat /\ Total <= MaxItems /\ IsOrder(order, Total)
      /\ ItemOk(order, i, items[i], output[Dir(i)]) /\ output \in [Dirs -> IsOutput]
  BY DEF ItemsInv, Total
<1>2. MaxItems \in Nat /\ Injections \in Nat /\ Injections >= 1
  BY SweepAssumption
<1>3. order.programs[i] \in 1..MaxItems
  BY <1>1 DEF IsOrder
<1>4. GoldenLine(order.programs[i]) \in Lines /\ GoldenLine(order.programs[i]) # NoLine
  BY <1>2, <1>3, LineIs DEF GoldenLine, Line, Lines, Effects
<1>5. Dir(i) = Place(order, i, items[i].step) /\ Dir(i) \in Dirs
  BY <1>1, ItemIs, PlaceIs, DirIs DEF DirsAre
<1>6. output[Dir(i)] \in IsOutput
  BY <1>1, <1>5
<1>7. /\ Tool = order.tool /\ Tool.goldens = KindOf(order)
      /\ KindOf(order) \in {"table", "registered", "own", "climb"}
  BY <1>1, ToolIs DEF Tool, KindOf, IsOrder
<1>8. ShotsOf(order) \in 1..Injections /\ Shots = ShotsOf(order)
  BY <1>2, <1>7 DEF ShotsOf, Shots, MakesGoldens
<1>9. i \in 1..MaxItems
  BY <1>1, <1>2
<1> QED
  BY <1>1, <1>2, <1>3, <1>4, <1>5, <1>6, <1>7, <1>8, <1>9

\* An item with a golden output that has not begun to inject.
LEMMA GoldenItem ==
  ASSUME NEW o, NEW i, NEW it \in IsItem, NEW seen, ShotsOf(o) \in Nat, ShotsOf(o) >= 1,
         it.phase = "ready", it.step = 1, it.got = <<>>,
         it.golden = GoldenLine(o.programs[i]) \/ StaleItem(o, it)
  PROVE  ItemOk(o, i, it, seen)
<1>1. Len(it.got) = 0
  OBVIOUS
<1> QED
  BY <1>1 DEF ItemOk

LEMMA BeginKeepsItems ==
  ASSUME ItemsInv, JobsInv, Begin PROVE ItemsInv'
<1> DEFINE KnownOf(i) == CASE Tool.goldens = "table" -> GoldenLine(order.programs[i])
                           [] Tool.goldens = "registered" -> goldens[order.programs[i]]
                           [] OTHER -> NoLine
<1>1. PICK i \in 1..Total :
        /\ items[i].phase = "queued"
        /\ items' = [items EXCEPT ![i].phase = "ready", ![i].golden = KnownOf(i),
                                  ![i].step = IF KnownOf(i) = NoLine THEN 0 ELSE 1]
  BY DEF Begin
<1>2. order' = order /\ output' = output /\ goldens' = goldens
  BY DEF Begin
<1> DEFINE known == KnownOf(i)
           old == items[i]
           step == IF known = NoLine THEN 0 ELSE 1
           new == [old EXCEPT !.phase = "ready", !.golden = known, !.step = step]
<1>3. known \in Lines /\ known \in {NoLine, GoldenLine(order.programs[i])}
      /\ (KindOf(order) = "table" => known # NoLine)
  <2>1. CASE KindOf(order) = "registered"
    BY <2>1, Known DEF ItemsInv, GoldensInv
  <2>2. CASE KindOf(order) # "registered"
    BY <2>2, Known DEF Lines
  <2> QED
    BY <2>1, <2>2
<1> HIDE DEF KnownOf
<1>4. old \in IsItem
  BY Known, ItemIs
<1>5. old.step = 0 /\ old.got = <<>>
  BY <1>1, Known DEF ItemOk
<1>6. items' = [items EXCEPT ![i] = new] /\ new \in IsItem
  <2>1. items' = [items EXCEPT ![i] = new]
    BY <1>1, Known DEF Total
  <2>2. 0 \in 0..Injections /\ 1 \in 0..Injections
    BY Known
  <2> QED
    BY <1>3, <1>4, <2>1, <2>2 DEF IsItem, ItemPhases
<1>7. /\ new.phase = "ready" /\ new.golden = known /\ new.step = step /\ new.got = <<>>
      /\ new.trouble = old.trouble
  BY <1>4, <1>5 DEF IsItem
<1> HIDE DEF new, known
<1>8. ItemOk(order, i, new, output'[Place(order, i, new.step)])
  <2>1. CASE known = NoLine
    <3>1. new.step = 0 /\ Len(new.got) = 0 /\ KindOf(order) # "table"
      BY <1>3, <1>7, <2>1
    <3> QED
      BY <1>7, <3>1 DEF ItemOk
  <2>2. CASE known # NoLine
    <3>1. new.step = 1 /\ new.golden = GoldenLine(order.programs[i])
      BY <1>3, <1>7, <2>2
    <3>2. ShotsOf(order) \in Nat /\ ShotsOf(order) >= 1
      BY Known
    <3> QED
      BY <1>6, <1>7, <3>1, <3>2, GoldenItem
  <2> QED
    BY <2>1, <2>2
<1>9. GoldensInv'
  BY <1>2 DEF ItemsInv, GoldensInv
<1>10. output' \in [Dirs -> IsOutput] /\ goldens' \in [1..MaxItems -> Lines]
  BY <1>2 DEF ItemsInv
<1> QED
  BY <1>2, <1>6, <1>8, <1>9, <1>10, ItemStep

LEMMA LaunchKeepsItems ==
  ASSUME ItemsInv, JobsInv, NEW i \in 1..Total, Launch(i) PROVE ItemsInv'
<1> DEFINE old == items[i]
           new == [old EXCEPT !.phase = "running"]
<1>1. old.phase = "ready" /\ order' = order /\ goldens' = goldens
  BY DEF Launch
<1>2. old \in IsItem
  BY Known, ItemIs
<1>3. items' = [items EXCEPT ![i] = new]
  BY Known DEF Launch, Total
<1>4. new \in IsItem
  BY <1>2 DEF IsItem, ItemPhases
<1>5. /\ new.phase = "running" /\ new.golden = old.golden /\ new.step = old.step /\ new.got = old.got
      /\ new.trouble = old.trouble
  BY <1>2 DEF IsItem
<1> HIDE DEF new
<1>6. Nothing \in IsOutput
  BY DEF Nothing, IsOutput, Lines
<1>7. output' = output \/ output' = [output EXCEPT ![Dir(i)] = Nothing]
  BY DEF Launch
<1>8. /\ output' \in [Dirs -> IsOutput]
      /\ \A d \in Dirs : output'[d] = output[d] \/ (d = Dir(i) /\ items[i].phase \in Active)
      /\ \A d \in Dirs : output'[d] = output[d] \/ output'[d] = Nothing
  BY <1>1, <1>6, <1>7, Known DEF Active
<1>9. old.step > 0 \/ KindOf(order) = "own" => output'[Dir(i)] = Nothing
  BY Known DEF Launch
<1>10. ItemOk(order, i, new, output'[Place(order, i, new.step)])
  <2>1. Place(order, i, new.step) = Dir(i)
    BY <1>5, Known
  <2>2. ItemOk(order, i, old, output[Dir(i)])
    BY Known
  <2>3. ASSUME NEW k \in 1..Len(old.got) PROVE ClassIsOwn(order, i, new, k)
    <3>1. ClassIsOwn(order, i, old, k)
      BY <2>2 DEF ItemOk
    <3> QED
      BY <1>5, <3>1 DEF ClassIsOwn, StaleItem
  <2> QED
    BY <1>1, <1>5, <1>9, <2>1, <2>2, <2>3 DEF ItemOk, StaleItem
<1>11. GoldensInv'
  <2>1. ~ Nothing.whole
    BY DEF Nothing
  <2>2. KindOf(order) = "registered" => \A prog \in 1..MaxItems : <<"golden", prog, 0>> \in Dirs
    BY Known DEF Dirs
  <2> QED
    BY <1>1, <1>8, <2>1, <2>2 DEF ItemsInv, GoldensInv
<1>12. goldens' \in [1..MaxItems -> Lines]
  BY <1>1 DEF ItemsInv
<1> QED
  BY <1>1, <1>3, <1>4, <1>8, <1>10, <1>11, <1>12, ItemStep

\* An item of which only the phase and the trouble of its step change keeps its classes.
LEMMA ClassesStay ==
  ASSUME NEW o, NEW i, NEW old \in IsItem, NEW new \in IsItem, NEW seen, ItemOk(o, i, old, seen),
         new.step = old.step, new.golden = old.golden, new.got = old.got, old.phase \in Active,
         \A k \in 0..Injections : k # old.step => new.trouble[k] = old.trouble[k]
  PROVE  /\ \A k \in 1..Len(new.got) : ClassIsOwn(o, i, new, k)
         /\ old.step > 0 => (StaleItem(o, new) <=> StaleItem(o, old))
<1>1. Injections \in Nat /\ Injections >= 1 /\ 0 \in 0..Injections
  BY SweepAssumption
<1>2. old.step \in 0..Injections /\ old.got \in Seq(Classes)
  BY DEF IsItem
<1>3. old.step > 0 => (StaleItem(o, new) <=> StaleItem(o, old))
  BY <1>1, <1>2 DEF StaleItem
<1>4. ASSUME NEW k \in 1..Len(new.got) PROVE ClassIsOwn(o, i, new, k)
  <2>1. ClassIsOwn(o, i, old, k)
    BY DEF ItemOk
  <2>2. old.step > 0
    <3>1. CASE old.step = 0
      <4>1. old.got = <<>>
        BY <3>1 DEF ItemOk
      <4> QED
        BY <4>1
    <3> QED
      BY <1>2, <3>1
  <2>3. k < old.step /\ k \in 0..Injections
    <3>1. Len(old.got) = old.step - 1
      BY <2>2 DEF ItemOk, Active
    <3> QED
      BY <1>1, <1>2, <3>1
  <2>4. new.trouble[k] = old.trouble[k]
    BY <1>2, <2>3
  <2> QED
    BY <1>3, <2>1, <2>2, <2>4 DEF ClassIsOwn
<1> QED
  BY <1>3, <1>4

LEMMA Gem5RunsKeepsItems ==
  ASSUME ItemsInv, JobsInv, NEW i \in 1..Total, Gem5Runs(i) PROVE ItemsInv'
<1> DEFINE old == items[i]
           step == old.step
           prog == order.programs[i]
           effect == IF step = 0 THEN "masked" ELSE order.effects[i][step]
           LineOf(trouble) == IF effect = "no_output" \/ trouble = "hung" THEN NoLine
                              ELSE IF effect = "not_injected" THEN GoldenLine(prog)
                              ELSE Line(prog, effect)
           Left(trouble) == [line |-> LineOf(trouble), whole |-> trouble = "fine",
                             injected |-> step > 0 /\ effect # "not_injected"]
<1>1. PICK trouble \in Troubles :
        /\ step # 0 => trouble # "broken"
        /\ items' = [items EXCEPT ![i].phase = "ended", ![i].trouble[step] = trouble]
        /\ output' = IF trouble \in {"dead", "broken"} THEN output
                     ELSE [output EXCEPT ![Dir(i)] = Left(trouble)]
  <2> DEFINE Found == {"fine", "late", "hung", "dead"} \cup (IF step = 0 THEN {"broken"} ELSE {})
  <2>1. \E trouble \in Found :
          /\ items' = [items EXCEPT ![i].phase = "ended", ![i].trouble[step] = trouble]
          /\ output' = IF trouble \in {"dead", "broken"} THEN output
                       ELSE [output EXCEPT ![Dir(i)] = Left(trouble)]
    BY Zenon DEF Gem5Runs
  <2>2. \A trouble \in Found : trouble \in Troubles /\ (step # 0 => trouble # "broken")
    BY DEF Troubles
  <2> HIDE DEF Found, Left
  <2> QED
    BY <2>1, <2>2
<1> HIDE DEF Left, LineOf
<1>2. old.phase = "running" /\ order' = order /\ goldens' = goldens
  BY DEF Gem5Runs
<1>3. old \in IsItem /\ step \in 0..Injections /\ old.trouble \in [0..Injections -> Troubles]
  BY Known, ItemIs
<1>16. /\ step = 0 => effect = "masked"
       /\ step # 0 => effect = order.effects[i][step]
  OBVIOUS
<1> HIDE DEF effect
<1>4. step > 0 => /\ step \in 1..ShotsOf(order)
                  /\ effect \in Effects \cup {"not_injected"}
                  /\ (old.golden = GoldenLine(prog) \/ StaleItem(order, old))
                  /\ Len(old.got) = step - 1
  <2> SUFFICES ASSUME step > 0
               PROVE  /\ step \in 1..ShotsOf(order)
                      /\ effect \in Effects \cup {"not_injected"}
                      /\ (old.golden = GoldenLine(prog) \/ StaleItem(order, old))
                      /\ Len(old.got) = step - 1
    OBVIOUS
  <2>1. ItemOk(order, i, old, output[Dir(i)])
    BY Known
  <2>2. step \in 1..ShotsOf(order)
    BY <1>3, <2>1, Known DEF ItemOk
  <2>3. effect \in Effects \cup {"not_injected"}
    <3>1. IsOrder(order, Total) /\ i \in 1..Total
      BY Known
    <3>2. order.effects[i][step] \in Effects \cup {"not_injected"}
      BY ONLY <2>2, <3>1, OwnIs
    <3>3. step # 0
      BY <2>2
    <3> QED
      BY <1>16, <3>2, <3>3
  <2> QED
    BY <1>2, <2>1, <2>2, <2>3 DEF ItemOk
<1> DEFINE left == Left(trouble)
<1>5. left \in IsOutput /\ left.whole = (trouble = "fine") /\ left.line = LineOf(trouble)
      /\ left.injected = (step > 0 /\ effect # "not_injected")
  <2>1. effect \in Effects \cup {"not_injected"}
    <3>1. step = 0 \/ step > 0
      BY <1>3, Known
    <3>2. "masked" \in Effects
      BY DEF Effects
    <3> QED
      BY <1>4, <1>16, <3>1, <3>2
  <2>2. prog \in Nat
    BY Known
  <2>3. LineOf(trouble) \in Lines
    BY <2>1, <2>2, Known DEF Lines, Line, LineOf
  <2> QED
    BY <2>3 DEF IsOutput, Left
<1>17. ASSUME step = 0
       PROVE  (trouble # "fine" => ~ left.whole) /\ (trouble = "fine" => left.whole /\ left.line = GoldenLine(prog))
  <2>1. effect = "masked"
    BY <1>16, <1>17
  <2>2. LineOf("fine") = GoldenLine(prog)
    BY <2>1 DEF LineOf, GoldenLine
  <2>3. trouble = "fine" => left.line = GoldenLine(prog)
    BY <1>5, <2>2
  <2> HIDE DEF left
  <2>4. left.whole <=> trouble = "fine"
    BY <1>5
  <2> QED
    BY <2>3, <2>4
<1> DEFINE new == [old EXCEPT !.phase = "ended", !.trouble = [old.trouble EXCEPT ![step] = trouble]]
<1>6. items' = [items EXCEPT ![i] = new] /\ new \in IsItem
  <2>1. items' = [items EXCEPT ![i] = new]
    BY <1>1, Known DEF Total
  <2>2. [old.trouble EXCEPT ![step] = trouble] \in [0..Injections -> Troubles]
    BY <1>1, <1>3 DEF Troubles
  <2> QED
    BY <1>3, <2>1, <2>2 DEF IsItem, ItemPhases
<1>7. /\ new.phase = "ended" /\ new.step = step /\ new.golden = old.golden /\ new.got = old.got
      /\ new.trouble[step] = trouble
      /\ \A k \in 0..Injections : k # step => new.trouble[k] = old.trouble[k]
  BY <1>3 DEF IsItem
<1> HIDE DEF left, new
<1>8. /\ output' \in [Dirs -> IsOutput]
      /\ \A d \in Dirs : d # Dir(i) => output'[d] = output[d]
      /\ output'[Dir(i)] = IF trouble \in {"dead", "broken"} THEN output[Dir(i)] ELSE left
  BY <1>1, <1>5, Known DEF left
<1>9. /\ \A k \in 1..Len(new.got) : ClassIsOwn(order, i, new, k)
      /\ step > 0 => (StaleItem(order, new) <=> StaleItem(order, old))
  BY <1>2, <1>3, <1>6, <1>7, Known, ClassesStay DEF Active
<1> DEFINE seen == output'[Dir(i)]
<1>10. step > 0 => RunLeft(order, i, new, seen)
  <2> SUFFICES ASSUME step > 0 PROVE RunLeft(order, i, new, seen)
    OBVIOUS
  <2>1. trouble \in {"fine", "late", "hung", "dead"}
    BY <1>1 DEF Troubles
  <2>2. trouble = "dead" => seen = Nothing
    BY <1>2, <1>8, Known DEF ItemOk
  <2>3. trouble # "dead" => seen = left
    BY <1>8, <2>1
  <2> HIDE DEF seen
  <2> QED
    BY <1>3, <1>5, <1>7, <1>16, <2>1, <2>2, <2>3 DEF RunLeft, LineOf
<1>11. step = 0 => GoldenLeft(order, i, new, seen)
  <2> SUFFICES ASSUME step = 0 PROVE GoldenLeft(order, i, new, seen)
    OBVIOUS
  <2>1. trouble = "fine" => seen.whole /\ seen.line = GoldenLine(prog)
    BY <1>8, <1>17
  <2>2. trouble \in {"late", "hung"} => ~ seen.whole
    BY <1>5, <1>8
  <2>3. trouble = "dead" /\ KindOf(order) = "own" => seen = Nothing
    BY <1>2, <1>8, Known DEF ItemOk
  <2>4. KindOf(order) = "registered" /\ trouble = "dead" /\ seen.whole => seen.line = GoldenLine(prog)
    <3> SUFFICES ASSUME KindOf(order) = "registered", trouble = "dead", seen.whole
                 PROVE  seen.line = GoldenLine(prog)
      OBVIOUS
    <3>1. Dir(i) = <<"golden", prog, 0>>
      BY Known DEF Place, KindOf
    <3>2. seen = output[<<"golden", prog, 0>>]
      BY <1>8, <3>1
    <3> QED
      BY <3>2, Known DEF ItemsInv, GoldensInv
  <2>5. KindOf(order) # "table"
    BY <1>2, Known DEF ItemOk
  <2>6. ~ Nothing.whole
    BY DEF Nothing
  <2> HIDE DEF seen
  <2> QED
    BY <1>7, <2>1, <2>2, <2>3, <2>4, <2>5, <2>6, Known DEF GoldenLeft
<1>12. ItemOk(order, i, new, output'[Place(order, i, new.step)])
  <2>1. Place(order, i, new.step) = Dir(i)
    BY <1>7, Known
  <2>2. step = 0 => old.got = <<>> /\ KindOf(order) # "table"
    BY <1>2, Known DEF ItemOk
  <2>3. step = 0 \/ step > 0
    BY <1>3
  <2> HIDE DEF seen
  <2>4. ItemOk(order, i, new, seen)
    <3>1. Len(new.got) = 0 <=> new.got = <<>>
      BY <1>6 DEF IsItem
    <3>2. CASE step = 0
      BY <1>7, <1>9, <1>11, <2>2, <3>2 DEF ItemOk
    <3>3. CASE step > 0
      BY <1>4, <1>7, <1>9, <1>10, <3>3 DEF ItemOk
    <3> QED
      BY <2>3, <3>2, <3>3
  <2> QED
    BY <2>1, <2>4 DEF seen
<1>13. GoldensInv'
  <2> SUFFICES ASSUME KindOf(order) = "registered", NEW p \in 1..MaxItems
               PROVE  LET at == output'[<<"golden", p, 0>>] IN at.whole => at.line = GoldenLine(p)
    BY <1>2 DEF ItemsInv, GoldensInv
  <2>1. <<"golden", p, 0>> \in Dirs
    BY Known DEF Dirs
  <2>2. CASE Dir(i) = <<"golden", p, 0>>
    <3>1. step = 0 /\ p = prog
      <4>1. Dir(i) = Place(order, i, step)
        BY Known
      <4>2. Place(order, i, step) = <<IF step = 0 THEN "golden" ELSE "inject", prog, step>>
        BY DEF Place, KindOf
      <4>3. <<IF step = 0 THEN "golden" ELSE "inject", prog, step>> = <<"golden", p, 0>>
        BY <2>2, <4>1, <4>2
      <4> QED
        BY ONLY <4>3
    <3>2. CASE trouble \in {"dead", "broken"}
      BY <1>8, <2>2, <3>2 DEF ItemsInv, GoldensInv
    <3>3. CASE trouble \notin {"dead", "broken"}
      BY <1>8, <1>17, <2>2, <3>1, <3>3
    <3> QED
      BY <3>2, <3>3
  <2>3. CASE Dir(i) # <<"golden", p, 0>>
    BY <1>8, <2>1, <2>3 DEF ItemsInv, GoldensInv
  <2> QED
    BY <2>2, <2>3
<1>14. goldens' \in [1..MaxItems -> Lines]
  BY <1>2 DEF ItemsInv
<1>15. old.phase \in Active
  BY <1>2 DEF Active
<1> QED
  BY <1>2, <1>6, <1>8, <1>12, <1>13, <1>14, <1>15, ItemStep

LEMMA TakeGoldenKeepsItems ==
  ASSUME ItemsInv, JobsInv, NEW i \in 1..Total, TakeGolden(i) PROVE ItemsInv'
<1> DEFINE old == items[i]
           prog == order.programs[i]
           golden == GoldenSeen(i)
           failed == [old EXCEPT !.phase = "failed"]
           ready == [old EXCEPT !.phase = "ready", !.step = 1, !.golden = golden]
           new == IF golden = NoLine THEN failed ELSE ready
           seen == output[Dir(i)]
<1>1. /\ old.phase = "ended" /\ old.step = 0 /\ order' = order /\ output' = output
      /\ ~ (KindOf(order) = "climb" /\ TimedOut(i))
  BY Known DEF TakeGolden
<1>2. old \in IsItem /\ old.trouble \in [0..Injections -> Troubles] /\ Trouble(i) = old.trouble[0]
  BY <1>1, Known, ItemIs DEF Trouble
<1>3. old.got = <<>> /\ GoldenLeft(order, i, old, seen) /\ KindOf(order) # "table"
  BY <1>1, Known DEF ItemOk
<1>4. old.trouble[0] \in Troubles
  BY <1>2, Known
<1>5. golden = IF Trouble(i) # "broken" /\ (KindOf(order) = "climb" \/ seen.whole) THEN seen.line ELSE NoLine
  BY Known DEF GoldenSeen
<1> HIDE DEF golden, seen
<1>6. golden \in Lines
  <2>1. seen.line \in Lines /\ NoLine \in Lines
    BY Known DEF IsOutput, Lines, seen
  <2> QED
    BY <1>5, <2>1
<1>7. old.trouble[0] = "fine" => golden = GoldenLine(prog)
  BY <1>2, <1>3, <1>5 DEF GoldenLeft
<1>8. golden # NoLine => golden = GoldenLine(prog) \/ StaleItem(order, old)
  <2> SUFFICES ASSUME golden # NoLine, ~ StaleItem(order, old) PROVE golden = GoldenLine(prog)
    OBVIOUS
  <2>1. old.trouble[0] # "broken" /\ (KindOf(order) = "climb" \/ seen.whole) /\ golden = seen.line
    BY <1>2, <1>5
  <2>2. CASE old.trouble[0] = "fine"
    BY <1>7, <2>2
  <2>3. CASE old.trouble[0] \in {"late", "hung"}
    BY <1>1, <1>2, <1>3, <2>1, <2>3 DEF TimedOut, GoldenLeft
  <2>4. CASE old.trouble[0] = "dead"
    BY <1>3, <2>1, <2>4 DEF GoldenLeft, StaleItem
  <2> QED
    BY <1>4, <2>1, <2>2, <2>3, <2>4 DEF Troubles
<1>9. KindOf(order) = "registered" /\ golden # NoLine => golden = GoldenLine(prog)
  BY <1>8 DEF StaleItem
<1>10. failed \in IsItem /\ ready \in IsItem
  <2>1. 1 \in 0..Injections
    BY Known
  <2> QED
    BY <1>2, <1>6, <2>1 DEF IsItem, ItemPhases
<1>11. items' = [items EXCEPT ![i] = new]
  <2>1. items' = IF golden = NoLine THEN [items EXCEPT ![i].phase = "failed"]
                 ELSE [items EXCEPT ![i].phase = "ready", ![i].step = 1, ![i].golden = golden]
    BY DEF TakeGolden, golden
  <2> QED
    BY <2>1, Known DEF Total
<1>12. goldens' = goldens \/ /\ KindOf(order) = "registered" /\ golden # NoLine
                             /\ goldens' = [goldens EXCEPT ![prog] = golden]
  BY Known DEF TakeGolden, golden
<1>13. goldens \in [1..MaxItems -> Lines] /\ GoldensInv /\ prog \in 1..MaxItems
  BY Known DEF ItemsInv
<1>14. goldens' \in [1..MaxItems -> Lines]
  BY <1>6, <1>12, <1>13
<1>15. GoldensInv'
  <2> SUFFICES ASSUME KindOf(order) = "registered"
               PROVE  /\ \A p \in 1..MaxItems : goldens'[p] \in {NoLine, GoldenLine(p)}
                      /\ \A p \in 1..MaxItems : LET at == output[<<"golden", p, 0>>]
                                                IN  at.whole => at.line = GoldenLine(p)
    BY <1>1 DEF GoldensInv
  <2>1. \A p \in 1..MaxItems : goldens'[p] = goldens[p] \/ (p = prog /\ goldens'[p] = GoldenLine(p))
    BY <1>9, <1>12, <1>13
  <2> QED
    BY <1>13, <2>1 DEF GoldensInv
<1>16. ItemOk(order, i, new, output'[Place(order, i, new.step)])
  <2>1. CASE golden = NoLine
    <3>1. /\ new.phase = "failed" /\ new.step = 0 /\ new.got = <<>> /\ new.trouble = old.trouble
      BY <1>1, <1>2, <1>3, <2>1 DEF IsItem
    <3>2. new.trouble[0] # "fine"
      BY <1>7, <2>1, <3>1, Known
    <3>3. Len(new.got) = 0
      BY <3>1
    <3> HIDE DEF new
    <3> QED
      BY <1>3, <3>1, <3>2, <3>3 DEF ItemOk
  <2>2. CASE golden # NoLine
    <3>1. /\ new.phase = "ready" /\ new.step = 1 /\ new.got = <<>> /\ new.trouble = old.trouble
          /\ new.golden = golden /\ new \in IsItem
      BY <1>1, <1>2, <1>3, <1>10, <2>2 DEF IsItem
    <3> HIDE DEF new
    <3>2. new.golden = GoldenLine(prog) \/ StaleItem(order, new)
      BY <1>8, <2>2, <3>1 DEF StaleItem
    <3>3. ShotsOf(order) \in Nat /\ ShotsOf(order) >= 1
      BY Known
    <3> QED
      BY <3>1, <3>2, <3>3, GoldenItem
  <2> QED
    BY <2>1, <2>2
<1>17. new \in IsItem
  BY <1>10
<1>18. output' \in [Dirs -> IsOutput] /\ \A d \in Dirs : output'[d] = output[d]
  BY <1>1, Known
<1> HIDE DEF new
<1> QED
  BY <1>1, <1>11, <1>14, <1>15, <1>16, <1>17, <1>18, ItemStep

-----------------------------------------------------------------------------
(* Classes *)

\* The class of a run that has ended is that of its own fault, unless it was disturbed.
LEMMA ClassIs ==
  ASSUME ItemsInv, NEW i \in 1..Total, items[i].phase = "ended", items[i].step > 0,
         ~ (TimedOut(i) /\ Tool.timeout = "raises")
  PROVE  LET k == items[i].step
         IN  /\ ClassOf(i) \in Classes
             /\ IF items[i].trouble[k] = "fine"
                THEN ClassOf(i) = OwnOf(order, i, k) \/ StaleItem(order, items[i])
                ELSE ClassOf(i) \in order.tool.diverging =>
                       \/ StaleItem(order, items[i])
                       \/ order.tool.timeout = "read" /\ ClassOf(i) = OwnOf(order, i, k)
<1> DEFINE it == items[i]
           k == it.step
           seen == output[Dir(i)]
           prog == order.programs[i]
           effect == order.effects[i][k]
           class == ClassOf(i)
           trouble == it.trouble[k]
           timeout == order.tool.timeout
<1>1. /\ k \in 1..ShotsOf(order) /\ RunLeft(order, i, it, seen)
      /\ (it.golden = GoldenLine(prog) \/ StaleItem(order, it))
  <2>1. it.step \in Int
    BY Known, ItemIs
  <2> QED
    BY <2>1, Known DEF ItemOk
<1>2. /\ effect \in Effects \cup {"not_injected"} /\ (effect = "not_injected" => KindOf(order) = "own")
      /\ OwnOf(order, i, k) \in Classes
  <2>1. IsOrder(order, Total) /\ i \in 1..Total
    BY Known
  <2> QED
    BY ONLY <1>1, <2>1, OwnIs
<1>3. /\ timeout \in {"no_output", "raises", "skipped", "read"}
      /\ order.tool.diverging \subseteq {"clean_diverge", "exit_diverge"}
      /\ KindOf(order) = "own" => timeout = "no_output"
  BY Known, ToolIs DEF IsOrder, KindOf
<1>4. /\ trouble \in {"fine", "late", "hung", "dead"}
      /\ trouble = "dead" => seen = Nothing
      /\ trouble # "dead" => /\ seen.injected = (effect # "not_injected")
                             /\ seen.line = IF effect = "no_output" \/ trouble = "hung" THEN NoLine
                                            ELSE IF effect = "not_injected" THEN GoldenLine(prog)
                                            ELSE Line(prog, effect)
  BY <1>1 DEF RunLeft
<1>5. Tool = order.tool /\ Tool.goldens = KindOf(order) /\ Trouble(i) = trouble
  BY Known DEF Trouble
<1>6. ~ (trouble \in {"late", "hung"} /\ timeout = "raises")
  BY <1>5 DEF TimedOut
<1>7. class = IF trouble \in {"late", "hung"} /\ timeout # "read" THEN timeout
              ELSE IF trouble = "dead" /\ timeout = "skipped" THEN "skipped"
              ELSE IF KindOf(order) = "own" THEN ClassifyChecksum(seen, it.golden)
              ELSE classify_output(seen.line, it.golden)
  BY <1>5 DEF ClassOf, TimedOut
<1> HIDE DEF it, seen, class, trouble, timeout, effect, prog, k
\* Whatever the golden output is, the class is one of the six.
<1>8. class \in Classes
  <2>1. \A line, golden : classify_output(line, golden) \in Classes
    BY DEF classify_output, Classes
  <2>2. ClassifyChecksum(seen, it.golden) \in Classes
    BY <2>1 DEF ClassifyChecksum, Classes
  <2> QED
    BY <1>3, <1>6, <1>7, <2>1, <2>2 DEF Classes
\* With the golden output of the program, what was written says what the fault did.
<1>9. ASSUME it.golden = GoldenLine(prog), trouble \in {"fine", "late"}, seen.line # NoLine \/ effect = "no_output"
      PROVE  /\ KindOf(order) = "own" => ClassifyChecksum(seen, it.golden) = OwnOf(order, i, k)
             /\ KindOf(order) # "own" => classify_output(seen.line, it.golden) = OwnOf(order, i, k)
  <2>1. OwnOf(order, i, k) = CASE effect = "not_injected" -> "noinj"
                               [] effect = "exit_diverge" /\ KindOf(order) = "own" -> "no_output"
                               [] OTHER -> effect
    BY DEF OwnOf, effect
  <2>2. /\ seen.injected = (effect # "not_injected")
        /\ seen.line = IF effect = "no_output" THEN NoLine
                       ELSE IF effect = "not_injected" THEN GoldenLine(prog)
                       ELSE Line(prog, effect)
    BY <1>4, <1>9
  <2>3. CASE effect = "not_injected"
    BY <1>2, <2>1, <2>2, <2>3 DEF ClassifyChecksum
  <2>4. CASE effect = "no_output"
    BY <2>1, <2>2, <2>4 DEF ClassifyChecksum, classify_output
  <2>5. CASE effect = "masked"
    <3>4. seen.line = Line(prog, "masked") /\ seen.injected
      BY <2>2, <2>5
    <3>1. seen.line = it.golden /\ seen.line # NoLine /\ seen.line[2] = "masked" /\ seen.injected
      BY <1>9, <3>4, LineIs DEF GoldenLine
    <3>2. classify_output(seen.line, it.golden) = "masked"
      BY <3>1 DEF classify_output
    <3> QED
      BY <2>1, <2>5, <3>1, <3>2 DEF ClassifyChecksum
  <2>6. CASE effect \in {"clean_diverge", "exit_diverge"}
    <3>1. seen.line = Line(prog, effect) /\ seen.line # NoLine /\ seen.line[2] = effect
      BY <2>2, <2>6, LineIs
    <3>2. seen.line # it.golden
      BY <1>9, <2>6, <3>1, LineIs DEF GoldenLine
    <3>3. seen.injected
      BY <2>2, <2>6
    <3> QED
      BY <2>1, <2>6, <3>1, <3>2, <3>3 DEF ClassifyChecksum, classify_output
  <2> QED
    BY <1>2, <2>3, <2>4, <2>5, <2>6 DEF Effects
<1>10. ASSUME trouble \in {"hung", "dead"}
       PROVE  class \notin {"clean_diverge", "exit_diverge"}
  <2>1. seen.line = NoLine
    BY <1>4, <1>10 DEF Nothing
  <2>2. \A golden : classify_output(seen.line, golden) = "no_output"
    BY <2>1 DEF classify_output
  <2>3. ClassifyChecksum(seen, it.golden) \in {"noinj", "no_output"}
    BY <2>2 DEF ClassifyChecksum
  <2> QED
    BY <1>3, <1>7, <2>2, <2>3
<1>11. ASSUME it.golden = GoldenLine(prog), trouble = "fine" PROVE class = OwnOf(order, i, k)
  <2>1. seen.line # NoLine \/ effect = "no_output"
    BY <1>4, <1>11, LineIs DEF GoldenLine
  <2> QED
    BY <1>7, <1>9, <1>11, <2>1
<1>12. ASSUME it.golden = GoldenLine(prog), trouble = "late"
       PROVE  class \in order.tool.diverging => timeout = "read" /\ class = OwnOf(order, i, k)
  <2>1. seen.line # NoLine \/ effect = "no_output"
    BY <1>4, <1>12, LineIs DEF GoldenLine
  <2>2. timeout # "read" => class = timeout
    BY <1>7, <1>12
  <2>3. timeout = "read" => class = OwnOf(order, i, k)
    BY <1>7, <1>9, <1>12, <2>1
  <2> QED
    BY <1>3, <2>2, <2>3
<1>13. class \in order.tool.diverging => class \in {"clean_diverge", "exit_diverge"}
  BY <1>3
<1>14. IF trouble = "fine" THEN class = OwnOf(order, i, k) \/ StaleItem(order, it)
       ELSE class \in order.tool.diverging =>
              StaleItem(order, it) \/ (timeout = "read" /\ class = OwnOf(order, i, k))
  BY <1>1, <1>4, <1>10, <1>11, <1>12, <1>13
<1> QED
  BY <1>8, <1>14 DEF it, seen, class, trouble, timeout, effect, prog, k

LEMMA TakeRunKeepsItems ==
  ASSUME ItemsInv, JobsInv, NEW i \in 1..Total, TakeRun(i) PROVE ItemsInv'
<1> DEFINE old == items[i]
           k == old.step
           class == ClassOf(i)
           got == Append(old.got, class)
           over == k = Shots
           new == [old EXCEPT !.got = got, !.phase = IF over THEN "done" ELSE "ready",
                              !.step = IF over THEN k ELSE k + 1]
           seen == output[Dir(i)]
<1>1. /\ old.phase = "ended" /\ k > 0 /\ order' = order /\ output' = output /\ goldens' = goldens
      /\ ~ (TimedOut(i) /\ Tool.timeout = "raises")
  BY DEF TakeRun
<1>2. old \in IsItem /\ k \in Int /\ old.got \in Seq(Classes)
  BY Known, ItemIs
<1>3. /\ k \in 1..ShotsOf(order) /\ ShotsOf(order) \in 1..Injections /\ Shots = ShotsOf(order)
      /\ (old.golden = GoldenLine(order.programs[i]) \/ StaleItem(order, old))
      /\ Len(old.got) = k - 1
      /\ \A n \in 1..Len(old.got) : ClassIsOwn(order, i, old, n)
  <2>1. ItemOk(order, i, old, seen) /\ ShotsOf(order) \in 1..Injections /\ Shots = ShotsOf(order)
    BY Known
  <2>2. /\ k <= ShotsOf(order) /\ (old.golden = GoldenLine(order.programs[i]) \/ StaleItem(order, old))
        /\ Len(old.got) = k - 1
        /\ \A n \in 1..Len(old.got) : ClassIsOwn(order, i, old, n)
    BY <1>1, <2>1 DEF ItemOk
  <2> QED
    BY <1>1, <1>2, <2>1, <2>2
<1>4. /\ class \in Classes
      /\ IF old.trouble[k] = "fine" THEN class = OwnOf(order, i, k) \/ StaleItem(order, old)
         ELSE class \in order.tool.diverging =>
                StaleItem(order, old) \/ (order.tool.timeout = "read" /\ class = OwnOf(order, i, k))
  BY <1>1, ClassIs
<1> HIDE DEF class
<1>5. /\ got \in Seq(Classes) /\ Len(got) = k /\ got[k] = class
      /\ \A n \in 1..(k - 1) : got[n] = old.got[n]
  BY <1>2, <1>3, <1>4
<1>6. items' = [items EXCEPT ![i] = new]
  BY Known DEF TakeRun, Total, class
<1>7. new \in IsItem
  <2>1. (IF over THEN k ELSE k + 1) \in 0..Injections
    <3>1. ShotsOf(order) \in Int /\ Injections \in Int /\ ShotsOf(order) <= Injections
      BY <1>3, Known
    <3>2. k >= 1 /\ k <= ShotsOf(order) /\ (over <=> k = ShotsOf(order))
      BY <1>2, <1>3, <3>1
    <3> HIDE DEF over, k
    <3>3. k \in Int
      BY <1>2
    <3> QED
      BY <3>1, <3>2, <3>3
  <2> HIDE DEF got, over
  <2> QED
    BY <1>2, <1>5, <2>1 DEF IsItem, ItemPhases
<1>8. /\ new.got = got /\ new.phase = (IF over THEN "done" ELSE "ready") /\ new.golden = old.golden
      /\ new.step = (IF over THEN k ELSE k + 1) /\ new.trouble = old.trouble
  BY <1>2 DEF IsItem
<1> HIDE DEF new, got
<1>9. ASSUME NEW n \in 1..Len(new.got) PROVE ClassIsOwn(order, i, new, n)
  <2>1. CASE n = k
    BY <1>4, <1>5, <1>8, <2>1 DEF ClassIsOwn, StaleItem
  <2>2. CASE n # k
    <3>1. n \in 1..Len(old.got) /\ new.got[n] = old.got[n]
      BY <1>2, <1>3, <1>5, <1>8, <2>2
    <3>2. ClassIsOwn(order, i, old, n)
      BY <1>3, <3>1
    <3> QED
      BY <1>8, <3>1, <3>2 DEF ClassIsOwn, StaleItem
  <2> QED
    BY <2>1, <2>2
<1>10. ItemOk(order, i, new, output'[Place(order, i, new.step)])
  <2>1. StaleItem(order, new) <=> StaleItem(order, old)
    BY <1>8 DEF StaleItem
  <2>2. new.step > 0 /\ new.step <= ShotsOf(order)
        /\ Len(new.got) = IF new.phase = "done" THEN ShotsOf(order) ELSE new.step - 1
    BY <1>3, <1>5, <1>8
  <2>3. new.phase \in {"done", "ready"} /\ new.step # 0
    BY <1>3, <1>8
  <2> QED
    BY <1>3, <1>8, <1>9, <2>1, <2>2, <2>3 DEF ItemOk
<1>11. /\ output' \in [Dirs -> IsOutput] /\ goldens' \in [1..MaxItems -> Lines]
       /\ \A d \in Dirs : output'[d] = output[d]
  BY <1>1 DEF ItemsInv
<1>12. GoldensInv'
  BY <1>1 DEF ItemsInv, GoldensInv
<1> QED
  BY <1>1, <1>6, <1>7, <1>10, <1>11, <1>12, ItemStep

-----------------------------------------------------------------------------
(* The jobs, and the climb *)

\* Of items that go on one at a time, the others stay as they are.
LEMMA OneGoes ==
  ASSUME ItemsInv, NEW i \in 1..Total, NEW new, items' = [items EXCEPT ![i] = new]
  PROVE  /\ Total' = Total /\ items'[i] = new
         /\ \A j \in 1..Total : j # i => items'[j] = items[j]
BY DEF ItemsInv, Total

\* The item that begins is the first of those that wait.
LEMMA BeginOne ==
  ASSUME ItemsInv, Begin
  PROVE  \E i \in 1..Total :
           /\ items[i].phase = "queued" /\ \A j \in 1..(i - 1) : items[j].phase # "queued"
           /\ Total' = Total /\ items'[i].phase = "ready"
           /\ \A j \in 1..Total : j # i => items'[j] = items[j]
<1> DEFINE KnownOf(i) == CASE Tool.goldens = "table" -> GoldenLine(order.programs[i])
                           [] Tool.goldens = "registered" -> goldens[order.programs[i]]
                           [] OTHER -> NoLine
<1>1. PICK i \in 1..Total :
        /\ items[i].phase = "queued" /\ \A j \in 1..(i - 1) : items[j].phase # "queued"
        /\ items' = [items EXCEPT ![i].phase = "ready", ![i].golden = KnownOf(i),
                                  ![i].step = IF KnownOf(i) = NoLine THEN 0 ELSE 1]
  BY DEF Begin
<1> HIDE DEF KnownOf
<1>3. items \in Seq(IsItem)
  BY Known
<1> DEFINE known == KnownOf(i)
           step == IF known = NoLine THEN 0 ELSE 1
           new == [items[i] EXCEPT !.phase = "ready", !.golden = known, !.step = step]
<1>4. items[i] \in IsItem
  BY <1>3, ItemIs
<1> HIDE DEF known, step
<1>5. items' = [items EXCEPT ![i] = new] /\ new.phase = "ready"
  BY <1>1, <1>3, <1>4 DEF Total, IsItem, known, step
<1> HIDE DEF new
<1>6. /\ Total' = Total /\ items'[i].phase = "ready"
      /\ \A j \in 1..Total : j # i => items'[j] = items[j]
  BY <1>5, OneGoes
<1> QED
  BY <1>1, <1>6

LEMMA BeginKeepsJobs ==
  ASSUME ItemsInv, JobsInv, Begin PROVE JobsInv'
<1>1. PICK i \in 1..Total :
        /\ items[i].phase = "queued" /\ \A j \in 1..(i - 1) : items[j].phase # "queued"
        /\ Total' = Total /\ items'[i].phase = "ready"
        /\ \A j \in 1..Total : j # i => items'[j] = items[j]
  BY BeginOne
<1>2. order' = order /\ (Limited => order.jobs \in 1..MAX_JOBS) /\ Cardinality(Busy) < order.jobs
  BY DEF Begin
<1>3. /\ items \in Seq(IsItem) /\ Total \in Nat /\ order.jobs \in Nat
  BY Known, ToolIs DEF IsOrder
<1>5. Busy' = Busy \cup {i}
  BY <1>1 DEF Busy
<1>6. IsFiniteSet(Busy) /\ i \notin Busy
  <2>1. IsFiniteSet(1..Total)
    BY <1>3, FS_Interval
  <2>2. Busy \subseteq 1..Total /\ i \notin Busy
    BY <1>1 DEF Busy
  <2> HIDE DEF Busy
  <2> QED
    BY <2>1, <2>2, FS_Subset
<1>7. Cardinality(Busy) \in Nat /\ Cardinality(Busy') = Cardinality(Busy) + 1
  <2>1. Cardinality(Busy) \in Nat
    BY <1>6, FS_CardinalityType
  <2>2. Cardinality(Busy \cup {i}) = Cardinality(Busy) + 1
    <3> DEFINE b == Busy
    <3> HIDE DEF b
    <3>1. IsFiniteSet(b) /\ i \notin b
      BY <1>6 DEF b
    <3>2. Cardinality(b \cup {i}) = IF i \in b THEN Cardinality(b) ELSE Cardinality(b) + 1
      BY <3>1, FS_AddElement, Zenon
    <3> QED
      BY <3>1, <3>2 DEF b
  <2> QED
    BY <1>5, <2>1, <2>2
<1>8. Cardinality(Busy') <= order'.jobs
  BY <1>2, <1>3, <1>7
<1>9. ASSUME NEW a \in 1..Total, NEW b \in 1..Total, items'[a].phase = "queued", a < b
      PROVE  items'[b].phase = "queued"
  <2>1. a # i /\ items[a].phase = "queued"
    BY <1>1, <1>9
  <2>2. items[b].phase = "queued"
    BY <1>9, <2>1 DEF JobsInv
  <2>3. b # i
    <3> SUFFICES ASSUME b = i PROVE FALSE
      OBVIOUS
    <3>1. a \in 1..(i - 1)
      BY <1>9
    <3> QED
      BY <1>1, <2>1, <3>1
  <2> QED
    BY <1>1, <2>2, <2>3
<1>10. Limited' => order'.jobs \in 1..MAX_JOBS
  BY <1>2 DEF Limited, Tool
<1> QED
  BY <1>1, <1>8, <1>9, <1>10 DEF JobsInv

\* The divergences of an item are a number.
LEMMA DivergingIs ==
  ASSUME NEW S, NEW got \in Seq(S) PROVE Diverging(got) \in Nat
<1> DEFINE hits == {k \in DOMAIN got : got[k] \in Tool.diverging}
<1>1. IsFiniteSet(1..Len(got))
  BY FS_Interval
<1>2. hits \subseteq 1..Len(got)
  OBVIOUS
<1> HIDE DEF hits
<1>3. Cardinality(hits) \in Nat
  BY <1>1, <1>2, FS_Subset, FS_CardinalityType
<1> QED
  BY <1>3 DEF hits, Diverging

\* What an item at work does changes it alone, and counts it only when its runs are over.
ItemGoes(i) ==
  /\ order' = order /\ Going /\ items[i].phase \in Active /\ Total' = Total
  /\ items'[i].phase \in ItemPhases \ {"queued"}
  /\ \A j \in 1..Total : j # i => items'[j] = items[j]
  /\ climbed' = [item |-> climbed'.item, best |-> climbed'.best, golden |-> climbed'.golden]
  /\ KindOf(order) = "climb" =>
       /\ items'[i].phase = "done" => Diverging(items'[i].got) <= climbed'.best
       /\ \/ climbed'.item = climbed.item /\ climbed'.best = climbed.best
          \/ /\ climbed'.item = i /\ climbed'.best = Diverging(items'[i].got)
             /\ climbed'.best > climbed.best /\ items'[i].phase = "done"

LEMMA ItemsGo ==
  ASSUME ItemsInv, ClimbInv, NEW i \in 1..Total,
         Launch(i) \/ Gem5Runs(i) \/ TakeGolden(i) \/ TakeRun(i)
  PROVE  ItemGoes(i)
<1>1. items[i] \in IsItem /\ items \in Seq(IsItem)
  BY Known, ItemIs
<1>2. climbed = [item |-> climbed.item, best |-> climbed.best, golden |-> climbed.golden]
      /\ (KindOf(order) = "climb" => climbed.best \in Int)
  BY DEF ClimbInv
<1>3. CASE Launch(i)
  <2> DEFINE new == [items[i] EXCEPT !.phase = "running"]
  <2>1. items' = [items EXCEPT ![i] = new] /\ new.phase = "running"
    BY <1>1, <1>3 DEF Launch, IsItem, Total
  <2> HIDE DEF new
  <2>2. /\ order' = order /\ Going /\ items[i].phase \in Active /\ climbed' = climbed
    BY <1>3 DEF Launch, Active
  <2> QED
    BY <1>2, <2>1, <2>2, OneGoes DEF ItemGoes, ItemPhases
<1>4. CASE Gem5Runs(i)
  <2>1. PICK trouble \in Troubles :
          items' = [items EXCEPT ![i].phase = "ended", ![i].trouble[items[i].step] = trouble]
    BY <1>4 DEF Gem5Runs, Troubles
  <2> DEFINE new == [items[i] EXCEPT !.phase = "ended", !.trouble[items[i].step] = trouble]
  <2>2. items' = [items EXCEPT ![i] = new] /\ new.phase = "ended"
    BY <1>1, <2>1 DEF IsItem, Total
  <2> HIDE DEF new
  <2>3. /\ order' = order /\ Going /\ items[i].phase \in Active /\ climbed' = climbed
    BY <1>4 DEF Gem5Runs, Active
  <2> QED
    BY <1>2, <2>2, <2>3, OneGoes DEF ItemGoes, ItemPhases
<1>5. CASE TakeGolden(i)
  <2> DEFINE golden == GoldenSeen(i)
             failed == [items[i] EXCEPT !.phase = "failed"]
             ready == [items[i] EXCEPT !.phase = "ready", !.step = 1, !.golden = golden]
             new == IF golden = NoLine THEN failed ELSE ready
  <2>1. items' = [items EXCEPT ![i] = new]
    <3>1. items' = IF golden = NoLine THEN [items EXCEPT ![i].phase = "failed"]
                   ELSE [items EXCEPT ![i].phase = "ready", ![i].step = 1, ![i].golden = golden]
      BY <1>5 DEF TakeGolden
    <3> HIDE DEF golden
    <3> QED
      BY <1>1, <3>1 DEF Total
  <2>2. new.phase \in {"failed", "ready"}
    <3> HIDE DEF golden
    <3> QED
      BY <1>1 DEF IsItem
  <2> HIDE DEF new
  <2>3. /\ order' = order /\ Going /\ items[i].phase \in Active
        /\ (climbed' = [climbed EXCEPT !.golden = golden] \/ climbed' = climbed)
    BY <1>5 DEF TakeGolden, Active
  <2> HIDE DEF golden
  <2>4. /\ climbed'.item = climbed.item /\ climbed'.best = climbed.best
        /\ climbed' = [item |-> climbed'.item, best |-> climbed'.best, golden |-> climbed'.golden]
    BY <1>2, <2>3
  <2> QED
    BY <2>1, <2>2, <2>3, <2>4, OneGoes DEF ItemGoes, ItemPhases
<1>6. CASE TakeRun(i)
  <2> DEFINE got == Append(items[i].got, ClassOf(i))
             over == items[i].step = Shots
             new == [items[i] EXCEPT !.got = got, !.phase = IF over THEN "done" ELSE "ready",
                                     !.step = IF over THEN items[i].step ELSE items[i].step + 1]
  <2>1. items' = [items EXCEPT ![i] = new]
    BY <1>1, <1>6 DEF TakeRun, Total
  <2>2. /\ order' = order /\ Going /\ items[i].phase \in Active /\ Tool.goldens = KindOf(order)
        /\ climbed' = IF Tool.goldens = "climb" /\ over /\ Diverging(got) > climbed.best
                      THEN [climbed EXCEPT !.item = i, !.best = Diverging(got)] ELSE climbed
    BY <1>6, Known DEF TakeRun, Active
  <2> HIDE DEF over, got
  <2>3. new.phase = (IF over THEN "done" ELSE "ready") /\ new.got = got
    BY <1>1 DEF IsItem
  <2> HIDE DEF new
  <2>4. /\ Total' = Total /\ items'[i] = new
        /\ \A j \in 1..Total : j # i => items'[j] = items[j]
    BY <2>1, OneGoes
  <2> DEFINE d == Diverging(got)
  <2>5. d \in Nat
    <3>1. got \in Seq(Classes \cup {ClassOf(i)})
      <4> DEFINE S == Classes \cup {ClassOf(i)}
      <4>1. items[i].got \in Seq(S) /\ ClassOf(i) \in S
        BY <1>1 DEF IsItem
      <4> HIDE DEF S
      <4>2. got \in Seq(S)
        BY <4>1 DEF got
      <4> QED
        BY <4>2 DEF S
    <3> QED
      BY <3>1, DivergingIs
  <2> HIDE DEF d
  <2>6. /\ items'[i].phase \in {"done", "ready"} /\ items'[i].got = got
        /\ items'[i].phase = "done" <=> over
    BY <2>3, <2>4
  <2>9. CASE KindOf(order) # "climb"
    BY <1>2, <2>2, <2>4, <2>6, <2>9 DEF ItemGoes, ItemPhases
  <2>7. CASE KindOf(order) = "climb" /\ over /\ d > climbed.best
    <3>1. climbed' = [climbed EXCEPT !.item = i, !.best = d]
      BY <2>2, <2>7 DEF d
    <3>2. climbed' = [item |-> i, best |-> d, golden |-> climbed.golden]
      BY <1>2, <3>1
    <3>3. climbed'.item = i /\ climbed'.best = d /\ climbed'.golden = climbed.golden
      BY <3>2
    <3>4. d <= climbed'.best
      BY <2>5, <3>3
    <3> QED
      BY <2>2, <2>4, <2>6, <2>7, <3>2, <3>3, <3>4 DEF ItemGoes, ItemPhases, d
  <2>8. CASE KindOf(order) = "climb" /\ ~ (over /\ d > climbed.best)
    <3>1. climbed' = climbed
      BY <2>2, <2>8 DEF d
    <3>2. over => d <= climbed'.best
      BY <1>2, <2>5, <2>8, <3>1
    <3> QED
      BY <1>2, <2>2, <2>4, <2>6, <3>1, <3>2 DEF ItemGoes, ItemPhases, d
  <2> QED
    BY <2>7, <2>8, <2>9
<1> QED
  BY <1>3, <1>4, <1>5, <1>6

\* No item comes back to the queue, and no more are at work than before.
LEMMA ItemKeepsJobs ==
  ASSUME ItemsInv, JobsInv, NEW i \in 1..Total, ItemGoes(i)
  PROVE  JobsInv'
<1>1. /\ Total' = Total /\ Total \in Nat /\ order' = order
      /\ items[i].phase \in Active /\ items'[i].phase # "queued"
      /\ \A j \in 1..Total : j # i => items'[j] = items[j]
  BY Known DEF ItemGoes
<1>2. Busy' \subseteq Busy
  BY <1>1 DEF Busy, Active
<1>3. IsFiniteSet(Busy)
  <2>1. IsFiniteSet(1..Total) /\ Busy \subseteq 1..Total
    BY <1>1, FS_Interval DEF Busy
  <2> QED
    BY <2>1, FS_Subset
<1>4. Cardinality(Busy') <= Cardinality(Busy) /\ Cardinality(Busy) \in Nat /\ Cardinality(Busy') \in Nat
  BY <1>2, <1>3, FS_Subset, FS_CardinalityType
<1>5. order.jobs \in Nat
  BY Known, ToolIs DEF IsOrder
<1>6. Cardinality(Busy') <= order'.jobs
  BY <1>1, <1>4, <1>5 DEF JobsInv
<1>7. ASSUME NEW a \in 1..Total, NEW b \in 1..Total, items'[a].phase = "queued", a < b
      PROVE  items'[b].phase = "queued"
  <2>1. a # i /\ items[a].phase = "queued"
    BY <1>1, <1>7
  <2>2. items[b].phase = "queued"
    BY <1>7, <2>1 DEF JobsInv
  <2> QED
    BY <1>1, <2>2 DEF Active
<1>8. Busy' # {} /\ Limited' => order'.jobs \in 1..MAX_JOBS
  <2>1. Limited' <=> Limited
    BY <1>1 DEF Limited, Tool
  <2> QED
    BY <1>1, <1>2, <2>1 DEF JobsInv
<1> QED
  BY <1>1, <1>6, <1>7, <1>8 DEF JobsInv

LEMMA ItemKeepsClimb ==
  ASSUME ItemsInv, ItemsInv', JobsInv, ClimbInv, KindOf(order) = "climb", NEW i \in 1..Total, ItemGoes(i)
  PROVE  ClimbInv'
<1>1. /\ order' = order /\ items[i].phase \in Active /\ Total' = Total
      /\ items'[i].phase # "queued"
      /\ \A j \in 1..Total : j # i => items'[j] = items[j]
      /\ climbed' = [item |-> climbed'.item, best |-> climbed'.best, golden |-> climbed'.golden]
  BY DEF ItemGoes
<1>2. /\ climbed.item \in 0..Total /\ climbed.best \in Int
      /\ climbed.item > 0 => items[climbed.item].phase = "done"
      /\ \A a, b \in 1..Total : items[a].phase \in Active /\ a < b => items[b].phase = "queued"
      /\ \A j \in 1..Total : items[j].phase = "done" => Better(j)
  BY DEF ClimbInv
<1>3. \A j \in 1..Total : Diverging(items'[j].got) \in Nat
  <2> TAKE j \in 1..Total
  <2>1. items' \in Seq(IsItem) /\ j \in 1..Len(items')
    BY <1>1 DEF ItemsInv, Total
  <2> DEFINE got == items'[j].got
  <2>4. items'[j] \in IsItem
    BY <2>1
  <2>2. got \in Seq(Classes)
    BY ONLY <2>4 DEF IsItem
  <2> HIDE DEF got
  <2>3. Diverging(got) \in Nat
    BY ONLY <2>2, DivergingIs
  <2> QED
    BY <2>3 DEF got
<1> DEFINE D(j) == Diverging(items'[j].got)
<1>5. \A j \in 1..Total : Better(j)' <=> D(j) <= climbed'.best /\ (j < climbed'.item => D(j) < climbed'.best)
  BY <1>1 DEF Better, Diverging, Tool
<1>6. \A j \in 1..Total : j # i => (Better(j) <=> D(j) <= climbed.best /\ (j < climbed.item => D(j) < climbed.best))
  BY <1>1 DEF Better
<1>7. /\ items'[i].phase = "done" => D(i) <= climbed'.best
      /\ \/ climbed'.item = climbed.item /\ climbed'.best = climbed.best
         \/ /\ climbed'.item = i /\ climbed'.best = D(i)
            /\ climbed'.best > climbed.best /\ items'[i].phase = "done"
  BY DEF ItemGoes
<1>8. \A j \in 1..Total : D(j) \in Nat
  BY <1>3
<1> HIDE DEF D
<1>9. Total \in Nat /\ i \in Nat
  BY Known
<1>10. ~ (i < climbed.item)
  <2> SUFFICES ASSUME i < climbed.item PROVE FALSE
    OBVIOUS
  <2>1. climbed.item \in 1..Total /\ items[climbed.item].phase = "done"
    BY <1>2, <1>9
  <2> QED
    BY <1>1, <1>2, <2>1
<1>11. climbed'.item \in 0..Total /\ climbed'.best \in Int
  BY <1>2, <1>7, <1>8, <1>9
<1>12. climbed'.item > 0 => items'[climbed'.item].phase = "done"
  <2>1. CASE climbed'.item = climbed.item
    <3> SUFFICES ASSUME climbed.item > 0 PROVE items'[climbed.item].phase = "done"
      BY <2>1
    <3>1. climbed.item \in 1..Total /\ items[climbed.item].phase = "done"
      BY <1>2, <1>9
    <3>2. climbed.item # i
      BY <1>1, <3>1 DEF Active
    <3> QED
      BY <1>1, <3>1, <3>2
  <2>2. CASE climbed'.item = i /\ items'[i].phase = "done"
    BY <2>2
  <2> QED
    BY <1>7, <2>1, <2>2
<1>13. ASSUME NEW a \in 1..Total, NEW b \in 1..Total, items'[a].phase \in Active, a < b
       PROVE  items'[b].phase = "queued"
  <2>1. items[a].phase \in Active
    BY <1>1, <1>13
  <2>2. items[b].phase = "queued"
    BY <1>2, <1>13, <2>1
  <2> QED
    BY <1>1, <2>2 DEF Active
<1>14. ASSUME NEW j \in 1..Total, items'[j].phase = "done" PROVE Better(j)'
  <2>1. CASE j = i
    BY <1>5, <1>7, <1>8, <1>9, <1>10, <1>14, <2>1
  <2>2. CASE j # i
    <3>1. D(j) <= climbed.best /\ (j < climbed.item => D(j) < climbed.best)
      BY <1>1, <1>2, <1>6, <1>14, <2>2
    <3> QED
      BY <1>2, <1>5, <1>7, <1>8, <3>1
  <2> QED
    BY <2>1, <2>2
<1> QED
  BY <1>1, <1>11, <1>12, <1>13, <1>14 DEF ClimbInv

LEMMA BeginKeepsClimb ==
  ASSUME ItemsInv, JobsInv, ClimbInv, Begin PROVE ClimbInv'
<1>1. PICK i \in 1..Total :
        /\ items[i].phase = "queued" /\ Total' = Total /\ items'[i].phase = "ready"
        /\ \A j \in 1..Total : j # i => items'[j] = items[j]
  BY BeginOne
<1>2. order' = order /\ climbed' = climbed /\ Cardinality(Busy) < order.jobs
  BY DEF Begin
<1>3. \A j \in 1..Total : Better(j) /\ j # i => Better(j)'
  BY <1>1, <1>2 DEF Better, Diverging, Tool
<1>4. KindOf(order) = "climb" => Busy = {}
  <2> SUFFICES ASSUME KindOf(order) = "climb" PROVE Busy = {}
    OBVIOUS
  <2>1. order.jobs = 1 /\ Total \in Nat
    BY Known, ToolIs DEF IsOrder, KindOf
  <2>2. IsFiniteSet(1..Total)
    BY <2>1, FS_Interval
  <2>3. Busy \subseteq 1..Total
    BY DEF Busy
  <2> HIDE DEF Busy
  <2>4. IsFiniteSet(Busy) /\ Cardinality(Busy) \in Nat
    BY <2>2, <2>3, FS_Subset, FS_CardinalityType
  <2>5. Cardinality(Busy) = 0
    BY <1>2, <2>1, <2>4
  <2> QED
    BY <2>4, <2>5, FS_EmptySet
<1>5. ASSUME KindOf(order) = "climb", NEW a \in 1..Total, NEW b \in 1..Total,
             items'[a].phase \in Active, a < b
      PROVE  items'[b].phase = "queued"
  <2>1. a = i
    BY <1>1, <1>4, <1>5 DEF Busy, Active
  <2>2. items[b].phase = "queued"
    BY <1>1, <1>5, <2>1 DEF JobsInv
  <2> QED
    BY <1>1, <1>5, <2>1, <2>2
<1>6. ASSUME KindOf(order) = "climb", climbed.item > 0 PROVE items'[climbed.item].phase = "done"
  <2>1. climbed.item \in 1..Total /\ items[climbed.item].phase = "done"
    BY <1>6, Known DEF ClimbInv
  <2> QED
    BY <1>1, <2>1
<1> QED
  BY <1>1, <1>2, <1>3, <1>5, <1>6 DEF ClimbInv

-----------------------------------------------------------------------------
(* What is reported *)

\* No more runs are classified than there are.
LEMMA GotIs ==
  ASSUME ItemsInv, NEW i \in 1..Total
  PROVE  /\ items[i].got \in Seq(Classes) /\ Len(items[i].got) \in 0..Injections
         /\ DOMAIN items[i].got = 1..Len(items[i].got)
         /\ items[i].phase = "done" => Len(items[i].got) = ShotsOf(order)
<1>1. items[i].got \in Seq(Classes) /\ items[i].step \in 0..Injections
  BY Known, ItemIs
<1>2. ShotsOf(order) \in 1..Injections /\ Injections \in Nat /\ ItemOk(order, i, items[i], output[Dir(i)])
  BY Known
<1> DEFINE got == items[i].got
           len == Len(got)
<1>3. got \in Seq(Classes) /\ len \in Nat /\ DOMAIN got = 1..len
  BY <1>1
<1>4. CASE items[i].step = 0
  <2>1. got = <<>> /\ items[i].phase # "done"
    BY <1>2, <1>4 DEF ItemOk
  <2>2. len = 0
    BY <2>1
  <2> QED
    BY <1>2, <1>3, <2>1, <2>2
<1>5. CASE items[i].step > 0
  <2>1. len = IF items[i].phase = "done" THEN ShotsOf(order) ELSE items[i].step - 1
    BY <1>2, <1>5 DEF ItemOk
  <2> HIDE DEF got, len
  <2>2. len \in 0..Injections /\ (items[i].phase = "done" => len = ShotsOf(order))
    BY <1>1, <1>2, <1>5, <2>1
  <2> QED
    BY <1>3, <2>2 DEF got, len
<1> QED
  BY <1>1, <1>4, <1>5

HitsOf(got, S) == {k \in DOMAIN got : got[k] \in S}
CountsIn(S) == [i \in 1..Total |-> Cardinality(HitsOf(items[i].got, S))]

\* The hits of the items are those of the report.
LEMMA ClassHitsAre ==
  ASSUME ItemsInv, NEW i \in 1..Total, NEW S
  PROVE  /\ HitsOf(items[i].got, S) = {k \in 1..Injections : <<i, k>> \in ClassHits(S)}
         /\ IsFiniteSet(HitsOf(items[i].got, S)) /\ Cardinality(HitsOf(items[i].got, S)) \in Nat
<1> DEFINE got == items[i].got
           len == Len(got)
           hits == HitsOf(got, S)
<1>1. len \in 0..Injections /\ DOMAIN got = 1..len /\ Injections \in Nat
  BY GotIs, Known
<1>2. \A k \in 1..Injections : <<i, k>> \in Injected <=> k <= len
  BY DEF Injected
<1>3. \A k \in 1..Injections : <<i, k>> \in ClassHits(S) <=> k <= len /\ got[k] \in S
  BY <1>2 DEF ClassHits
<1> HIDE DEF got, len
<1>4. hits = {k \in 1..Injections : <<i, k>> \in ClassHits(S)}
  BY <1>1, <1>3 DEF HitsOf
<1>5. IsFiniteSet(1..len) /\ hits \subseteq 1..len
  BY <1>1, FS_Interval DEF HitsOf
<1> HIDE DEF hits
<1>6. IsFiniteSet(hits) /\ Cardinality(hits) \in Nat
  BY <1>5, FS_Subset, FS_CardinalityType
<1> QED
  BY <1>4, <1>6 DEF hits, got

LEMMA SumIs ==
  ASSUME ItemsInv, NEW S PROVE SumOf(CountsIn(S)) = Cardinality(ClassHits(S))
<1>1. Total \in Nat /\ Injections \in Nat
  BY SweepAssumption DEF ItemsInv, Total
<1> DEFINE R == ClassHits(S)
           counts == CountsIn(S)
<1>2. R \subseteq (1..Total) \X (1..Injections)
  BY DEF ClassHits, Injected
<1>3. \A i \in 1..Total : counts[i] = Cardinality({k \in 1..Injections : <<i, k>> \in R})
  BY ClassHitsAre DEF CountsIn
<1>4. counts \in [1..Total -> Nat]
  BY ClassHitsAre DEF CountsIn
<1> HIDE DEF R, counts
<1>5. SumOf(counts) = Cardinality(R)
  <2>1. RowCounts(R, Total, Injections, counts)
    BY <1>1, <1>2, <1>3, <1>4 DEF RowCounts
  <2> QED
    BY ONLY <2>1, SumCounts
<1> QED
  BY <1>5 DEF R, counts

Said == Classes \ {"skipped", "noinj"}

\* What the tools count is how many runs are among them.
LEMMA CountsAre ==
  ASSUME ItemsInv, NEW i \in 1..Total
  PROVE  /\ Diverging(items[i].got) = Cardinality(HitsOf(items[i].got, Tool.diverging))
         /\ CountedOf(items[i].got) = Cardinality(HitsOf(items[i].got, Said))
<1> DEFINE got == items[i].got
<1>1. got \in Seq(Classes) /\ DOMAIN got = 1..Len(got)
  BY GotIs
<1> HIDE DEF got
<1>2. \A k \in DOMAIN got : got[k] \in Classes
  BY ONLY <1>1
<1>3. HitsOf(got, Said) = {k \in DOMAIN got : got[k] \notin {"skipped", "noinj"}}
  BY <1>2 DEF HitsOf, Said
<1>4. CountedOf(got) = Cardinality(HitsOf(got, Said))
  BY <1>3 DEF CountedOf
<1>5. Diverging(got) = Cardinality(HitsOf(got, Tool.diverging))
  BY DEF HitsOf, Diverging
<1> QED
  BY <1>4, <1>5 DEF got

\* A step that does not report selects nothing.
LEMMA QuietVerdict ==
  ASSUME VerdictInv, Going,
         verdict' = verdict \/ \E ending \in {"refused", "raised", "none"} :
                                 verdict' = [verdict EXCEPT !.status = ending]
  PROVE  VerdictInv'
<1>1. /\ verdict = [status |-> verdict.status, n |-> verdict.n, diverging |-> verdict.diverging,
                    selected |-> verdict.selected]
      /\ verdict.status = "running" /\ verdict.selected = {}
  BY DEF VerdictInv, Going
<1>2. PICK ending \in {"running", "refused", "raised", "none"} :
        verdict' = [status |-> ending, n |-> verdict.n, diverging |-> verdict.diverging, selected |-> {}]
  BY <1>1
<1>3. verdict'.status = ending /\ verdict'.selected = {} /\ verdict'.n = verdict.n
      /\ verdict'.diverging = verdict.diverging
  BY <1>2
<1> QED
  BY <1>2, <1>3 DEF VerdictInv

LEMMA SameHits ==
  ASSUME items' = items, order' = order
  PROVE  /\ Total' = Total /\ Tool' = Tool /\ KindOf(order') = KindOf(order)
         /\ \A S : ClassHits(S)' = ClassHits(S)
         /\ \A i \in 1..Total : Selected(i)' = Selected(i)
BY DEF Total, Tool, ClassHits, Injected, Selected, Diverging, CountedOf

LEMMA ReportKeepsVerdict ==
  ASSUME ItemsInv, VerdictInv, ReportTotals PROVE VerdictInv'
<1>1. /\ Going /\ \A i \in 1..Total : items[i].phase \in Over
      /\ items' = items /\ order' = order
  BY DEF ReportTotals, Over
<1> DEFINE n == SumOf([i \in 1..Total |-> CountedOf(items[i].got)])
           diverging == SumOf([i \in 1..Total |-> Diverging(items[i].got)])
<1>2. verdict' = [verdict EXCEPT !.status = "raised"]
      \/ verdict' = [verdict EXCEPT !.status = "reported", !.n = n, !.diverging = diverging]
  BY DEF ReportTotals
<1>3. n = Cardinality(ClassHits(Said))
  <2>1. [i \in 1..Total |-> CountedOf(items[i].got)] = CountsIn(Said)
    BY CountsAre DEF CountsIn
  <2> QED
    BY <2>1, SumIs
<1>4. diverging = Cardinality(ClassHits(Tool.diverging))
  <2>1. [i \in 1..Total |-> Diverging(items[i].got)] = CountsIn(Tool.diverging)
    BY CountsAre DEF CountsIn
  <2> QED
    BY <2>1, SumIs
<1> HIDE DEF n, diverging
<1>5. CASE verdict' = [verdict EXCEPT !.status = "raised"]
  BY <1>1, <1>5, QuietVerdict
<1>6. CASE verdict' = [verdict EXCEPT !.status = "reported", !.n = n, !.diverging = diverging]
  <2>1. /\ verdict = [status |-> verdict.status, n |-> verdict.n, diverging |-> verdict.diverging,
                      selected |-> verdict.selected]
        /\ verdict.selected = {}
    BY <1>1 DEF VerdictInv, Going
  <2>2. verdict' = [status |-> "reported", n |-> n, diverging |-> diverging, selected |-> {}]
    BY <1>6, <2>1
  <2>3. verdict'.status = "reported" /\ verdict'.n = n /\ verdict'.diverging = diverging
        /\ verdict'.selected = {}
    BY <2>2
  <2>4. verdict'.n = Cardinality(ClassHits(Said)') /\ verdict'.diverging = Cardinality(ClassHits(Tool.diverging)')
    BY <1>1, <1>3, <1>4, <2>3, SameHits
  <2> QED
    BY <1>1, <2>2, <2>3, <2>4, SameHits DEF VerdictInv, Said
<1> QED
  BY <1>2, <1>5, <1>6

LEMMA SelectKeepsVerdict ==
  ASSUME ItemsInv, VerdictInv, Select PROVE VerdictInv'
<1>1. /\ items' = items /\ order' = order /\ verdict.status = "reported" /\ Tool.goldens = "own"
  BY DEF Select
<1> DEFINE chosen == {i \in 1..Total : Selected(i)}
<1>2. verdict' = [verdict EXCEPT !.status = "raised"]
      \/ verdict' = [verdict EXCEPT !.status = "selected", !.selected = chosen]
  BY DEF Select
<1>3. /\ verdict = [status |-> verdict.status, n |-> verdict.n, diverging |-> verdict.diverging,
                    selected |-> verdict.selected]
      /\ verdict.selected = {}
      /\ \A i \in 1..Total : items[i].phase \in Over
      /\ verdict.n = Cardinality(ClassHits(Said))
      /\ verdict.diverging = Cardinality(ClassHits(Tool.diverging))
  BY <1>1 DEF VerdictInv, Said
<1>4. \A i \in chosen : i \in 1..Total /\ Selected(i) /\ KindOf(order) = "own"
  BY <1>1 DEF KindOf, Tool
<1> HIDE DEF chosen
<1>5. CASE verdict' = [verdict EXCEPT !.status = "raised"]
  <2>1. verdict'.status = "raised" /\ verdict'.selected = {}
        /\ verdict' = [status |-> verdict'.status, n |-> verdict'.n, diverging |-> verdict'.diverging,
                       selected |-> verdict'.selected]
    BY <1>3, <1>5
  <2> QED
    BY <2>1 DEF VerdictInv
<1>6. CASE verdict' = [verdict EXCEPT !.status = "selected", !.selected = chosen]
  <2>1. verdict'.status = "selected" /\ verdict'.selected = chosen /\ verdict'.n = verdict.n
        /\ verdict'.diverging = verdict.diverging
        /\ verdict' = [status |-> verdict'.status, n |-> verdict'.n, diverging |-> verdict'.diverging,
                       selected |-> verdict'.selected]
    BY <1>3, <1>6
  <2>2. \A i \in 1..Total : items'[i].phase \in Over
    BY <1>1, <1>3
  <2>3. verdict'.n = Cardinality(ClassHits(Said)') /\ verdict'.diverging = Cardinality(ClassHits(Tool.diverging)')
    BY <1>1, <1>3, <2>1, SameHits
  <2>4. \A i \in chosen : i \in 1..Total' /\ Selected(i)' /\ KindOf(order') = "own"
    BY <1>1, <1>4, SameHits
  <2> QED
    BY <1>1, <2>1, <2>2, <2>3, <2>4, SameHits DEF VerdictInv, Said
<1> QED
  BY <1>2, <1>5, <1>6

-----------------------------------------------------------------------------
(* The invariant *)

\* Sweeps begin with everything in the queue, whatever earlier ones have left.
LEMMA SweepInitInv ==
  ASSUME SweepInit PROVE SweepInv
<1>1. MaxItems \in Nat /\ Injections \in Nat /\ Injections >= 1 /\ MAX_JOBS \in Nat
  BY SweepAssumption
<1> DEFINE ItemOf == [phase |-> "queued", step |-> 0, golden |-> NoLine, got |-> <<>>,
                      trouble |-> [k \in 0..Injections |-> "fine"]]
           ShotsIn(tool) == IF tool.goldens = "table" THEN 1 ELSE Injections
<1>2. PICK tool \in Scripts, n \in 0..MaxItems :
        /\ order \in [tool : {tool}, jobs : tool.jobs, programs : ProgramsOf(tool, n),
                      effects : [1..n -> [1..ShotsIn(tool) -> EffectsOn(tool)]]]
        /\ items = [i \in 1..n |-> ItemOf]
        /\ output \in {[d \in Dirs |-> Nothing], Earlier(tool)}
  BY DEF SweepInit
<1>3. /\ goldens = [prog \in 1..MaxItems |-> NoLine]
      /\ climbed = [item |-> 0, best |-> -1, golden |-> NoLine]
      /\ verdict = [status |-> "running", n |-> 0, diverging |-> 0, selected |-> {}]
  BY DEF SweepInit
<1>4. ItemOf \in IsItem /\ ItemOf.phase = "queued" /\ ItemOf.step = 0 /\ ItemOf.got = <<>>
  <2>1. [k \in 0..Injections |-> "fine"] \in [0..Injections -> Troubles]
    BY DEF Troubles
  <2>2. <<>> \in Seq(Classes)
    OBVIOUS
  <2>3. 0 \in 0..Injections /\ NoLine \in Lines /\ "queued" \in ItemPhases
    BY <1>1 DEF Lines, ItemPhases
  <2> QED
    BY <2>1, <2>2, <2>3 DEF IsItem
<1> HIDE DEF ItemOf
<1>5. items \in [1..n -> IsItem] /\ n \in Nat /\ n <= MaxItems
  BY <1>1, <1>2, <1>4
<1>6. items \in Seq(IsItem) /\ Total = n
  BY <1>5, LenIs DEF Total
<1>7. \A i \in 1..Total : items[i].phase = "queued" /\ items[i].step = 0 /\ items[i].got = <<>>
  BY <1>2, <1>4, <1>6
<1>8. tool \in AllScripts
  BY <1>2, SweepAssumption
<1>9. order.tool = tool /\ order.jobs \in tool.jobs /\ order.programs \in ProgramsOf(tool, n)
      /\ order.effects \in [1..n -> [1..ShotsIn(tool) -> EffectsOn(tool)]]
  BY <1>2
<1>10. IsOrder(order, Total)
  <2>1. order.programs \in [1..n -> 1..MaxItems]
    <3>1. \A i \in 1..n : 1 \in 1..MaxItems /\ i \in 1..MaxItems
      BY <1>1, <1>5
    <3> QED
      BY <1>8, <1>9, <3>1, ToolIs DEF ProgramsOf
  <2>2. ShotsOf(order) = ShotsIn(tool)
    BY <1>9 DEF ShotsOf, KindOf
  <2> HIDE DEF ShotsIn
  <2> QED
    BY <1>6, <1>8, <1>9, <2>1, <2>2 DEF IsOrder
<1>11. output \in [Dirs -> IsOutput]
       /\ (tool.goldens = "registered" =>
             \A prog \in 1..MaxItems : output[<<"golden", prog, 0>>].whole =>
                                         output[<<"golden", prog, 0>>].line = GoldenLine(prog))
  <2>1. Nothing \in IsOutput /\ ~ Nothing.whole
    BY DEF Nothing, IsOutput, Lines
  <2>2. \A prog \in 1..MaxItems : <<"golden", prog, 0>> \in Dirs
    BY <1>1 DEF Dirs
  <2>3. CASE output = [d \in Dirs |-> Nothing]
    BY <2>1, <2>2, <2>3
  <2>4. CASE output = Earlier(tool)
    <3> DEFINE EarlierOf(prog) == [line |-> GoldenLine(prog), whole |-> TRUE, injected |-> FALSE]
               ProgOf(d) == IF tool.goldens = "climb" THEN 0 ELSE d[2]
    <3>1. \A prog \in Nat : EarlierOf(prog) \in IsOutput
      BY DEF IsOutput, Lines, GoldenLine, Line, Effects
    <3>2. \A d \in Dirs : d[2] \in Nat
      BY <1>1 DEF Dirs
    <3>5. \A d \in Dirs : ProgOf(d) \in Nat
      BY <3>2
    <3>3. output = [d \in Dirs |->
                      IF d[1] = "golden" /\ d[2] > 0 /\ d[3] = 0 /\ tool.goldens \in {"registered", "climb"}
                      THEN EarlierOf(ProgOf(d)) ELSE Nothing]
      BY <2>4 DEF Earlier
    <3>4. \A prog : EarlierOf(prog).line = GoldenLine(prog)
      OBVIOUS
    <3> HIDE DEF EarlierOf, ProgOf
    <3>6. output \in [Dirs -> IsOutput]
      BY <2>1, <3>1, <3>3, <3>5
    <3>7. ASSUME tool.goldens = "registered", NEW prog \in 1..MaxItems
          PROVE  output[<<"golden", prog, 0>>].line = GoldenLine(prog)
      <4>1. output[<<"golden", prog, 0>>] = EarlierOf(ProgOf(<<"golden", prog, 0>>))
        BY <1>1, <2>2, <3>3, <3>7
      <4>2. ProgOf(<<"golden", prog, 0>>) = prog
        BY <3>7 DEF ProgOf
      <4> QED
        BY <3>4, <4>1, <4>2
    <3> QED
      BY <3>6, <3>7
  <2> QED
    BY <1>2, <2>3, <2>4
<1>12. ItemsInv
  <2>1. goldens \in [1..MaxItems -> Lines]
    BY <1>3 DEF Lines
  <2>2. GoldensInv
    BY <1>3, <1>9, <1>11 DEF GoldensInv, KindOf
  <2>3. \A i \in 1..Total : ItemOk(order, i, items[i], output[Dir(i)])
    <3> TAKE i \in 1..Total
    <3>1. items[i].phase = "queued" /\ items[i].step = 0 /\ items[i].got = <<>> /\ Len(items[i].got) = 0
      BY <1>7
    <3> QED
      BY <3>1 DEF ItemOk
  <2> QED
    BY <1>5, <1>6, <1>10, <1>11, <2>1, <2>2, <2>3 DEF ItemsInv
<1>13. JobsInv
  <2>1. Busy = {}
    BY <1>7 DEF Busy
  <2>2. order.jobs \in Nat
    BY <1>8, <1>9, ToolIs
  <2> QED
    BY <1>7, <2>1, <2>2, FS_EmptySet DEF JobsInv
<1>14. ClimbInv
  <2>1. \A i \in 1..Total : items[i].phase = "queued"
    BY <1>7
  <2>2. climbed.item = 0 /\ climbed.best = -1
        /\ climbed = [item |-> climbed.item, best |-> climbed.best, golden |-> climbed.golden]
    BY <1>3
  <2> QED
    BY <1>5, <1>6, <2>1, <2>2 DEF ClimbInv, Active
<1>15. VerdictInv
  BY <1>3 DEF VerdictInv
<1> QED
  BY <1>12, <1>13, <1>14, <1>15 DEF SweepInv

\* What leaves the items and their outputs alone keeps what is known of them.
LEMMA SameItems ==
  ASSUME ItemsInv, JobsInv, ClimbInv, UNCHANGED <<order, items, output, goldens, climbed>>
  PROVE  ItemsInv' /\ JobsInv' /\ ClimbInv'
<1>1. order' = order /\ items' = items /\ output' = output /\ goldens' = goldens /\ climbed' = climbed
  OBVIOUS
<1>2. Total' = Total /\ Busy' = Busy /\ (Limited' <=> Limited) /\ KindOf(order') = KindOf(order)
      /\ \A i \in 1..Total : (Better(i)' <=> Better(i))
  BY <1>1 DEF Total, Busy, Limited, Tool, Better, Diverging
<1>3. \A i : Dir(i)' = Dir(i)
  <2>1. DirsAre /\ DirsAre'
    BY DirIs, PTL
  <2> QED
    BY <1>1, <2>1 DEF DirsAre
<1>4. ItemsInv'
  BY <1>1, <1>2, <1>3 DEF ItemsInv, GoldensInv
<1>5. JobsInv'
  BY <1>1, <1>2 DEF JobsInv
<1>6. ClimbInv'
  BY <1>1, <1>2 DEF ClimbInv
<1> QED
  BY <1>4, <1>5, <1>6

LEMMA SweepStep ==
  ASSUME SweepInv, [SweepNext]_sweepvars PROVE SweepInv'
<1>1. ItemsInv /\ JobsInv /\ ClimbInv /\ VerdictInv
  BY DEF SweepInv
<1>2. CASE RefuseJobs
  BY <1>1, <1>2, SameItems, QuietVerdict DEF RefuseJobs, SweepInv
<1>3. CASE Begin
  <2>1. verdict' = verdict /\ Going
    BY <1>3 DEF Begin
  <2> QED
    BY <1>1, <1>3, <2>1, BeginKeepsItems, BeginKeepsJobs, BeginKeepsClimb, QuietVerdict DEF SweepInv
<1>4. CASE ReportTotals
  BY <1>1, <1>4, SameItems, ReportKeepsVerdict DEF ReportTotals, SweepInv
<1>5. CASE Select
  BY <1>1, <1>5, SameItems, SelectKeepsVerdict DEF Select, SweepInv
<1>6. ASSUME NEW i \in 1..Total, Launch(i) \/ Gem5Runs(i) \/ TakeGolden(i) \/ TakeRun(i)
      PROVE  SweepInv'
  <2>1. ItemsInv'
    BY <1>1, <1>6, LaunchKeepsItems, Gem5RunsKeepsItems, TakeGoldenKeepsItems, TakeRunKeepsItems
  <2>2. ItemGoes(i)
    BY <1>1, <1>6, ItemsGo
  <2>3. JobsInv'
    BY <1>1, <2>2, ItemKeepsJobs
  <2>4. ClimbInv'
    <3>1. CASE KindOf(order) = "climb"
      BY <1>1, <2>1, <2>2, <3>1, ItemKeepsClimb
    <3>2. CASE KindOf(order) # "climb"
      BY <2>2, <3>2 DEF ItemGoes, ClimbInv
    <3> QED
      BY <3>1, <3>2
  <2>5. verdict' = verdict \/ verdict' = [verdict EXCEPT !.status = "none"]
    BY <1>6 DEF Launch, Gem5Runs, TakeGolden, TakeRun
  <2>6. VerdictInv'
    BY <1>1, <2>2, <2>5, QuietVerdict DEF ItemGoes
  <2> QED
    BY <2>1, <2>3, <2>4, <2>6 DEF SweepInv
<1>7. ASSUME NEW i \in 1..Total, Raise(i) PROVE SweepInv'
  BY <1>1, <1>7, SameItems, QuietVerdict DEF Raise, SweepInv
<1>8. CASE UNCHANGED sweepvars
  <2>1. order' = order /\ items' = items /\ output' = output /\ goldens' = goldens /\ climbed' = climbed
        /\ verdict' = verdict
    BY <1>8 DEF sweepvars
  <2>2. VerdictInv'
    BY <1>1, <2>1, SameHits DEF VerdictInv
  <2> QED
    BY <1>1, <2>1, <2>2, SameItems DEF SweepInv
<1> QED
  BY <1>2, <1>3, <1>4, <1>5, <1>6, <1>7, <1>8 DEF SweepNext

-----------------------------------------------------------------------------
(* What the invariant says of a sweep *)

OwnAre == \A i, k : Own(i, k) = OwnOf(order, i, k)
StaleAre == \A i : Stale(i) <=> StaleItem(order, items[i])

LEMMA NamesAgree == ItemsInv => OwnAre /\ StaleAre
BY DEF OwnAre, StaleAre, Own, OwnOf, Stale, StaleItem, Tool, KindOf

\* Each run is classified by its own fault.
LEMMA RunsAreOwn ==
  ASSUME ItemsInv, NEW r \in Injected
  PROVE  /\ r[1] \in 1..Total /\ r[2] \in 1..Injections
         /\ LET got == items[r[1]].got[r[2]]
            IN  IF Fine(r) THEN got = Own(r[1], r[2]) \/ Stale(r[1])
                ELSE got \in Tool.diverging =>
                       Stale(r[1]) \/ (Tool.timeout = "read" /\ got = Own(r[1], r[2]))
<1> DEFINE i == r[1]
           k == r[2]
<1>1. i \in 1..Total /\ k \in 1..Injections /\ k <= Len(items[i].got)
  BY DEF Injected
<1> HIDE DEF i, k
<1>2. k \in 1..Len(items[i].got)
  <2>1. Len(items[i].got) \in 0..Injections
    BY <1>1, GotIs
  <2> QED
    BY <1>1, <2>1, SweepAssumption
<1>3. ItemOk(order, i, items[i], output[Dir(i)]) /\ Tool = order.tool
  BY <1>1, Known
<1>4. ClassIsOwn(order, i, items[i], k)
  BY <1>2, <1>3 DEF ItemOk
<1>5. Own(i, k) = OwnOf(order, i, k) /\ (Stale(i) <=> StaleItem(order, items[i]))
  BY NamesAgree DEF OwnAre, StaleAre
<1>6. Fine(r) <=> items[i].trouble[k] = "fine"
  BY DEF Fine, i, k
<1> QED
  BY <1>1, <1>3, <1>4, <1>5, <1>6 DEF ClassIsOwn, i, k

\* No more processes run than the machine bears.
LEMMA JobsAreFew ==
  ASSUME ItemsInv, JobsInv
  PROVE  Cardinality(Busy) <= order.jobs /\ (Tool.goldens # "own" => Cardinality(Busy) <= MAX_JOBS)
<1>1. Cardinality(Busy) <= order.jobs /\ (Busy # {} /\ Limited => order.jobs \in 1..MAX_JOBS)
  BY DEF JobsInv
<1>2. MAX_JOBS \in Nat \ {0}
  BY SweepAssumption
<1>3. /\ Tool = order.tool /\ Total \in Nat /\ order.jobs \in Nat
      /\ Tool.goldens \in {"table", "registered", "own", "climb"}
      /\ Tool.goldens \in {"registered", "climb"} => order.jobs = 1
  BY ToolIs DEF ItemsInv, IsOrder, Tool, Total
<1>4. Cardinality(Busy) \in Nat
  <2>1. IsFiniteSet(1..Total)
    BY <1>3, FS_Interval
  <2>2. Busy \subseteq 1..Total
    BY DEF Busy
  <2> HIDE DEF Busy
  <2> QED
    BY <2>1, <2>2, FS_Subset, FS_CardinalityType
<1>5. CASE Busy = {}
  <2>1. Cardinality(Busy) = 0
    BY <1>5, FS_EmptySet
  <2> QED
    BY <1>1, <1>2, <2>1
<1>6. CASE Busy # {}
  BY <1>1, <1>2, <1>3, <1>4, <1>6 DEF Limited
<1> QED
  BY <1>5, <1>6

LEMMA InjectedIsFinite ==
  ASSUME ItemsInv PROVE IsFiniteSet(Injected)
<1>1. IsFiniteSet(1..Total) /\ IsFiniteSet(1..Injections)
  BY FS_Interval, SweepAssumption DEF ItemsInv, Total
<1>2. IsFiniteSet((1..Total) \X (1..Injections))
  BY <1>1, FS_Product
<1>3. Injected \subseteq (1..Total) \X (1..Injections)
  BY DEF Injected
<1> HIDE DEF Injected
<1> QED
  BY <1>2, <1>3, FS_Subset

\* A report counts each run once, and all of them if none was disturbed.
LEMMA ReportIsTrue ==
  ASSUME ItemsInv, VerdictInv, verdict.status \in {"reported", "selected"}
  PROVE  /\ Troubled = {} => /\ verdict.diverging = Cardinality(OwnDiverging)
                             /\ Cardinality(Injected) = Total * Shots
         /\ verdict.n <= Cardinality(Injected) /\ verdict.diverging <= verdict.n
<1>1. /\ \A i \in 1..Total : items[i].phase \in Over
      /\ verdict.n = Cardinality(ClassHits(Said))
      /\ verdict.diverging = Cardinality(ClassHits(Tool.diverging))
  BY DEF VerdictInv, Said
<1>2. Tool.diverging \subseteq Said /\ Total \in Nat /\ Tool = order.tool
  BY ToolIs DEF ItemsInv, IsOrder, Said, Classes, Tool, Total
<1>3. verdict.n <= Cardinality(Injected) /\ verdict.diverging <= verdict.n
  <2>1. ClassHits(Said) \subseteq Injected /\ ClassHits(Tool.diverging) \subseteq ClassHits(Said)
    BY <1>2 DEF ClassHits
  <2>2. IsFiniteSet(Injected)
    BY InjectedIsFinite
  <2>3. IsFiniteSet(ClassHits(Said)) /\ Cardinality(ClassHits(Said)) <= Cardinality(Injected)
    BY <2>1, <2>2, FS_Subset
  <2>4. Cardinality(ClassHits(Tool.diverging)) <= Cardinality(ClassHits(Said))
    BY <2>1, <2>3, FS_Subset
  <2> QED
    BY <1>1, <2>3, <2>4
<1>4. ASSUME Troubled = {}
      PROVE  verdict.diverging = Cardinality(OwnDiverging) /\ Cardinality(Injected) = Total * Shots
  <2>1. \A i \in 1..Total, k \in 0..Injections : items[i].trouble[k] = "fine"
    <3> TAKE i \in 1..Total, k \in 0..Injections
    <3>1. <<i, k>> \notin Troubled
      BY <1>4
    <3> QED
      BY <3>1 DEF Troubled
  <2>2. 0 \in 0..Injections /\ \A k \in 1..Injections : k \in 0..Injections
    BY SweepAssumption
  <2>3. \A r \in Injected : items[r[1]].got[r[2]] = Own(r[1], r[2])
    <3> TAKE r \in Injected
    <3>1. r[1] \in 1..Total /\ r[2] \in 1..Injections
      BY RunsAreOwn
    <3>2. Fine(r) /\ ~ Stale(r[1])
      BY <2>1, <2>2, <3>1 DEF Fine, Stale
    <3> QED
      BY <3>2, RunsAreOwn
  <2>4. ClassHits(Tool.diverging) = OwnDiverging
    BY <2>3 DEF ClassHits, OwnDiverging
  <2>5. \A i \in 1..Total : Len(items[i].got) = ShotsOf(order)
    <3> TAKE i \in 1..Total
    <3>1. items[i].phase # "failed"
      BY <2>1, <2>2, Known DEF ItemOk
    <3> QED
      BY <1>1, <3>1, GotIs DEF Over
  <2>6. Cardinality(Injected) = Total * Shots
    <3>1. CASE Total = 0
      <4>1. Injected = {}
        BY <3>1 DEF Injected
      <4>2. Cardinality(Injected) = 0
        BY <4>1, FS_EmptySet
      <4>3. Shots \in Nat
        BY SweepAssumption DEF Shots
      <4> QED
        BY <3>1, <4>2, <4>3
    <3>2. CASE Total # 0
      <4>1. 1 \in 1..Total
        BY <1>2, <3>2
      <4>2. Shots = ShotsOf(order) /\ Shots \in 1..Injections /\ Injections \in Nat
        BY <4>1, Known
      <4> DEFINE all == (1..Total) \X (1..Shots)
      <4>3. Injected = all
        <5>1. \A r : r \in Injected <=> r \in (1..Total) \X (1..Injections) /\ r[2] <= Shots
          BY <2>5, <4>2 DEF Injected
        <5>2. \A r : r \in all <=> r \in (1..Total) \X (1..Injections) /\ r[2] <= Shots
          BY <4>2
        <5> HIDE DEF all
        <5> QED
          BY <5>1, <5>2
      <4>4. IsFiniteSet(1..Total) /\ Cardinality(1..Total) = Total
        BY <1>2, FS_Interval
      <4>5. IsFiniteSet(1..Shots) /\ Cardinality(1..Shots) = Shots
        BY <4>2, FS_Interval
      <4>6. Cardinality(all) = Cardinality(1..Total) * Cardinality(1..Shots)
        BY <4>4, <4>5, FS_Product
      <4> QED
        BY <4>3, <4>4, <4>5, <4>6
    <3> QED
      BY <3>1, <3>2
  <2> QED
    BY <1>1, <2>4, <2>6
<1> QED
  BY <1>3, <1>4

\* An entry that is selected diverged, from its own golden output.
LEMMA SelectedDiverge ==
  ASSUME ItemsInv, VerdictInv, NEW i \in verdict.selected
  PROVE  /\ items[i].golden = GoldenLine(order.programs[i])
         /\ \E k \in 1..Injections : Own(i, k) \in Tool.diverging
<1>1. i \in 1..Total /\ Selected(i) /\ KindOf(order) = "own"
  BY DEF VerdictInv
<1> DEFINE it == items[i]
           hits == HitsOf(it.got, Tool.diverging)
<1>2. it.phase = "done" /\ CountedOf(it.got) > 0 /\ Diverging(it.got) * 8 >= CountedOf(it.got) * 7
  BY <1>1 DEF Selected
<1>3. /\ Diverging(it.got) = Cardinality(hits) /\ Cardinality(hits) \in Nat /\ IsFiniteSet(hits)
      /\ CountedOf(it.got) \in Nat
  BY <1>1, CountsAre, ClassHitsAre
<1>4. Cardinality(hits) # 0
  BY <1>2, <1>3
<1>5. PICK k \in DOMAIN it.got : it.got[k] \in Tool.diverging
  <2>1. hits # {}
    BY <1>4, FS_EmptySet
  <2> QED
    BY <2>1 DEF HitsOf
<1>6. DOMAIN it.got = 1..Len(it.got) /\ Len(it.got) \in 0..Injections /\ Injections \in Nat
  BY <1>1, GotIs, SweepAssumption
<1>7. k \in 1..Injections /\ <<i, k>> \in Injected
  BY <1>1, <1>5, <1>6 DEF Injected
<1>8. Tool.timeout = "no_output"
  BY <1>1, ToolIs DEF ItemsInv, IsOrder, Tool, KindOf
<1>9. ~ Stale(i)
  BY <1>1 DEF Stale, Tool, KindOf
<1>10. Own(i, k) \in Tool.diverging
  <2> DEFINE r == <<i, k>>
  <2>1. r \in Injected /\ r[1] = i /\ r[2] = k
    BY <1>7
  <2> HIDE DEF r
  <2>2. LET got == items[r[1]].got[r[2]]
        IN  IF Fine(r) THEN got = Own(r[1], r[2]) \/ Stale(r[1])
            ELSE got \in Tool.diverging =>
                   Stale(r[1]) \/ (Tool.timeout = "read" /\ got = Own(r[1], r[2]))
    BY <2>1, RunsAreOwn
  <2> QED
    BY <1>5, <1>8, <1>9, <2>1, <2>2
<1>11. it.golden = GoldenLine(order.programs[i])
  <2>1. ItemOk(order, i, it, output[Dir(i)]) /\ it.step \in 0..Injections
    BY <1>1, Known, ItemIs
  <2>2. it.step > 0
    BY <1>2, <2>1, SweepAssumption DEF ItemOk
  <2>3. ~ StaleItem(order, it)
    BY <1>1 DEF StaleItem
  <2> QED
    BY <2>1, <2>2, <2>3 DEF ItemOk
<1> QED
  BY <1>7, <1>10, <1>11

LEMMA SweepInvImplies ==
  ASSUME SweepInv PROVE SweepIsSound
<1>1. ItemsInv /\ JobsInv /\ ClimbInv /\ VerdictInv
  BY DEF SweepInv
<1>2. Tool.goldens = "climb" =>
        \A i \in 1..Total : items[i].phase = "done" =>
          Diverging(items[i].got) <= climbed.best
            /\ (i < climbed.item => Diverging(items[i].got) < climbed.best)
  BY <1>1 DEF ClimbInv, Better, KindOf, Tool
<1> QED
  BY <1>1, <1>2, RunsAreOwn, JobsAreFew, ReportIsTrue, SelectedDiverge DEF SweepIsSound

\* Whatever runs beside it or went before, a run of a sweep, a campaign, an evaluation or a
\* climb is classified by its own fault, what is reported counts each run once, and what is
\* selected did diverge.
THEOREM SweepsAreSound == SweepSpec => []SweepIsSound
<1>1. SweepInit => SweepInv
  BY SweepInitInv
<1>2. SweepInv /\ [SweepNext]_sweepvars => SweepInv'
  BY SweepStep
<1>3. SweepInv => SweepIsSound
  BY SweepInvImplies
<1> QED
  BY <1>1, <1>2, <1>3, PTL DEF SweepSpec
=============================================================================
