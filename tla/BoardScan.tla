------------------------------ MODULE BoardScan ------------------------------
(***************************************************************************)
(* Scanning real machines over ssh.  One job deploys the tools to a device *)
(* and scans it (sdc_experiment: deploy.py, hw_scan.py, devices/); another *)
(* scans all boards at once with a thread each, polls them meanwhile and   *)
(* collects their logs afterwards (scripts: distributed_scan.py,           *)
(* collect_results.py).  Both go through ssh_lib.py, which returns what it *)
(* has of the output whether or not the connection held; remote_device.py  *)
(* takes a missing exit code for 1.                                        *)
(*                                                                         *)
(* A log is a sequence of lines: "sdc" says outcome 2 to 4 of a snap,      *)
(* "runaway" and "misbehave" 5 and 6, "segv" a signal outside of a snap,   *)
(* and "mismatch" has that word or SNAPSHOT_FAILED in it, which a failure  *)
(* of any kind may write once, more often or not at all.                   *)
(***************************************************************************)
EXTENDS Integers, Sequences, SequencesExt, FiniteSets

CONSTANTS Boards, LocalBoard, \* the board the script runs on is one of them
          LogKinds,           \* what the orchestrator of the device logs here ...
          BoardKinds,         \* ... and those of the boards
          CorpusFiles,        \* in the directory that is deployed
          MaxLogged, MaxLost  \* bounds: entries of a log, calls that fail

ASSUME BoardAssumption ==
  /\ IsFiniteSet(Boards) /\ LocalBoard \in Boards
  /\ CorpusFiles \in Nat \ {0} /\ MaxLogged \in Nat /\ MaxLost \in Nat

VARIABLES errand,  \* what is asked for: the kind of device, options, the job's phase
          dev,     \* the device of the first job
          found,   \* what that job returned
          boards,  \* the boards of the second, with their threads
          results, \* the dictionary its threads share
          summary, \* what its main thread printed, and what was collected
          lost     \* connections that failed

boardvars == <<errand, dev, found, boards, results, summary, lost>>

-----------------------------------------------------------------------------
(* Logs and connections *)

Count(log, kinds) == Cardinality({i \in DOMAIN log : log[i] \in kinds})
SdcKinds == {"sdc"}
FailedKinds == {"sdc", "runaway", "misbehave"}

\* parse_log: one definition for all the scripts.
ParseLog(log) == [sdc_hits |-> Count(log, SdcKinds), total_failed |-> Count(log, FailedKinds)]

\* What _run makes of a command: it ran and is told, it ran and the answer is lost, or
\* it did not run.
Net(remote) == IF remote THEN {"whole", "cut", "refused"} ELSE {"whole"}
GotThrough(net) == net # "refused"
LoseFor(nets) ==
  /\ lost' = lost + Cardinality({i \in DOMAIN nets : nets[i] # "whole"})
  /\ lost' <= MaxLost

\* RemoteDevice._ssh: the exit code is in the output.
Rc(net, rc) == IF net = "whole" THEN rc ELSE 1

\* The exit code of an orchestrator.
OrchestratorRc(log) == IF Count(log, {"sdc", "misbehave"}) > 0 THEN 1 ELSE 0
CanRun(tool) == tool \in {"old", "new"}

-----------------------------------------------------------------------------
(* deploy.py *)

Remote == errand.device = "remote"
Unreported == [status |-> "none"]
GoTo(phase) == errand' = [errand EXCEPT !.phase = phase]
Device == UNCHANGED <<boards, results, summary>>

\* The tool is there with the same checksum, or it has to be sent; of an answer that is
\* cut the checksum may have come.
CompareMd5 ==
  /\ errand.phase = "md5" /\ Device /\ UNCHANGED dev
  /\ IF ~errand.source
     THEN /\ found' = [found EXCEPT !.tool = "FAILED(no source)"]
          /\ GoTo("corpus") /\ UNCHANGED lost
     ELSE \E net \in Net(Remote) :
            /\ LoseFor(<<net>>)
            /\ \E seen \in IF net = "cut" THEN BOOLEAN ELSE {net = "whole"} :
                 GoTo(IF seen /\ dev.tool = "new" /\ ~errand.force THEN "skip" ELSE "put")
            /\ UNCHANGED found

\* RemoteDevice.put: scp may end early or not begin, then `test -f` decides.
\* LocalDevice.put removes the old file before it copies, and may fail then.
PutTool ==
  /\ errand.phase = "put" /\ Device
  /\ \E copy \in {"whole", "cut", "refused"}, net \in Net(Remote) :
       /\ LoseFor(<<copy, net>>)
       /\ \E tool \in CASE copy = "whole" -> {"new"}
                       [] copy = "cut" -> {"part"}
                       [] OTHER -> IF Remote THEN {dev.tool} ELSE {"none"} :
            LET ok == IF Remote THEN Rc(net, IF tool = "none" THEN 1 ELSE 0) = 0
                      ELSE copy = "whole"
            IN  /\ dev' = [dev EXCEPT !.tool = tool]
                /\ GoTo(IF ok THEN "probe" ELSE "corpus")
                /\ found' = [found EXCEPT !.tool = IF ok THEN @ ELSE "FAILED(put)"]

\* _probe_help: codes 0 and 1 with some output will do, which is also what a refused
\* connection looks like.
ProbeTool ==
  /\ errand.phase \in {"probe", "skip"} /\ Device /\ UNCHANGED dev
  /\ \E net \in Net(Remote) :
       /\ LoseFor(<<net>>)
       /\ \E said \in IF net = "cut" THEN BOOLEAN ELSE {TRUE} :
            LET ok == Rc(net, IF CanRun(dev.tool) THEN 0 ELSE 126) \in {0, 1} /\ said
            IN  found' = [found EXCEPT !.tool =
                  IF errand.phase = "skip"
                  THEN IF ok THEN "skip(md5 match)" ELSE "BAD(probe after skip)"
                  ELSE IF ok THEN "deployed" ELSE "BAD(probe)"]
  /\ GoTo("corpus")

\* The directory is sent and `test -d` decides.
PutCorpus ==
  /\ errand.phase = "corpus" /\ Device
  /\ GoTo("work")
  /\ IF errand.corpus # "dir" THEN UNCHANGED <<dev, found, lost>>
     ELSE \E copy \in Net(Remote), net \in Net(Remote) :
            /\ LoseFor(<<copy, net>>)
            /\ \E files \in CASE copy = "whole" -> {CorpusFiles}
                             [] copy = "cut" -> 0..(CorpusFiles - 1)
                             [] OTHER -> {-1} :
                 /\ dev' = [dev EXCEPT !.files = files]
                 /\ found' = [found EXCEPT !.corpus = Rc(net, IF files >= 0 THEN 0 ELSE 1) = 0]

-----------------------------------------------------------------------------
(* hw_scan.py *)

MakeWork ==
  /\ errand.phase = "work" /\ Device /\ UNCHANGED found
  /\ \E net \in Net(Remote) :
       /\ LoseFor(<<net>>)
       /\ dev' = [dev EXCEPT !.work = GotThrough(net)]
  /\ GoTo("list")

ErrorResult(why) == [status |-> why, orch_rc |-> -1, sdc_hits |-> 0, total_failed |-> 0]

\* A directory is listed and its lines are counted; anything else has to be a file.
ListCorpus ==
  /\ errand.phase = "list" /\ Device
  /\ \E isdir, list, count \in Net(Remote) :
       LET dir == Rc(isdir, IF errand.corpus = "dir" /\ dev.files >= 0 THEN 0 ELSE 1) = 0
           lines == IF ~dev.work \/ ~GotThrough(list) THEN 0
                    ELSE IF dir THEN dev.files ELSE 1
           good == IF dir THEN count = "whole" /\ lines >= 1
                   ELSE /\ Rc(count, IF errand.corpus = "file" THEN 0 ELSE 1) = 0
                        /\ Rc(list, IF dev.work THEN 0 ELSE 1) = 0
       IN  /\ LoseFor(<<isdir, list, count>>)
           /\ dev' = [dev EXCEPT !.listed = lines]
           /\ IF good THEN GoTo("metadata") /\ UNCHANGED found
              ELSE GoTo("reported") /\ found' = [found EXCEPT !.scan = ErrorResult("no corpus")]

WriteMetadata ==
  /\ errand.phase = "metadata" /\ Device /\ UNCHANGED found
  /\ \E net \in Net(Remote) :
       /\ LoseFor(<<net>>)
       /\ dev' = [dev EXCEPT !.metadata = GotThrough(net) /\ dev.work]
  /\ GoTo("start")

\* The orchestrator runs if it can, and ends at once without what it needs.
StartScan ==
  /\ errand.phase = "start" /\ Device /\ UNCHANGED found
  /\ \E net \in Net(Remote) :
       /\ LoseFor(<<net>>)
       /\ GoTo(IF net = "whole" THEN "wait" ELSE "read")
       /\ dev' = IF ~GotThrough(net) \/ ~dev.work THEN dev
                 ELSE IF ~CanRun(dev.tool) THEN [dev EXCEPT !.orch = "ended", !.rc = 126, !.logged = TRUE]
                 ELSE IF ~dev.metadata THEN [dev EXCEPT !.orch = "ended", !.rc = 1, !.logged = TRUE]
                 ELSE [dev EXCEPT !.orch = "running", !.logged = TRUE]

OrchestratorLogs ==
  /\ dev.orch = "running" /\ Len(dev.log) < MaxLogged
  /\ \E kind \in LogKinds : dev' = [dev EXCEPT !.log = Append(@, kind)]
  /\ Device /\ UNCHANGED <<errand, found, lost>>

\* Of its own accord, or by `timeout`.
OrchestratorEnds ==
  /\ dev.orch = "running"
  /\ \E rc \in {OrchestratorRc(dev.log), 124} :
       dev' = [dev EXCEPT !.orch = "ended", !.rc = rc]
  /\ Device /\ UNCHANGED <<errand, found, lost>>

\* "echo ORCH_RC=$?" comes through, at once if nothing could be started.
ScanReturns ==
  /\ errand.phase = "wait" /\ dev.orch # "running" /\ Device
  /\ found' = [found EXCEPT !.orch_rc = IF dev.orch = "ended" THEN dev.rc ELSE 1]
  /\ GoTo("read") /\ UNCHANGED <<dev, lost>>

\* The connection goes while the scan runs, which goes on.
ScanIsLeft ==
  /\ errand.phase = "wait" /\ Remote /\ Device
  /\ LoseFor(<<"cut">>)
  /\ GoTo("read") /\ UNCHANGED <<dev, found>>

\* Mutant: what came of the log is parsed whatever the exit code of `cat`.
CameAtAll(net) == GotThrough(net)

CameWhole(net) == Rc(net, IF dev.logged THEN 0 ELSE 1) = 0

\* With an answer that is cut, a part of the log came.
ReadLog ==
  /\ errand.phase = "read" /\ Device /\ UNCHANGED dev
  /\ \E net \in Net(Remote), n \in 0..Len(dev.log) :
       /\ net = "cut" \/ n = Len(dev.log)
       /\ LoseFor(<<net>>)
       /\ found' = [found EXCEPT !.scan =
            IF ~CameWhole(net) THEN ErrorResult("no log")
            ELSE LET parsed == ParseLog(SubSeq(dev.log, 1, n))
                 IN  [status |-> "ok", orch_rc |-> found.orch_rc,
                      sdc_hits |-> parsed.sdc_hits, total_failed |-> parsed.total_failed]]
  /\ GoTo("reported")

DeviceNext ==
  \/ CompareMd5 \/ PutTool \/ ProbeTool \/ PutCorpus
  \/ MakeWork \/ ListCorpus \/ WriteMetadata \/ StartScan \/ ScanReturns \/ ScanIsLeft \/ ReadLog
  \/ OrchestratorLogs \/ OrchestratorEnds

-----------------------------------------------------------------------------
(* distributed_scan.py *)

Scanning == errand.phase = "boards"
Distributed == UNCHANGED <<dev, found>>
IsLocal(b) == b = LocalBoard
NoLog == <<"none">>

\* board_scan_thread: the log is begun anew, if the board can be reached and has the
\* directory; without it only the closing line, SCAN_DONE, is printed.  The call may
\* raise before anything is started.
BoardStarts(b) ==
  /\ Scanning /\ boards[b].thread = "start" /\ Distributed
  /\ \/ /\ LoseFor(<<"whole">>)
        /\ boards' = [boards EXCEPT ![b] =
                        [@ EXCEPT !.thread = "wait", !.orch = "running", !.log = <<>>]]
     \/ /\ ~IsLocal(b) /\ boards[b].log = NoLog /\ LoseFor(<<"whole">>)
        /\ boards' = [boards EXCEPT ![b] = [@ EXCEPT !.thread = "return", !.closed = TRUE]]
     \/ /\ ~IsLocal(b) /\ LoseFor(<<"refused">>)
        /\ boards' = [boards EXCEPT ![b].thread = "return"]
     \/ /\ LoseFor(<<"raised">>)
        /\ boards' = [boards EXCEPT ![b].thread = "raise"]
  /\ UNCHANGED <<errand, results, summary>>

BoardLogs(b) ==
  /\ boards[b].orch = "running" /\ Len(boards[b].log) < MaxLogged
  /\ \E kind \in BoardKinds : boards' = [boards EXCEPT ![b].log = Append(@, kind)]
  /\ Distributed /\ UNCHANGED <<errand, results, summary, lost>>

BoardEnds(b) ==
  /\ boards[b].orch = "running"
  /\ boards' = [boards EXCEPT ![b].orch = "ended"]
  /\ Distributed /\ UNCHANGED <<errand, results, summary, lost>>

\* The answer is there, or what there is of it without the closing line; on the local
\* board a scan that takes too long, or output that does not decode, raises.
BoardAnswers(b) ==
  /\ boards[b].thread = "wait" /\ Distributed
  /\ \/ /\ boards[b].orch = "ended" /\ UNCHANGED lost
        /\ boards' = [boards EXCEPT ![b] = [@ EXCEPT !.thread = "return", !.closed = TRUE]]
     \/ /\ ~IsLocal(b) /\ LoseFor(<<"cut">>)
        /\ boards' = [boards EXCEPT ![b].thread = "return"]
     \/ /\ IsLocal(b) /\ LoseFor(<<"raised">>)
        /\ boards' = [boards EXCEPT ![b].thread = "raise"]
  /\ UNCHANGED <<errand, results, summary>>

\* The entry of the board is replaced, with what a poll has put there.  Whatever came of
\* the output, the status is "done" if nothing was raised.
BoardReturns(b) ==
  /\ boards[b].thread \in {"return", "raise"} /\ Distributed
  /\ boards' = [boards EXCEPT ![b].thread = "done"]
  /\ results' = [results EXCEPT ![b] =
       [status |-> IF boards[b].thread = "return" THEN "done" ELSE "error",
        closed |-> boards[b].closed, stat |-> <<>>]]
  /\ UNCHANGED <<errand, summary, lost>>

\* The numbers that the first digits of n write; 0 stands for none of them.
Beginnings(n) == {m \in 0..n : \E k \in 0..n : m = n \div (10 ^ k)}

\* `grep -c` for two kinds of lines, whatever is parsed of them later; nothing of a file
\* that is not there, which on the local board is none the scan writes.
Counts(b) ==
  IF IsLocal(b) \/ boards[b].log = NoLog THEN <<>>
  ELSE <<Count(boards[b].log, {"segv"}), Count(boards[b].log, {"mismatch"})>>

\* The numbers in what _run returns of such an answer.
Arrives(counts, net) ==
  CASE net = "whole" -> {counts}
    [] net = "refused" -> {<<>>}
    [] net = "cut" ->
         {<<>>} \cup IF counts = <<>> THEN {}
                    ELSE {<<m>> : m \in Beginnings(counts[1])}
                           \cup {<<counts[1], m>> : m \in Beginnings(counts[2])}

\* The threads of the polls end with the script.
Polling(b, at) == Scanning /\ summary.main \in {"running", "print", "dump"} /\ boards[b].poll = at

\* poll_status; of a call that raises nothing is stored.
PollReads(b) ==
  /\ Polling(b, "asleep") /\ Distributed
  /\ \/ \E net \in Net(TRUE) : \E stat \in Arrives(Counts(b), net) :
          /\ LoseFor(<<net>>)
          /\ boards' = [boards EXCEPT ![b] = [@ EXCEPT !.poll = "read", !.stat = stat]]
     \/ LoseFor(<<"raised">>) /\ UNCHANGED boards
  /\ UNCHANGED <<errand, results, summary>>

Polled(board) ==
  [board EXCEPT !.poll = IF summary.main = "running" THEN "asleep" ELSE "stopped", !.stat = <<>>]

\* Mutant: the poll stores an entry of its own.
PollReplaces(b) ==
  /\ Polling(b, "read") /\ Distributed
  /\ boards' = [boards EXCEPT ![b] = Polled(@)]
  /\ results' = [results EXCEPT ![b] = [status |-> "?", closed |-> FALSE, stat |-> boards[b].stat]]
  /\ UNCHANGED <<errand, summary, lost>>

\* Storing it may change a dictionary while the main thread writes it out.
PollStores(b) ==
  /\ Polling(b, "read") /\ Distributed
  /\ boards' = [boards EXCEPT ![b] = Polled(@)]
  /\ results' = [results EXCEPT ![b].stat = boards[b].stat]
  /\ \/ UNCHANGED summary
     \/ summary.main = "dump" /\ summary' = [summary EXCEPT !.main = "crashed"]
  /\ UNCHANGED <<errand, lost>>

\* The scan threads are joined, the results are printed, then written to a file.
JoinBoards ==
  /\ Scanning /\ summary.main = "running" /\ \A b \in Boards : boards[b].thread = "done"
  /\ summary' = [summary EXCEPT !.main = "print"]
  /\ Distributed /\ UNCHANGED <<errand, boards, results, lost>>

HitsIn(stat) == IF Len(stat) >= 2 THEN stat[2] ELSE 0

PrintSummary ==
  /\ summary.main = "print"
  /\ summary' = [summary EXCEPT !.main = "dump",
       !.printed = [b \in Boards |-> [status |-> results[b].status, closed |-> results[b].closed,
                                      sdc |-> HitsIn(results[b].stat)]]]
  /\ Distributed /\ UNCHANGED <<errand, boards, results, lost>>

DumpSummary ==
  /\ summary.main = "dump"
  /\ summary' = [summary EXCEPT !.main = "over"]
  /\ Distributed /\ UNCHANGED <<errand, boards, results, lost>>

\* collect_one, of whatever the logs are by then; a log that does not come counts as
\* one without hits.
Collect ==
  /\ summary.main \in {"over", "crashed"}
  /\ \E net \in [Boards -> Net(TRUE)] :
       /\ net[LocalBoard] = "whole" /\ LoseFor(net)
       /\ \E n \in [Boards -> 0..MaxLogged] :
            /\ \A b \in Boards : CASE net[b] = "whole" -> n[b] = Len(boards[b].log)
                                   [] net[b] = "cut" -> n[b] <= Len(boards[b].log)
                                   [] OTHER -> n[b] = 0
            /\ summary' = [summary EXCEPT !.main = "collected",
                 !.collected = [b \in Boards |-> ParseLog(SubSeq(boards[b].log, 1, n[b])).sdc_hits]]
  /\ Distributed /\ UNCHANGED <<errand, boards, results>>

BoardsNext ==
  \/ \E b \in Boards :
       BoardStarts(b) \/ BoardLogs(b) \/ BoardEnds(b) \/ BoardAnswers(b) \/ BoardReturns(b)
         \/ PollReads(b) \/ PollStores(b)
  \/ JoinBoards \/ PrintSummary \/ DumpSummary \/ Collect

-----------------------------------------------------------------------------
NewBoard(log) ==
  [thread |-> "start", orch |-> "idle", log |-> log, before |-> log, closed |-> FALSE,
   poll |-> "asleep", stat |-> <<>>]

BoardInit ==
  /\ errand \in [phase : {"md5"}, device : {"local", "remote"}, source : BOOLEAN, force : BOOLEAN,
                 corpus : {"dir", "file"}]
              \union [phase : {"boards"}, device : {"remote"}]
  /\ \E tool \in {"none", "old", "new"} :
       /\ errand.phase = "boards" => tool = "none"
       /\ dev = [tool |-> tool, files |-> -1, work |-> FALSE, listed |-> 0, metadata |-> FALSE,
                 orch |-> "idle", rc |-> 0, logged |-> FALSE, log |-> <<>>]
  /\ found = [tool |-> "none", corpus |-> FALSE, orch_rc |-> -1, scan |-> Unreported]
  /\ \E old \in {NoLog, <<"sdc", "mismatch">>} :
       /\ errand.phase = "md5" => old = NoLog
       /\ boards = [b \in Boards |-> NewBoard(old)]
  /\ results = [b \in Boards |-> [status |-> "?", closed |-> FALSE, stat |-> <<>>]]
  /\ summary = [main |-> "running", printed |-> <<>>, collected |-> <<>>]
  /\ lost = 0

BoardNext == DeviceNext \/ BoardsNext

\* The jobs came to their end and nothing goes on.
BoardEnded ==
  \/ errand.phase = "reported" /\ dev.orch # "running"
  \/ summary.main = "collected" /\ \A b \in Boards : boards[b].orch # "running"

BoardSpec == BoardInit /\ [][BoardNext]_boardvars

-----------------------------------------------------------------------------
\* A tool that is said to be there is the one at hand, if the device was always
\* reached or the checksums were compared; a scan that is reported with an exit code
\* was parsed from the whole log of a scan that had ended, and one with exit code 0 has
\* run a whole corpus list without a mismatch.
DeviceReportIsTrue ==
  /\ found.tool = "skip(md5 match)" \/ (found.tool = "deployed" /\ lost = 0) => dev.tool = "new"
  /\ found.scan.status = "ok" =>
       /\ found.scan.total_failed <= Count(dev.log, FailedKinds)
       /\ found.scan.orch_rc >= 0 =>
            /\ dev.orch = "ended"
            /\ found.scan.sdc_hits = Count(dev.log, {"sdc"})
            /\ found.scan.total_failed = Count(dev.log, {"sdc", "runaway", "misbehave"})
       /\ found.scan.orch_rc = 0 =>
            found.scan.sdc_hits = 0 /\ CanRun(dev.tool) /\ dev.metadata /\ dev.listed > 0

\* What is printed of a board is the result its thread stored, whatever polls come
\* between; "done" alone says nothing, but under the closing line the command has ended,
\* with a log of this scan or with none, and without a failed call every board has that
\* line.  The hits printed were lines of a log of the board, of this scan or the last.
\* Collected are hits of the board's log, and all of them if no connection failed or,
\* on the local board, the scan has ended.
BoardReportIsTrue ==
  LET Matches(log) == Count(log, {"mismatch"})
      Hits(log) == Count(log, {"sdc"})
  IN  /\ summary.printed # <<>> =>
           \A b \in Boards :
             LET entry == summary.printed[b]
             IN  /\ entry.status \in {"done", "error"}
                 /\ entry.closed => /\ entry.status = "done"
                                    /\ boards[b].orch = "ended" \/ boards[b].log = NoLog
                 /\ lost = 0 => entry.closed
                 /\ entry.sdc <= Matches(boards[b].log) \/ entry.sdc <= Matches(boards[b].before)
      /\ summary.main = "collected" =>
           \A b \in Boards :
             /\ summary.collected[b] <= Hits(boards[b].log)
             /\ lost = 0 \/ (b = LocalBoard /\ results[b].closed)
                  => summary.collected[b] = Hits(boards[b].log)

ReportsAreTrue == DeviceReportIsTrue /\ BoardReportIsTrue
=============================================================================
