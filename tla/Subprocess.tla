----------------------------- MODULE Subprocess -----------------------------
(***************************************************************************)
(* Subprocess (util/subprocess.cc) used by several threads of one process: *)
(* each call makes a pipe, vforks a child that writes to it, reads it to   *)
(* its end and waits for the child.  No descriptor is close-on-exec, so a  *)
(* child also inherits the write ends other threads have open just then.   *)
(*                                                                         *)
(* pipe_writers[t] are the processes that hold a write end of thread t's   *)
(* pipe: Parent, or the thread whose child it is.                          *)
(***************************************************************************)
EXTENDS Naturals

CONSTANTS
  Threads,
  Parent,           \* the process the threads belong to
  MaxCalls          \* bound: calls a thread makes

ASSUME SubprocessAssumption ==
  Parent \notin Threads /\ MaxCalls \in Nat \ {0}

VARIABLES
  thread_pc,               \* where each thread is in Start and Communicate
  child,            \* its child process
  ended,            \* how that child ended
  pipe_writers,
  info,             \* the exit status Communicate returned
  calls

subprocessVars == <<thread_pc, child, ended, pipe_writers, info, calls>>

\* How a child may end; "exit0" is also what the status 0 of an empty
\* ProcessInfo reads as.
ExitStatuses == {"exit0", "exit1", "killed"}

EmptyInfo == "exit0"

SubprocessInit ==
  /\ thread_pc = [t \in Threads |-> "idle"] /\ child = [t \in Threads |-> "none"]
  /\ ended = [t \in Threads |-> "none"]
  /\ pipe_writers = [t \in Threads |-> {}]
  /\ info = [t \in Threads |-> "none"] /\ calls = [t \in Threads |-> 0]

Goto(t, from, to) == thread_pc[t] = from /\ thread_pc' = [thread_pc EXCEPT ![t] = to]
Gone(t) == child[t] \in {"zombie", "reaped"}
-----------------------------------------------------------------------------
\* Start: the pipe.
MakePipe(t) ==
  /\ calls[t] < MaxCalls /\ Goto(t, "idle", "piped")
  /\ calls' = [calls EXCEPT ![t] = @ + 1]
  /\ pipe_writers' = [pipe_writers EXCEPT ![t] = {Parent}]
  /\ child' = [child EXCEPT ![t] = "none"]
  /\ ended' = [ended EXCEPT ![t] = "none"]
  /\ info' = [info EXCEPT ![t] = "none"]

\* vfork: the child has every descriptor the process has; the thread is
\* suspended until the child calls execv or _exit.
Fork(t) ==
  /\ Goto(t, "piped", "forked")
  /\ child' = [child EXCEPT ![t] = "forked"]
  /\ pipe_writers' = [u \in Threads |-> IF Parent \in pipe_writers[u]
                                        THEN pipe_writers[u] \union {t}
                                        ELSE pipe_writers[u]]
  /\ UNCHANGED <<ended, info, calls>>

\* vfork fails: Start returns an error (and leaks its pipe, which nobody reads).
ForkFails(t) ==
  /\ Goto(t, "piped", "failed")
  /\ UNCHANGED <<child, ended, pipe_writers, info, calls>>

\* Mutant: the child execs without moving its pipe to its stdout.
ExecWithoutDup(t) ==
  /\ thread_pc[t] = "forked" /\ child[t] = "forked"
  /\ child' = [child EXCEPT ![t] = "running"]
  /\ pipe_writers' = [pipe_writers EXCEPT ![t] = @ \ {t}]
  /\ UNCHANGED <<thread_pc, ended, info, calls>>

\* The child moves its own pipe to its stdout, closes the pipe's descriptors and
\* execs; the write ends of other pipes stay open in it.
Exec(t) ==
  /\ thread_pc[t] = "forked" /\ child[t] = "forked"
  /\ child' = [child EXCEPT ![t] = "running"]
  /\ UNCHANGED <<thread_pc, ended, pipe_writers, info, calls>>

\* Start returns in the parent after closing its write end.
Started(t) ==
  /\ child[t] # "forked" /\ Goto(t, "forked", "reading")
  /\ pipe_writers' = [pipe_writers EXCEPT ![t] = @ \ {Parent}]
  /\ UNCHANGED <<child, ended, info, calls>>

\* The child ends, of itself or (execv failed) with _exit(1).
Die(t, how) ==
  /\ child' = [child EXCEPT ![t] = "zombie"]
  /\ ended' = [ended EXCEPT ![t] = how]
  /\ pipe_writers' = [u \in Threads |-> pipe_writers[u] \ {t}]

ChildEnds(t) ==
  /\ \/ child[t] = "running" /\ \E how \in ExitStatuses : Die(t, how)
     \/ child[t] = "forked" /\ Die(t, "exit1")
  /\ UNCHANGED <<thread_pc, info, calls>>

\* Communicate: read returns 0, for nobody holds a write end any more.
ReadEof(t) ==
  /\ pipe_writers[t] = {} /\ Goto(t, "reading", "waiting")
  /\ UNCHANGED <<child, ended, pipe_writers, info, calls>>

\* wait4 returns: with the status, or with ECHILD if somebody else took it.
Wait4(t) ==
  /\ Gone(t) /\ Goto(t, "waiting", "joining")
  /\ child' = [child EXCEPT ![t] = "reaped"]
  /\ info' = [info EXCEPT ![t] = IF child[t] = "zombie" THEN ended[t]
                                 ELSE EmptyInfo]
  /\ UNCHANGED <<ended, pipe_writers, calls>>

\* The caller is done with this call and may make the next.
NextCall(t) ==
  /\ thread_pc[t] \in {"returned", "failed"} /\ thread_pc' = [thread_pc EXCEPT ![t] = "idle"]
  /\ UNCHANGED <<child, ended, pipe_writers, info, calls>>
=============================================================================
