-------------------------- MODULE ResultAccounting --------------------------
(***************************************************************************)
(* What a scanning session promises about the results its runner processes *)
(* produce, with the threads, the queue and the clock left out: a result   *)
(* is produced once; it is then collected once or, when a queue's worth of *)
(* others is waiting, given up; and the session announces a verdict only   *)
(* when no result is left, a failure verdict exactly when a failure was    *)
(* collected.                                                              *)
(***************************************************************************)
EXTENDS Naturals, FiniteSets, TLAPS

CONSTANTS
  Result,      \* every result a runner could produce
  Failure,     \* those that count towards the verdict
  Capacity     \* results the session can hold for its collector

VARIABLES
  produced, handled, lost,
  verdict      \* "running", "success", "failure", or "aborted": no verdict

accountingVars == <<produced, handled, lost, verdict>>

AccountingInit ==
  /\ produced = {} /\ handled = {} /\ lost = {}
  /\ verdict = "running"

Outstanding == produced \ (handled \union lost)

Produce(r) ==
  /\ verdict = "running"
  /\ r \notin produced
  /\ produced' = produced \union {r}
  /\ UNCHANGED <<handled, lost, verdict>>

Handle(r) ==
  /\ verdict = "running"
  /\ r \in Outstanding
  /\ handled' = handled \union {r}
  /\ UNCHANGED <<produced, lost, verdict>>

Lose(r) ==
  /\ verdict = "running"
  /\ r \in Outstanding
  /\ Cardinality(Outstanding \ {r}) >= Capacity
  /\ lost' = lost \union {r}
  /\ UNCHANGED <<produced, handled, verdict>>

Announce ==
  /\ verdict = "running"
  /\ Outstanding = {}
  /\ verdict' = IF handled \intersect Failure # {} THEN "failure" ELSE "success"
  /\ UNCHANGED <<produced, handled, lost>>

\* The session never got going, or was cut off.
Abort ==
  /\ verdict = "running"
  /\ verdict' = "aborted"
  /\ UNCHANGED <<produced, handled, lost>>

AccountingNext ==
  \/ \E r \in Result : Produce(r) \/ Handle(r) \/ Lose(r)
  \/ Announce \/ Abort

AccountingSpec == AccountingInit /\ [][AccountingNext]_accountingVars
-----------------------------------------------------------------------------
AccountingTypeOK ==
  /\ produced \subseteq Result
  /\ handled \subseteq produced /\ lost \subseteq produced
  /\ verdict \in {"running", "success", "failure", "aborted"}

\* The verdict is trustworthy up to the losses: "failure" is never announced
\* without a failing result, and after "success" every failing result that was
\* produced is among the lost ones.
VerdictSound ==
  /\ verdict = "failure" => produced \intersect Failure # {}
  /\ verdict = "success" => produced \intersect Failure \subseteq lost

-----------------------------------------------------------------------------
\* VerdictSound needs two more facts: a verdict leaves nothing outstanding, and
\* it says whether a failing result was collected.
VerdictInv ==
  /\ AccountingTypeOK
  /\ verdict \in {"success", "failure"} => Outstanding = {}
  /\ verdict = "success" => handled \intersect Failure = {}
  /\ verdict = "failure" => handled \intersect Failure # {}

\* A session that has not begun.
LEMMA VerdictInvInit == AccountingInit => VerdictInv
BY DEF AccountingInit, VerdictInv, AccountingTypeOK, Outstanding

\* No step of a session breaks what a verdict says.
LEMMA VerdictInvStep ==
  VerdictInv /\ [AccountingNext]_accountingVars => VerdictInv'
<1> SUFFICES ASSUME VerdictInv, [AccountingNext]_accountingVars
             PROVE  VerdictInv'
  OBVIOUS
<1> USE DEF VerdictInv, AccountingTypeOK, Outstanding
<1>1. ASSUME NEW r \in Result, Produce(r) PROVE VerdictInv'
  BY <1>1 DEF Produce
<1>2. ASSUME NEW r \in Result, Handle(r) PROVE VerdictInv'
  BY <1>2 DEF Handle
<1>3. ASSUME NEW r \in Result, Lose(r) PROVE VerdictInv'
  BY <1>3 DEF Lose
<1>4. CASE Announce
  BY <1>4 DEF Announce
<1>5. CASE Abort
  BY <1>5 DEF Abort
<1>6. CASE UNCHANGED accountingVars
  BY <1>6 DEF accountingVars
<1> QED
  BY <1>1, <1>2, <1>3, <1>4, <1>5, <1>6 DEF AccountingNext

\* A verdict can be relied on up to the results given up: a failure verdict has
\* a failing result behind it, and a success verdict hides no failing result
\* that was not given up.
THEOREM VerdictIsSound == AccountingSpec => []VerdictSound
<1>1. VerdictInv => VerdictSound
  BY DEF VerdictInv, AccountingTypeOK, VerdictSound, Outstanding
<1> QED
  BY VerdictInvInit, VerdictInvStep, <1>1, PTL DEF AccountingSpec
=============================================================================
