--------------------------- MODULE QueueStatus ---------------------------
(***************************************************************************)
(* GET /queue-manager/status (queue-manager.service.ts): four queries that *)
(* run side by side, each at its own moment, while the workers go on.      *)
(***************************************************************************)
EXTENDS QueueWorker

CONSTANTS
  PendingCap,    \* the limit of getPendingTasks, 100
  PendingLimit,  \* from how many pending tasks on a queue is unhealthy, 500
  FailedLimit    \* from how many failed tasks on it is, 50

ASSUME LimitAssumption ==
  /\ PendingCap \in Nat /\ PendingLimit \in Nat /\ FailedLimit \in Nat \ {0}
  /\ PendingCap < PendingLimit

VARIABLE report  \* the progress of a status request

qvars == <<db, msgs, call, report>>

Reported == {"pending", "processing", "completed", "failed"}

\* left: the queries that have not answered yet; found: the answers of the
\* others; still: history, the tasks whose status has not changed since the
\* request came.
Report == [asked : BOOLEAN, left : SUBSET Reported, found : [Reported -> Nat],
           still : SUBSET Id]

NoReport == [asked |-> FALSE, left |-> {}, found |-> [s \in Reported |-> 0], still |-> {}]

AskStatus ==
  /\ ~ report.asked
  /\ report' = [NoReport EXCEPT !.asked = TRUE, !.left = Reported, !.still = Id]
  /\ UNCHANGED vars

\* Mutant of Query: the failed tasks are looked up by another status.
QueryMisfiled(status) ==
  Count(Id, IF status = "failed" THEN "completed" ELSE status)

\* findTasks, and getPendingTasks, which takes no more than its limit.
Query(status) ==
  IF status = "pending" /\ Count(Id, status) > PendingCap
  THEN PendingCap ELSE Count(Id, status)

ReadCount(status) ==
  /\ status \in report.left
  /\ report' = [report EXCEPT !.left = @ \ {status}, !.found[status] = Query(status)]
  /\ UNCHANGED vars

AllRead == report.asked /\ report.left = {}

\* isHealthy.
Healthy == report.found["failed"] < FailedLimit /\ report.found["pending"] < PendingLimit

\* The answer; or a query throws, and everything is reported as zero and
\* unhealthy.
Answer ==
  /\ report.asked
  /\ report.left = {} \/ Faults
  /\ report' = NoReport
  /\ UNCHANGED vars

\* Any other step, of which a report keeps which tasks it moved.
Work ==
  /\ Next
  /\ report' = [report EXCEPT !.still = {t \in @ : db'[t].status = db[t].status}]

StatusInit == Init /\ report = NoReport

StatusNext ==
  \/ AskStatus \/ Answer \/ Work
  \/ \E status \in Reported : ReadCount(status)

StatusSpec == StatusInit /\ [][StatusNext]_qvars

---------------------------------------------------------------------------
(* Properties *)

Steady(status) == Count(report.still, status)
Moved          == Cardinality(Id \ report.still)

\* Typing.
StatusTypeOK == TypeOK /\ report \in Report

\* A report is no snapshot: a task that moves meanwhile may be in two of its
\* counts or in none.  But no count is wrong by more than the tasks that
\* moved, except that there are never more than PendingCap pending ones
\* (getQueueStatus).
CountsNearlyRight ==
  AllRead => \A status \in Reported :
    /\ report.found[status] <= Steady(status) + Moved
    /\ \/ report.found[status] >= Steady(status)
       \/ status = "pending" /\ report.found[status] = PendingCap

\* queue-manager.service.spec.ts: "should return unhealthy status when pending
\* tasks exceed threshold": a backlog that was there all along is noticed.
BacklogIsUnhealthy ==
  AllRead /\ Steady("pending") >= PendingLimit => ~ Healthy

==========================================================================
