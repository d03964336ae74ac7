----------------------------- MODULE TaskApi -----------------------------
(***************************************************************************)
(* The clients' requests on tasks: POST /tasks, /tasks/:id/retry,          *)
(* /tasks/:id/cancel, /tasks/:id/compensate (task.controller.ts) and       *)
(* POST /queue-manager/enqueue, /queue-manager/retry/:id                   *)
(* (task-queue.service.ts).                                                *)
(***************************************************************************)
EXTENDS TaskStore

CONSTANTS
  NewTask,   \* the (type, payload) pairs clients create tasks with
  RetryCap,  \* clients retry a task that failed fewer times than this (bound)
  MsgCap     \* and only while the broker holds fewer messages of it (bound)

ASSUME NewTaskAssumption ==
  NewTask \subseteq [type : TaskType, payload : SUBSET Field]
ASSUME CapAssumption == RetryCap \in Nat /\ MsgCap \in Nat

\* Mutant of CreateTask: the event is emitted without waiting for the row.
CreateUnsaved(s, new) ==
  /\ At(s, "idle")
  /\ Fresh # {}
  /\ Begin(s, "publish", NewId)
  /\ UNCHANGED <<db, msgs>>

\* TaskController.createTask and TaskQueueService.enqueueTask.
CreateTask(s, new) ==
  /\ At(s, "idle")
  /\ Fresh # {}
  /\ Insert(NewId, new.type, new.payload, NoId, "client")
  /\ Begin(s, "publish", NewId)
  /\ UNCHANGED msgs

Retriable(t) ==
  /\ Exists(t)
  /\ db[t].retries < RetryCap
  /\ msgs[t] < MsgCap

\* Mutants of RetryTask: the row starts over, its failures forgotten ...
RetryReset(s, t) ==
  /\ At(s, "idle")
  /\ Retriable(t)
  /\ db' = [db EXCEPT ![t].status = "pending", ![t].retries = 0]
  /\ Begin(s, "publish", t)
  /\ UNCHANGED msgs

\* ... or it is left to a scan for pending rows that nobody makes.
RetryUnpublished(s, t) ==
  /\ At(s, "idle")
  /\ Retriable(t)
  /\ SetStatus(t, "pending")
  /\ UNCHANGED <<call, msgs>>

\* TaskController.retryTask looks at neither the status nor the retries.
RetryTask(s, t) ==
  /\ At(s, "idle")
  /\ Retriable(t)
  /\ SetStatus(t, "pending")
  /\ Begin(s, "publish", t)
  /\ UNCHANGED msgs

\* TaskQueueService.retryTask looks at the retries and not at the status,
\* and leaves the row alone.
RequeueTask(s, t) ==
  /\ At(s, "idle")
  /\ Retriable(t)
  /\ db[t].retries < MaxRetries
  /\ Begin(s, "publish", t)
  /\ UNCHANGED <<db, msgs>>

\* TaskService.cancelTask: the check, and in a later step the update.
CancelTask(s, t) ==
  /\ At(s, "idle")
  /\ db[t].status = "pending"
  /\ Begin(s, "cancel", t)
  /\ UNCHANGED <<db, msgs>>

Cancel(s) ==
  /\ At(s, "cancel")
  /\ SetStatus(Task(s), "cancelled")
  /\ Return(s)
  /\ UNCHANGED msgs

\* TaskController.compensateTask: for a task of any type and status.
CompensateTask(s, t) ==
  /\ At(s, "idle")
  /\ Exists(t)
  /\ Fresh # {}
  /\ Insert(NewId, "compensation", {}, t, "client")
  /\ Begin(s, "publish", NewId)
  /\ UNCHANGED msgs

==========================================================================
