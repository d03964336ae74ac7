----------------------------- MODULE Workflow -----------------------------
(***************************************************************************)
(* Workflows: their rows (workflow.entity.ts, workflow.repository.ts), the *)
(* requests that make, change, delete and start them                       *)
(* (workflow.controller.ts, workflow.service.ts), and the tasks that       *)
(* belong to them.  What a definition says is left out: nothing checks it  *)
(* when it is posted, and a start may or may not find a task in it.        *)
(*                                                                         *)
(* No code calls handleTaskCompletion and handleTaskFailure of the         *)
(* workflow service, so the transitions of a definition are never taken    *)
(* and only a start, or the seeder, ever writes a status.                  *)
(***************************************************************************)
EXTENDS TaskStore

CONSTANTS
  Wf,     \* the uuids workflows may get (bound)
  NoWf,   \* "no workflow"
  Admin,  \* the requests of this kind that may be in flight at once (bound)
  Active  \* what clients may say of isActive (bound)

ASSUME ActiveAssumption == Active \subseteq BOOLEAN
\* A uuid is never given to rows of two tables.
ASSUME WfAssumption ==
  IsFiniteSet(Wf) /\ NoWf \notin Wf /\ IsFiniteSet(Admin) /\ Wf \cap Id = {}

VARIABLES
  wf,      \* wf[w]: the row of workflow w
  owner,   \* owner[t]: the workflow of task t (TaskEntity.workflow)
  op,      \* op[a]: the progress of the start that request a is
  settled, \* history: workflows that a start has published a task of, or has
           \* left without being able to say that it failed, or that the
           \* seeder has made as running
  spent    \* history: the uuids of rows that were removed; none comes back

WorkflowStatus == {"pending", "running", "completed", "failed", "cancelled"}

\* deleted: softDelete has put a date in deletedAt; reads skip such a row,
\* UPDATE and foreign keys do not.
WfRow == [status : WorkflowStatus \cup {"absent"},
          active : BOOLEAN, deleted : BOOLEAN]

NoWfRow == [status |-> "absent", active |-> FALSE, deleted |-> FALSE]

Stored(w)  == wf[w].status # "absent"
Visible(w) == Stored(w) /\ ~ wf[w].deleted

\* Uuids that no row has or had.
FreshWf   == {w \in Wf : ~ Stored(w)} \ spent
FreshTask == Fresh \ spent
NewWf     == CHOOSE w \in FreshWf : TRUE
NewTaskId == CHOOSE t \in FreshTask : TRUE

---------------------------------------------------------------------------
(* Requests in flight *)

StartPC == {"mark", "first", "second", "emit", "failing"}

\* wf: the workflow that is started; task: the task it publishes.
Op == [pc : StartPC \cup {"idle"}, wf : Wf \cup {NoWf}, task : Id \cup {NoId}]

NoOp == [pc |-> "idle", wf |-> NoWf, task |-> NoId]

OpAt(a, pc)  == op[a].pc = pc
OpGoto(a, pc) == op' = [op EXCEPT ![a].pc = pc]
OpReturn(a)  == op' = [op EXCEPT ![a] = NoOp]

---------------------------------------------------------------------------
(* POST, PUT and DELETE /workflows *)

CreateWorkflow(a, active) ==
  /\ OpAt(a, "idle")
  /\ FreshWf # {}
  /\ wf' = [wf EXCEPT ![NewWf] = [status |-> "pending", active |-> active,
              deleted |-> FALSE]]
  /\ UNCHANGED <<db, msgs, call, owner, op, settled, spent>>

\* PUT :id, :id/activate, :id/deactivate: an UPDATE by id, which also reaches a
\* row that is soft-deleted.
UpdateWorkflow(a, w, active) ==
  /\ OpAt(a, "idle")
  /\ Stored(w)
  /\ wf' = [wf EXCEPT ![w].active = active]
  /\ UNCHANGED <<db, msgs, call, owner, op, settled, spent>>

\* BaseRepository.delete.
DeleteWorkflow(a, w) ==
  /\ OpAt(a, "idle")
  /\ Visible(w)
  /\ wf' = [wf EXCEPT ![w].deleted = TRUE]
  /\ UNCHANGED <<db, msgs, call, owner, op, settled, spent>>

---------------------------------------------------------------------------
(* POST /workflows/:id/start.  Each step is one statement; the row may have *)
(* changed, or be gone, since the one before.                              *)

RequestStart(a, w) ==
  /\ OpAt(a, "idle")
  /\ Visible(w)
  /\ wf[w].active
  /\ op' = [op EXCEPT ![a] = [NoOp EXCEPT !.pc = "mark", !.wf = w]]
  /\ UNCHANGED <<db, msgs, call, wf, owner, settled, spent>>

\* updateWorkflowStatus: an UPDATE that finds no row is no error.
SetWfStatus(w, status) ==
  wf' = IF Stored(w) THEN [wf EXCEPT ![w].status = status] ELSE wf

\* Mutant of MarkRunning: a status that the enum does not have.
MarkStarted(a) ==
  /\ OpAt(a, "mark")
  /\ SetWfStatus(op[a].wf, "started")
  /\ OpGoto(a, "first")
  /\ UNCHANGED <<db, msgs, call, owner, settled, spent>>

MarkRunning(a) ==
  /\ OpAt(a, "mark")
  /\ SetWfStatus(op[a].wf, "running")
  /\ OpGoto(a, "first")
  /\ UNCHANGED <<db, msgs, call, owner, settled, spent>>

\* createTask with a workflow id, which the foreign key checks; one type stands
\* for whatever the definition names.
InsertOwned(t, w) ==
  /\ Insert(t, "http_request", {}, NoId, "client")
  /\ owner' = [owner EXCEPT ![t] = w]

\* The row that startWorkflow makes itself is never published ...
FirstTask(a) ==
  /\ OpAt(a, "first")
  /\ Stored(op[a].wf)
  /\ FreshTask # {}
  /\ InsertOwned(NewTaskId, op[a].wf)
  /\ OpGoto(a, "second")
  /\ UNCHANGED <<msgs, call, wf, settled, spent>>

\* ... enqueueTask makes the one that is.
SecondTask(a) ==
  /\ OpAt(a, "second")
  /\ Stored(op[a].wf)
  /\ FreshTask # {}
  /\ InsertOwned(NewTaskId, op[a].wf)
  /\ op' = [op EXCEPT ![a].pc = "emit", ![a].task = NewTaskId]
  /\ UNCHANGED <<msgs, call, wf, settled, spent>>

EmitFirst(a) ==
  /\ OpAt(a, "emit")
  /\ Emit(op[a].task)
  /\ settled' = settled \cup {op[a].wf}
  /\ OpReturn(a)
  /\ UNCHANGED <<db, call, wf, owner, spent>>

\* To the catch block: the definition has no task, or the foreign key finds
\* no workflow.
StartFails(a) ==
  /\ OpAt(a, "first") \/ (OpAt(a, "second") /\ ~ Stored(op[a].wf))
  /\ OpGoto(a, "failing")
  /\ UNCHANGED <<db, msgs, call, wf, owner, settled, spent>>

\* A statement throws; if it took effect first, that was the step before.
StartThrows(a) ==
  /\ op[a].pc \in StartPC \ {"failing"}
  /\ OpGoto(a, "failing")
  /\ UNCHANGED <<db, msgs, call, wf, owner, settled, spent>>

\* Mutant of MarkFailed: the catch block only throws the error again.
MarkNothing(a) ==
  /\ OpAt(a, "failing")
  /\ OpReturn(a)
  /\ UNCHANGED <<db, msgs, call, wf, owner, settled, spent>>

\* The catch block, which says FAILED even if another start went well.
MarkFailed(a) ==
  /\ OpAt(a, "failing")
  /\ SetWfStatus(op[a].wf, "failed")
  /\ OpReturn(a)
  /\ UNCHANGED <<db, msgs, call, owner, settled, spent>>

\* The catch block throws as well, or the process dies.
AbandonStart(a) ==
  /\ op[a].pc \in StartPC
  /\ settled' = settled \cup {op[a].wf}
  /\ OpReturn(a)
  /\ UNCHANGED <<db, msgs, call, wf, owner, spent>>

WorkflowNext(a) ==
  \/ \E active \in Active : CreateWorkflow(a, active)
  \/ \E w \in Wf, active \in Active : UpdateWorkflow(a, w, active)
  \/ \E w \in Wf : DeleteWorkflow(a, w) \/ RequestStart(a, w)
  \/ MarkRunning(a) \/ FirstTask(a) \/ SecondTask(a) \/ EmitFirst(a)
  \/ StartFails(a) \/ MarkFailed(a)

WorkflowFault(a) == StartThrows(a) \/ AbandonStart(a)

WorkflowInit ==
  /\ wf = [w \in Wf |-> NoWfRow]
  /\ owner = [t \in Id |-> NoWf]
  /\ op = [a \in Admin |-> NoOp]
  /\ settled = {}
  /\ spent = {}

\* A workflow that was started and is shown as running has a task on its way,
\* although starts of one workflow overlap, each writing the status as if
\* alone, and the row and the tasks are written in separate statements: some
\* start is still at work, has published its task, or died before it could
\* write FAILED (startWorkflow).
RunningHasTask ==
  \A w \in Wf : wf[w].status = "running" =>
    w \in settled \/ \E a \in Admin : op[a].wf = w /\ op[a].pc \in StartPC

==========================================================================
