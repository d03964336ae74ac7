----------------------- MODULE AdministrationProofs -----------------------
(***************************************************************************)
(* Theorems about Administration, for any number of requests, workflows,   *)
(* tasks and faults, and any templates the seeder may have.                *)
(***************************************************************************)
EXTENDS Administration, FiniteSetTheorems, TLAPS

\* A start in progress is the start of some workflow.
OpsNamed == \A a \in Admin : op[a].pc # "idle" => op[a].wf \in Wf

AdminBase == AdminTypeOK /\ OpsNamed

---------------------------------------------------------------------------
(* What a step does to the rows: it keeps them (but for log rows, which    *)
(* name tasks that are there), adds one, changes a workflow, or removes    *)
(* rows together with those that refer to them.                            *)

RowsKept ==
  /\ UNCHANGED <<db, wf, owner, spent>>
  /\ logs' \subseteq logs \cup {t \in Id : Exists(t)}

WfAdded ==
  \E row \in WfRow :
    /\ FreshWf # {} /\ row.status # "absent"
    /\ wf' = [wf EXCEPT ![NewWf] = row]
    /\ UNCHANGED <<db, owner, logs, spent>>

WfChanged ==
  \E w \in Wf, row \in WfRow :
    /\ Stored(w) /\ row.status # "absent"
    /\ wf[w].deleted => row.deleted
    /\ wf' = [wf EXCEPT ![w] = row]
    /\ UNCHANGED <<db, owner, logs, spent>>

TaskAdded ==
  \E row \in Row, w \in Wf :
    /\ FreshTask # {} /\ row.status # "absent" /\ Stored(w)
    /\ db' = [db EXCEPT ![NewTaskId] = row]
    /\ owner' = [owner EXCEPT ![NewTaskId] = w]
    /\ UNCHANGED <<wf, logs, spent>>

Removed ==
  \E ws \in SUBSET Wf, ts \in SUBSET Id :
    /\ \A t \in Id : owner[t] \in ws => t \in ts
    /\ Remove(ws, ts)

RowStep == RowsKept \/ WfAdded \/ WfChanged \/ TaskAdded \/ Removed

LEMMA NewNames ==
  /\ FreshWf # {} => NewWf \in Wf /\ ~ Stored(NewWf) /\ NewWf \notin spent
  /\ FreshTask # {} => NewTaskId \in Id /\ ~ Exists(NewTaskId) /\ NewTaskId \notin spent
  BY DEF FreshWf, FreshTask, Fresh, NewWf, NewTaskId

LEMMA StatusWritten ==
  ASSUME AdminTypeOK, NEW w \in Wf \cup {NoWf}, NEW status \in WorkflowStatus,
         SetWfStatus(w, status), UNCHANGED <<db, owner, logs, spent>>
  PROVE  RowStep
  <1>1. CASE w \in Wf /\ Stored(w)
    <2> DEFINE row == [wf[w] EXCEPT !.status = status]
    <2>1. row \in WfRow /\ row.status # "absent" /\ row.deleted = wf[w].deleted
      BY <1>1 DEF AdminTypeOK, WfRow, WorkflowStatus
    <2>2. wf' = [wf EXCEPT ![w] = row]
      BY <1>1 DEF SetWfStatus
    <2> QED BY <1>1, <2>1, <2>2 DEF WfChanged, RowStep
  <1>2. CASE ~ (w \in Wf /\ Stored(w))
    <2>1. wf' = wf
      BY <1>2, WfAssumption DEF SetWfStatus, AdminTypeOK
    <2> QED BY <2>1 DEF RowsKept, RowStep
  <1> QED BY <1>1, <1>2

LEMMA WorkflowRowStep ==
  ASSUME AdminBase, NEW a \in Admin, WorkflowNext(a) \/ WorkflowFault(a),
         UNCHANGED seedvars
  PROVE  RowStep
  <1>1. op[a].wf \in Wf \cup {NoWf} /\ wf \in [Wf -> WfRow] /\ logs' = logs
    BY DEF AdminBase, AdminTypeOK, Op, seedvars
  <1>2. ASSUME NEW active \in Active, CreateWorkflow(a, active)
        PROVE  RowStep
    <2> DEFINE row == [status |-> "pending", active |-> active, deleted |-> FALSE]
    <2>1. row \in WfRow /\ row.status # "absent"
      BY ActiveAssumption DEF WfRow, WorkflowStatus
    <2> QED BY <1>1, <1>2, <2>1 DEF CreateWorkflow, WfAdded, RowStep
  <1>3. ASSUME NEW w \in Wf, NEW active \in Active, UpdateWorkflow(a, w, active)
        PROVE  RowStep
    <2> DEFINE row == [wf[w] EXCEPT !.active = active]
    <2>1. row \in WfRow /\ row.status = wf[w].status /\ row.deleted = wf[w].deleted
      BY <1>1, ActiveAssumption DEF WfRow
    <2>2. wf' = [wf EXCEPT ![w] = row]
      BY <1>3 DEF UpdateWorkflow
    <2> QED BY <1>1, <1>3, <2>1, <2>2 DEF UpdateWorkflow, Stored, WfChanged, RowStep
  <1>4. ASSUME NEW w \in Wf, DeleteWorkflow(a, w)
        PROVE  RowStep
    <2> DEFINE row == [wf[w] EXCEPT !.deleted = TRUE]
    <2>1. row \in WfRow /\ row.status = wf[w].status /\ row.deleted = TRUE
      BY <1>1 DEF WfRow
    <2>2. wf' = [wf EXCEPT ![w] = row]
      BY <1>4 DEF DeleteWorkflow
    <2> QED BY <1>1, <1>4, <2>1, <2>2 DEF DeleteWorkflow, Visible, Stored, WfChanged, RowStep
  <1>5. CASE MarkRunning(a) \/ MarkFailed(a)
    BY <1>1, <1>5, StatusWritten DEF AdminBase, MarkRunning, MarkFailed, WorkflowStatus
  <1>6. CASE FirstTask(a) \/ SecondTask(a)
    <2> DEFINE row == [type |-> "http_request", status |-> "pending", retries |-> 0,
                       payload |-> {}, cause |-> NoId, origin |-> "client"]
    <2>1. row \in Row /\ row.status # "absent"
      BY DEF Row, TaskStatus, TaskType
    <2>2. op[a].wf \in Wf
      BY <1>6 DEF AdminBase, OpsNamed, FirstTask, SecondTask, OpAt
    <2>3. db' = [db EXCEPT ![NewTaskId] = row] /\ owner' = [owner EXCEPT ![NewTaskId] = op[a].wf]
      BY <1>6 DEF FirstTask, SecondTask, InsertOwned, Insert
    <2> QED BY <1>1, <1>6, <2>1, <2>2, <2>3 DEF FirstTask, SecondTask, TaskAdded, RowStep
  <1>7. CASE \/ \E w \in Wf : RequestStart(a, w)
             \/ EmitFirst(a) \/ StartFails(a) \/ StartThrows(a) \/ AbandonStart(a)
    BY <1>1, <1>7 DEF RequestStart, EmitFirst, StartFails, StartThrows, AbandonStart,
                      RowsKept, RowStep
  <1> QED BY <1>2, <1>3, <1>4, <1>5, <1>6, <1>7 DEF WorkflowNext, WorkflowFault

\* What the seeder writes are rows of the table.
LEMMA SeedStatusNamed == SeedStatus \subseteq TaskStatus
  <1> SUFFICES ASSUME NEW i \in SeedIndex
               PROVE  StatusOrder[(i % Len(StatusOrder)) + 1] \in TaskStatus
    BY DEF SeedStatus
  <1>1. Len(StatusOrder) = 6 /\ i \in Nat
    BY SeedAssumption DEF StatusOrder
  <1>2. i % 6 \in 0 .. 5
    BY <1>1
  <1>3. \A j \in 1 .. 6 : StatusOrder[j] \in TaskStatus
    BY DEF StatusOrder, TaskStatus
  <1> QED BY <1>1, <1>2, <1>3

LEMMA SeededRow ==
  ASSUME NEW status \in SeedStatus, NEW type \in SeedType
  PROVE  [type |-> type, status |-> status, retries |-> SeedRetries(status),
          payload |-> SeedPayload(type, status), cause |-> NoId, origin |-> "client"]
           \in Row
  <1>1. status \in TaskStatus
    BY SeedStatusNamed
  <1>2. type \in TaskType /\ SeedRetries(status) \in Nat
    BY SeedAssumption DEF SeedRetries
  <1>3. SeedPayload(type, status) \in SUBSET Field
    BY DEF SeedPayload, Field
  <1> QED BY <1>1, <1>2, <1>3 DEF Row

LEMMA SeederRowStep ==
  ASSUME AdminBase, NEW a \in Admin, SeederNext(a) \/ SeederFault(a)
  PROVE  RowStep
  <1>1. /\ wf \in [Wf -> WfRow] /\ owner \in [Id -> Wf \cup {NoWf}] /\ logs \subseteq Id
        /\ job \in [Admin -> Job]
    BY DEF AdminBase, AdminTypeOK
  <1>2. ASSUME NEW template \in SeedWf, SaveWorkflow(a, template)
        PROVE  RowStep
    <2> DEFINE row == [status |-> template, active |-> template # "failed", deleted |-> FALSE]
    <2>1. row \in WfRow /\ row.status # "absent"
      BY SeedAssumption DEF WfRow, WorkflowStatus
    <2> QED BY <1>2, <2>1 DEF SaveWorkflow, WfAdded, RowStep
  <1>3. ASSUME NEW type \in SeedType, SaveTasks(a, type)
        PROVE  RowStep
    <2>1. PICK status \in SeedStatus, w \in job[a].made \cap Wf :
            /\ Stored(w)
            /\ db' = [db EXCEPT ![NewTaskId] =
                 [type |-> type, status |-> status, retries |-> SeedRetries(status),
                  payload |-> SeedPayload(type, status), cause |-> NoId, origin |-> "client"]]
            /\ owner' = [owner EXCEPT ![NewTaskId] = w]
      BY <1>3 DEF SaveTasks
    <2> DEFINE row == [type |-> type, status |-> status, retries |-> SeedRetries(status),
                       payload |-> SeedPayload(type, status), cause |-> NoId,
                       origin |-> "client"]
    <2>2. row \in Row
      BY SeededRow
    <2>3. row.status # "absent"
      BY SeedStatusNamed DEF TaskStatus
    <2> HIDE DEF row
    <2>4. db' = [db EXCEPT ![NewTaskId] = row]
      BY <2>1 DEF row
    <2> QED BY <1>3, <2>1, <2>2, <2>3, <2>4 DEF SaveTasks, TaskAdded, RowStep
  <1>4. CASE Wipe(a)
    <2>1. CASE NextTable(job[a].todo) = "log"
      BY <1>4, <2>1 DEF Wipe, RowsKept, RowStep
    <2>2. CASE NextTable(job[a].todo) = "task"
      <3>1. Remove({}, Id)
        BY <1>4, <2>2 DEF Wipe
      <3> QED BY <3>1 DEF Removed, RowStep
    <2>3. CASE NextTable(job[a].todo) = "workflow"
      <3> DEFINE ts == {t \in Id : JobAt(a, "truncate") \/ owner[t] # NoWf}
      <3>1. Remove(Wf, ts)
        BY <1>4, <2>3 DEF Wipe
      <3>2. \A t \in Id : owner[t] \in Wf => t \in ts
        BY WfAssumption
      <3>3. ts \in SUBSET Id
        OBVIOUS
      <3> QED BY <3>1, <3>2, <3>3 DEF Removed, RowStep
    <2> QED BY <2>1, <2>2, <2>3 DEF NextTable
  <1>5. CASE SaveLogs(a)
    BY <1>5 DEF SaveLogs, RowsKept, RowStep
  <1>6. CASE \/ RequestSeed(a) \/ BeginSeed(a) \/ WorkflowsSaved(a) \/ SeedFails(a)
             \/ \E table \in Table : CountRows(a, table)
             \/ \E reset \in BOOLEAN : RequestClear(a, reset)
             \/ FallbackThrows(a) \/ Cleared(a)
             \/ \E template \in SeedWf : DropSave(a, template)
             \/ ClearThrows(a) \/ AbandonJob(a)
    <2>1. UNCHANGED <<db, wf, owner, spent, logs>>
      BY <1>6 DEF RequestSeed, BeginSeed, WorkflowsSaved, SeedFails, CountRows, RequestClear,
                  FallbackThrows, Cleared, DropSave, ClearThrows, AbandonJob
    <2> QED BY <2>1 DEF RowsKept, RowStep
  <1> QED BY <1>2, <1>3, <1>4, <1>5, <1>6 DEF SeederNext, SeederFault

LEMMA AdminRowStep ==
  ASSUME AdminBase, [AdminNext]_avars
  PROVE  RowStep
  <1>1. CASE UNCHANGED avars
    BY <1>1 DEF avars, RowsKept, RowStep
  <1> QED BY <1>1, WorkflowRowStep, SeederRowStep DEF AdminNext

LEMMA RowsTyped ==
  ASSUME AdminTypeOK, RowStep
  PROVE  /\ db' \in [Id -> Row] /\ wf' \in [Wf -> WfRow]
         /\ owner' \in [Id -> Wf \cup {NoWf}]
         /\ logs' \subseteq Id /\ spent' \subseteq Wf \cup Id
  <1>1. /\ db \in [Id -> Row] /\ wf \in [Wf -> WfRow] /\ owner \in [Id -> Wf \cup {NoWf}]
        /\ logs \subseteq Id /\ spent \subseteq Wf \cup Id
    BY DEF AdminTypeOK, TypeOK
  <1>2. CASE RowsKept
    BY <1>1, <1>2 DEF RowsKept
  <1>3. CASE WfAdded
    BY <1>1, <1>3, NewNames DEF WfAdded
  <1>4. CASE WfChanged
    BY <1>1, <1>4 DEF WfChanged
  <1>5. CASE TaskAdded
    BY <1>1, <1>5, NewNames DEF TaskAdded
  <1>6. CASE Removed
    <2>1. NoRow \in Row /\ NoWfRow \in WfRow
      BY DEF NoRow, Row, NoWfRow, WfRow
    <2> QED BY <1>1, <1>6, <2>1 DEF Removed, Remove
  <1> QED BY <1>2, <1>3, <1>4, <1>5, <1>6 DEF RowStep

---------------------------------------------------------------------------
(* What a step does to the seeder's work, as far as the rows that were     *)
(* there at the beginning go: it begins or ends a pass over the tables, or *)
(* ticks off a table that is empty at that moment.                         *)

PassPC == {"count", "truncate", "delete"}

Emptied(table) ==
  /\ table = "task" => \A t \in Id : ~ Exists(t)'
  /\ table = "workflow" => \A w \in Wf : ~ Visible(w)'

PassMove(old, new) ==
  /\ new.old \subseteq old.old \cup Present
  /\ \/ new.old = {}
     \/ new.pc \notin PassPC
     \/ Table \subseteq new.todo
     \/ /\ new.pc = old.pc /\ new.old = old.old
        /\ \E table \in Table : new.todo = old.todo \ {table} /\ Emptied(table)

JobMove(a) ==
  \E new \in Job : job' = [job EXCEPT ![a] = new] /\ PassMove(job[a], new)

\* The ways in which the module writes a job.
LEMMA JobWrites ==
  ASSUME AdminTypeOK, NEW a \in Admin
  PROVE  /\ JobReturn(a) => JobMove(a)
         /\ \A pc \in PassPC, reset \in BOOLEAN : JobBegin(a, pc, reset) => JobMove(a)
         /\ \A pc \in JobPC, todo \in SUBSET (Table \cup SeedWf \cup SeedType) :
              JobGoto(a, pc, todo) /\ (pc \in PassPC => Table \subseteq todo) => JobMove(a)
         /\ \A table \in Table : Tick(a, table) /\ Emptied(table) => JobMove(a)
  <1>1. job \in [Admin -> Job] /\ job[a] \in Job
    BY DEF AdminTypeOK
  <1>2. ASSUME JobReturn(a)
        PROVE  JobMove(a)
    <2>1. NoJob \in Job /\ NoJob.old = {}
      BY DEF NoJob, Job
    <2> QED BY <1>2, <2>1 DEF JobReturn, JobMove, PassMove
  <1>3. ASSUME NEW pc \in PassPC, NEW reset \in BOOLEAN, JobBegin(a, pc, reset)
        PROVE  JobMove(a)
    <2> DEFINE new == [NoJob EXCEPT !.pc = pc, !.todo = Table, !.old = Present, !.reset = reset]
    <2>1. NoJob \in Job
      BY DEF NoJob, Job
    <2>2. pc \in JobPC /\ Present \in SUBSET (Wf \cup Id)
      BY DEF PassPC, JobPC, Present
    <2>3. new \in Job /\ new.todo = Table /\ new.old = Present
      BY <2>1, <2>2 DEF Job
    <2>4. job' = [job EXCEPT ![a] = new]
      BY <1>3 DEF JobBegin
    <2> QED BY <2>3, <2>4 DEF JobMove, PassMove
  <1>4. ASSUME NEW pc \in JobPC, NEW todo \in SUBSET (Table \cup SeedWf \cup SeedType),
               JobGoto(a, pc, todo), pc \in PassPC => Table \subseteq todo
        PROVE  JobMove(a)
    <2> DEFINE new == [job[a] EXCEPT !.pc = pc, !.todo = todo]
    <2>1. new \in Job /\ new.pc = pc /\ new.todo = todo /\ new.old = job[a].old
      BY <1>1 DEF Job
    <2>2. job' = [job EXCEPT ![a] = new]
      BY <1>1, <1>4 DEF JobGoto, Job
    <2> QED BY <1>4, <2>1, <2>2 DEF JobMove, PassMove
  <1>5. ASSUME NEW table \in Table, Tick(a, table), Emptied(table)
        PROVE  JobMove(a)
    <2> DEFINE new == [job[a] EXCEPT !.todo = job[a].todo \ {table}]
    <2>1. /\ new \in Job /\ new.pc = job[a].pc
          /\ new.todo = job[a].todo \ {table} /\ new.old = job[a].old
      BY <1>1 DEF Job
    <2>2. job' = [job EXCEPT ![a] = new]
      BY <1>1, <1>5 DEF Tick, Job
    <2> QED BY <1>5, <2>1, <2>2 DEF JobMove, PassMove
  <1> QED BY <1>2, <1>3, <1>4, <1>5

LEMMA SeederJobMove ==
  ASSUME AdminBase, NEW a \in Admin, SeederNext(a) \/ SeederFault(a)
  PROVE  JobMove(a)
  <1>1. /\ AdminTypeOK /\ job \in [Admin -> Job] /\ job[a] \in Job
    BY DEF AdminBase, AdminTypeOK
  <1>2. CASE RequestSeed(a) \/ \E reset \in BOOLEAN : RequestClear(a, reset)
    BY <1>1, <1>2, JobWrites DEF RequestSeed, RequestClear, PassPC
  <1>3. ASSUME NEW table \in Table, CountRows(a, table)
        PROVE  JobMove(a)
    <2>1. CASE Populated(table)
      BY <1>1, <1>3, <2>1, JobWrites DEF CountRows
    <2>2. CASE ~ Populated(table)
      <3>1. Emptied(table)
        BY <1>3, <2>2 DEF CountRows, Populated, Emptied, Exists, Visible, Stored, Table
      <3> QED BY <1>1, <1>3, <2>2, <3>1, JobWrites DEF CountRows
    <2> QED BY <2>1, <2>2
  <1>4. CASE BeginSeed(a)
    BY <1>1, <1>4, JobWrites DEF BeginSeed, JobPC, PassPC
  <1>5. ASSUME NEW template \in SeedWf, SaveWorkflow(a, template)
        PROVE  JobMove(a)
    <2> DEFINE new == [job[a] EXCEPT !.todo = job[a].todo \ {template},
                                     !.made = job[a].made \cup {NewWf}]
    <2>1. NewWf \in Wf
      BY <1>5, NewNames DEF SaveWorkflow
    <2>2. new \in Job /\ new.pc = job[a].pc /\ new.old = job[a].old
      BY <1>1, <2>1 DEF Job
    <2>3. job' = [job EXCEPT ![a] = new]
      BY <1>1, <1>5 DEF SaveWorkflow, Job
    <2> QED BY <1>5, <2>2, <2>3 DEF SaveWorkflow, JobMove, PassMove, PassPC
  <1>6. ASSUME NEW template \in SeedWf, DropSave(a, template)
        PROVE  JobMove(a)
    <2>1. job[a].todo \ {template} \in SUBSET (Table \cup SeedWf \cup SeedType)
      BY <1>1 DEF Job
    <2> QED BY <1>1, <1>6, <2>1, JobWrites DEF DropSave, JobPC, PassPC
  <1>7. CASE WorkflowsSaved(a)
    BY <1>1, <1>7, JobWrites DEF WorkflowsSaved, JobPC, PassPC
  <1>8. ASSUME NEW type \in SeedType, SaveTasks(a, type)
        PROVE  JobMove(a)
    <2> DEFINE new == [job[a] EXCEPT !.todo = job[a].todo \ {type},
                                     !.made = job[a].made \cup {NewTaskId}]
    <2>1. NewTaskId \in Id
      BY <1>8, NewNames DEF SaveTasks
    <2>2. new \in Job /\ new.pc = job[a].pc /\ new.old = job[a].old
      BY <1>1, <2>1 DEF Job
    <2>3. job' = [job EXCEPT ![a] = new]
      BY <1>1, <1>8 DEF SaveTasks, Job
    <2> QED BY <1>8, <2>2, <2>3 DEF SaveTasks, JobAt, JobMove, PassMove, PassPC
  <1>9. CASE SaveLogs(a) \/ SeedFails(a) \/ FallbackThrows(a) \/ AbandonJob(a)
    BY <1>1, <1>9, JobWrites DEF SaveLogs, SeedFails, FallbackThrows, AbandonJob
  <1>10. CASE Wipe(a)
    <2> DEFINE table == NextTable(job[a].todo)
    <2>1. table \in Table /\ Tick(a, table)
      BY <1>10 DEF Wipe, NextTable, Table
    <2>2. Emptied(table)
      <3>1. ASSUME table = "task"
            PROVE  \A t \in Id : ~ Exists(t)'
        BY <1>10, <3>1 DEF Wipe, Remove, Exists, NoRow
      <3>2. ASSUME table = "workflow"
            PROVE  \A w \in Wf : ~ Visible(w)'
        BY <1>10, <3>2 DEF Wipe, Remove, Visible, Stored, NoWfRow
      <3> QED BY <3>1, <3>2 DEF Emptied
    <2> HIDE DEF table
    <2> QED BY <1>1, <2>1, <2>2, JobWrites
  <1>11. CASE Cleared(a)
    BY <1>1, <1>11, JobWrites DEF Cleared, PassPC
  <1>12. CASE ClearThrows(a)
    <2>1. Table \in SUBSET (Table \cup SeedWf \cup SeedType)
      OBVIOUS
    <2> QED BY <1>1, <1>12, <2>1, JobWrites DEF ClearThrows, JobPC
  <1> QED BY <1>2, <1>3, <1>4, <1>5, <1>6, <1>7, <1>8, <1>9, <1>10, <1>11, <1>12
          DEF SeederNext, SeederFault

---------------------------------------------------------------------------
(* Typing *)

\* What the steps of a start do to the start.
LEMMA StartMoves ==
  ASSUME AdminBase, NEW a \in Admin, WorkflowNext(a) \/ WorkflowFault(a)
  PROVE  /\ op' \in [Admin -> Op] /\ OpsNamed'
         /\ settled' \subseteq Wf /\ msgs' \in [Id -> Nat] /\ call' = call
  <1>1. /\ op \in [Admin -> Op] /\ settled \subseteq Wf /\ msgs \in [Id -> Nat]
        /\ op[a].wf \in Wf \cup {NoWf} /\ op[a].task \in Id \cup {NoId}
        /\ \A b \in Admin : op[b].pc # "idle" => op[b].wf \in Wf
    BY DEF AdminBase, AdminTypeOK, TypeOK, OpsNamed, Op
  <1>2. NoOp \in Op /\ NoOp.pc = "idle"
    BY DEF NoOp, Op, StartPC
  <1>3. ASSUME OpReturn(a)
        PROVE  op' \in [Admin -> Op] /\ OpsNamed'
    BY <1>1, <1>2, <1>3 DEF OpReturn, OpsNamed
  <1>4. ASSUME NEW pc \in StartPC, op[a].pc # "idle", OpGoto(a, pc)
        PROVE  op' \in [Admin -> Op] /\ OpsNamed'
    <2>1. op' \in [Admin -> Op]
      BY <1>1, <1>4 DEF OpGoto, Op
    <2>2. \A b \in Admin : op'[b].wf = op[b].wf /\ (b # a => op'[b].pc = op[b].pc)
      BY <1>1, <1>4 DEF OpGoto, Op
    <2> QED BY <1>1, <1>4, <2>1, <2>2 DEF OpsNamed
  <1>5. CASE \/ \E active \in Active : CreateWorkflow(a, active)
             \/ \E w \in Wf, active \in Active : UpdateWorkflow(a, w, active)
             \/ \E w \in Wf : DeleteWorkflow(a, w)
    BY <1>1, <1>5 DEF CreateWorkflow, UpdateWorkflow, DeleteWorkflow, OpsNamed
  <1>6. ASSUME NEW w \in Wf, RequestStart(a, w)
        PROVE  op' \in [Admin -> Op] /\ OpsNamed' /\ UNCHANGED <<settled, msgs, call>>
    <2> DEFINE new == [NoOp EXCEPT !.pc = "mark", !.wf = w]
    <2>1. new \in Op /\ new.wf = w
      BY <1>2 DEF Op, StartPC
    <2> QED BY <1>1, <1>6, <2>1 DEF RequestStart, OpsNamed
  <1>7. CASE MarkRunning(a) \/ FirstTask(a) \/ StartFails(a) \/ StartThrows(a)
    BY <1>1, <1>4, <1>7 DEF MarkRunning, FirstTask, StartFails, StartThrows, OpAt, StartPC
  <1>8. CASE SecondTask(a)
    <2>1. NewTaskId \in Id
      BY <1>8, NewNames DEF SecondTask
    <2>2. op' \in [Admin -> Op]
      BY <1>1, <1>8, <2>1 DEF SecondTask, Op, StartPC
    <2>3. \A b \in Admin : op'[b].wf = op[b].wf /\ (b # a => op'[b].pc = op[b].pc)
      BY <1>1, <1>8 DEF SecondTask, Op
    <2> QED BY <1>1, <1>8, <2>2, <2>3 DEF SecondTask, OpAt, OpsNamed
  <1>9. CASE MarkFailed(a)
    BY <1>1, <1>3, <1>9 DEF MarkFailed
  <1>10. CASE EmitFirst(a) \/ AbandonStart(a)
    <2>1. op[a].wf \in Wf
      BY <1>1, <1>10 DEF EmitFirst, AbandonStart, OpAt, StartPC
    <2>2. settled' \subseteq Wf
      BY <1>1, <1>10, <2>1 DEF EmitFirst, AbandonStart
    <2>3. msgs' \in [Id -> Nat] /\ call' = call
      BY <1>1, <1>10 DEF EmitFirst, AbandonStart, Emit
    <2> QED BY <1>3, <1>10, <2>2, <2>3 DEF EmitFirst, AbandonStart
  <1> QED BY <1>1, <1>5, <1>6, <1>7, <1>8, <1>9, <1>10 DEF WorkflowNext, WorkflowFault

LEMMA SeederLeaves ==
  ASSUME AdminBase, NEW a \in Admin, SeederNext(a) \/ SeederFault(a)
  PROVE  UNCHANGED <<op, msgs, call>> /\ settled' \subseteq Wf /\ customers' \in BOOLEAN
  <1>1. settled \subseteq Wf /\ customers \in BOOLEAN
    BY DEF AdminBase, AdminTypeOK
  <1>2. CASE \E template \in SeedWf : SaveWorkflow(a, template)
    BY <1>1, <1>2, NewNames DEF SaveWorkflow
  <1>3. CASE \E type \in SeedType : SaveTasks(a, type)
    BY <1>1, <1>3 DEF SaveTasks
  <1>4. CASE \/ RequestSeed(a) \/ BeginSeed(a) \/ WorkflowsSaved(a) \/ SaveLogs(a)
             \/ SeedFails(a) \/ \E table \in Table : CountRows(a, table)
    BY <1>1, <1>4 DEF RequestSeed, BeginSeed, WorkflowsSaved, SaveLogs, SeedFails, CountRows
  <1>5. CASE \/ \E reset \in BOOLEAN : RequestClear(a, reset)
             \/ Wipe(a) \/ FallbackThrows(a) \/ Cleared(a)
             \/ \E template \in SeedWf : DropSave(a, template)
             \/ ClearThrows(a) \/ AbandonJob(a)
    BY <1>1, <1>5 DEF RequestClear, Wipe, FallbackThrows, Cleared, DropSave, ClearThrows,
                      AbandonJob
  <1> QED BY <1>2, <1>3, <1>4, <1>5 DEF SeederNext, SeederFault

LEMMA AdminBaseInit == AdminInit => AdminBase
  <1>1. NoRow \in Row /\ NoWfRow \in WfRow /\ NoOp \in Op /\ NoJob \in Job
    BY DEF NoRow, Row, NoWfRow, WfRow, NoOp, Op, NoJob, Job
  <1>2. NoCall \in Call
    BY DEF NoCall, Call, PC
  <1> SUFFICES ASSUME AdminInit
               PROVE  AdminBase
    OBVIOUS
  <1>3. db \in [Id -> Row] /\ msgs \in [Id -> Nat] /\ call \in [Slot -> Call]
    BY <1>1, <1>2 DEF AdminInit, Init
  <1>4. /\ wf \in [Wf -> WfRow] /\ owner \in [Id -> Wf \cup {NoWf}]
        /\ op \in [Admin -> Op] /\ settled \subseteq Wf /\ spent \subseteq Wf \cup Id
    BY <1>1 DEF AdminInit, WorkflowInit
  <1>5. /\ job \in [Admin -> Job] /\ customers \in BOOLEAN /\ logs \subseteq Id
        /\ strikes \in 0 .. MaxStrikes
    <2>1. job \in [Admin -> Job] /\ logs \subseteq Id
      BY <1>1 DEF AdminInit, SeederInit
    <2>2. customers \in BOOLEAN
      BY DEF AdminInit, SeederInit
    <2>3. strikes \in 0 .. MaxStrikes
      BY StrikeAssumption DEF AdminInit
    <2> QED BY <2>1, <2>2, <2>3
  <1>6. OpsNamed
    BY DEF AdminInit, WorkflowInit, OpsNamed, NoOp
  <1> QED BY <1>3, <1>4, <1>5, <1>6 DEF AdminBase, AdminTypeOK, TypeOK

LEMMA AdminBaseStep == AdminBase /\ [AdminNext]_avars => AdminBase'
  <1> SUFFICES ASSUME AdminBase, [AdminNext]_avars
               PROVE  AdminBase'
    OBVIOUS
  <1>1. CASE UNCHANGED avars
    BY <1>1 DEF avars, AdminBase, AdminTypeOK, TypeOK, OpsNamed
  <1>2. CASE AdminNext
    <2>1. /\ db' \in [Id -> Row] /\ wf' \in [Wf -> WfRow]
          /\ owner' \in [Id -> Wf \cup {NoWf}]
          /\ logs' \subseteq Id /\ spent' \subseteq Wf \cup Id
      BY AdminRowStep, RowsTyped DEF AdminBase
    <2>2. strikes' \in 0 .. MaxStrikes
      BY <1>2, StrikeAssumption DEF AdminNext, AdminBase, AdminTypeOK
    <2>3. /\ msgs \in [Id -> Nat] /\ call \in [Slot -> Call] /\ op \in [Admin -> Op]
          /\ job \in [Admin -> Job] /\ customers \in BOOLEAN
      BY DEF AdminBase, AdminTypeOK, TypeOK
    <2>4. PICK a \in Admin : \/ (WorkflowNext(a) \/ WorkflowFault(a)) /\ UNCHANGED seedvars
                             \/ SeederNext(a) \/ SeederFault(a)
      BY <1>2 DEF AdminNext
    <2>5. CASE (WorkflowNext(a) \/ WorkflowFault(a)) /\ UNCHANGED seedvars
      <3>1. /\ op' \in [Admin -> Op] /\ OpsNamed'
            /\ settled' \subseteq Wf /\ msgs' \in [Id -> Nat] /\ call' = call
        BY <2>5, StartMoves
      <3>2. job' = job /\ customers' = customers
        BY <2>5 DEF seedvars
      <3> QED BY <2>1, <2>2, <2>3, <3>1, <3>2 DEF AdminBase, AdminTypeOK, TypeOK
    <2>6. CASE SeederNext(a) \/ SeederFault(a)
      <3>1. UNCHANGED <<op, msgs, call>> /\ settled' \subseteq Wf /\ customers' \in BOOLEAN
        BY <2>6, SeederLeaves
      <3>2. job' \in [Admin -> Job]
        BY <2>3, <2>6, SeederJobMove DEF JobMove
      <3>3. OpsNamed'
        BY <3>1 DEF AdminBase, OpsNamed
      <3> QED BY <2>1, <2>2, <2>3, <3>1, <3>2, <3>3 DEF AdminBase, AdminTypeOK, TypeOK
    <2> QED BY <2>4, <2>5, <2>6
  <1> QED BY <1>1, <1>2

\* Every state the rows, the starts and the seeder's work can reach is well
\* formed.
THEOREM AdminTyping == AdminSpec => []AdminTypeOK
  <1>1. AdminBase => AdminTypeOK
    BY DEF AdminBase
  <1> QED BY <1>1, AdminBaseInit, AdminBaseStep, PTL DEF AdminSpec

---------------------------------------------------------------------------
(* References *)

LEMMA NoOrphansStep ==
  ASSUME AdminTypeOK, NoOrphans, RowStep
  PROVE  NoOrphans'
  <1>1. /\ wf \in [Wf -> WfRow] /\ db \in [Id -> Row]
        /\ owner \in [Id -> Wf \cup {NoWf}] /\ logs \subseteq Id
        /\ wf' \in [Wf -> WfRow] /\ db' \in [Id -> Row]
        /\ owner' \in [Id -> Wf \cup {NoWf}]
    BY RowsTyped DEF AdminTypeOK, TypeOK
  <1>2. CASE RowsKept
    BY <1>2 DEF RowsKept, NoOrphans, Exists, Stored
  <1>3. CASE WfAdded \/ WfChanged
    <2>1. \A w \in Wf : Stored(w) => Stored(w)'
      BY <1>1, <1>3 DEF WfAdded, WfChanged, Stored
    <2> QED BY <1>1, <1>3, <2>1 DEF WfAdded, WfChanged, NoOrphans, Exists
  <1>4. CASE TaskAdded
    <2>1. PICK t \in Id, row \in Row, w \in Wf :
            /\ row.status # "absent" /\ Stored(w)
            /\ db' = [db EXCEPT ![t] = row] /\ owner' = [owner EXCEPT ![t] = w]
            /\ UNCHANGED <<wf, logs>>
      BY <1>4, NewNames DEF TaskAdded
    <2>2. /\ db'[t] = row /\ \A u \in Id \ {t} : db'[u] = db[u]
          /\ owner'[t] = w /\ \A u \in Id \ {t} : owner'[u] = owner[u]
      BY <1>1, <2>1
    <2>3. \A u \in Id : Exists(u) => Exists(u)'
      BY <2>1, <2>2 DEF Exists
    <2>4. \A v \in Wf : Stored(v)' = Stored(v)
      BY <2>1 DEF Stored
    <2>5. ASSUME NEW u \in Id, owner'[u] # NoWf
          PROVE  Exists(u)' /\ Stored(owner'[u])
      <3>1. CASE u = t
        BY <2>1, <2>2, <3>1 DEF Exists
      <3>2. CASE u # t
        BY <2>2, <2>3, <2>5, <3>2 DEF NoOrphans
      <3> QED BY <3>1, <3>2
    <2>6. wf' = wf
      BY <2>1
    <2>7. \A u \in logs' : Exists(u)'
      BY <1>1, <2>1, <2>3 DEF NoOrphans
    <2> QED BY <2>5, <2>6, <2>7 DEF NoOrphans, Stored, Exists
  <1>5. CASE Removed
    <2>1. PICK ws \in SUBSET Wf, ts \in SUBSET Id :
            /\ \A t \in Id : owner[t] \in ws => t \in ts
            /\ Remove(ws, ts)
      BY <1>5 DEF Removed
    <2>2. \A t \in Id \ ts : owner'[t] = owner[t] /\ db'[t] = db[t]
      BY <2>1 DEF Remove
    <2>3. \A t \in ts : owner'[t] = NoWf
      BY <2>1 DEF Remove
    <2>4. \A w \in Wf \ ws : wf'[w] = wf[w]
      BY <2>1 DEF Remove
    <2>5. logs' = logs \ ts
      BY <2>1 DEF Remove
    <2> QED BY <1>1, <2>1, <2>2, <2>3, <2>4, <2>5 DEF NoOrphans, Exists, Stored
  <1> QED BY <1>2, <1>3, <1>4, <1>5 DEF RowStep

\* Whatever is truncated, deleted and inserted, no task refers to a workflow
\* and no log row to a task that is gone.
THEOREM ReferencesHold == AdminSpec => []NoOrphans
  <1>1. AdminInit => NoOrphans
    BY WfAssumption DEF AdminInit, WorkflowInit, SeederInit, NoOrphans
  <1>2. AdminBase /\ NoOrphans /\ [AdminNext]_avars => NoOrphans'
    BY AdminRowStep, NoOrphansStep DEF AdminBase
  <1> QED BY <1>1, <1>2, AdminBaseInit, AdminBaseStep, PTL DEF AdminSpec

---------------------------------------------------------------------------
(* What is gone stays gone: a row that was there has gone when its table   *)
(* was empty once, for no uuid is given twice.                             *)

Gone(x) ==
  /\ x \in Wf => ~ Visible(x)
  /\ x \in Id => ~ Exists(x)

\* A uuid that some row has or had.
Known(x) ==
  \/ x \in spent
  \/ x \in Wf /\ Stored(x)
  \/ x \in Id /\ Exists(x)

SpentGone ==
  /\ \A w \in Wf : w \in spent => ~ Stored(w)
  /\ \A t \in Id : t \in spent => ~ Exists(t)

OldKnown == \A a \in Admin : \A x \in job[a].old : Known(x)

\* A pass over the tables has emptied those it has left behind of the rows
\* that were there when it began.
Wiped ==
  \A a \in Admin : job[a].pc \in PassPC =>
    /\ "task" \notin job[a].todo => \A t \in job[a].old \cap Id : ~ Exists(t)
    /\ "workflow" \notin job[a].todo => \A w \in job[a].old \cap Wf : ~ Visible(w)

WipeInv == AdminBase /\ SpentGone /\ OldKnown /\ Wiped

LEMMA SpentGoneStep ==
  ASSUME AdminTypeOK, SpentGone, RowStep
  PROVE  SpentGone'
  <1>1. wf \in [Wf -> WfRow] /\ db \in [Id -> Row] /\ Wf \cap Id = {}
    BY WfAssumption DEF AdminTypeOK, TypeOK
  <1>2. CASE RowsKept
    BY <1>2 DEF RowsKept, SpentGone, Exists, Stored
  <1>3. CASE WfAdded \/ WfChanged
    BY <1>1, <1>3, NewNames DEF WfAdded, WfChanged, SpentGone, Exists, Stored
  <1>4. CASE TaskAdded
    BY <1>1, <1>4, NewNames DEF TaskAdded, SpentGone, Exists, Stored
  <1>5. CASE Removed
    <2>1. PICK ws \in SUBSET Wf, ts \in SUBSET Id : Remove(ws, ts)
      BY <1>5 DEF Removed
    <2>2. /\ \A w \in Wf : wf'[w] = IF w \in ws THEN NoWfRow ELSE wf[w]
          /\ \A t \in Id : db'[t] = IF t \in ts THEN NoRow ELSE db[t]
          /\ spent' = spent \cup {w \in ws : Stored(w)} \cup {t \in ts : Exists(t)}
      BY <2>1 DEF Remove
    <2> QED BY <1>1, <2>1, <2>2 DEF SpentGone, Stored, Exists, NoWfRow, NoRow
  <1> QED BY <1>2, <1>3, <1>4, <1>5 DEF RowStep

LEMMA KnownStays ==
  ASSUME AdminTypeOK, RowStep, NEW x, Known(x)
  PROVE  Known(x)'
  <1>1. wf \in [Wf -> WfRow] /\ db \in [Id -> Row]
    BY DEF AdminTypeOK, TypeOK
  <1>2. CASE RowsKept
    BY <1>2 DEF RowsKept, Known, Exists, Stored
  <1>3. CASE WfAdded \/ WfChanged
    BY <1>1, <1>3 DEF WfAdded, WfChanged, Known, Exists, Stored
  <1>4. CASE TaskAdded
    BY <1>1, <1>4 DEF TaskAdded, Known, Exists, Stored
  <1>5. CASE Removed
    <2>1. PICK ws \in SUBSET Wf, ts \in SUBSET Id : Remove(ws, ts)
      BY <1>5 DEF Removed
    <2>2. /\ \A w \in Wf \ ws : wf'[w] = wf[w]
          /\ \A t \in Id \ ts : db'[t] = db[t]
          /\ spent' = spent \cup {w \in ws : Stored(w)} \cup {t \in ts : Exists(t)}
      BY <2>1 DEF Remove
    <2> QED BY <2>2 DEF Known, Stored, Exists
  <1> QED BY <1>2, <1>3, <1>4, <1>5 DEF RowStep

LEMMA GoneStays ==
  ASSUME AdminTypeOK, SpentGone, RowStep, NEW x, Known(x)
  PROVE  /\ x \in Wf /\ ~ Visible(x) => ~ Visible(x)'
         /\ x \in Id /\ ~ Exists(x) => ~ Exists(x)'
  <1>1. wf \in [Wf -> WfRow] /\ db \in [Id -> Row] /\ Wf \cap Id = {}
    BY WfAssumption DEF AdminTypeOK, TypeOK
  <1>2. CASE RowsKept
    BY <1>2 DEF RowsKept, Exists, Visible, Stored
  <1>3. CASE WfAdded
    BY <1>1, <1>3, NewNames DEF WfAdded, Known, Exists, Visible, Stored
  <1>4. CASE WfChanged
    <2>1. PICK w \in Wf, row \in WfRow :
            /\ Stored(w) /\ (wf[w].deleted => row.deleted)
            /\ wf' = [wf EXCEPT ![w] = row] /\ db' = db
      BY <1>4 DEF WfChanged
    <2> QED BY <1>1, <2>1 DEF Exists, Visible, Stored
  <1>5. CASE TaskAdded
    BY <1>1, <1>5, NewNames DEF TaskAdded, Known, Exists, Visible, Stored
  <1>6. CASE Removed
    <2>1. PICK ws \in SUBSET Wf, ts \in SUBSET Id : Remove(ws, ts)
      BY <1>6 DEF Removed
    <2>2. /\ \A w \in Wf : wf'[w] = IF w \in ws THEN NoWfRow ELSE wf[w]
          /\ \A t \in Id : db'[t] = IF t \in ts THEN NoRow ELSE db[t]
      BY <2>1 DEF Remove
    <2> QED BY <2>2 DEF Visible, Stored, Exists, NoWfRow, NoRow
  <1> QED BY <1>2, <1>3, <1>4, <1>5, <1>6 DEF RowStep

\* No step but the seeder's own touches its work.
LEMMA JobSteps ==
  ASSUME AdminBase, [AdminNext]_avars
  PROVE  job' = job \/ \E a \in Admin : JobMove(a)
  <1>1. CASE UNCHANGED avars
    BY <1>1 DEF avars
  <1>2. CASE AdminNext
    <2>1. PICK a \in Admin : \/ UNCHANGED seedvars
                             \/ SeederNext(a) \/ SeederFault(a)
      BY <1>2 DEF AdminNext
    <2> QED BY <2>1, SeederJobMove DEF seedvars
  <1> QED BY <1>1, <1>2

LEMMA WipeStep == WipeInv /\ [AdminNext]_avars => WipeInv'
  <1> SUFFICES ASSUME WipeInv, [AdminNext]_avars
               PROVE  WipeInv'
    OBVIOUS
  <1>1. RowStep /\ AdminTypeOK /\ AdminBase' /\ AdminBase
    BY AdminRowStep, AdminBaseStep DEF WipeInv, AdminBase
  <1>2. SpentGone'
    BY <1>1, SpentGoneStep DEF WipeInv
  <1>3. job \in [Admin -> Job]
    BY <1>1 DEF AdminTypeOK
  <1>4. \A x : Known(x) => Known(x)'
    BY <1>1, KnownStays
  <1>5. \A x : Known(x) => /\ x \in Wf /\ ~ Visible(x) => ~ Visible(x)'
                           /\ x \in Id /\ ~ Exists(x) => ~ Exists(x)'
    BY <1>1, GoneStays DEF WipeInv
  <1>6. CASE job' = job
    BY <1>1, <1>2, <1>4, <1>5, <1>6 DEF WipeInv, OldKnown, Wiped
  <1>7. ASSUME NEW a \in Admin, JobMove(a)
        PROVE  WipeInv'
    <2>1. PICK new \in Job : job' = [job EXCEPT ![a] = new] /\ PassMove(job[a], new)
      BY <1>7 DEF JobMove
    <2>2. job'[a] = new /\ \A b \in Admin \ {a} : job'[b] = job[b]
      BY <1>3, <2>1
    <2>3. \A x \in Present : Known(x)
      BY DEF Present, Visible, Known
    <2>4. OldKnown'
      BY <1>4, <2>1, <2>2, <2>3 DEF PassMove, WipeInv, OldKnown
    <2>5. ASSUME new.pc \in PassPC
          PROVE  /\ "task" \notin new.todo => \A t \in new.old \cap Id : ~ Exists(t)'
                 /\ "workflow" \notin new.todo => \A w \in new.old \cap Wf : ~ Visible(w)'
      <3>1. CASE new.old = {} \/ Table \subseteq new.todo
        BY <3>1 DEF Table
      <3>2. CASE /\ new.pc = job[a].pc /\ new.old = job[a].old
                 /\ \E table \in Table : new.todo = job[a].todo \ {table} /\ Emptied(table)
        <4>1. PICK table \in Table : new.todo = job[a].todo \ {table} /\ Emptied(table)
          BY <3>2
        <4>2. ASSUME "task" \notin new.todo, NEW t \in new.old \cap Id
              PROVE  ~ Exists(t)'
          <5>1. CASE table = "task"
            BY <4>1, <5>1 DEF Emptied
          <5>2. CASE "task" \notin job[a].todo
            <6>1. ~ Exists(t) /\ Known(t)
              BY <2>5, <3>2, <4>2, <5>2 DEF WipeInv, Wiped, OldKnown
            <6> QED BY <1>5, <4>2, <6>1
          <5> QED BY <4>1, <4>2, <5>1, <5>2
        <4>3. ASSUME "workflow" \notin new.todo, NEW w \in new.old \cap Wf
              PROVE  ~ Visible(w)'
          <5>1. CASE table = "workflow"
            BY <4>1, <5>1 DEF Emptied
          <5>2. CASE "workflow" \notin job[a].todo
            <6>1. ~ Visible(w) /\ Known(w)
              BY <2>5, <3>2, <4>3, <5>2 DEF WipeInv, Wiped, OldKnown
            <6> QED BY <1>5, <4>3, <6>1
          <5> QED BY <4>1, <4>3, <5>1, <5>2
        <4> QED BY <4>2, <4>3
      <3> QED BY <2>1, <2>5, <3>1, <3>2 DEF PassMove
    <2>6. Wiped'
      BY <1>5, <2>2, <2>5 DEF WipeInv, Wiped, OldKnown
    <2> QED BY <1>1, <1>2, <2>4, <2>6 DEF WipeInv
  <1> QED BY <1>1, <1>6, <1>7, JobSteps

LEMMA WipeInit == AdminInit => WipeInv
  <1> SUFFICES ASSUME AdminInit
               PROVE  WipeInv
    OBVIOUS
  <1>1. SpentGone /\ OldKnown /\ Wiped
    BY DEF AdminInit, WorkflowInit, SeederInit, SpentGone, OldKnown, Wiped, NoJob, PassPC
  <1> QED BY <1>1, AdminBaseInit DEF WipeInv

LEMMA WipedAll ==
  ASSUME WipeInv, NEW a \in Admin, job[a].pc \in PassPC, job[a].todo = {}
  PROVE  job[a].old \cap Present = {}
  BY WfAssumption DEF WipeInv, Wiped, Present

\* A seeding never adds to rows that were there all along, whatever the other
\* requests do between its three counts.
THEOREM SeedingFindsNothing == AdminSpec => []SeedsOnlyWhenGone
  <1>1. WipeInv => SeedsOnlyWhenGone
    BY WipedAll DEF SeedsOnlyWhenGone, JobAt, PassPC
  <1> QED BY <1>1, WipeInit, WipeStep, PTL DEF AdminSpec

\* A clear that is about to succeed has removed all it found, even when it had
\* to start over with the fallback.
THEOREM ClearingRemovesAll == AdminSpec => []ClearedWhatWasThere
  <1>1. WipeInv => ClearedWhatWasThere
    BY WipedAll DEF ClearedWhatWasThere, PassPC
  <1> QED BY <1>1, WipeInit, WipeStep, PTL DEF AdminSpec

---------------------------------------------------------------------------
(* Starts that overlap *)

Serves(a, w) == op[a].wf = w /\ op[a].pc \in StartPC

\* The steps that give no workflow the status running, and end no start but
\* of a workflow that is settled or no longer running.
Harmless ==
  \A w \in Wf : wf'[w].status = "running" =>
    /\ wf[w].status = "running"
    /\ w \in settled => w \in settled'
    /\ \A a \in Admin : Serves(a, w) => w \in settled' \/ Serves(a, w)'

LEMMA HarmlessStep ==
  ASSUME RunningHasTask, Harmless
  PROVE  RunningHasTask'
  BY DEF RunningHasTask, Harmless, Serves

LEMMA StartsHarmless ==
  ASSUME AdminBase, RunningHasTask, NEW a \in Admin, WorkflowNext(a) \/ WorkflowFault(a)
  PROVE  RunningHasTask'
  <1>1. wf \in [Wf -> WfRow] /\ op \in [Admin -> Op]
    BY DEF AdminBase, AdminTypeOK
  <1>2. CASE \E active \in Active : CreateWorkflow(a, active)
    <2>1. NewWf \in Wf /\ op' = op /\ settled' = settled
      BY <1>2, NewNames DEF CreateWorkflow
    <2>2. \A w \in Wf : wf'[w].status = "running" => wf'[w] = wf[w]
      BY <1>1, <1>2, <2>1 DEF CreateWorkflow
    <2> QED BY <2>1, <2>2, HarmlessStep DEF Harmless, Serves
  <1>3. CASE \/ \E w \in Wf, active \in Active : UpdateWorkflow(a, w, active)
             \/ \E w \in Wf : DeleteWorkflow(a, w)
    <2>1. op' = op /\ settled' = settled
      BY <1>3 DEF UpdateWorkflow, DeleteWorkflow
    <2>2. \A w \in Wf : wf'[w].status = wf[w].status
      BY <1>1, <1>3 DEF UpdateWorkflow, DeleteWorkflow, WfRow
    <2> QED BY <2>1, <2>2, HarmlessStep DEF Harmless, Serves
  <1>4. CASE \E w \in Wf : RequestStart(a, w)
    <2>1. wf' = wf /\ settled' = settled /\ op[a].pc = "idle"
      BY <1>4 DEF RequestStart, OpAt
    <2>2. \A b \in Admin \ {a} : op'[b] = op[b]
      BY <1>1, <1>4 DEF RequestStart
    <2> QED BY <2>1, <2>2, HarmlessStep DEF Harmless, Serves, StartPC
  <1>5. CASE MarkRunning(a)
    <2>1. op[a].wf \in Wf /\ settled' = settled
      BY <1>5 DEF MarkRunning, OpAt, AdminBase, OpsNamed
    <2>2. /\ op'[a].pc = "first" /\ op'[a].wf = op[a].wf
          /\ \A b \in Admin \ {a} : op'[b] = op[b]
      BY <1>1, <1>5 DEF MarkRunning, OpGoto, Op
    <2>3. \A w \in Wf : w # op[a].wf => wf'[w] = wf[w]
      BY <1>1, <1>5, <2>1 DEF MarkRunning, SetWfStatus
    <2> QED BY <2>1, <2>2, <2>3 DEF RunningHasTask, StartPC
  <1>6. CASE \/ FirstTask(a) \/ SecondTask(a) \/ StartFails(a) \/ StartThrows(a)
    <2>1. wf' = wf /\ settled' = settled
      BY <1>6 DEF FirstTask, SecondTask, StartFails, StartThrows
    <2>2. /\ op'[a].pc \in StartPC /\ op'[a].wf = op[a].wf
          /\ \A b \in Admin \ {a} : op'[b] = op[b]
      BY <1>1, <1>6 DEF FirstTask, SecondTask, StartFails, StartThrows, OpGoto, StartPC, Op
    <2> QED BY <2>1, <2>2, HarmlessStep DEF Harmless, Serves
  <1>7. CASE EmitFirst(a) \/ AbandonStart(a)
    <2>1. wf' = wf /\ settled' = settled \cup {op[a].wf}
      BY <1>7 DEF EmitFirst, AbandonStart
    <2>2. \A b \in Admin \ {a} : op'[b] = op[b]
      BY <1>1, <1>7 DEF EmitFirst, AbandonStart, OpReturn
    <2> QED BY <2>1, <2>2, HarmlessStep DEF Harmless, Serves
  <1>8. CASE MarkFailed(a)
    <2>1. op[a].wf \in Wf /\ settled' = settled
      BY <1>8 DEF MarkFailed, OpAt, AdminBase, OpsNamed
    <2>2. \A b \in Admin \ {a} : op'[b] = op[b]
      BY <1>1, <1>8 DEF MarkFailed, OpReturn
    <2>3. /\ \A w \in Wf : w # op[a].wf => wf'[w] = wf[w]
          /\ wf'[op[a].wf].status # "running"
      BY <1>1, <1>8, <2>1 DEF MarkFailed, SetWfStatus, Stored, WfRow
    <2> QED BY <2>1, <2>2, <2>3, HarmlessStep DEF Harmless, Serves
  <1> QED BY <1>2, <1>3, <1>4, <1>5, <1>6, <1>7, <1>8 DEF WorkflowNext, WorkflowFault

LEMMA SeederHarmless ==
  ASSUME AdminBase, RunningHasTask, NEW a \in Admin, SeederNext(a) \/ SeederFault(a)
  PROVE  RunningHasTask'
  <1>1. wf \in [Wf -> WfRow] /\ op' = op
    BY SeederLeaves DEF AdminBase, AdminTypeOK
  <1>2. ASSUME NEW template \in SeedWf, SaveWorkflow(a, template)
        PROVE  RunningHasTask'
    <2> DEFINE row == [status |-> template, active |-> template # "failed", deleted |-> FALSE]
    <2>1. NewWf \in Wf /\ row.status = template
      BY <1>2, NewNames DEF SaveWorkflow
    <2>2. wf'[NewWf] = row /\ \A w \in Wf \ {NewWf} : wf'[w] = wf[w]
      BY <1>1, <1>2, <2>1 DEF SaveWorkflow
    <2>3. settled \subseteq settled' /\ (template = "running" => NewWf \in settled')
      BY <1>2 DEF SaveWorkflow
    <2> HIDE DEF row
    <2> QED BY <1>1, <2>1, <2>2, <2>3 DEF RunningHasTask
  <1>3. CASE Wipe(a)
    <2>1. settled' = settled
      BY <1>3 DEF Wipe
    <2>2. wf' = wf \/ \E ws \in SUBSET Wf, ts \in SUBSET Id : Remove(ws, ts)
      <3>1. {t \in Id : JobAt(a, "truncate") \/ owner[t] # NoWf} \in SUBSET Id
        OBVIOUS
      <3> QED BY <1>3, <3>1 DEF Wipe
    <2>3. \A w \in Wf : wf'[w].status = "running" => wf'[w] = wf[w]
      BY <2>2 DEF Remove, NoWfRow
    <2> QED BY <1>1, <2>1, <2>3, HarmlessStep DEF Harmless, Serves
  <1>4. CASE \/ RequestSeed(a) \/ BeginSeed(a) \/ WorkflowsSaved(a) \/ SaveLogs(a)
             \/ SeedFails(a) \/ \E table \in Table : CountRows(a, table)
             \/ \E type \in SeedType : SaveTasks(a, type)
    BY <1>1, <1>4 DEF RequestSeed, BeginSeed, WorkflowsSaved, SaveLogs, SeedFails, CountRows,
                      SaveTasks, RunningHasTask
  <1>5. CASE \/ \E reset \in BOOLEAN : RequestClear(a, reset)
             \/ FallbackThrows(a) \/ Cleared(a)
             \/ \E template \in SeedWf : DropSave(a, template)
             \/ ClearThrows(a) \/ AbandonJob(a)
    BY <1>1, <1>5 DEF RequestClear, FallbackThrows, Cleared, DropSave, ClearThrows, AbandonJob,
                      RunningHasTask
  <1> QED BY <1>2, <1>3, <1>4, <1>5 DEF SeederNext, SeederFault

\* However starts of a workflow overlap with one another, with changes of its
\* row and with the seeder, a workflow shown as running that was started has
\* a task on its way.
THEOREM RunningIsServed == AdminSpec => []RunningHasTask
  <1>1. AdminInit => RunningHasTask
    BY DEF AdminInit, WorkflowInit, RunningHasTask, NoWfRow
  <1>2. AdminBase /\ RunningHasTask /\ [AdminNext]_avars => RunningHasTask'
    <2> SUFFICES ASSUME AdminBase, RunningHasTask, [AdminNext]_avars
                 PROVE  RunningHasTask'
      OBVIOUS
    <2>1. CASE UNCHANGED avars
      BY <2>1 DEF avars, RunningHasTask
    <2> QED BY <2>1, StartsHarmless, SeederHarmless DEF AdminNext
  <1> QED BY <1>1, <1>2, AdminBaseInit, AdminBaseStep, PTL DEF AdminSpec

==========================================================================
