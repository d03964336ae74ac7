------------------------ MODULE QueueWorkerProofs ------------------------
(***************************************************************************)
(* Theorems about QueueWorker, for any number of tasks, calls and retries, *)
(* any choice of client requests, and with or without faults and losses.   *)
(***************************************************************************)
EXTENDS QueueWorker, FiniteSetTheorems, TLAPS

---------------------------------------------------------------------------
(* The base invariant: types, and no reference to a row that is not there. *)

RowsNamed ==
  \A t \in Id : /\ Exists(t) <=> db[t].type # "none"
                /\ db[t].cause # NoId => Exists(db[t].cause)

Base == TypeOK /\ NamesExist /\ RowsNamed

\* A uuid is new: no row has it.
LEMMA NewIdIsFresh ==
  ASSUME Fresh # {}
  PROVE  NewId \in Id /\ ~ Exists(NewId)
  BY DEF NewId, Fresh

\* What an update of a row leaves alone.
Keeps ==
  \A u \in Id : /\ db'[u].type = db[u].type
                /\ db'[u].cause = db[u].cause
                /\ Exists(u) <=> Exists(u)'

LEMMA StatusUpdate ==
  ASSUME Base, NEW t \in Id, Exists(t), NEW status \in TaskStatus, SetStatus(t, status)
  PROVE  db' \in [Id -> Row] /\ Keeps
  <1>1. status # "absent" /\ db[t].status # "absent"
    BY DEF Exists, TaskStatus
  <1>2. db' \in [Id -> Row]
    BY DEF Base, TypeOK, SetStatus, Row
  <1>3. Keeps
    BY <1>1 DEF Base, TypeOK, SetStatus, Row, Keeps, Exists
  <1> QED BY <1>2, <1>3

\* Moves of the call in slot s that keep the call's task.
LEMMA GotoMove ==
  ASSUME Base, NEW s \in Slot, NEW pc \in PC, ~ At(s, "idle"), Goto(s, pc)
  PROVE  /\ call' \in [Slot -> Call]
         /\ \A r \in Slot : call'[r].task = call[r].task
         /\ \A r \in Slot : call'[r].pc # "idle" => call[r].pc # "idle"
  BY DEF Base, TypeOK, Goto, Call, At

LEMMA ReturnMove ==
  ASSUME Base, NEW s \in Slot, Return(s)
  PROVE  /\ call' \in [Slot -> Call]
         /\ \A r \in Slot : call'[r].pc # "idle" => call'[r] = call[r]
  BY DEF Base, TypeOK, Return, NoCall, Call, PC

LEMMA BeginMove ==
  ASSUME Base, NEW s \in Slot, NEW pc \in PC, NEW t \in Id, Begin(s, pc, t)
  PROVE  /\ call' \in [Slot -> Call]
         /\ call'[s].pc = pc /\ call'[s].task = t
         /\ \A r \in Slot \ {s} : call'[r] = call[r]
  BY DEF Base, TypeOK, Begin, NoCall, Call

\* A step that updates rows, and moves a call without giving it a new task.
LEMMA UpdateKeepsBase ==
  ASSUME Base, db' \in [Id -> Row], Keeps, call' \in [Slot -> Call],
         \A r \in Slot : call'[r].pc # "idle" =>
           call'[r].task = call[r].task /\ call[r].pc # "idle",
         UNCHANGED msgs
  PROVE  Base'
  <1>1. TypeOK'
    BY DEF Base, TypeOK
  <1>2. NamesExist'
    BY DEF Base, NamesExist, Keeps, At, Task
  <1>3. RowsNamed'
    BY IdAssumption DEF Base, TypeOK, RowsNamed, Keeps, Row
  <1> QED BY <1>1, <1>2, <1>3 DEF Base

\* A step that creates a row and puts a call to work on it.
LEMMA CreationKeepsBase ==
  ASSUME Base, Fresh # {},
         NEW type \in TaskType, NEW payload \in SUBSET Field,
         NEW cause \in Id \cup {NoId}, cause # NoId => Exists(cause),
         NEW origin \in {"client", "worker"},
         Insert(NewId, type, payload, cause, origin),
         NEW s \in Slot, call' \in [Slot -> Call], call'[s].task = NewId,
         \A r \in Slot \ {s} : call'[r] = call[r],
         UNCHANGED msgs
  PROVE  Base'
  <1> DEFINE n == NewId
             row == [type |-> type, status |-> "pending", retries |-> 0,
                     payload |-> payload, cause |-> cause, origin |-> origin]
  <1>1. n \in Id /\ ~ Exists(n)
    BY NewIdIsFresh
  <1>2. row \in Row /\ row.type # "none"
    BY DEF Row, TaskStatus, TaskType, InvoiceType
  <1>3. db' = [db EXCEPT ![n] = row]
    BY DEF Insert
  <1> HIDE DEF n
  <1>4. db' \in [Id -> Row]
    BY <1>1, <1>2, <1>3 DEF Base, TypeOK
  <1>5. /\ db'[n] = row
        /\ \A u \in Id \ {n} : db'[u] = db[u]
    BY <1>1, <1>2, <1>3 DEF Base, TypeOK
  <1>6. \A u \in Id : Exists(u)' <=> u = n \/ Exists(u)
    BY <1>5, <1>2 DEF Exists
  <1>7. call'[s].task = n
    BY DEF n
  <1>8. TypeOK'
    BY <1>4, <1>7 DEF Base, TypeOK
  <1>9. NamesExist'
    BY <1>1, <1>6, <1>7 DEF Base, NamesExist, At, Task
  <1>10. RowsNamed'
    <2> SUFFICES ASSUME NEW t \in Id
                 PROVE  /\ Exists(t)' <=> db'[t].type # "none"
                        /\ db'[t].cause # NoId => Exists(db[t].cause)'
      BY DEF RowsNamed
    <2>1. CASE t = n
      BY <2>1, <1>2, <1>5, <1>6
    <2>2. CASE t # n
      BY <2>2, <1>5, <1>6 DEF Base, RowsNamed, TypeOK, Row
    <2> QED BY <2>1, <2>2
  <1> QED BY <1>8, <1>9, <1>10 DEF Base

LEMMA InsertKeepsBase ==
  ASSUME Base, Fresh # {},
         NEW type \in TaskType, NEW payload \in SUBSET Field,
         NEW cause \in Id \cup {NoId}, cause # NoId => Exists(cause),
         NEW origin \in {"client", "worker"},
         Insert(NewId, type, payload, cause, origin),
         NEW s \in Slot, NEW pc \in PC, Begin(s, pc, NewId), UNCHANGED msgs
  PROVE  Base'
  <1>1. /\ call' \in [Slot -> Call] /\ call'[s].task = NewId
        /\ \A r \in Slot \ {s} : call'[r] = call[r]
    BY NewIdIsFresh, BeginMove
  <1> QED BY <1>1, CreationKeepsBase

\* One step per action: what each does to the base invariant.
LEMMA BaseStep == Base /\ [Next]_vars => Base'
  <1> SUFFICES ASSUME Base, [Next]_vars
               PROVE  Base'
    OBVIOUS
  <1> USE DEF PC, WorkerPC, ClientPC
  <1>1. \A s \in Slot : ~ At(s, "idle") =>
           Task(s) \in Id /\ Exists(Task(s)) /\ db[Task(s)].type \in TaskType
                          /\ db[Task(s)].payload \subseteq Field
    BY DEF Base, TypeOK, NamesExist, RowsNamed, Row
  <1>2. ASSUME NEW s \in Slot, Request(s)
        PROVE  Base'
    <2>1. CASE \E new \in NewTask : CreateTask(s, new)
      <3> PICK new \in NewTask : CreateTask(s, new)
        BY <2>1
      <3>1. new.type \in TaskType /\ new.payload \in SUBSET Field
        BY NewTaskAssumption
      <3> QED BY <3>1, InsertKeepsBase DEF CreateTask
    <2>2. CASE StartInvoiceWorkflow(s)
      <3>1. "fetch_orders" \in TaskType /\ {} \in SUBSET Field
        BY DEF TaskType, InvoiceType
      <3> QED BY <2>2, <3>1, InsertKeepsBase DEF StartInvoiceWorkflow
    <2>3. ASSUME NEW t \in Id, RetryTask(s, t)
          PROVE  Base'
      <3>1. "pending" \in TaskStatus
        BY DEF TaskStatus
      <3>2. db' \in [Id -> Row] /\ Keeps
        BY <2>3, <3>1, StatusUpdate DEF RetryTask, Retriable
      <3>3. /\ call' \in [Slot -> Call]
            /\ call'[s].task = t
            /\ \A r \in Slot \ {s} : call'[r] = call[r]
        BY <2>3, BeginMove DEF RetryTask
      <3>4. TypeOK'
        BY <2>3, <3>2, <3>3 DEF Base, TypeOK, RetryTask
      <3>5. NamesExist'
        BY <2>3, <3>2, <3>3 DEF Base, NamesExist, At, Task, Keeps, RetryTask, Retriable
      <3>6. RowsNamed'
        BY <3>2, IdAssumption DEF Base, TypeOK, RowsNamed, Keeps, Row
      <3> QED BY <3>4, <3>5, <3>6 DEF Base
    <2>4. ASSUME NEW t \in Id, RequeueTask(s, t) \/ CancelTask(s, t)
          PROVE  Base'
      <3>1. Exists(t) /\ UNCHANGED <<db, msgs>>
        BY <2>4 DEF RequeueTask, CancelTask, Retriable, Exists
      <3>2. /\ call' \in [Slot -> Call]
            /\ call'[s].task = t
            /\ \A r \in Slot \ {s} : call'[r] = call[r]
        BY <2>4, BeginMove DEF RequeueTask, CancelTask
      <3>3. NamesExist'
        BY <3>1, <3>2 DEF Base, NamesExist, At, Task, Exists
      <3> QED BY <3>1, <3>2, <3>3 DEF Base, TypeOK, RowsNamed, Exists
    <2>5. ASSUME NEW t \in Id, CompensateTask(s, t)
          PROVE  Base'
      <3>1. "compensation" \in TaskType /\ {} \in SUBSET Field
        BY DEF TaskType
      <3> QED BY <2>5, <3>1, InsertKeepsBase DEF CompensateTask
    <2> QED BY <1>2, <2>1, <2>2, <2>3, <2>4, <2>5 DEF Request
  <1>3. ASSUME NEW s \in Slot, NEW t \in Id, Deliver(s, t)
        PROVE  Base'
    <2>1. /\ msgs' \in [Id -> Nat] /\ UNCHANGED db
          /\ \A u \in Id : msgs'[u] > 0 => msgs[u] > 0
          /\ msgs[t] > 0
      BY <1>3 DEF Deliver, Base, TypeOK
    <2>2. /\ call' \in [Slot -> Call]
          /\ call'[s].task = t
          /\ \A r \in Slot \ {s} : call'[r] = call[r]
      BY <1>3, BeginMove DEF Deliver
    <2>3. NamesExist'
      BY <2>1, <2>2 DEF Base, NamesExist, At, Task, Exists
    <2> QED BY <2>1, <2>2, <2>3 DEF Base, TypeOK, RowsNamed, Exists
  <1>4. ASSUME NEW s \in Slot, Start(s)
        PROVE  Base'
    <2>1. "processing" \in TaskStatus
      BY DEF TaskStatus
    <2>2. db' \in [Id -> Row] /\ Keeps
      BY <1>1, <1>4, <2>1, StatusUpdate DEF Start, At
    <2>3. /\ call' \in [Slot -> Call]
          /\ \A r \in Slot : call'[r].task = call[r].task
          /\ \A r \in Slot : call'[r].pc # "idle" => call[r].pc # "idle"
      BY <1>4, GotoMove DEF Start, Catch, At
    <2> QED BY <1>4, <2>2, <2>3, UpdateKeepsBase DEF Start
  <1>5. ASSUME NEW s \in Slot, Succeed(s)
        PROVE  Base'
    <2>1. /\ call' \in [Slot -> Call]
          /\ \A r \in Slot : call'[r].task = call[r].task
          /\ \A r \in Slot : call'[r].pc # "idle" => call[r].pc # "idle"
      <3>1. PICK pc \in PC, snap \in SUBSET Field :
              call' = [call EXCEPT ![s].snap = snap, ![s].pc = pc]
        BY <1>1, <1>5 DEF Succeed, At
      <3>2. call[s].pc # "idle"
        BY <1>5 DEF Succeed, At
      <3> QED BY <3>1, <3>2 DEF Base, TypeOK, Call
    <2>2. db' \in [Id -> Row] /\ Keeps
      BY <1>5 DEF Succeed, Keeps, Base, TypeOK, Exists
    <2> QED BY <1>5, <2>1, <2>2, UpdateKeepsBase DEF Succeed
  <1>6. ASSUME NEW s \in Slot, Fail(s) \/ Throw(s)
        PROVE  Base'
    <2>1. /\ call' \in [Slot -> Call]
          /\ \A r \in Slot : call'[r].task = call[r].task
          /\ \A r \in Slot : call'[r].pc # "idle" => call[r].pc # "idle"
      BY <1>6, GotoMove DEF Fail, Throw, At
    <2>2. db' \in [Id -> Row] /\ Keeps
      BY <1>6 DEF Fail, Throw, Keeps, Base, TypeOK, Exists
    <2> QED BY <1>6, <2>1, <2>2, UpdateKeepsBase DEF Fail, Throw
  <1>7. ASSUME NEW s \in Slot, Store(s)
        PROVE  Base'
    <2>1. /\ call' \in [Slot -> Call]
          /\ \A r \in Slot : call'[r].task = call[r].task
          /\ \A r \in Slot : call'[r].pc # "idle" => call[r].pc # "idle"
      BY <1>7, GotoMove DEF Store, Catch, At
    <2>2. call[s].snap \cup Product(db[Task(s)].type) \in SUBSET Field
      BY DEF Base, TypeOK, Call, Product, Field
    <2>3. db' \in [Id -> Row] /\ Keeps
      BY <1>1, <1>7, <2>2 DEF Store, At, Keeps, Base, TypeOK, Exists, Row
    <2> QED BY <1>7, <2>1, <2>3, UpdateKeepsBase DEF Store
  <1>8. ASSUME NEW s \in Slot, Complete(s)
        PROVE  Base'
    <2>1. "completed" \in TaskStatus
      BY DEF TaskStatus
    <2>2. db' \in [Id -> Row] /\ Keeps
      BY <1>1, <1>8, <2>1, StatusUpdate DEF Complete, At
    <2>3. /\ call' \in [Slot -> Call]
          /\ \A r \in Slot : call'[r].pc # "idle" =>
               call'[r].task = call[r].task /\ call[r].pc # "idle"
      BY <1>8, GotoMove, ReturnMove DEF Complete, Catch, At
    <2> QED BY <1>8, <2>2, <2>3, UpdateKeepsBase DEF Complete
  <1>9. ASSUME NEW s \in Slot, FailIncr(s)
        PROVE  Base'
    <2>1. /\ call' \in [Slot -> Call]
          /\ \A r \in Slot : call'[r].task = call[r].task
          /\ \A r \in Slot : call'[r].pc # "idle" => call[r].pc # "idle"
      BY <1>9, GotoMove DEF FailIncr, At
    <2>2. db' \in [Id -> Row] /\ Keeps
      BY <1>1, <1>9 DEF FailIncr, At, Keeps, Base, TypeOK, Exists, Row
    <2> QED BY <1>9, <2>1, <2>2, UpdateKeepsBase DEF FailIncr
  <1>10. ASSUME NEW s \in Slot, FailRead(s)
         PROVE  Base'
    <2>1. /\ call' \in [Slot -> Call]
          /\ \A r \in Slot : call'[r].task = call[r].task
          /\ \A r \in Slot : call'[r].pc # "idle" => call[r].pc # "idle"
      BY <1>1, <1>10 DEF FailRead, Base, TypeOK, Call, At, Row
    <2>2. db' \in [Id -> Row] /\ Keeps
      BY <1>10 DEF FailRead, Keeps, Base, TypeOK, Exists
    <2> QED BY <1>10, <2>1, <2>2, UpdateKeepsBase DEF FailRead
  <1>11. ASSUME NEW s \in Slot, FailWrite(s)
         PROVE  Base'
    <2>1. "failed" \in TaskStatus /\ "pending" \in TaskStatus
      BY DEF TaskStatus
    <2>2. db' \in [Id -> Row] /\ Keeps
      BY <1>1, <1>11, <2>1, StatusUpdate DEF FailWrite, At
    <2>3. /\ call' \in [Slot -> Call]
          /\ \A r \in Slot : call'[r].pc # "idle" =>
               call'[r].task = call[r].task /\ call[r].pc # "idle"
      BY <1>11, GotoMove, ReturnMove DEF FailWrite, At
    <2> QED BY <1>11, <2>2, <2>3, UpdateKeepsBase DEF FailWrite
  <1>12. ASSUME NEW s \in Slot, Advance(s)
         PROVE  Base'
    <2>1. Successor(db[Task(s)].type) \in TaskType
      BY <1>12 DEF Advance, Successor, TaskType, InvoiceType
    <2>2. db[Task(s)].payload \cap Carried(db[Task(s)].type) \in SUBSET Field
      BY <1>1, <1>12 DEF Advance, At
    <2> QED BY <1>1, <1>12, <2>1, <2>2, InsertKeepsBase DEF Advance, At
  <1>13. ASSUME NEW s \in Slot, Finish(s) \/ Abort(s)
         PROVE  Base'
    <2>1. db' \in [Id -> Row] /\ Keeps
      BY <1>13 DEF Finish, Abort, Keeps, Base, TypeOK, Exists
    <2> QED BY <1>13, <2>1, ReturnMove, UpdateKeepsBase DEF Finish, Abort
  <1>14. ASSUME NEW s \in Slot, Compensate(s)
         PROVE  Base'
    <2>1. "compensation" \in TaskType /\ {} \in SUBSET Field
      BY DEF TaskType
    <2> QED BY <1>1, <1>14, <2>1, InsertKeepsBase DEF Compensate, At
  <1>15. ASSUME NEW s \in Slot, Enqueue(s)
         PROVE  Base'
    <2>1. "fetch_orders" \in TaskType /\ {} \in SUBSET Field
      BY DEF TaskType, InvoiceType
    <2> QED BY <1>1, <1>15, <2>1, InsertKeepsBase DEF Enqueue, At
  <1>16. ASSUME NEW s \in Slot, Cancel(s)
         PROVE  Base'
    <2>1. "cancelled" \in TaskStatus
      BY DEF TaskStatus
    <2>2. db' \in [Id -> Row] /\ Keeps
      BY <1>1, <1>16, <2>1, StatusUpdate DEF Cancel, At
    <2> QED BY <1>16, <2>2, ReturnMove, UpdateKeepsBase DEF Cancel
  <1>17. ASSUME NEW s \in Slot, Publish(s)
         PROVE  Base'
    <2>1. /\ UNCHANGED db
          /\ msgs' \in [Id -> Nat]
          /\ \A u \in Id : msgs'[u] > 0 => msgs[u] > 0 \/ u = Task(s)
      BY <1>17 DEF Publish, Emit, Base, TypeOK
    <2>2. NamesExist'
      BY <1>1, <1>17, <2>1, ReturnMove DEF Publish, Base, NamesExist, At, Task, Exists
    <2> QED BY <1>17, <2>1, <2>2, ReturnMove DEF Publish, Base, TypeOK, RowsNamed, Exists
  <1>18. CASE UNCHANGED vars
    BY <1>18 DEF vars, Base, TypeOK, NamesExist, RowsNamed, Exists, At, Task
  <1> QED
    BY <1>2, <1>3, <1>4, <1>5, <1>6, <1>7, <1>8, <1>9, <1>10, <1>11, <1>12,
       <1>13, <1>14, <1>15, <1>16, <1>17, <1>18 DEF Next, Calm, Step

LEMMA BaseInit == Init => Base
  BY IdAssumption DEF Init, Base, TypeOK, NamesExist, RowsNamed, NoRow, NoCall, Row, Call,
     PC, Exists, At

\* The variables always have their types.
THEOREM Typing == Spec => []TypeOK
  BY BaseInit, BaseStep, PTL DEF Spec, Base

\* No message and no call ever names a task whose row is not there.
THEOREM NoDanglingReference == Spec => []NamesExist
  BY BaseInit, BaseStep, PTL DEF Spec, Base

---------------------------------------------------------------------------
(* What the statements on rows and calls do, field by field. *)

LEMMA InsertEffect ==
  ASSUME Base, Fresh # {}, NEW type, NEW payload, NEW cause, NEW origin,
         Insert(NewId, type, payload, cause, origin)
  PROVE  /\ NewId \in Id /\ ~ Exists(NewId)
         /\ \A u \in Id \ {NewId} : db'[u] = db[u]
         /\ db'[NewId].type = type /\ db'[NewId].status = "pending"
         /\ db'[NewId].retries = 0 /\ db'[NewId].payload = payload
         /\ db'[NewId].cause = cause /\ db'[NewId].origin = origin
  <1>1. NewId \in Id /\ ~ Exists(NewId)
    BY NewIdIsFresh
  <1>2. /\ db'[NewId] = [type |-> type, status |-> "pending", retries |-> 0,
                         payload |-> payload, cause |-> cause, origin |-> origin]
        /\ \A u \in Id \ {NewId} : db'[u] = db[u]
    BY <1>1 DEF Insert, Base, TypeOK
  <1> QED BY <1>1, <1>2

LEMMA StatusEffect ==
  ASSUME Base, NEW t \in Id, NEW status, SetStatus(t, status)
  PROVE  /\ db'[t].status = status
         /\ \A u \in Id \ {t} : db'[u] = db[u]
         /\ \A u \in Id : /\ db'[u].type = db[u].type
                          /\ db'[u].retries = db[u].retries
                          /\ db'[u].payload = db[u].payload
                          /\ db'[u].cause = db[u].cause
                          /\ db'[u].origin = db[u].origin
  BY DEF SetStatus, Base, TypeOK, Row

LEMMA GotoEffect ==
  ASSUME Base, NEW s \in Slot, NEW pc, Goto(s, pc)
  PROVE  /\ call'[s].pc = pc
         /\ call'[s].task = call[s].task
         /\ call'[s].seen = call[s].seen /\ call'[s].snap = call[s].snap
         /\ \A r \in Slot \ {s} : call'[r] = call[r]
  BY DEF Goto, Base, TypeOK, Call

LEMMA BeginEffect ==
  ASSUME Base, NEW s \in Slot, NEW pc, NEW t, Begin(s, pc, t)
  PROVE  /\ call'[s].pc = pc /\ call'[s].task = t
         /\ \A r \in Slot \ {s} : call'[r] = call[r]
  BY DEF Begin, NoCall, Base, TypeOK

LEMMA ReturnEffect ==
  ASSUME Base, NEW s \in Slot, Return(s)
  PROVE  /\ call'[s].pc = "idle" /\ call'[s].task = NoId
         /\ \A r \in Slot \ {s} : call'[r] = call[r]
  BY DEF Return, NoCall, Base, TypeOK

\* The actions that create a row all have this shape.
Creates(s, type, payload, cause, origin, pc) ==
  /\ pc \in {"publish", "enqueue"}
  /\ Fresh # {}
  /\ Insert(NewId, type, payload, cause, origin)
  /\ Begin(s, pc, NewId)
  /\ UNCHANGED msgs

CreationOf(s) ==
  \/ StartInvoiceWorkflow(s) \/ Enqueue(s) \/ Advance(s) \/ Compensate(s)
  \/ \E new \in NewTask : CreateTask(s, new)
  \/ \E t \in Id : CompensateTask(s, t)

LEMMA CreationSteps ==
  ASSUME NEW s \in Slot, CreationOf(s)
  PROVE  \E type, payload, cause, origin, pc :
           Creates(s, type, payload, cause, origin, pc)
  <1>1. CASE StartInvoiceWorkflow(s)
    <2>1. Creates(s, "fetch_orders", {}, NoId, "client", "enqueue")
      BY <1>1 DEF StartInvoiceWorkflow, Creates
    <2> QED BY <2>1
  <1>2. CASE Enqueue(s)
    <2>1. Creates(s, "fetch_orders", {}, NoId, "client", "publish")
      BY <1>2 DEF Enqueue, Creates
    <2> QED BY <2>1
  <1>3. CASE Advance(s)
    <2>1. Creates(s, Successor(db[Task(s)].type),
                  db[Task(s)].payload \cap Carried(db[Task(s)].type),
                  Task(s), "worker", "publish")
      BY <1>3 DEF Advance, Creates
    <2> QED BY <2>1
  <1>4. CASE Compensate(s)
    <2>1. Creates(s, "compensation", {}, Task(s), "worker", "publish")
      BY <1>4 DEF Compensate, Creates
    <2> QED BY <2>1
  <1>5. ASSUME NEW new \in NewTask, CreateTask(s, new)
        PROVE  \E type, payload, cause, origin, pc :
                 Creates(s, type, payload, cause, origin, pc)
    <2>1. Creates(s, new.type, new.payload, NoId, "client", "publish")
      BY <1>5 DEF CreateTask, Creates
    <2> QED BY <2>1
  <1>6. ASSUME NEW t \in Id, CompensateTask(s, t)
        PROVE  \E type, payload, cause, origin, pc :
                 Creates(s, type, payload, cause, origin, pc)
    <2>1. Creates(s, "compensation", {}, t, "client", "publish")
      BY <1>6 DEF CompensateTask, Creates
    <2> QED BY <2>1
  <1> QED BY <1>1, <1>2, <1>3, <1>4, <1>5, <1>6 DEF CreationOf

---------------------------------------------------------------------------
(* Given up only when exhausted.  A call decides on the retries it read, so *)
(* the invariant must say that what it read was never more than the row has. *)

SeenIsPast ==
  \A s \in Slot : At(s, "failWrite") => call[s].seen <= db[Task(s)].retries

FailedInv == FailedIsExhausted /\ SeenIsPast

\* A row's retries never fall, and no row becomes failed: enough for a step
\* that brings no call to failWrite.
LEMMA FailedInvKept ==
  ASSUME Base, Base', FailedInv,
         \A u \in Id : Exists(u) => db[u].retries <= db'[u].retries,
         \A u \in Id : db'[u].status = "failed" => db[u].status = "failed",
         \A r \in Slot : call'[r].pc = "failWrite" => call'[r] = call[r]
  PROVE  FailedInv'
  <1>1. \A u \in Id : db[u].retries \in Nat /\ db'[u].retries \in Nat
    BY DEF Base, TypeOK, Row
  <1>2. FailedIsExhausted'
    BY <1>1, MaxRetriesAssumption DEF FailedInv, FailedIsExhausted, Exists
  <1>3. ASSUME NEW s \in Slot, At(s, "failWrite")'
        PROVE  call'[s].seen <= db'[Task(s)'].retries
    <2>1. call'[s] = call[s] /\ At(s, "failWrite")
      BY <1>3 DEF At
    <2>2. Task(s) \in Id /\ Exists(Task(s)) /\ call[s].seen \in Nat
      BY <2>1 DEF Base, TypeOK, NamesExist, At, Task, Call
    <2> QED BY <1>1, <2>1, <2>2 DEF FailedInv, SeenIsPast, Task
  <1> QED BY <1>2, <1>3 DEF FailedInv, SeenIsPast

LEMMA FailedInvStep == Base /\ FailedInv /\ [Next]_vars => FailedInv'
  <1> SUFFICES ASSUME Base, FailedInv, [Next]_vars
               PROVE  FailedInv'
    OBVIOUS
  <1>1. Base'
    BY BaseStep
  <1>2. \A s \in Slot : ~ At(s, "idle") => Task(s) \in Id /\ Exists(Task(s))
    BY DEF Base, NamesExist
  <1>3. \A u \in Id : db[u].retries \in Nat /\ db'[u].retries \in Nat
    BY <1>1 DEF Base, TypeOK, Row
  <1>4. ASSUME NEW s \in Slot, CreationOf(s)
        PROVE  FailedInv'
    <2>1. PICK type, payload, cause, origin, pc :
            Creates(s, type, payload, cause, origin, pc)
      BY <1>4, CreationSteps
    <2>2. /\ \A u \in Id : Exists(u) => db'[u] = db[u]
          /\ \A u \in Id : db'[u].status = "failed" => db'[u] = db[u]
      BY <2>1, InsertEffect DEF Creates
    <2>3. \A r \in Slot : call'[r].pc = "failWrite" => call'[r] = call[r]
      BY <2>1, BeginEffect DEF Creates
    <2> QED BY <1>1, <1>3, <2>2, <2>3, FailedInvKept
  <1>5. ASSUME NEW s \in Slot,
               \/ Start(s) \/ Complete(s) \/ Cancel(s)
               \/ \E t \in Id : RetryTask(s, t)
        PROVE  FailedInv'
    <2>1. PICK t \in Id, status \in {"processing", "completed", "cancelled", "pending"} :
            SetStatus(t, status)
      BY <1>2, <1>5 DEF Start, Complete, Cancel, RetryTask, At
    <2>2. /\ \A u \in Id : db[u].retries <= db'[u].retries
          /\ \A u \in Id : db'[u].status = "failed" => db[u].status = "failed"
      BY <1>3, <2>1, StatusEffect
    <2>3. \A r \in Slot : call'[r].pc = "failWrite" => call'[r] = call[r]
      BY <1>5, GotoEffect, BeginEffect, ReturnEffect
         DEF Start, Complete, Cancel, RetryTask, Catch
    <2> QED BY <1>1, <2>2, <2>3, FailedInvKept
  <1>6. ASSUME NEW s \in Slot,
               \/ Fail(s) \/ Throw(s) \/ Finish(s) \/ Abort(s) \/ Publish(s)
               \/ \E t \in Id : Deliver(s, t) \/ RequeueTask(s, t) \/ CancelTask(s, t)
        PROVE  FailedInv'
    <2>1. UNCHANGED db
      BY <1>6 DEF Fail, Throw, Finish, Abort, Publish, Deliver, RequeueTask, CancelTask
    <2>2. \A r \in Slot : call'[r].pc = "failWrite" => call'[r] = call[r]
      BY <1>6, GotoEffect, BeginEffect, ReturnEffect
         DEF Fail, Throw, Finish, Abort, Publish, Deliver, RequeueTask, CancelTask
    <2> QED BY <1>1, <1>3, <2>1, <2>2, FailedInvKept
  <1>7. ASSUME NEW s \in Slot, Succeed(s)
        PROVE  FailedInv'
    <2>1. UNCHANGED db
      BY <1>7 DEF Succeed
    <2>2. \A r \in Slot : call'[r].pc = "failWrite" => call'[r] = call[r]
      BY <1>7 DEF Succeed, Base, TypeOK, Call
    <2> QED BY <1>1, <1>3, <2>1, <2>2, FailedInvKept
  <1>8. ASSUME NEW s \in Slot, Store(s)
        PROVE  FailedInv'
    <2>1. \A u \in Id : db'[u].status = db[u].status /\ db'[u].retries = db[u].retries
      BY <1>2, <1>8 DEF Store, At, Base, TypeOK, Row
    <2>2. \A r \in Slot : call'[r].pc = "failWrite" => call'[r] = call[r]
      BY <1>8, GotoEffect DEF Store, Catch
    <2>3. /\ \A u \in Id : db[u].retries <= db'[u].retries
          /\ \A u \in Id : db'[u].status = "failed" => db[u].status = "failed"
      BY <1>3, <2>1
    <2> QED BY <1>1, <2>2, <2>3, FailedInvKept
  <1>9. ASSUME NEW s \in Slot, FailIncr(s)
        PROVE  FailedInv'
    <2>1. \A u \in Id : db'[u].status = db[u].status
      BY <1>2, <1>9 DEF FailIncr, At, Base, TypeOK, Row
    <2>2. \A u \in Id : db[u].retries <= db'[u].retries
      BY <1>2, <1>3, <1>9 DEF FailIncr, At, Base, TypeOK, Row
    <2>3. \A r \in Slot : call'[r].pc = "failWrite" => call'[r] = call[r]
      BY <1>9, GotoEffect DEF FailIncr
    <2>4. \A u \in Id : db'[u].status = "failed" => db[u].status = "failed"
      BY <2>1
    <2> QED BY <1>1, <2>2, <2>3, <2>4, FailedInvKept
  <1>10. ASSUME NEW s \in Slot, FailRead(s)
         PROVE  FailedInv'
    <2>1. UNCHANGED db
      BY <1>10 DEF FailRead
    <2>2. /\ call'[s].task = Task(s) /\ call'[s].seen = db[Task(s)].retries
          /\ \A r \in Slot \ {s} : call'[r] = call[r]
      BY <1>10 DEF FailRead, Base, TypeOK, Call, Task
    <2>3. Task(s) \in Id
      BY <1>2, <1>10 DEF FailRead, At
    <2> QED BY <1>3, <2>1, <2>2, <2>3 DEF FailedInv, FailedIsExhausted, SeenIsPast, At, Task
  <1>11. ASSUME NEW s \in Slot, FailWrite(s)
         PROVE  FailedInv'
    <2> DEFINE t == Task(s)
               verdict == IF call[s].seen >= MaxRetries THEN "failed" ELSE "pending"
    <2>1. /\ t \in Id /\ SetStatus(t, verdict)
          /\ call[s].seen <= db[t].retries /\ call[s].seen \in Nat
      BY <1>2, <1>11 DEF FailWrite, At, FailedInv, SeenIsPast, Base, TypeOK, Call
    <2>2. verdict = "failed" => db[t].retries >= MaxRetries
      BY <1>3, <2>1, MaxRetriesAssumption
    <2>3. \A r \in Slot : call'[r].pc = "failWrite" => call'[r] = call[r] /\ r # s
      BY <1>11, GotoEffect, ReturnEffect DEF FailWrite
    <2> HIDE DEF t, verdict
    <2>4. FailedIsExhausted'
      BY <2>1, <2>2, StatusEffect DEF FailedInv, FailedIsExhausted
    <2>5. SeenIsPast'
      BY <1>2, <2>1, <2>3, StatusEffect DEF FailedInv, SeenIsPast, At, Task
    <2> QED BY <2>4, <2>5 DEF FailedInv
  <1>12. CASE UNCHANGED vars
    BY <1>12 DEF vars, FailedInv, FailedIsExhausted, SeenIsPast, At, Task
  <1> QED
    BY <1>4, <1>5, <1>6, <1>7, <1>8, <1>9, <1>10, <1>11, <1>12
       DEF Next, Calm, Step, Request, CreationOf

\* A task is never marked failed before it has failed MaxRetries times, however
\* the attempts at it interleave, crash or throw.
THEOREM GivenUpOnlyWhenExhausted == Spec => []FailedIsExhausted
  <1>1. Init => Base /\ FailedInv
    BY BaseInit DEF Init, FailedInv, FailedIsExhausted, SeenIsPast, NoRow, NoCall, At
  <1>2. Base /\ FailedInv /\ [Next]_vars => (Base /\ FailedInv)'
    BY BaseStep, FailedInvStep
  <1> QED BY <1>1, <1>2, PTL DEF Spec, FailedInv

---------------------------------------------------------------------------
(* Results are kept.  A call writes back the payload it read before its own *)
(* work; what makes that harmless is that the copy differs from the row, if *)
(* at all, only in the product that every attempt at the task adds.         *)

StoreLosesNothing ==
  \A s \in Slot : At(s, "store") =>
    LET P == Product(db[Task(s)].type) IN
    call[s].snap \cup P = db[Task(s)].payload \cup P

CompleteHasProduct ==
  \A s \in Slot : At(s, "complete") =>
    Product(db[Task(s)].type) \subseteq db[Task(s)].payload

AbsentIsEmpty == \A t \in Id : ~ Exists(t) => db[t].payload = {}

PayloadInv ==
  CompletedHasProduct /\ StoreLosesNothing /\ CompleteHasProduct /\ AbsentIsEmpty

LEMMA PayloadInvKept ==
  ASSUME Base, Base', PayloadInv,
         \A u \in Id : Exists(u) =>
           db'[u].type = db[u].type /\ db'[u].payload = db[u].payload,
         \A u \in Id : db'[u].status = "completed" => Exists(u) /\ db[u].status = "completed",
         \A u \in Id : ~ Exists(u)' => ~ Exists(u) /\ db'[u] = db[u],
         \A r \in Slot : call'[r].pc \in {"store", "complete"} => call'[r] = call[r]
  PROVE  PayloadInv'
  <1>1. CompletedHasProduct'
    BY DEF PayloadInv, CompletedHasProduct
  <1>2. AbsentIsEmpty'
    BY DEF PayloadInv, AbsentIsEmpty
  <1>3. ASSUME NEW s \in Slot, call'[s].pc \in {"store", "complete"}
        PROVE  /\ call'[s] = call[s]
               /\ db'[call[s].task].type = db[call[s].task].type
               /\ db'[call[s].task].payload = db[call[s].task].payload
    BY <1>3 DEF Base, NamesExist, At, Task
  <1>4. StoreLosesNothing'
    BY <1>3 DEF PayloadInv, StoreLosesNothing, At, Task
  <1>5. CompleteHasProduct'
    BY <1>3 DEF PayloadInv, CompleteHasProduct, At, Task
  <1> QED BY <1>1, <1>2, <1>4, <1>5 DEF PayloadInv

LEMMA PayloadInvStep == Base /\ PayloadInv /\ [Next]_vars => PayloadInv'
  <1> SUFFICES ASSUME Base, PayloadInv, [Next]_vars
               PROVE  PayloadInv'
    OBVIOUS
  <1>1. Base'
    BY BaseStep
  <1>2. \A s \in Slot : ~ At(s, "idle") => Task(s) \in Id /\ Exists(Task(s))
    BY DEF Base, NamesExist
  <1>3. ASSUME NEW s \in Slot, CreationOf(s)
        PROVE  PayloadInv'
    <2>1. PICK type, payload, cause, origin, pc :
            Creates(s, type, payload, cause, origin, pc)
      BY <1>3, CreationSteps
    <2>2. /\ \A u \in Id : Exists(u) => db'[u] = db[u]
          /\ \A u \in Id : db'[u].status = "completed" => db'[u] = db[u]
          /\ \A u \in Id : ~ Exists(u)' => db'[u] = db[u]
      BY <2>1, InsertEffect DEF Creates, Exists
    <2>3. \A r \in Slot : call'[r].pc \in {"store", "complete"} => call'[r] = call[r]
      BY <2>1, BeginEffect DEF Creates
    <2> QED BY <1>1, <2>2, <2>3, PayloadInvKept DEF Exists
  <1>4. ASSUME NEW s \in Slot,
               \/ Start(s) \/ Cancel(s) \/ FailWrite(s)
               \/ \E t \in Id : RetryTask(s, t)
        PROVE  PayloadInv'
    <2>1. PICK t \in Id, status \in {"processing", "cancelled", "pending", "failed"} :
            Exists(t) /\ SetStatus(t, status)
      BY <1>2, <1>4 DEF Start, Cancel, FailWrite, RetryTask, Retriable, At
    <2>2. /\ \A u \in Id : db'[u].type = db[u].type /\ db'[u].payload = db[u].payload
          /\ \A u \in Id : db'[u].status = "completed" => Exists(u) /\ db[u].status = "completed"
          /\ \A u \in Id : ~ Exists(u)' => ~ Exists(u) /\ db'[u] = db[u]
      BY <2>1, StatusEffect DEF Exists
    <2>3. \A r \in Slot : call'[r].pc \in {"store", "complete"} => call'[r] = call[r]
      BY <1>4, GotoEffect, BeginEffect, ReturnEffect
         DEF Start, Cancel, FailWrite, RetryTask, Catch
    <2> QED BY <1>1, <2>2, <2>3, PayloadInvKept
  <1>5. ASSUME NEW s \in Slot, Complete(s)
        PROVE  PayloadInv'
    <2>1. /\ Task(s) \in Id /\ SetStatus(Task(s), "completed")
          /\ Product(db[Task(s)].type) \subseteq db[Task(s)].payload
      BY <1>2, <1>5 DEF Complete, At, PayloadInv, CompleteHasProduct
    <2>2. /\ \A u \in Id : db'[u].type = db[u].type /\ db'[u].payload = db[u].payload
          /\ \A u \in Id : db'[u].status = "completed" => u = Task(s) \/ db[u].status = "completed"
          /\ \A u \in Id : ~ Exists(u)' => ~ Exists(u)
      BY <2>1, StatusEffect DEF Exists
    <2>3. \A r \in Slot : call'[r].pc \in {"store", "complete"} => call'[r] = call[r]
      BY <1>5, GotoEffect, ReturnEffect DEF Complete, Catch
    <2>4. CompletedHasProduct'
      BY <2>1, <2>2 DEF PayloadInv, CompletedHasProduct
    <2>5. AbsentIsEmpty'
      BY <2>2 DEF PayloadInv, AbsentIsEmpty
    <2>6. StoreLosesNothing' /\ CompleteHasProduct'
      BY <1>2, <2>2, <2>3 DEF PayloadInv, StoreLosesNothing, CompleteHasProduct, At, Task
    <2> QED BY <2>4, <2>5, <2>6 DEF PayloadInv
  <1>6. ASSUME NEW s \in Slot,
               \/ Fail(s) \/ Throw(s) \/ Finish(s) \/ Abort(s) \/ Publish(s) \/ FailRead(s)
               \/ \E t \in Id : Deliver(s, t) \/ RequeueTask(s, t) \/ CancelTask(s, t)
        PROVE  PayloadInv'
    <2>1. UNCHANGED db
      BY <1>6 DEF Fail, Throw, Finish, Abort, Publish, FailRead, Deliver, RequeueTask, CancelTask
    <2>2. CASE FailRead(s)
      <3>1. \A r \in Slot : call'[r].pc \in {"store", "complete"} => call'[r] = call[r]
        BY <2>2 DEF FailRead, Base, TypeOK, Call
      <3> QED BY <1>1, <2>1, <3>1, PayloadInvKept DEF Exists
    <2>3. CASE ~ FailRead(s)
      <3>1. \A r \in Slot : call'[r].pc \in {"store", "complete"} => call'[r] = call[r]
        BY <1>6, <2>3, GotoEffect, BeginEffect, ReturnEffect
           DEF Fail, Throw, Finish, Abort, Publish, Deliver, RequeueTask, CancelTask
      <3> QED BY <1>1, <2>1, <3>1, PayloadInvKept DEF Exists
    <2> QED BY <2>2, <2>3
  <1>7. ASSUME NEW s \in Slot, Succeed(s)
        PROVE  PayloadInv'
    <2>1. UNCHANGED db /\ Task(s) \in Id
      BY <1>2, <1>7 DEF Succeed, At
    <2>2. /\ \A r \in Slot \ {s} : call'[r] = call[r]
          /\ call'[s].task = Task(s) /\ call'[s].snap = db[Task(s)].payload
          /\ call'[s].pc = IF Product(db[Task(s)].type) = {} THEN "complete" ELSE "store"
      BY <1>7 DEF Succeed, Base, TypeOK, Call, Task
    <2>3. CompletedHasProduct' /\ AbsentIsEmpty'
      BY <2>1 DEF PayloadInv, CompletedHasProduct, AbsentIsEmpty, Exists
    <2>4. StoreLosesNothing'
      BY <2>1, <2>2 DEF PayloadInv, StoreLosesNothing, At, Task
    <2>5. CompleteHasProduct'
      BY <2>1, <2>2 DEF PayloadInv, CompleteHasProduct, At, Task
    <2> QED BY <2>3, <2>4, <2>5 DEF PayloadInv
  <1>8. ASSUME NEW s \in Slot, Store(s)
        PROVE  PayloadInv'
    <2> DEFINE t == Task(s)
               P == Product(db[t].type)
    <2>1. t \in Id /\ Exists(t) /\ call[s].snap \cup P = db[t].payload \cup P
      BY <1>2, <1>8 DEF Store, At, PayloadInv, StoreLosesNothing
    <2>2. /\ db'[t].payload = call[s].snap \cup P
          /\ \A u \in Id \ {t} : db'[u] = db[u]
          /\ \A u \in Id : db'[u].type = db[u].type /\ db'[u].status = db[u].status
      BY <2>1, <1>8 DEF Store, Base, TypeOK, Row
    <2>3. /\ \A r \in Slot : call'[r].pc = "store" => call'[r] = call[r]
          /\ \A r \in Slot : call'[r].pc = "complete" => r = s \/ call'[r] = call[r]
          /\ call'[s].task = t
      BY <1>8, GotoEffect DEF Store, Catch, Task
    <2> HIDE DEF t
    <2>4. /\ db[t].payload \subseteq db'[t].payload /\ P \subseteq db'[t].payload
          /\ db'[t].payload \cup P = db[t].payload \cup P
      BY <2>1, <2>2
    <2>5. CompletedHasProduct'
      BY <2>2, <2>4 DEF PayloadInv, CompletedHasProduct
    <2>6. AbsentIsEmpty'
      BY <2>1, <2>2 DEF PayloadInv, AbsentIsEmpty, Exists
    <2>7. ASSUME NEW r \in Slot, call'[r].pc = "store"
          PROVE  LET Q == Product(db'[call'[r].task].type) IN
                 call'[r].snap \cup Q = db'[call'[r].task].payload \cup Q
      <3>1. call'[r] = call[r] /\ At(r, "store") /\ Task(r) \in Id
        BY <1>2, <2>3, <2>7 DEF At
      <3>2. call[r].snap \cup Product(db[Task(r)].type)
              = db[Task(r)].payload \cup Product(db[Task(r)].type)
        BY <3>1 DEF PayloadInv, StoreLosesNothing
      <3>3. CASE Task(r) = t
        BY <2>2, <2>4, <3>1, <3>2, <3>3 DEF Task
      <3>4. CASE Task(r) # t
        BY <2>2, <3>1, <3>2, <3>4 DEF Task
      <3> QED BY <3>3, <3>4
    <2>8. ASSUME NEW r \in Slot, call'[r].pc = "complete"
          PROVE  Product(db'[call'[r].task].type) \subseteq db'[call'[r].task].payload
      <3>1. CASE call'[r].task = t
        BY <2>1, <2>2, <2>4, <3>1
      <3>2. CASE call'[r].task # t
        <4>1. call'[r] = call[r] /\ At(r, "complete") /\ Task(r) \in Id /\ Task(r) # t
          BY <1>2, <2>3, <2>8, <3>2 DEF At, Task
        <4> QED BY <2>2, <4>1 DEF PayloadInv, CompleteHasProduct, Task
      <3> QED BY <3>1, <3>2
    <2> QED BY <2>5, <2>6, <2>7, <2>8
            DEF PayloadInv, StoreLosesNothing, CompleteHasProduct, At, Task
  <1>9. ASSUME NEW s \in Slot, FailIncr(s)
        PROVE  PayloadInv'
    <2>1. \A u \in Id : /\ db'[u].type = db[u].type /\ db'[u].payload = db[u].payload
                        /\ db'[u].status = db[u].status
                        /\ u # Task(s) => db'[u] = db[u]
      BY <1>2, <1>9 DEF FailIncr, At, Base, TypeOK, Row
    <2>2. \A r \in Slot : call'[r].pc \in {"store", "complete"} => call'[r] = call[r]
      BY <1>9, GotoEffect DEF FailIncr
    <2>3. Exists(Task(s))
      BY <1>2, <1>9 DEF FailIncr, At
    <2>4. \A u \in Id : db'[u].status = "completed" => Exists(u) /\ db[u].status = "completed"
      BY <2>1 DEF Exists
    <2>5. \A u \in Id : ~ Exists(u)' => ~ Exists(u) /\ db'[u] = db[u]
      BY <2>1, <2>3 DEF Exists
    <2> QED BY <1>1, <2>1, <2>2, <2>4, <2>5, PayloadInvKept
  <1>10. CASE UNCHANGED vars
    BY <1>10 DEF vars, PayloadInv, CompletedHasProduct, StoreLosesNothing,
                 CompleteHasProduct, AbsentIsEmpty, Exists, At, Task
  <1> QED
    BY <1>3, <1>4, <1>5, <1>6, <1>7, <1>8, <1>9, <1>10 DEF Next, Calm, Step, Request, CreationOf

LEMMA PayloadInvInit == Init => PayloadInv
  BY DEF Init, PayloadInv, CompletedHasProduct, StoreLosesNothing, CompleteHasProduct,
         AbsentIsEmpty, NoRow, NoCall, At

LEMMA PayloadInvariant == Spec => [](Base /\ PayloadInv)
  <1>1. Init => Base /\ PayloadInv
    BY BaseInit, PayloadInvInit
  <1>2. Base /\ PayloadInv /\ [Next]_vars => (Base /\ PayloadInv)'
    BY BaseStep, PayloadInvStep
  <1> QED BY <1>1, <1>2, PTL DEF Spec

\* Whatever attempts overlap and wherever they crash, a task shown as completed
\* holds the result of its type.
THEOREM CompletedTasksHaveResults == Spec => []CompletedHasProduct
  BY PayloadInvariant, PTL DEF PayloadInv

---------------------------------------------------------------------------
(* A task in processing is in some call's hands, when nothing crashes.      *)

OwnerPC == {"run", "store", "complete", "failIncr", "failRead", "failWrite"}

Owned(t) == \E r \in Slot : Task(r) = t /\ call[r].pc \in OwnerPC

OwnerInv == \A t \in Id : db[t].status = "processing" => Owned(t)

\* Enough for a step of slot s: it makes no task processing, and the call it
\* moves either keeps what it owns or leaves its task in another status.
LEMMA OwnerInvKept ==
  ASSUME OwnerInv, NEW s \in Slot,
         \A u \in Id : db'[u].status = "processing" => db[u].status = "processing",
         \A r \in Slot \ {s} : call'[r] = call[r],
         \/ call[s].pc \notin OwnerPC
         \/ call'[s].pc \in OwnerPC /\ call'[s].task = call[s].task
         \/ db'[call[s].task].status # "processing"
  PROVE  OwnerInv'
  <1> SUFFICES ASSUME NEW t \in Id, db'[t].status = "processing"
               PROVE  \E r \in Slot : call'[r].task = t /\ call'[r].pc \in OwnerPC
    BY DEF OwnerInv, Owned, Task
  <1>1. PICK r \in Slot : call[r].task = t /\ call[r].pc \in OwnerPC
    BY DEF OwnerInv, Owned, Task
  <1>2. CASE r = s
    BY <1>1, <1>2
  <1>3. CASE r # s
    BY <1>1, <1>3
  <1> QED BY <1>2, <1>3

LEMMA OwnerInvStep ==
  ASSUME ~ Faults, Base, OwnerInv, [Next]_vars
  PROVE  OwnerInv'
  <1> USE DEF OwnerPC
  <1>1. \A s \in Slot : ~ At(s, "idle") => Task(s) \in Id
    BY DEF Base, NamesExist
  <1>2. ASSUME NEW s \in Slot, CreationOf(s)
        PROVE  OwnerInv'
    <2>1. PICK type, payload, cause, origin, pc :
            Creates(s, type, payload, cause, origin, pc)
      BY <1>2, CreationSteps
    <2>2. \A u \in Id : db'[u].status = "processing" => db[u].status = "processing"
      BY <2>1, InsertEffect DEF Creates
    <2>3. call[s].pc \notin OwnerPC
      BY <1>2 DEF CreationOf, StartInvoiceWorkflow, Enqueue, Advance, Compensate,
                  CreateTask, CompensateTask, At
    <2>4. \A r \in Slot \ {s} : call'[r] = call[r]
      BY <2>1, BeginEffect DEF Creates
    <2> QED BY <2>2, <2>3, <2>4, OwnerInvKept
  <1>3. ASSUME NEW s \in Slot, Start(s)
        PROVE  OwnerInv'
    <2>1. /\ \A r \in Slot \ {s} : call'[r] = call[r]
          /\ call'[s].pc = "run" /\ call'[s].task = Task(s)
          /\ call[s].pc = "start" /\ Task(s) \in Id
      BY <1>1, <1>3, GotoEffect DEF Start, Catch, At, Task
    <2>2. \A u \in Id \ {Task(s)} : db'[u] = db[u]
      BY <1>3, <2>1, StatusEffect DEF Start
    <2> SUFFICES ASSUME NEW t \in Id, db'[t].status = "processing"
                 PROVE  \E r \in Slot : call'[r].task = t /\ call'[r].pc \in OwnerPC
      BY DEF OwnerInv, Owned, Task
    <2>3. CASE t = Task(s)
      BY <2>1, <2>3
    <2>4. CASE t # Task(s)
      <3>1. PICK r \in Slot : call[r].task = t /\ call[r].pc \in OwnerPC
        BY <2>2, <2>4 DEF OwnerInv, Owned, Task
      <3> QED BY <2>1, <3>1
    <2> QED BY <2>3, <2>4
  <1>4. ASSUME NEW s \in Slot, Complete(s) \/ FailWrite(s) \/ Cancel(s)
        PROVE  OwnerInv'
    <2>1. PICK status \in {"completed", "failed", "pending", "cancelled"} :
            Task(s) \in Id /\ SetStatus(Task(s), status)
      BY <1>1, <1>4 DEF Complete, FailWrite, Cancel, At
    <2>2. /\ db'[Task(s)].status # "processing"
          /\ \A u \in Id : db'[u].status = "processing" => db[u].status = "processing"
      BY <2>1, StatusEffect
    <2>3. \A r \in Slot \ {s} : call'[r] = call[r]
      BY <1>4, GotoEffect, ReturnEffect DEF Complete, FailWrite, Cancel, Catch
    <2> QED BY <2>2, <2>3, OwnerInvKept DEF Task
  <1>5. ASSUME NEW s \in Slot, NEW t \in Id, RetryTask(s, t)
        PROVE  OwnerInv'
    <2>1. \A u \in Id : db'[u].status = "processing" => db[u].status = "processing"
      BY <1>5, StatusEffect DEF RetryTask
    <2>2. call[s].pc \notin OwnerPC /\ \A r \in Slot \ {s} : call'[r] = call[r]
      BY <1>5, BeginEffect DEF RetryTask, At
    <2> QED BY <2>1, <2>2, OwnerInvKept
  <1>6. ASSUME NEW s \in Slot, FailIncr(s) \/ Store(s)
        PROVE  OwnerInv'
    <2>1. \A u \in Id : db'[u].status = db[u].status
      BY <1>6 DEF FailIncr, Store, Base, TypeOK, Row
    <2>2. /\ call'[s].pc \in OwnerPC /\ call'[s].task = call[s].task
          /\ \A r \in Slot \ {s} : call'[r] = call[r]
      BY <1>6, GotoEffect DEF FailIncr, Store, Catch
    <2> QED BY <2>1, <2>2, OwnerInvKept
  <1>7. ASSUME NEW s \in Slot, Succeed(s) \/ FailRead(s)
        PROVE  OwnerInv'
    <2>1. \A u \in Id : db'[u].status = db[u].status
      BY <1>7 DEF Succeed, FailRead
    <2>2. /\ call'[s].pc \in OwnerPC /\ call'[s].task = call[s].task
          /\ \A r \in Slot \ {s} : call'[r] = call[r]
      BY <1>7 DEF Succeed, FailRead, Base, TypeOK, Call
    <2> QED BY <2>1, <2>2, OwnerInvKept
  <1>8. ASSUME NEW s \in Slot, Fail(s)
        PROVE  OwnerInv'
    <2>1. /\ call'[s].pc \in OwnerPC /\ call'[s].task = call[s].task
          /\ \A r \in Slot \ {s} : call'[r] = call[r]
      BY <1>8, GotoEffect DEF Fail
    <2> QED BY <1>8, <2>1, OwnerInvKept DEF Fail
  <1>9. ASSUME NEW s \in Slot,
               \/ Finish(s) \/ Publish(s)
               \/ \E t \in Id : Deliver(s, t) \/ RequeueTask(s, t) \/ CancelTask(s, t)
        PROVE  OwnerInv'
    <2>1. UNCHANGED db
      BY <1>9 DEF Finish, Publish, Deliver, RequeueTask, CancelTask
    <2>2. call[s].pc \notin OwnerPC
      BY <1>9 DEF Finish, Publish, Deliver, RequeueTask, CancelTask, At
    <2>3. \A r \in Slot \ {s} : call'[r] = call[r]
      BY <1>9, BeginEffect, ReturnEffect DEF Finish, Publish, Deliver, RequeueTask, CancelTask
    <2> QED BY <2>1, <2>2, <2>3, OwnerInvKept
  <1>10. CASE UNCHANGED vars
    BY <1>10 DEF vars, OwnerInv, Owned, Task
  <1> QED
    BY <1>2, <1>3, <1>4, <1>5, <1>6, <1>7, <1>8, <1>9, <1>10
       DEF Next, Calm, Step, Request, CreationOf, Throw, Abort

\* Without crashes and database errors, no task is shown as processing with
\* nobody working on it.
THEOREM ProcessingIsOwned ==
  ASSUME ~ Faults
  PROVE  Spec => []ProcessingHasOwner
  <1>1. Init => Base /\ OwnerInv
    BY BaseInit DEF Init, OwnerInv, NoRow
  <1>2. Base /\ OwnerInv /\ [Next]_vars => (Base /\ OwnerInv)'
    BY BaseStep, OwnerInvStep
  <1>3. OwnerInv => ProcessingHasOwner
    BY DEF OwnerInv, Owned, OwnerPC, ProcessingHasOwner, CallsOn
  <1> QED BY <1>1, <1>2, <1>3, PTL DEF Spec

==========================================================================
