---------------------------- MODULE TaskStore ----------------------------
(***************************************************************************)
(* What the whole queue/worker application shares: the rows of the task    *)
(* table (task.entity.ts, task.repository.ts), the messages the broker     *)
(* holds (messaging.service.ts), and the calls in flight.                  *)
(*                                                                         *)
(* A call is one invocation of an async method that is suspended at an     *)
(* await: a worker's handleTask or a client's request.  Any number of them *)
(* interleave, on one Node process or on many; a step of a call is what    *)
(* it does between two awaits that other calls can observe, that is one    *)
(* statement on the database or one emission.                              *)
(***************************************************************************)
EXTENDS Naturals, FiniteSets

CONSTANTS
  Id,          \* the uuids a run may hand out (bound)
  NoId,        \* "no task"
  Slot,        \* the calls that may be in flight at once (bound)
  MaxRetries,  \* TaskEntity.maxRetries
  Lossy,       \* whether the broker may drop an emitted message
  Faults       \* whether a process may die, or the database or broker throw

ASSUME IdAssumption == IsFiniteSet(Id) /\ NoId \notin Id
ASSUME SlotAssumption == IsFiniteSet(Slot)
ASSUME MaxRetriesAssumption == MaxRetries \in Nat \ {0}
ASSUME SwitchAssumption == Lossy \in BOOLEAN /\ Faults \in BOOLEAN

VARIABLES
  db,    \* db[t]: the row of task t
  msgs,  \* msgs[t]: how many messages naming t the broker holds (a bag)
  call   \* call[s]: the progress of the call in slot s

vars == <<db, msgs, call>>

---------------------------------------------------------------------------
(* Rows *)

InvoiceType == {"fetch_orders", "create_invoice", "generate_pdf", "send_email"}
TaskType    == InvoiceType \cup {"http_request", "data_processing", "compensation"}
\* "retrying" is in the enum, and only the seeder ever writes it.
TaskStatus  == {"pending", "processing", "completed", "failed", "retrying", "cancelled"}

\* What a payload may hold that a worker's behaviour depends on: the fields
\* the workers and the scheduler add, and the flag that makes a data_processing
\* task fail.  A payload is which of them are there.  Their values are left out:
\* a second attempt at a task replaces the result of the first by a new one, and
\* the payload here stays the same.  Deployment, where that matters, records it.
Field == {"orders", "invoice", "pdfUrl", "response", "forceFailure", "cronExpression"}

\* "absent" is the status of an id that no row has yet.  cause is the task a
\* row was made for: originalTaskId in a compensation's payload; for the
\* successors in an invoice run the code keeps no such link and cause is a
\* history variable.
Row == [type    : TaskType \cup {"none"},
        status  : TaskStatus \cup {"absent"},
        retries : Nat,
        payload : SUBSET Field,
        cause   : Id \cup {NoId},
        origin  : {"client", "worker"}]

NoRow == [type |-> "none", status |-> "absent", retries |-> 0,
          payload |-> {}, cause |-> NoId, origin |-> "client"]

Exists(t) == db[t].status # "absent"
Fresh     == {t \in Id : ~ Exists(t)}

\* A new uuid.  Which one it is makes no difference to the program, so one
\* fixed choice among the unused ones stands for all of them.
NewId == CHOOSE t \in Fresh : TRUE

\* TaskService.createTask: the columns take their defaults.
Insert(t, type, payload, cause, origin) ==
  db' = [db EXCEPT ![t] = [type |-> type, status |-> "pending", retries |-> 0,
                           payload |-> payload, cause |-> cause, origin |-> origin]]

\* TaskRepository.updateTaskStatus: one UPDATE, whatever the status was.
SetStatus(t, status) == db' = [db EXCEPT ![t].status = status]

---------------------------------------------------------------------------
(* Calls *)

\* Where a call can be suspended.  First the worker's handleTask, then the
\* clients' requests; "publish" belongs to both.
WorkerPC == {"start", "run", "store", "complete", "coordinate",
             "failIncr", "failRead", "failWrite", "compensate"}
ClientPC == {"enqueue", "cancel", "schedule", "recur"}
PC       == WorkerPC \cup ClientPC \cup {"idle", "publish"}

\* task: the task the call is about; seen: the retries it read back;
\* snap: the payload it read, which it writes back later.
Call == [pc : PC, task : Id \cup {NoId}, seen : Nat, snap : SUBSET Field]

NoCall == [pc |-> "idle", task |-> NoId, seen |-> 0, snap |-> {}]

At(s, pc) == call[s].pc = pc
Task(s)   == call[s].task

Goto(s, pc) == call' = [call EXCEPT ![s].pc = pc]
Begin(s, pc, t) == call' = [call EXCEPT ![s] = [NoCall EXCEPT !.pc = pc, !.task = t]]
Return(s) == call' = [call EXCEPT ![s] = NoCall]

---------------------------------------------------------------------------
(* Messages *)

\* BaseProvider.emit does not await the client's emit: a message the broker
\* never got is lost without an error.
Emit(t) ==
  \/ msgs' = [msgs EXCEPT ![t] = @ + 1]
  \/ Lossy /\ UNCHANGED msgs

\* Mutant of Publish: an emission that succeeded is tried again.
PublishTwice(s) ==
  /\ At(s, "publish")
  /\ msgs' = [msgs EXCEPT ![Task(s)] = @ + 2]
  /\ Return(s)
  /\ UNCHANGED db

\* MessagingService.publishTask / emitEvent: the last await of every call
\* that creates or re-queues a task.
Publish(s) ==
  /\ At(s, "publish")
  /\ Emit(Task(s))
  /\ Return(s)
  /\ UNCHANGED db

\* The process dies, or an exception leaves the call.  The consumer does not
\* acknowledge by hand, so the broker has forgotten the message by now.
Abort(s) ==
  /\ Faults
  /\ ~ At(s, "idle")
  /\ Return(s)
  /\ UNCHANGED <<db, msgs>>

Init ==
  /\ db = [t \in Id |-> NoRow]
  /\ msgs = [t \in Id |-> 0]
  /\ call = [s \in Slot |-> NoCall]

TypeOK ==
  /\ db \in [Id -> Row]
  /\ msgs \in [Id -> Nat]
  /\ call \in [Slot -> Call]

==========================================================================
