----------------------------- MODULE Worker -----------------------------
(***************************************************************************)
(* The worker: BaseWorker.handleTask with the handlers and the processor   *)
(* it dispatches to (base.worker.ts, unified.worker.ts,                    *)
(* task-processor.service.ts), and the TaskService methods it calls.       *)
(*                                                                         *)
(* Nothing ties a task to one worker: every message starts a call of its   *)
(* own, whatever the row's status is, and calls on one task interleave.    *)
(***************************************************************************)
EXTENDS TaskStore

CONSTANT Flaky  \* whether what a task talks to, or its dice, may fail
ASSUME FlakyAssumption == Flaky \in BOOLEAN

\* The payload fields without which processing a task throws: orders.reduce
\* in createInvoice, invoice.invoiceNumber in sendEmail.
Requires(type) ==
  CASE type = "create_invoice" -> {"orders"}
    [] type = "send_email"     -> {"invoice"}
    [] OTHER                   -> {}

\* The field that processing a task adds to its payload.
Product(type) ==
  CASE type = "fetch_orders"   -> {"orders"}
    [] type = "create_invoice" -> {"invoice"}
    [] type = "generate_pdf"   -> {"pdfUrl"}
    [] type = "http_request"   -> {"response"}
    [] OTHER                   -> {}

\* generatePdf survives a missing invoice only when the response of the
\* external service names the pdf.
MustFail(type, payload) ==
  \/ ~ (Requires(type) \subseteq payload)
  \/ type = "data_processing" /\ "forceFailure" \in payload

MayFail(type, payload) ==
  \/ MustFail(type, payload)
  \/ Flaky /\ type \in {"http_request", "data_processing", "generate_pdf", "send_email"}
  \/ type = "generate_pdf" /\ "invoice" \notin payload

---------------------------------------------------------------------------
(* Mutated steps, one plausible bug each, that the properties are tested on *)

\* A broker that waits for an acknowledgement nobody sends.
DeliverUnacked(s, t) ==
  /\ At(s, "idle")
  /\ msgs[t] > 0
  /\ Begin(s, "start", t)
  /\ UNCHANGED <<db, msgs>>

\* processTask swallows the error.
FailSwallowed(s) ==
  /\ At(s, "run")
  /\ MayFail(db[Task(s)].type, db[Task(s)].payload)
  /\ Return(s)
  /\ UNCHANGED <<db, msgs>>

\* The processor stores the payload without the product.
StoreNothing(s) ==
  /\ At(s, "store")
  /\ db' = [db EXCEPT ![Task(s)].payload = call[s].snap]
  /\ Goto(s, "complete")
  /\ UNCHANGED msgs

\* A completion after an earlier failure is not reported to the coordinator.
CompleteUnreported(s) ==
  /\ At(s, "complete")
  /\ SetStatus(Task(s), "completed")
  /\ IF db[Task(s)].type \in InvoiceType /\ db[Task(s)].retries = 0
     THEN Goto(s, "coordinate") ELSE Return(s)
  /\ UNCHANGED msgs

\* The failure is not counted.
FailUncounted(s) ==
  /\ At(s, "failIncr")
  /\ Goto(s, "failRead")
  /\ UNCHANGED <<db, msgs>>

\* Off by one in the test for the last attempt.
FailEarly(s) ==
  /\ At(s, "failWrite")
  /\ SetStatus(Task(s), IF call[s].seen + 1 >= MaxRetries THEN "failed" ELSE "pending")
  /\ IF db[Task(s)].type \in InvoiceType THEN Goto(s, "compensate") ELSE Return(s)
  /\ UNCHANGED msgs

\* A status that the enum does not have.
FailErrored(s) ==
  /\ At(s, "failWrite")
  /\ SetStatus(Task(s), IF call[s].seen >= MaxRetries THEN "errored" ELSE "pending")
  /\ IF db[Task(s)].type \in InvoiceType THEN Goto(s, "compensate") ELSE Return(s)
  /\ UNCHANGED msgs

\* The last failure is not reported to the coordinator.
FailUnreported(s) ==
  /\ At(s, "failWrite")
  /\ SetStatus(Task(s), IF call[s].seen >= MaxRetries THEN "failed" ELSE "pending")
  /\ IF call[s].seen < MaxRetries /\ db[Task(s)].type \in InvoiceType
     THEN Goto(s, "compensate") ELSE Return(s)
  /\ UNCHANGED msgs

---------------------------------------------------------------------------
(* handleTask, inside its try block.  Any of its statements may throw,      *)
(* before it takes effect (Throw) or after (the Catch of a step).           *)

\* To the catch block.
Catch(s) == Faults /\ Goto(s, "failIncr")

\* An @EventPattern handler receives a message and loads its task; the load
\* uses only the type, which never changes.  A delay is a longer stay at
\* "start".
Deliver(s, t) ==
  /\ At(s, "idle")
  /\ msgs[t] > 0
  /\ msgs' = [msgs EXCEPT ![t] = @ - 1]
  /\ Begin(s, "start", t)
  /\ UNCHANGED db

Start(s) ==
  /\ At(s, "start")
  /\ SetStatus(Task(s), "processing")
  /\ Goto(s, "run") \/ Catch(s)
  /\ UNCHANGED msgs

\* processTask up to the outcome of the task's own work, done on the payload
\* as it was when it was read.
Succeed(s) ==
  LET row == db[Task(s)] IN
  /\ At(s, "run")
  /\ ~ MustFail(row.type, row.payload)
  /\ call' = [call EXCEPT ![s].snap = row.payload,
                          ![s].pc = IF Product(row.type) = {} THEN "complete" ELSE "store"]
  /\ UNCHANGED <<db, msgs>>

Fail(s) ==
  /\ At(s, "run")
  /\ MayFail(db[Task(s)].type, db[Task(s)].payload)
  /\ Goto(s, "failIncr")
  /\ UNCHANGED <<db, msgs>>

\* updateTaskPayload(taskId, {...task.payload, product}): the whole column is
\* replaced by the payload read in Succeed, and the product.
Store(s) ==
  /\ At(s, "store")
  /\ db' = [db EXCEPT ![Task(s)].payload = call[s].snap \cup Product(db[Task(s)].type)]
  /\ Goto(s, "complete") \/ Catch(s)
  /\ UNCHANGED msgs

Complete(s) ==
  /\ At(s, "complete")
  /\ SetStatus(Task(s), "completed")
  /\ \/ db[Task(s)].type \in InvoiceType /\ Goto(s, "coordinate")
     \/ db[Task(s)].type \notin InvoiceType /\ Return(s)
     \/ Catch(s)
  /\ UNCHANGED msgs

\* The database throws before a statement of the try block takes effect.
Throw(s) ==
  /\ Faults
  /\ call[s].pc \in {"start", "run", "store", "complete"}
  /\ Goto(s, "failIncr")
  /\ UNCHANGED <<db, msgs>>

---------------------------------------------------------------------------
(* handleTask's catch block: TaskService.handleFailure in three statements *)

FailIncr(s) ==
  /\ At(s, "failIncr")
  /\ db' = [db EXCEPT ![Task(s)].retries = @ + 1]
  /\ Goto(s, "failRead")
  /\ UNCHANGED msgs

FailRead(s) ==
  /\ At(s, "failRead")
  /\ call' = [call EXCEPT ![s].seen = db[Task(s)].retries, ![s].pc = "failWrite"]
  /\ UNCHANGED <<db, msgs>>

\* Nobody publishes the task again when it goes back to pending.
FailWrite(s) ==
  /\ At(s, "failWrite")
  /\ SetStatus(Task(s), IF call[s].seen >= MaxRetries THEN "failed" ELSE "pending")
  /\ IF db[Task(s)].type \in InvoiceType THEN Goto(s, "compensate") ELSE Return(s)
  /\ UNCHANGED msgs

---------------------------------------------------------------------------
(* What a row's status says of its other columns *)

\* A task is never given up on before it had all its attempts, although the
\* count is incremented, read and judged in three statements that other
\* attempts at the same task interleave with (handleFailure).
FailedIsExhausted ==
  \A t \in Id : db[t].status = "failed" => db[t].retries >= MaxRetries

\* A completed task holds its result, although each attempt replaces the
\* whole payload by a copy it read before its own work (updateTaskPayload).
CompletedHasProduct ==
  \A t \in Id : db[t].status = "completed" => Product(db[t].type) \subseteq db[t].payload

==========================================================================
