--------------------------- MODULE QueueWorker ---------------------------
(***************************************************************************)
(* The application as it runs: clients' requests, the broker, the workers  *)
(* and the invoice flow over one task table, and what must be true of it.  *)
(***************************************************************************)
EXTENDS Worker, InvoiceFlow, TaskApi

CONSTANTS
  Api,     \* the requests clients make in this run
  Reserve  \* Reserve[r]: the ids that clients leave unused after a request r
           \* that makes rows, for what will follow from it (bound)

Requests == {"create", "start", "retry", "requeue", "cancel", "compensate"}
ASSUME ApiAssumption == Api \subseteq Requests /\ Reserve \in [Requests -> Nat]

Room(r, n) == Cardinality(Fresh) >= Reserve[r] + n

Request(s) ==
  \/ "create" \in Api /\ Room("create", 1) /\ \E new \in NewTask : CreateTask(s, new)
  \/ "start" \in Api /\ Room("start", 2) /\ StartInvoiceWorkflow(s)
  \/ "retry" \in Api /\ \E t \in Id : RetryTask(s, t)
  \/ "requeue" \in Api /\ \E t \in Id : RequeueTask(s, t)
  \/ "cancel" \in Api /\ \E t \in Id : CancelTask(s, t)
  \/ "compensate" \in Api /\ Room("compensate", 1) /\ \E t \in Id : CompensateTask(s, t)

\* A call in flight takes its next step.
Step(s) ==
  \/ Start(s) \/ Succeed(s) \/ Fail(s) \/ Store(s) \/ Complete(s)
  \/ FailIncr(s) \/ FailRead(s) \/ FailWrite(s)
  \/ Advance(s) \/ Finish(s) \/ Compensate(s)
  \/ Enqueue(s) \/ Cancel(s) \/ Publish(s)

\* What happens while nothing throws and no process dies.
Calm ==
  \E s \in Slot :
    \/ Request(s)
    \/ \E t \in Id : Deliver(s, t)
    \/ Step(s)

Next == Calm \/ \E s \in Slot : Throw(s) \/ Abort(s)

Spec == Init /\ [][Next]_vars

\* An event loop resumes every call whose await has settled, and the broker
\* delivers every message it holds.  Nothing obliges a client to ask.
Fairness ==
  /\ \A s \in Slot : WF_vars(Step(s))
  /\ \A t \in Id : WF_vars(\E s \in Slot : Deliver(s, t))

\* Fairness is promised of calm times only.
FairSpec == Init /\ [][Calm]_vars /\ Fairness

---------------------------------------------------------------------------
(* Safety *)

CallsOn(t, pcs) == {s \in Slot : Task(s) = t /\ call[s].pc \in pcs}

WorkerCompensations(t) ==
  {u \in Id : db[u].type = "compensation" /\ db[u].origin = "worker" /\ db[u].cause = t}

Successors(t) == {u \in Id : db[u].type # "compensation" /\ db[u].cause = t}

\* The tasks of the invoice run that task t starts, which belong together
\* although no column says so: t and its successors.
Up(u) == IF u = NoId THEN NoId ELSE db[u].cause

RunOf(t) ==
  {u \in Id : t \in {u, Up(u), Up(Up(u)), Up(Up(Up(u)))} /\ db[u].type \in InvoiceType}

\* What the status request of a customer looks at (getInvoiceWorkflowStatus):
\* all rows with the customer's id, of whatever run, in the one group that a
\* query without the workflow relation makes.  Those are the tasks of invoice
\* types, which are all taken to be one customer's, and the compensations that
\* workers made: a client's carries no customer id (compensateTask).
CustomerTasks ==
  {t \in Id : \/ db[t].type \in InvoiceType
              \/ db[t].type = "compensation" /\ db[t].origin = "worker"}

\* A failed attempt is compensated at most once: a task never has more
\* compensations made by workers than counted failures (handleTaskFailure).
CompensationsBounded ==
  \A t \in Id : Cardinality(WorkerCompensations(t)) <= db[t].retries

\* A step of an invoice run starts from what the step before it produced: the
\* orders, the invoice, the pdf; only an invoice that a client never gave to
\* a generate_pdf of its own may be missing (handle...Completion).
SuccessorsRunnable ==
  \A t \in Id : db[t].cause # NoId /\ db[t].type # "compensation" =>
    LET from == db[db[t].cause] IN
    /\ Key(from.type) \in db[t].payload
    /\ \/ Requires(db[t].type) \subseteq db[t].payload
       \/ from.type = "generate_pdf" /\ "invoice" \notin from.payload

\* A message never names a task whose row is not there yet: the row is
\* written before the event is emitted, and no call is about a missing row.
NamesExist ==
  /\ \A t \in Id : msgs[t] > 0 => Exists(t)
  /\ \A s \in Slot : ~ At(s, "idle") => Task(s) \in Id /\ Exists(Task(s))

\* While no process dies and nothing throws, a task shown as processing is in
\* the hands of some call: the last of the calls to let go of it always
\* leaves another status behind (handleTask, handleFailure).
ProcessingHasOwner ==
  \A t \in Id : db[t].status = "processing" =>
    CallsOn(t, {"run", "store", "complete", "failIncr", "failRead", "failWrite"}) # {}

\* As long as no client retries or re-queues it, a task has one message or
\* one call at a time, so it is attempted at most once.
OneHandler ==
  \A t \in Id :
    msgs[t] + Cardinality(CallsOn(t, WorkerPC \cup {"publish"})) <= 1

\* ... and an invoice run is never forked: no customer gets two invoices or
\* two emails from one run.
RunNotForked == \A t \in Id : Cardinality(Successors(t)) <= 1

\* A customer who is told that everything is complete has got the email of
\* each invoice run, or one of the run's tasks was given up: the rows there are
\* may all be over while the next one is not made yet, but only for as long
\* as the call that makes it is on its way (calculateWorkflowGroupStatus sees
\* nothing but the rows).
CompleteMeansOver ==
  ReportedComplete(CustomerTasks) =>
    \A t \in Id : db[t].type = "fetch_orders" => \E u \in RunOf(t) :
      \/ db[u].type = "send_email" \/ db[u].status = "failed"
      \/ CallsOn(u, {"coordinate"}) # {}

\* While nothing throws, dies or is lost, a task that was never attempted is
\* on its way: a pending row without a failure has a message, or a call that
\* will publish it or has just received it.  The exception is the row whose
\* id startInvoiceWorkflow hands out, which is never published.
PendingIsCarried ==
  \A t \in Id : db[t].status = "pending" /\ db[t].retries = 0 =>
    msgs[t] > 0 \/ CallsOn(t, {"publish", "start"}) # {}

---------------------------------------------------------------------------
(* Refinement: what the rows promise, whatever the calls do (TaskLedger).   *)
(* The payload is seen as two parts, the result of the task's type and the  *)
(* rest, its input.                                                         *)

Entry(t) == [status   |-> db[t].status,
             failures |-> db[t].retries,
             input    |-> db[t].payload \ Product(db[t].type),
             done     |-> Exists(t) /\ Product(db[t].type) \subseteq db[t].payload]

Ledger == INSTANCE TaskLedger WITH
  Input <- SUBSET Field, ledger <- [t \in Id |-> Entry(t)]

\* Every step on a row, of every attempt and request, is a step the ledger
\* allows: the replacement of a whole payload by a stale copy amounts to
\* adding the result, and no status is a lie (base.worker.ts, task.service.ts).
ImplementsLedger == Ledger!LedgerSpec

---------------------------------------------------------------------------
(* Liveness, under FairSpec *)

\* A task that a worker took up leaves "processing" again.
ProcessingEnds ==
  \A t \in Id : (db[t].status = "processing") ~> (db[t].status # "processing")

\* An invoice run whose first message reached the broker gets all the way to
\* an email sent, unless an attempt at one of its tasks fails: it never just
\* stops.
RunSettles ==
  \A t \in Id :
    (db[t].type = "fetch_orders" /\ msgs[t] > 0)
      ~> (\E u \in RunOf(t) : \/ db[u].type = "send_email" /\ db[u].status = "completed"
                              \/ db[u].retries > 0)

\* A given-up invoice task is compensated for in the end, unless a client
\* cancels the compensation.
CompensationFollows ==
  \A t \in Id :
    (db[t].type \in InvoiceType /\ db[t].status = "failed")
      ~> (\E u \in WorkerCompensations(t) : db[u].status \in {"completed", "cancelled"})

---------------------------------------------------------------------------
(* What the documents and messages of the repository say of it *)

Quiescent == /\ \A t \in Id : msgs[t] = 0
             /\ \A s \in Slot : At(s, "idle")

Rows == {t \in Id : Exists(t)}

\* INVOICE_TESTING_DOCUMENTATION.md, "Complete Workflow Test": one started
\* workflow ends with a status of four tasks in total and four completed.
FourTasksFourCompleted ==
  Quiescent /\ Rows # {} => Cardinality(Rows) = 4 /\ Count(Rows, "completed") = 4

\* ARCHITECTURE.md: "Automatic retry": a failed attempt that leaves the task
\* pending is followed by another.
AutomaticRetry ==
  \A t \in Id : (db[t].status = "pending" /\ db[t].retries > 0)
                  ~> (db[t].status = "processing")

\* task.service.ts: "Only pending tasks can be cancelled".
OnlyPendingCancelled ==
  [][\A t \in Id : db[t].status # "cancelled" /\ db'[t].status = "cancelled"
       => db[t].status = "pending"]_vars

\* task.service.spec.ts: "set status to FAILED when retries >= maxRetries":
\* when nothing is in flight, an exhausted task is not pending.
ExhaustedIsFailed ==
  Quiescent => \A t \in Id : db[t].retries >= MaxRetries => db[t].status # "pending"

==========================================================================
