--------------------------- MODULE InvoiceFlow ---------------------------
(***************************************************************************)
(* The invoice run: fetch_orders, create_invoice, generate_pdf, send_email *)
(* (invoice.service.ts).  The client's request makes the first task; the   *)
(* call that completes a task makes the next one; a call whose attempt     *)
(* failed makes a compensation.                                            *)
(***************************************************************************)
EXTENDS TaskStore

\* Mutant of Successor: the run ends with the pdf.
SuccessorShort(type) ==
  CASE type = "fetch_orders"   -> "create_invoice"
    [] type = "create_invoice" -> "generate_pdf"
    [] OTHER                   -> "none"

\* What the completion of a task of this type makes next.
Successor(type) ==
  CASE type = "fetch_orders"   -> "create_invoice"
    [] type = "create_invoice" -> "generate_pdf"
    [] type = "generate_pdf"   -> "send_email"
    [] OTHER                   -> "none"

\* The payload field without which the coordination returns or throws (a
\* swallowed error), and the fields copied to the successor's payload.
Key(type) ==
  CASE type = "fetch_orders"   -> "orders"
    [] type = "create_invoice" -> "invoice"
    [] OTHER                   -> "pdfUrl"

\* (Mutant of Carried: the email is given the pdf alone.)
CarriedKey(type) == {Key(type)}

Carried(type) ==
  CASE type = "fetch_orders"   -> {"orders"}
    [] type = "create_invoice" -> {"invoice"}
    [] OTHER                   -> {"invoice", "pdfUrl"}

---------------------------------------------------------------------------
(* The client's request: startInvoiceWorkflow, createScheduledInvoiceWorkflow *)

\* The row whose id the client is given.  It is never published.
StartInvoiceWorkflow(s) ==
  /\ At(s, "idle")
  /\ Fresh # {}
  /\ Insert(NewId, "fetch_orders", {}, NoId, "client")
  /\ Begin(s, "enqueue", NewId)
  /\ UNCHANGED msgs

\* TaskQueueService.enqueueTask makes a second row, the one that runs, with the
\* payload of the first as it was created.
Enqueue(s) ==
  /\ At(s, "enqueue")
  /\ Fresh # {}
  /\ Insert(NewId, "fetch_orders", {}, NoId, "client")
  /\ Begin(s, "publish", NewId)
  /\ UNCHANGED msgs

---------------------------------------------------------------------------
(* The worker's calls back into the invoice service *)

\* Mutants of Advance: the successor is saved and not published ...
AdvanceUnpublished(s) ==
  LET t == Task(s)  type == db[Task(s)].type IN
  /\ At(s, "coordinate")
  /\ Successor(type) # "none"
  /\ Key(type) \in db[t].payload
  /\ Fresh # {}
  /\ Insert(NewId, Successor(type), db[t].payload \cap Carried(type), t, "worker")
  /\ Return(s)
  /\ UNCHANGED msgs

\* ... or nothing is made when the task has a successor already.
AdvanceOnce(s) ==
  LET t == Task(s)  type == db[Task(s)].type IN
  /\ At(s, "coordinate")
  /\ Successor(type) # "none"
  /\ Key(type) \in db[t].payload
  /\ IF \E u \in Id : db[u].cause = t /\ db[u].type = Successor(type)
     THEN Return(s) /\ UNCHANGED db
     ELSE /\ Fresh # {}
          /\ Insert(NewId, Successor(type), db[t].payload \cap Carried(type), t, "worker")
          /\ Begin(s, "publish", NewId)
  /\ UNCHANGED msgs

\* handleFetchOrdersCompletion and its siblings.
Advance(s) ==
  LET t == Task(s)  type == db[Task(s)].type IN
  /\ At(s, "coordinate")
  /\ Successor(type) # "none"
  /\ Key(type) \in db[t].payload
  /\ Fresh # {}
  /\ Insert(NewId, Successor(type), db[t].payload \cap Carried(type), t, "worker")
  /\ Begin(s, "publish", NewId)
  /\ UNCHANGED msgs

\* Nothing follows: the run ends here.
Finish(s) ==
  LET type == db[Task(s)].type IN
  /\ At(s, "coordinate")
  /\ Successor(type) = "none" \/ Key(type) \notin db[Task(s)].payload
  /\ Return(s)
  /\ UNCHANGED <<db, msgs>>

\* Mutant of Compensate: when the emission throws, all of it is done again.
CompensateAgain(s) ==
  /\ At(s, "compensate")
  /\ Fresh # {}
  /\ Insert(NewId, "compensation", {}, Task(s), "worker")
  /\ Begin(s, "publish", NewId) \/ UNCHANGED call
  /\ UNCHANGED msgs

\* handleTaskFailure, after every failed attempt, whether or not it was the
\* last one.
Compensate(s) ==
  /\ At(s, "compensate")
  /\ Fresh # {}
  /\ Insert(NewId, "compensation", {}, Task(s), "worker")
  /\ Begin(s, "publish", NewId)
  /\ UNCHANGED msgs
---------------------------------------------------------------------------
(* What a customer is told of the tasks T: getInvoiceWorkflowStatus *)

\* countTasksByStatus.
Count(T, status) == Cardinality({t \in T : db[t].status = status})

\* calculateWorkflowGroupStatus: nothing tells it whether more is to come.
ReportedComplete(T) ==
  \A t \in T : db[t].status \in {"completed", "failed"}

==========================================================================
