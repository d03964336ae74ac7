------------------------------ MODULE Seeder ------------------------------
(***************************************************************************)
(* The database seeder (database.seeder.ts, seeder.controller.ts): filling *)
(* an empty database with workflows, tasks and task logs of every status,  *)
(* clearing it, and the reset that does both.  Requests overlap, and share *)
(* the seeder's list of customers.                                         *)
(*                                                                         *)
(* The rows that one save writes are seen as one of them, any one.         *)
(***************************************************************************)
EXTENDS Workflow, Sequences

CONSTANTS
  SeedWf,       \* the statuses of the workflow templates (bound)
  SeedType,     \* the task types that are seeded (bound)
  SeedIndex     \* which of the tasksPerType rows of a type may be the one seen (bound)

ASSUME SeedAssumption ==
  SeedWf \subseteq WorkflowStatus /\ SeedType \subseteq TaskType /\ SeedIndex \subseteq Nat

VARIABLES
  job,        \* job[a]: the progress of the seeder's work that request a is
  customers,  \* whether DatabaseSeeder.customers has members
  logs        \* the tasks that have log rows

seedvars == <<job, customers, logs>>

Table == {"workflow", "task", "log"}

\* What SELECT COUNT(*) looks at.
Populated(table) ==
  CASE table = "workflow" -> \E w \in Wf : Visible(w)
    [] table = "task"     -> \E t \in Id : Exists(t)
    [] table = "log"      -> logs # {}

Present == {w \in Wf : Visible(w)} \cup {t \in Id : Exists(t)}

\* todo: the tables, templates or types that are still to come; made: the rows
\* a seeding has saved; old: history, the rows that were there when the
\* request, or its second half, began.
JobPC == {"count", "workflows", "stray", "tasks", "logs", "truncate", "delete"}

Job == [pc : JobPC \cup {"idle"}, todo : SUBSET (Table \cup SeedWf \cup SeedType),
        made : SUBSET (Wf \cup Id), old : SUBSET (Wf \cup Id), reset : BOOLEAN]

NoJob == [pc |-> "idle", todo |-> {}, made |-> {}, old |-> {}, reset |-> FALSE]

JobAt(a, pc) == job[a].pc = pc
JobReturn(a) == job' = [job EXCEPT ![a] = NoJob]
JobGoto(a, pc, todo) == job' = [job EXCEPT ![a].pc = pc, ![a].todo = todo]
JobBegin(a, pc, reset) ==
  job' = [job EXCEPT ![a] = [NoJob EXCEPT !.pc = pc, !.todo = Table,
                                          !.old = Present, !.reset = reset]]
Tick(a, item) == job' = [job EXCEPT ![a].todo = @ \ {item}]

---------------------------------------------------------------------------
(* POST /seeder/seed: hasExistingData, three counts that run side by side *)

RequestSeed(a) ==
  /\ JobAt(a, "idle")
  /\ JobBegin(a, "count", FALSE)
  /\ UNCHANGED <<db, msgs, call, wf, owner, op, settled, spent, customers, logs>>

\* Mutant of CountRows: workflows without tasks do not count as data.
CountTasksOnly(a, table) ==
  /\ JobAt(a, "count")
  /\ table \in job[a].todo
  /\ IF table = "task" /\ Populated(table) THEN JobReturn(a) ELSE Tick(a, table)
  /\ UNCHANGED <<db, msgs, call, wf, owner, op, settled, spent, customers, logs>>

\* One count above zero, and the request is answered without seeding.
CountRows(a, table) ==
  /\ JobAt(a, "count")
  /\ table \in job[a].todo
  /\ IF Populated(table) THEN JobReturn(a) ELSE Tick(a, table)
  /\ UNCHANGED <<db, msgs, call, wf, owner, op, settled, spent, customers, logs>>

---------------------------------------------------------------------------
(* ... and the seeding proper: no transaction spans its saves *)

BeginSeed(a) ==
  /\ JobAt(a, "count")
  /\ job[a].todo = {}
  /\ customers' = TRUE
  /\ JobGoto(a, "workflows", SeedWf)
  /\ UNCHANGED <<db, msgs, call, wf, owner, op, settled, spent, logs>>

\* One of the saves that Promise.all started; they finish in any order, and
\* after one of them failed the others go on.
SaveWorkflow(a, template) ==
  /\ job[a].pc \in {"workflows", "stray"}
  /\ template \in job[a].todo
  /\ FreshWf # {}
  /\ wf' = [wf EXCEPT ![NewWf] = [status |-> template,
              active |-> template # "failed", deleted |-> FALSE]]
  /\ job' = [job EXCEPT ![a].todo = @ \ {template}, ![a].made = @ \cup {NewWf}]
  /\ settled' = IF template = "running" THEN settled \cup {NewWf} ELSE settled
  /\ UNCHANGED <<db, msgs, call, owner, op, spent, customers, logs>>

\* The request is answered with an error, while other saves are under way.
DropSave(a, template) ==
  /\ JobAt(a, "workflows")
  /\ template \in job[a].todo
  /\ JobGoto(a, "stray", job[a].todo \ {template})
  /\ UNCHANGED <<db, msgs, call, wf, owner, op, settled, spent, customers, logs>>

WorkflowsSaved(a) ==
  /\ job[a].pc \in {"workflows", "stray"}
  /\ job[a].todo = {}
  /\ IF JobAt(a, "stray") THEN JobReturn(a) ELSE JobGoto(a, "tasks", SeedType)
  /\ UNCHANGED <<db, msgs, call, wf, owner, op, settled, spent, customers, logs>>

\* taskStatuses[i % taskStatuses.length].
StatusOrder == <<"pending", "processing", "completed", "failed", "retrying", "cancelled">>
SeedStatus  == {StatusOrder[(i % Len(StatusOrder)) + 1] : i \in SeedIndex}

\* generatePayload, and the retries of createTask: random, of which 0 stands
\* for all, but for failed tasks 3, which is their maxRetries.
SeedPayload(type, status) ==
  IF status # "completed" THEN {} ELSE
  CASE type = "fetch_orders"   -> {"orders"}
    [] type = "create_invoice" -> {"orders", "invoice"}
    [] type = "generate_pdf"   -> {"invoice", "pdfUrl"}
    [] type = "send_email"     -> {"invoice", "pdfUrl"}
    [] type = "http_request"   -> {"response"}
    [] OTHER                   -> {}

SeedRetries(status) == IF status = "failed" THEN 3 ELSE 0

\* The batch of a type.  Its payloads need the seeder's customers, and its rows
\* the workflows of this seeding, one drawn for each.
SaveTasks(a, type) ==
  /\ JobAt(a, "tasks")
  /\ type \in job[a].todo
  /\ customers
  /\ FreshTask # {}
  /\ \E status \in SeedStatus, w \in job[a].made \cap Wf :
       /\ Stored(w)
       /\ db' = [db EXCEPT ![NewTaskId] =
                   [type |-> type, status |-> status, retries |-> SeedRetries(status),
                    payload |-> SeedPayload(type, status), cause |-> NoId,
                    origin |-> "client"]]
       /\ owner' = [owner EXCEPT ![NewTaskId] = w]
  /\ job' = [job EXCEPT ![a].todo = @ \ {type}, ![a].made = @ \cup {NewTaskId}]
  /\ UNCHANGED <<msgs, call, wf, op, settled, spent, customers, logs>>

\* All log rows in one save, which a foreign key to a removed task rejects.
SaveLogs(a) ==
  /\ JobAt(a, "tasks")
  /\ job[a].todo = {}
  /\ \A t \in job[a].made \cap Id : Exists(t)
  /\ logs' = logs \cup (job[a].made \cap Id)
  /\ JobReturn(a)
  /\ UNCHANGED <<db, msgs, call, wf, owner, op, settled, spent, customers>>

\* There are no customers any more, or a foreign key finds no row; whatever
\* was saved stays.
SeedFails(a) ==
  /\ JobAt(a, "tasks")
  /\ \/ job[a].todo # {} /\ (~ customers \/ \E w \in job[a].made \cap Wf : ~ Stored(w))
     \/ job[a].todo = {} /\ \E t \in job[a].made \cap Id : ~ Exists(t)
  /\ JobReturn(a)
  /\ UNCHANGED <<db, msgs, call, wf, owner, op, settled, spent, customers, logs>>

---------------------------------------------------------------------------
(* DELETE /seeder/clear, POST /seeder/reset *)

RequestClear(a, reset) ==
  /\ JobAt(a, "idle")
  /\ JobBegin(a, "truncate", reset)
  /\ UNCHANGED <<db, msgs, call, wf, owner, op, settled, spent, customers, logs>>

\* The order of the statements.
NextTable(todo) ==
  IF "log" \in todo THEN "log" ELSE IF "task" \in todo THEN "task" ELSE "workflow"

\* Rows go, and with them what refers to them (onDelete: 'CASCADE').
Remove(ws, ts) ==
  /\ wf' = [w \in Wf |-> IF w \in ws THEN NoWfRow ELSE wf[w]]
  /\ db' = [t \in Id |-> IF t \in ts THEN NoRow ELSE db[t]]
  /\ owner' = [t \in Id |-> IF t \in ts THEN NoWf ELSE owner[t]]
  /\ logs' = logs \ ts
  /\ spent' = spent \cup {w \in ws : Stored(w)} \cup {t \in ts : Exists(t)}

\* Mutant of Wipe: with session_replication_role = replica nothing cascades.
WipeAlone(a) ==
  /\ job[a].pc \in {"truncate", "delete"}
  /\ job[a].todo # {}
  /\ LET table == NextTable(job[a].todo) IN
       /\ CASE table = "log"  -> logs' = {} /\ UNCHANGED <<wf, db, owner, spent>>
            [] table = "task" -> Remove({}, Id)
            [] OTHER -> Remove(Wf, {})
       /\ Tick(a, table)
  /\ UNCHANGED <<msgs, call, op, settled, customers>>

\* TRUNCATE ... CASCADE empties the tables that refer to the one it names;
\* DELETE, in the fallback, the rows.
Wipe(a) ==
  /\ job[a].pc \in {"truncate", "delete"}
  /\ job[a].todo # {}
  /\ LET table == NextTable(job[a].todo)  truncate == JobAt(a, "truncate") IN
       /\ CASE table = "log"  -> logs' = {} /\ UNCHANGED <<wf, db, owner, spent>>
            [] table = "task" -> Remove({}, Id)
            [] OTHER -> Remove(Wf, {t \in Id : truncate \/ owner[t] # NoWf})
       /\ Tick(a, table)
  /\ UNCHANGED <<msgs, call, op, settled, customers>>

\* Mutant of ClearThrows: a table that cannot be truncated is left out.
ClearSkips(a) ==
  /\ JobAt(a, "truncate")
  /\ job[a].todo # {}
  /\ Tick(a, NextTable(job[a].todo))
  /\ UNCHANGED <<db, msgs, call, wf, owner, op, settled, spent, customers, logs>>

\* From the truncations, at any point, to the fallback.
ClearThrows(a) ==
  /\ JobAt(a, "truncate")
  /\ JobGoto(a, "delete", Table)
  /\ UNCHANGED <<db, msgs, call, wf, owner, op, settled, spent, customers, logs>>

\* The fallback may fail too; TypeORM may not even take delete({}).
FallbackThrows(a) ==
  /\ JobAt(a, "delete")
  /\ JobReturn(a)
  /\ UNCHANGED <<db, msgs, call, wf, owner, op, settled, spent, customers, logs>>

Cleared(a) ==
  /\ job[a].pc \in {"truncate", "delete"}
  /\ job[a].todo = {}
  /\ customers' = FALSE
  /\ IF job[a].reset THEN JobBegin(a, "count", FALSE) ELSE JobReturn(a)
  /\ UNCHANGED <<db, msgs, call, wf, owner, op, settled, spent, logs>>

\* A statement throws where nothing catches it, or the process dies, and with
\* it the saves that were under way.
AbandonJob(a) ==
  /\ ~ JobAt(a, "idle")
  /\ JobReturn(a)
  /\ UNCHANGED <<db, msgs, call, wf, owner, op, settled, spent, customers, logs>>

SeederNext(a) ==
  \/ RequestSeed(a) \/ BeginSeed(a) \/ WorkflowsSaved(a) \/ SaveLogs(a) \/ SeedFails(a)
  \/ \E table \in Table : CountRows(a, table)
  \/ \E template \in SeedWf : SaveWorkflow(a, template)
  \/ \E type \in SeedType : SaveTasks(a, type)
  \/ \E reset \in BOOLEAN : RequestClear(a, reset)
  \/ Wipe(a) \/ FallbackThrows(a) \/ Cleared(a)

SeederFault(a) ==
  \/ \E template \in SeedWf : DropSave(a, template)
  \/ ClearThrows(a) \/ AbandonJob(a)

SeederInit ==
  /\ job = [a \in Admin |-> NoJob]
  /\ customers = FALSE
  /\ logs = {}

==========================================================================
