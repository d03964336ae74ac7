# TLA+ verification of the NestJS queue/worker application

This directory holds TLA+ models of the application in `src/`, the TLC
configurations that check them on small instances, and TLAPS proofs of theorems
about them. The source files are cited as `app/...` for `src/src/app/...`.

## 1. The system

Clients post tasks over HTTP. A task is a row in one PostgreSQL table and an
event with its id in the broker (RabbitMQ). A worker receives the event, marks
the row, does the work the task's type asks for, stores the result in the row's
payload and marks the row again. Completed tasks of the invoice types create the
next task of an invoice run; failed ones create a compensation. A cron job turns
tasks with a date into tasks to run.

Nothing in the application is transactional: each `await` on the database or the
broker is a step of its own, between which any other call, on the same process
or on another, may run. No row is locked and no update is conditional.

### Inventory

| component | state it keeps | operations | talks to | what is hard | what makes it correct |
|---|---|---|---|---|---|
| Task store and service (`app/task/task.service.ts`, `task.repository.ts`, `task.entity.ts`) | the task rows: type, payload, status, retries, maxRetries, scheduledAt | createTask, updateTaskStatus, updateTaskPayload, handleFailure, cancelTask | everyone calls it | read-modify-write over several statements | status, retries and payload agree; the last of several results is what counts |
| Worker and processor (`app/worker/*`) | calls in flight | one handler per event, handleTask, seven processors | task store, invoice flow | several calls on one task, exceptions after an effect, crashes | a task in processing has an owner, a completed one a result |
| Invoice flow (`app/invoice/*`) | nothing of its own | start, schedule, completion and failure handlers, status queries | task store, queue service, messaging | a chain that only goes on if each step publishes the next | the run is not forked, has its inputs, ends, and is not called complete before |
| Task API (`app/task/task.controller.ts`) | nothing | create, retry, cancel, compensate | task store, messaging | requests race with workers | see the worker |
| Queue service (`app/queue/*`) | nothing | enqueue, retry, status | task store, messaging | counts read while tasks move | a report is wrong by no more than what moved meanwhile |
| Scheduler (`app/scheduler/*`) | dates in the rows | schedule, recurring, the cron job | task store, queue service | overlapping runs, crash between two statements, stale query results | nothing early, nothing twice, nothing forgotten |
| Messaging (`app/core/messaging/*`, `app/config/s2s.config.ts`) | the client connection, a `connected` flag; the broker's queue | connect, disconnect, publishTask, emitEvent, emit, the choice of a provider | broker | emission is not awaited; the flag knows nothing of the broker | rows are written before events; what is not emitted is known |
| Bootstrap and shutdown (`main.ts`) | the life of an instance | start, listen, serve, close, die | messaging, every handler | events come before the client is connected, and go on after it is closed | only what was in hand at that moment is left behind |
| Workflows (`app/workflow/*`) | workflow rows: status, isActive, definition | create, update, (de)activate, delete, start, status | task store, queue service | status and tasks in separate statements, starts that overlap | running means that a task is on its way |
| Seeder (`app/core/database/seeder/*`) | a list of customers, a config, shared by all requests | seed, clear, reset | the three tables | check, then act; saves side by side; a fallback half-way | nothing seeded over data, nothing left by a clear, no orphans |
| Task log (`app/task/task-log.*`) | log rows | written by the seeder | task rows | foreign keys | no log of a task that is gone |
| Health, modules, logger | none | none | | | |

Three facts about the deployment shape the model. `s2s.config.ts` sets no
`noAck: false`, so the broker forgets a message when it delivers it; a crash does
not bring it back. `messaging-factory.service.ts` switches on strings while the
configuration holds the numeric `Transport`, so every configuration ends up with
the RabbitMQ provider, although `ARCHITECTURE.md` line 72 promises a configurable
broker; it takes no sequence of steps to see, so the models just have that one
provider. And `main.ts` hands `connectMicroservice` the
options without their `transport`, so that the workers listen on Nest's default.
The last one would leave nothing to model: no event would ever reach a worker. The
models follow the configuration that was meant: what is emitted to a broker that is
there reaches the workers of some instance, one of them per message.

## 2. The modules

```
            TaskLedger (INSTANCE: QueueWorker implements it)
                 :
TaskStore -- Worker ------\    :
   | \------ InvoiceFlow --- QueueWorker --- MCQueueWorker
   | \------ TaskApi -----/    | | |  \-- QueueWorkerProofs -- RunProofs -- FlowProofs --\
   |             |             | |  \------ Deployment -- MCDeployment               |
   |             |             | |               \-------- DeploymentProofs (both) --/
   |             |             |  \-------- QueueStatus -- MCQueueStatus
   |             |             |                 \-------- QueueStatusProofs
   |              \------------------------ Scheduler ---- MCScheduler
   |                                     :       \-------- SchedulerProofs
   |                   TaskAgenda (INSTANCE: Scheduler implements it)
    \------- Workflow -- Seeder -- Administration -- MCAdministration
                                         \-------- AdministrationProofs
```

**TaskStore** has the three variables all other modules act on.
- `db[t]` is the row of task `t`. A payload is the set of its fields that some
  code looks for: whether a field is there, not its value. Two attempts at a task
  store different invoices under the same name, and the second replaces the first;
  that is what `Deployment` keeps a history of. `cause` is the task a row was made for: the compensation's
  `originalTaskId`, and for the successors of an invoice run and the copies the
  scheduler makes a history variable, as the code keeps no link. `origin` says
  whether a client's request or the system made it, also for the properties only.
- `msgs[t]` counts the messages in the broker that name `t`, so that messages are
  delivered in any order. `Emit` adds one, or, with `Lossy`, loses it.
- `call[s]` is an async call suspended at an `await`: which statement comes next
  (`pc`), about which task, and the two local values the code carries across an
  `await`: the payload a processor read (`snap`) and the retries `handleFailure`
  read back (`seen`).

One action is what a call does between two observable effects: one statement on
the database, or one emission. Reads that only decide what the same call does to
a field no one else writes (the type of a task) have no step of their own.
`Faults` turns on two things: a statement may throw, before its effect (`Throw`)
or after it (`Catch`, as `updateTaskStatus` reads the row back after the UPDATE),
and a call may end anywhere (`Abort`: the process dies, or an exception leaves the
catch block).

**Worker** is `BaseWorker.handleTask` with what it dispatches to: `Deliver`,
`Start` (PROCESSING), `Succeed`/`Fail` (the task's own work), `Store` (the payload
written back), `Complete`, and the catch block `FailIncr`, `FailRead`,
`FailWrite`. The processors are the operators `Requires`, `Product`, `MustFail`
and `MayFail`: the fields a type needs, the one it adds, when it must throw and
when it may. `Flaky` says whether external services and dice may fail.

**InvoiceFlow** is the start request, the successors (`Advance`, `Finish`) and the
compensation of a failed attempt (`Compensate`). **TaskApi** is the requests on
tasks. `CancelTask` and `Cancel` are the check and the update of `cancelTask`.

**QueueWorker** composes them: `Next` lets clients make the requests in `Api` and
every call take its next step (`Calm`), or throw or end (`Throw`, `Abort`); the properties of
the system are stated there.

**TaskLedger** is the abstract specification: what one row promises to whoever
reads it, with no word of calls, messages or statements. A line has a status, a
count of failures, the input and whether a result is held; failures are counted
one by one, inputs are never lost, a result may be replaced but not removed, and *completed* and *failed* tell the
truth. `QueueWorker!Ledger` maps a row to a line by splitting the payload into the
result of the task's type and the rest; `ImplementsLedger` says that every step of
the application is a step of the ledger or leaves it alone.

**Deployment** puts the calls on instances. An instance boots (events arrive: main.ts
starts the microservice before `app.listen` runs `onModuleInit`), connects, serves,
disconnects (`onModuleDestroy` runs before the servers close) and is gone; it may die
at any point. A call on an instance without a provider or with the flag down is
refused at its emission (`Refuse`), after its row was written; one on a dead
instance is cut short. `struck`, a history variable, collects the tasks this happened
to. Two more say what became of results that were replaced: `superseded` has the
tasks made from a result in whose place another attempt has stored its own
(`Replace`), and `behind` the calls that had read such a result and have yet to make
the task from it. `Advance` reads the row and inserts the successor in one step; a
call at "coordinate" may have done the reading before the replacement or not, so
`Replace` takes any set of them (`HandOn` is what becomes of it). With `Faults`, a deployment is a behaviour of QueueWorker: the refusals and cuts
are its `Abort`, the rest are its own steps.

**Scheduler** adds `now`, `dated` (scheduledAt is set), `due` (the date, kept for
the properties when the column is cleared) and `tick[k]`, a run of the cron job:
the rows its query returned with their payloads as they were then (`read`), and the
one it works on, in the order of their dates. A copy gets the payload that was read,
whatever the row holds by then; a recurring task is given the request's payload and
the cron expression.
Any number of runs overlap. Workers are left out: they do not see a row before its
copy is published, unless a client also retries the scheduled task itself, which
this module does not include.

**TaskAgenda** is the abstract specification of the scheduler, with no word of cron jobs,
queries or rows: a task without a date gets one (`Plan`), waits, and is withdrawn for
good (`Withdraw`) or taken, once, when its date has come (`Take`); only what is taken is
executed (`Execute`), maybe never, and no more often than runs can overlap.
`Scheduler!StateOf` reads this off the date, the column and the status of a row. A
cancelled task counts as withdrawn once no run holds on to it: until then a run may
still bring it back. `ImplementsAgenda` says that every step of the scheduler is a step
of the agenda or leaves it alone.

**QueueStatus** runs QueueWorker with a status request beside it: `ReadCount` is one of
the four queries, each at its own moment, `Query` what it returns, the cap on
pending tasks included. `still`, a history variable, holds the tasks whose status has
not changed since the request came.

**Workflow** has the workflow rows, the link from a task to its workflow (`owner`) and
the starts in progress (`op`), one statement per step: read and check, RUNNING,
first row, second row, emission, and the catch block that writes FAILED. Rows may be
changed, soft-deleted or removed between any two of them.

**Seeder** has the requests to seed, clear and reset (`job`), the list of customers they
share, and the log rows. The saves of workflows run side by side; the batches of
tasks follow each other; a clear truncates table by table and turns to deletions when
a truncation throws. **Administration** interleaves both on one database, and lets at
most `MaxStrikes` statements throw or processes die.

`QueueStatusProofs` and `SchedulerProofs` extend `QueueWorkerProofs` as well, for the
lemmas about rows and calls.

Definitions that a comment calls a mutant are not used by any specification: they
are the plausible bugs that each property has been seen to catch.

## 3. What the runs check

Passing runs:

| run | instance | what must hold |
|---|---|---|
| `attempts` | one http task, three concurrent calls, 2 retries, clients create, retry, requeue and cancel; no faults | `TypeOK`, `FailedIsExhausted`, `CompletedHasProduct`, `ProcessingHasOwner`, `PendingIsCarried`, `ProcessingEnds`, and the refinement `ImplementsLedger` |
| `clients` | two instances with a call each, a `generate_pdf` task that carries an invoice and the task made after it, clients retry, with throws, crashes, shutdowns and lost messages | `DeploymentTypeOK`, `NamesExist`, `SuccessorsRunnable`, `StrandedOnlyWhenStruck`, `RunsStopOnlyWhenStruck`, `LatestResultPassedOn`, `UncompensatedOnlyWhenStruck` |
| `invoice_runs` | a whole invoice run, begun by a start request or by posting its first task, its services may fail, clients cancel and compensate tasks | `OneHandler`, `RunNotForked`, `CompensationsBounded`, `CompleteMeansOver`, `RunSettles`, `CompensationFollows` |
| `scheduler` | two scheduled or recurring tasks, two overlapping runs of the cron job, faults and lost messages, cancellations | `SchedulerTypeOK`, `CopiedOnlyWhenDue`, `CopiesBounded`, `CancelledIsSettled`, and the refinement `ImplementsAgenda` |
| `scheduler_due` | three tasks, one cron job, no faults | `ClearedIsExecuted`, `DueIsExecuted` |
| `administration` | two requests at a time out of all of Workflow's and Seeder's, two workflows, two tasks, one fault | `AdminTypeOK`, `RunningHasTask`, `NoOrphans`, `SeedsOnlyWhenGone`, `ClearedWhatWasThere` |
| `queue_status` | a status request beside three http tasks, one worker call at a time, a cap of 1, limits of 2 | `StatusTypeOK`, `CountsNearlyRight` |

Runs that end in a counterexample, each a disagreement between the code and what
the repository says of it:

| run | what the repository says | what happens |
|---|---|---|
| `v_totals` | `INVOICE_TESTING_DOCUMENTATION.md`: a finished workflow has four tasks, four completed | `startInvoiceWorkflow` makes the first row twice and publishes one: five rows, one pending for ever, and it is that one's id the client holds |
| `v_auto_retry` | `ARCHITECTURE.md`: automatic retry | a failed attempt goes back to pending and nothing publishes it |
| `v_cancel_race` | `task.service.ts`: only pending tasks can be cancelled | the update follows the check in a later statement; a task a worker has taken up meanwhile is cancelled |
| `v_exhausted` | `task.service.spec.ts`: FAILED when retries >= maxRetries | of two attempts failing together, the one that read the smaller count writes last; the exhausted task stays pending, and the queue refuses to retry it |
| `v_backlog` | `queue-manager.service.spec.ts`: unhealthy when pending tasks exceed the threshold | the pending count comes from a query that returns at most 100 rows, and is compared with 500: a backlog of any length is reported healthy; the tests hand the service longer lists than its query returns |

Three more hazards have no counterexample run. The provider and the transport are not
what is configured (section 1). Overlapping runs of the cron job execute a task more
than once (`CopiesBounded` says how often at most); a recurring task is stored and
never looked for (`Recur`, `SetCron`).

### Bounds

- `Id`: as many ids as the instance's rows need. `Reserve` and `Spare` keep clients
  from using up the ids that workers and the scheduler will need, so that no call
  is blocked for want of an id in the runs with liveness properties; `Reserve` says
  for each kind of request how many ids it leaves. An invoice run
  takes at most six rows (two for the first task, three successors, one
  compensation, as the task that fails is the last), and the seventh id of
  `invoice_runs` is for a client's own compensation. A failure that were compensated
  again would take the next ids there, so `CompensationsBounded` is checked in that run.
  In `clients` the second row is the successor of the client's task, or its compensation;
  two attempts that replace each other's results, with a successor made from one of
  them, need no third.
- `Slot`: concurrent calls. Every race found needs two; `attempts` has three, the
  number at which two attempts and a request, or three attempts, interleave.
- `RetryCap`, `MsgCap`: clients retry only a task with fewer failures than
  `RetryCap` and fewer messages waiting than `MsgCap`. In `attempts` they are above
  `MaxRetries` and above one, so that retries of exhausted tasks and duplicate
  messages happen.
- `MaxRetries` is 3 in the code and 2 in `attempts` and `clients`, so that both the
  retried and the last attempt occur. In `invoice_runs` it is 1: no client
  retries there, and a task that has attempts left would never use them (see
  `v_auto_retry`); `RunSettles` allows for any failed attempt and so does not
  depend on it. It is 3 in `administration`, where the seeder's own 3 meets it.
- `Home`, `Instance`: two instances with one call each; what one instance does to the
  other's tasks, and a message that the other instance takes over, need no more.
  A task that dies with its instance and is retried on the other needs both.
- `PendingCap`, `PendingLimit`, `FailedLimit` are 100, 500 and 50 in the code; what
  the properties need of them is `PendingCap < PendingLimit`, and with three tasks
  they are 1, 2 and 2.
- `SeedWf`, `SeedType`, `SeedIndex`: one row stands for each save of a task. Two
  templates of workflows are saved side by side, a failed one and a running one, so that
  one save may go on while another throws, the request is answered and a clear comes
  between.
- `MaxStrikes` is 1: each property was also seen to hold, with one workflow, with two.
- `Horizon`: the clock has three values: before, at and after a task's date.
- Symmetry is used in the runs without liveness properties, over slots and runs of
  the cron job, which all actions treat alike.

Deadlock is not checked: when clients ask nothing more, the system rests.

### Fairness

`Fairness` is weak fairness of each call's next step and of the delivery of each
task's messages: an event loop resumes every call whose `await` has settled, HTTP
requests and queries have timeouts, and the broker delivers what it holds.
Clients are never obliged to ask for anything. `SchedulerFairness` is weak
fairness of each cron job, which the framework starts every minute. The liveness runs use `FairSpec`, whose steps are `Calm`: with throws and deaths, and for
the requests of operators, nothing of the kind could be promised, and no liveness is
claimed.

## 4. What is proved

All theorems hold for every number of tasks, concurrent calls, instances and cron
jobs, workflows and operators, every set of requests and every payload clients may send, and, unless the
table says otherwise, with or without faults and lost messages. The assumptions are
the named ones on the constants: finite sets of ids, slots, instances and tickers,
`MaxRetries` a positive number, clients' tasks and the seeder's templates well typed,
no uuid in two tables.

| module | theorem | states |
|---|---|---|
| `QueueWorkerProofs` | `Typing` | `Spec => []TypeOK` |
| | `NoDanglingReference` | `Spec => []NamesExist` |
| | `GivenUpOnlyWhenExhausted` | `Spec => []FailedIsExhausted` |
| | `CompletedTasksHaveResults` | `Spec => []CompletedHasProduct` |
| | `ProcessingIsOwned` | `~ Faults`: `Spec => []ProcessingHasOwner` |
| `RunProofs` | `LedgerIsImplemented` | `Spec => ImplementsLedger` |
| | `NoCompensationWithoutFailure` | `Spec => []CompensationsBounded` |
| | `SuccessorsHaveInputs` | `Spec => []SuccessorsRunnable` |
| | `TasksAreHandledOnce` | no retry, no requeue in `Api`: `Spec => []OneHandler` |
| | `RunsAreNotForked` | no retry, no requeue in `Api`: `Spec => []RunNotForked` |
| | `NewTasksAreCarried` | no faults, no loss, no start in `Api`: `Spec => []PendingIsCarried` |
| `FlowProofs` | `CompleteRunsAreOver` | `~ Faults`: `Spec => []CompleteMeansOver` |
| `DeploymentProofs` | `DeploymentIsQueueWorker` | `Faults`: `DeploymentSpec => Spec` |
| | `DeploymentKeeps` | `Faults`: the first group's theorems, for deployments |
| | `DeploymentTyping` | `Faults`: `DeploymentSpec => []DeploymentTypeOK` |
| | `OnlyTheStruckAreStranded` | `Faults`, no start in `Api`: `DeploymentSpec => []StrandedOnlyWhenStruck` |
| | `OnlyTheStruckStopRuns` | `Faults`: `DeploymentSpec => []RunsStopOnlyWhenStruck` |
| | `OnlyTheStruckGoUncompensated` | `Faults`: `DeploymentSpec => []UncompensatedOnlyWhenStruck` |
| | `TheLastResultGoesOn` | `Faults`: `DeploymentSpec => []LatestResultPassedOn` |
| `SchedulerProofs` | `SchedulerTyping` | `SchedulerSpec => []SchedulerTypeOK` |
| | `NeverEarlyNeverAgain` | `SchedulerSpec => []CopiedOnlyWhenDue` |
| | `CopiedOncePerRun` | `SchedulerSpec => []CopiesBounded` |
| | `CancelledInTime` | `SchedulerSpec => CancelledIsSettled` |
| | `AgendaIsImplemented` | `SchedulerSpec => ImplementsAgenda` |
| | `ClearedTasksAreExecuted` | no faults, no loss: `SchedulerSpec => []ClearedIsExecuted` |
| `QueueStatusProofs` | `StatusTyping` | `StatusSpec => []StatusTypeOK` |
| | `ReportsAreNearlyRight` | `StatusSpec => []CountsNearlyRight` |
| | `BacklogIsNeverSeen` | `PendingCap < PendingLimit`: `StatusSpec => [](AllRead => (Healthy <=> found["failed"] < FailedLimit))` |
| `AdministrationProofs` | `AdminTyping` | `AdminSpec => []AdminTypeOK` |
| | `ReferencesHold` | `AdminSpec => []NoOrphans` |
| | `SeedingFindsNothing` | `AdminSpec => []SeedsOnlyWhenGone` |
| | `ClearingRemovesAll` | `AdminSpec => []ClearedWhatWasThere` |
| | `RunningIsServed` | `AdminSpec => []RunningHasTask` |

The argument has one base and several strengthenings. The base, `TypeOK`,
`NamesExist` and "a row that exists has a type", says that every step acts on an
existing row; it is inductive, because a row is inserted before a call or message
names it, and rows are never removed. Lemmas name the effect of each helper
(`Insert`, `SetStatus`, `Goto`, `Begin`, `Return`) and of each group of steps that
only creates a row; each invariant is then proved step by step.
- `FailedIsExhausted` alone is not inductive: the write in `FailWrite` trusts the
  count read earlier. The strengthening says that what a call has read is at most
  the row's count now, which increments can only keep true.
- `CompletedHasProduct` needs that what `Store` writes
  back covers the fields the row has. Its snapshot is stale, but the fields of a payload
  only ever change by the addition of the one the type produces, so the snapshot with the
  product added has at least the row's fields. Of their values this says nothing.
- `LatestResultPassedOn` is where the values matter (`LatestInv`). It is `Followed`, below,
  with the superseded successors and the calls that are behind left out of the count, and
  with a call at "complete" in it: the attempt that has just stored the newest result is
  there, completes the task and calls the coordinator, which is not behind unless somebody
  stores again, and then that one is there. The histories must be about rows
  that exist and calls at "coordinate" (`HistoryInv`), so that a new row is never superseded
  already and a call that completes a task is not behind.
- `ProcessingHasOwner` is carried through the catch block: the call that leaves the
  last of the owning places has just written another status. It needs that no call
  vanishes, hence `~ Faults`.
- The refinement shows, action by action, that what happens to each row is an entry
  of the ledger or nothing; it takes the two invariants above as what is known of a
  row before and after the step.
- `CompensationsBounded` counts: the compensations of a task and the calls that have
  counted a failure of it and may still compensate (`CountedPC`) are together at most
  its failures. The invariant of the run would be lost at the moment such a call
  inserts its row, were the call itself not counted before.
- `SuccessorsRunnable` needs that a successor was made from a payload that had its
  product, and that neither row's payload has lost a field since.
- `OneHandler` and `RunNotForked` hold of one token that passes from the publishing
  call to the message to the handling call (`Single`), and of a task that already has
  a successor, which has no token any more (`ForkInv`). A retry makes a second token,
  hence the assumption; `invoice_runs` has the same set of requests.
- `PendingIsCarried` and `StrandedOnlyWhenStruck` are two parts of one invariant
  (`Tended`): an unattempted pending row is carried, a processing row is owned. Each
  part is needed to pass from one status to the next. It is proved once for every kind
  of carrier (`TendedStep`), and used without faults for the first property, and for
  the tasks that were not struck for the second. The start request is excluded because
  it does strand the first of the two rows it makes.
- `RunsStopOnlyWhenStruck` (`Followed`: a completed task of a run has its successor or a
  call about to make it, or to take the completion back) and
  `UncompensatedOnlyWhenStruck` (`Accounted`: the failures of an invoice task are its
  compensations and the calls that will make one) hold whatever clients ask for: a
  retry or a cancellation only takes a task out of *completed*, and none of them
  touches the count.
- `CompleteMeansOver` speaks of all of a customer's tasks at once, among them those of
  each run. `ChainInv` is about each
  task: it is followed up, by a call at "coordinate" alone when nothing throws, and its
  successor has the next type. A run without an email, all of it completed and none of
  it being followed up, would then reach the email in three steps along the links,
  which is the contradiction: the customer's tasks would not all be completed or failed. No induction over the run is needed, as a run has four types.
- `CopiedOnlyWhenDue` (`DueInv`): while a request has still to write a task's date,
  nothing else has touched the task, so a date that a run has cleared is never written
  again. `CopiesBounded` (`BoundInv`): the copies of a task and the runs that hold it
  with its date cleared are together at most the runs; a run that has copied it moves
  on, and none finds it again once its date is cleared. `CancelledIsSettled` is proved
  of each step.
- `ImplementsAgenda` takes these two as what is known of a date before a step, and two
  more: a row whose date is still to be written has never had one (`UndatedInv`), so that
  `Plan` happens once, and a run between two tasks has none in hand (`LoopersFree`), so
  that taking one task lets go of no other. Every step that leaves dates and copies
  alone is a `Withdraw`, of the cancelled tasks it lets go of, mostly of none.
- `ClearedIsExecuted` (`ClearedInv`): from the clearing on, some run has the task at
  "enqueue", a run has a copy of it at "publish", or the broker has one. Both hand-overs
  happen in one step of one run, and nothing ends early while nothing throws or dies.
- `CountsNearlyRight` (`ReportInv`): a count that has been read lies between the tasks
  that are in that status and have not moved, and those with the ones that have, or
  stands at the cap; a task that moves only widens this. `BacklogIsNeverSeen` follows, as the pending count
  that is compared is at most the cap.
- The properties of `Administration` rest on what a step may do to the rows at all
  (`RowStep`): keep them, add one under a new uuid, change a workflow without undoing
  its deletion, or remove rows with those that refer to them. `NoOrphans` follows at
  once. For the two others, a uuid that some row has had is never given again, so what
  is gone stays gone, and each table a pass has left behind was empty of the rows that
  were there when the pass began (`Wiped`), whichever of the passes it is, the counts,
  the truncations or the fallback. `RunningHasTask` is proved of each step: a start
  ends by publishing, by dying, or by writing FAILED over what the others wrote.

Only model-checked: the liveness properties (`ProcessingEnds`, `RunSettles`,
`CompensationFollows`, `DueIsExecuted`), which are out of the prover's reach. Every other
property of a passing run is stated by a theorem above.

## 5. What is not modelled

- The values in payloads: of the fields that some code looks for the models say
  whether they are there, and whether a successor was made from a result that has been
  replaced since. Wording, logging and layout. Clients send what the DTOs name: these are interfaces, and nothing
  strips what else a body holds, so a payload with a `taskId` of its own, which the
  controller spreads over the message, is assumed not to come.
- The orders a customer has: the external call is a stub that always returns one.
- The transport mismatch of `main.ts` (see the three facts above): with it, no
  message would reach a worker. The choice of a provider, which always has the same
  outcome.
- `getInvoiceWorkflowStatus` is modelled for one customer, and for the one group it has:
  the query loads no relation, so every task of the customer falls into the group
  "standalone" (`CustomerTasks`: whatever run it belongs to, with the compensations that
  workers made, which carry the customer's id, and without a client's own, which do not).
  The row that a start request never publishes keeps that group pending until a client
  cancels it, and `isComplete` false for ever, a cancelled task being neither completed nor
  failed; so `CompleteMeansOver` says something of runs that a client began by posting
  their first task, as `invoice_runs` has them.
- `handleTaskCompletion` and `handleTaskFailure` of the workflows are called by
  nothing, so a started workflow never becomes *completed*; they are listed, not
  modelled.
- Workers during administration: a handler whose row a clear has truncated gets a
  not-found error from its next statement. `Administration` has no workers, so that
  statement, and what it would log, are left out. The rows the seeder inserts as
  *processing* or *pending* are carried by nobody; `PendingIsCarried` and
  `ProcessingHasOwner` are claimed of the tasks of clients and workers only.
- Requests on the scheduled row itself other than cancelling, while the cron job
  works on it, and the workers of the copies.
- The seeder's sizes and random choices, its progress log, and the query runner that
  stays open when a clear throws: no other code sees them.
- Soft deletion of tasks: no code deletes one.
- Health, the Nest modules, logging, the data source's settings: they hold no state
  of the system.

## 6. Plan

Done: `TaskStore`, `Worker`, `InvoiceFlow`, `TaskApi`, `QueueWorker`, `Scheduler`; the
abstract `TaskLedger` and `TaskAgenda` and their refinements; `Deployment` with the client
connection and the life of an instance; `QueueStatus`; `Workflow`, `Seeder` and
`Administration`; the theorems above, which cover every safety property of a passing run.

Left:
1. The scheduler together with the workers of its copies, once an instance of it
   that holds both can be kept small enough.
2. Requests on a scheduled row other than cancelling, while the cron job works on it.
