---------------------------- MODULE Scheduler ----------------------------
(***************************************************************************)
(* The scheduler (scheduler.service.ts): clients store tasks with a date,  *)
(* and a cron job, on every instance of the application, looks once a      *)
(* minute for those whose date has come.  It does not publish the task it  *)
(* finds: it enqueues a copy of it, and the row stays behind, pending.     *)
(* Clients may cancel meanwhile; workers are left out, as none of them     *)
(* sees a scheduled row before its copy is published.                      *)
(***************************************************************************)
EXTENDS TaskApi

CONSTANTS
  Ticker,   \* runs of the cron job that may overlap: one per instance, or more
            \* when a run takes longer than the minute to the next
  Spare,    \* ids that clients leave to the copies (bound)
  Horizon   \* the last point in time (bound)

ASSUME TickerAssumption == IsFiniteSet(Ticker) /\ Spare \in Nat /\ Horizon \in Nat

VARIABLES
  now,    \* the clock
  dated,  \* the tasks whose scheduledAt column is set
  due,    \* due[t]: the date it is or was set to; kept when the column is
          \* cleared, for the properties (0: never set)
  tick    \* tick[k]: the progress of a run of the cron job

svars == <<db, msgs, call, now, dated, due, tick>>

\* found: the rows the query returned and the loop has still to look at; read:
\* the payloads it returned; task: the row being executed, later the copy to
\* publish.
Tick == [pc : {"idle", "loop", "enqueue", "publish"}, found : SUBSET Id,
         read : [Id -> SUBSET Field], task : Id \cup {NoId}]

NoTick == [pc |-> "idle", found |-> {}, read |-> [t \in Id |-> {}], task |-> NoId]

SchedulerInit ==
  /\ Init
  /\ now = 0
  /\ dated = {}
  /\ due = [t \in Id |-> 0]
  /\ tick = [k \in Ticker |-> NoTick]

Past(t) == due[t] \in 1..now

---------------------------------------------------------------------------
(* Clients: createScheduledTask and createRecurringTask, two statements    *)
(* each, and cancelTask                                                    *)

SomeRoom == Cardinality(Fresh) > Spare

Schedule(s, new) ==
  /\ SomeRoom
  /\ At(s, "idle")
  /\ Insert(NewId, new.type, new.payload, NoId, "client")
  /\ Begin(s, "schedule", NewId)
  /\ UNCHANGED <<msgs, now, dated, due, tick>>

\* Any valid date, a past one too.
SetDate(s) ==
  /\ At(s, "schedule")
  /\ dated' = dated \cup {Task(s)}
  /\ \E d \in 1..Horizon : due' = [due EXCEPT ![Task(s)] = d]
  /\ Return(s)
  /\ UNCHANGED <<db, msgs, now, tick>>

\* A recurring task's cron expression goes into its payload, where nothing
\* looks for it.  The call keeps the payload of the request to build on.
Recur(s, new) ==
  /\ SomeRoom
  /\ At(s, "idle")
  /\ Insert(NewId, new.type, new.payload, NoId, "client")
  /\ call' = [call EXCEPT ![s] =
                [NoCall EXCEPT !.pc = "recur", !.task = NewId, !.snap = new.payload]]
  /\ UNCHANGED <<msgs, now, dated, due, tick>>

SetCron(s) ==
  /\ At(s, "recur")
  /\ db' = [db EXCEPT ![Task(s)].payload = call[s].snap \cup {"cronExpression"}]
  /\ Return(s)
  /\ UNCHANGED <<msgs, now, dated, due, tick>>

CancelRequest(s) ==
  /\ Cancel(s) \/ \E t \in Id : CancelTask(s, t)
  /\ UNCHANGED <<now, dated, due, tick>>

Time ==
  /\ now < Horizon
  /\ now' = now + 1
  /\ UNCHANGED <<db, msgs, call, dated, due, tick>>

---------------------------------------------------------------------------
(* The cron job: processScheduledTasks and executeScheduledTask *)

\* shouldExecuteTask is asked of the rows in the order of their dates.
First(k) == {t \in tick[k].found : \A u \in tick[k].found : due[t] <= due[u]}

\* What the query returned.
Looking(found) ==
  [pc |-> "loop", task |-> NoId, found |-> found,
   read |-> [t \in Id |-> IF t \in found THEN db[t].payload ELSE {}]]

\* On to the next row.
Onward(run) == [run EXCEPT !.pc = "loop", !.task = NoId]

\* Mutant of Execute: the row stays on the list of the run that executes it.
ExecuteAgain(k, t) ==
  tick' = [tick EXCEPT ![k] = [@ EXCEPT !.pc = "enqueue", !.task = t]]

\* Mutants of Find: the query forgets the status ...
FindAny(k) ==
  /\ tick[k].pc = "idle"
  /\ tick' = [tick EXCEPT ![k] = Looking(dated)]
  /\ UNCHANGED <<db, msgs, call, now, dated, due>>

\* ... or it asks for the dates of this minute only.
FindThisMinute(k) ==
  /\ tick[k].pc = "idle"
  /\ tick' = [tick EXCEPT ![k] =
                Looking({t \in dated : db[t].status = "pending" /\ due[t] = now})]
  /\ UNCHANGED <<db, msgs, call, now, dated, due>>

\* findScheduledTasks; the loop works on what it returned.
Find(k) ==
  /\ tick[k].pc = "idle"
  /\ tick' = [tick EXCEPT ![k] = Looking({t \in dated : db[t].status = "pending"})]
  /\ UNCHANGED <<db, msgs, call, now, dated, due>>

\* The date of this one has not come.
Skip(k, t) ==
  /\ tick[k].pc = "loop"
  /\ t \in First(k) /\ ~ Past(t)
  /\ tick' = [tick EXCEPT ![k].found = @ \ {t}]
  /\ UNCHANGED <<db, msgs, call, now, dated, due>>

Execute(k, t) ==
  tick' = [tick EXCEPT ![k] =
            [pc |-> "enqueue", task |-> t, found |-> @.found \ {t}, read |-> @.read]]

\* Mutants of Clear: the update leaves scheduledAt alone ...
ClearNothing(k, t) ==
  /\ tick[k].pc = "loop"
  /\ t \in First(k) /\ Past(t)
  /\ SetStatus(t, "pending")
  /\ Execute(k, t)
  /\ UNCHANGED <<msgs, call, now, dated, due>>

\* ... the row is marked with a status the enum does not have ...
ClearMarked(k, t) ==
  /\ tick[k].pc = "loop"
  /\ t \in First(k) /\ Past(t)
  /\ SetStatus(t, "executed")
  /\ dated' = dated \ {t}
  /\ Execute(k, t)
  /\ UNCHANGED <<msgs, call, now, due>>

\* ... or the dates are not compared.
ClearEarly(k, t) ==
  /\ tick[k].pc = "loop"
  /\ t \in First(k)
  /\ SetStatus(t, "pending")
  /\ dated' = dated \ {t}
  /\ Execute(k, t)
  /\ UNCHANGED <<msgs, call, now, due>>

\* One UPDATE, whatever became of the row since it was found: status pending,
\* scheduledAt null.
Clear(k, t) ==
  /\ tick[k].pc = "loop"
  /\ t \in First(k) /\ Past(t)
  /\ SetStatus(t, "pending")
  /\ dated' = dated \ {t}
  /\ Execute(k, t)
  /\ UNCHANGED <<msgs, call, now, due>>

\* Mutant of EnqueueCopy: the copy is made by createTask, which publishes nothing.
EnqueueUnpublished(k) ==
  /\ tick[k].pc = "enqueue"
  /\ Fresh # {}
  /\ Insert(NewId, db[tick[k].task].type, tick[k].read[tick[k].task],
            tick[k].task, "worker")
  /\ tick' = [tick EXCEPT ![k] = Onward(@)]
  /\ UNCHANGED <<msgs, call, now, dated, due>>

\* TaskQueueService.enqueueTask: a row of its own, with the payload the query
\* found; cause is the row it copies
\* (a history variable: the code keeps no link).
EnqueueCopy(k) ==
  /\ tick[k].pc = "enqueue"
  /\ Fresh # {}
  /\ Insert(NewId, db[tick[k].task].type, tick[k].read[tick[k].task],
            tick[k].task, "worker")
  /\ tick' = [tick EXCEPT ![k].pc = "publish", ![k].task = NewId]
  /\ UNCHANGED <<msgs, call, now, dated, due>>

PublishCopy(k) ==
  /\ tick[k].pc = "publish"
  /\ Emit(tick[k].task)
  /\ tick' = [tick EXCEPT ![k] = Onward(@)]
  /\ UNCHANGED <<db, call, now, dated, due>>

Done(k) ==
  /\ tick[k].pc = "loop"
  /\ tick[k].found = {}
  /\ tick' = [tick EXCEPT ![k] = NoTick]
  /\ UNCHANGED <<db, msgs, call, now, dated, due>>

\* A statement of executeScheduledTask throws before it takes effect: the
\* catch logs it, and the loop goes on with the next row.
Drop(k) ==
  /\ Faults
  /\ \/ tick[k].pc \in {"enqueue", "publish"} /\ tick' = [tick EXCEPT ![k] = Onward(@)]
     \/ /\ tick[k].pc = "loop"
        /\ \E t \in First(k) : Past(t) /\ tick' = [tick EXCEPT ![k].found = @ \ {t}]
  /\ UNCHANGED <<db, msgs, call, now, dated, due>>

\* The process dies in the middle of a run.
Crash(k) ==
  /\ Faults
  /\ tick[k].pc # "idle"
  /\ tick' = [tick EXCEPT ![k] = NoTick]
  /\ UNCHANGED <<db, msgs, call, now, dated, due>>

CronJob(k) ==
  \/ Find(k) \/ EnqueueCopy(k) \/ PublishCopy(k) \/ Done(k)
  \/ \E t \in Id : Skip(k, t) \/ Clear(k, t)

SchedulerNext ==
  \/ \E s \in Slot : \/ \E new \in NewTask : Schedule(s, new) \/ Recur(s, new)
                     \/ SetDate(s) \/ SetCron(s)
                     \/ CancelRequest(s)
  \/ Time
  \/ \E k \in Ticker : CronJob(k) \/ Drop(k) \/ Crash(k)

SchedulerSpec == SchedulerInit /\ [][SchedulerNext]_svars

\* The cron job runs every minute, and its awaits settle.
SchedulerFairness == \A k \in Ticker : WF_svars(CronJob(k))

FairScheduler == SchedulerSpec /\ SchedulerFairness

---------------------------------------------------------------------------
(* Properties *)

SchedulerTypeOK ==
  /\ TypeOK
  /\ now \in Nat
  /\ dated \subseteq Id /\ due \in [Id -> Nat]
  /\ tick \in [Ticker -> Tick]

Copies(t) == {u \in Id : db[u].cause = t}

Executing(t) == {k \in Ticker : tick[k].pc = "enqueue" /\ tick[k].task = t}

InHand(t) == {k \in Ticker : t \in tick[k].found \cup {tick[k].task}}

\* Never early, and never again: a copy is made only of a task whose date has
\* come and whose scheduledAt is cleared, so that no later run of the cron job
\* finds it (executeScheduledTask clears before it enqueues).
CopiedOnlyWhenDue ==
  \A t \in Id : Copies(t) \cup Executing(t) # {} => Past(t) /\ t \notin dated

Publishing(u) == {k \in Ticker : tick[k].pc = "publish" /\ tick[k].task = u}

\* While nothing throws, dies or is lost, no task falls between the clearing of
\* its date, after which no run finds it again, and its execution: some run is
\* about to copy it, or a copy of it is in the broker or about to be, also
\* when the client cancelled it meanwhile (executeScheduledTask).
ClearedIsExecuted ==
  \A t \in Id : due[t] # 0 /\ t \notin dated =>
    \/ Executing(t) # {}
    \/ \E u \in Copies(t) : msgs[u] > 0 \/ Publishing(u) # {}

\* Overlapping runs multiply a task, but only so far: each run copies a task at
\* most once, so there are never more copies than runs that can overlap.
CopiesBounded == \A t \in Id : Cardinality(Copies(t)) <= Cardinality(Ticker)

\* A task cancelled before a run found it stays cancelled and is never
\* executed, although a run writes "pending" over whatever it found
\* (findScheduledTasks filters by status, executeScheduledTask does not).
CancelledIsSettled ==
  [][\A t \in Id : db[t].status = "cancelled" /\ InHand(t) = {} =>
       /\ db'[t].status = "cancelled"
       /\ Copies(t)' = Copies(t)
       /\ InHand(t)' = {}]_svars

\* Refinement: what is promised of each date (TaskAgenda).  A task counts as
\* withdrawn once it is cancelled and no run of the cron job holds on to it.
StateOf(t) ==
  IF due[t] = 0 THEN "free"
  ELSE IF t \notin dated THEN "taken"
  ELSE IF db[t].status = "cancelled" /\ InHand(t) = {} THEN "withdrawn"
  ELSE "waiting"

Agenda == INSTANCE TaskAgenda WITH
  Executions <- Cardinality(Ticker), clock <- now, date <- due,
  state <- [t \in Id |-> StateOf(t)], copyOf <- [u \in Id |-> db[u].cause]

\* However runs overlap, crash and act on what they found earlier, each date is
\* set once, taken only when it has come or withdrawn for good, and nothing is
\* executed but what was taken (scheduler.service.ts).
ImplementsAgenda == Agenda!AgendaSpec

\* A task whose date has come is executed, unless it is cancelled in time.
DueIsExecuted ==
  \A t \in Id : (t \in dated /\ Past(t) /\ db[t].status = "pending")
                  ~> (Copies(t) # {} \/ db[t].status = "cancelled")

==========================================================================
