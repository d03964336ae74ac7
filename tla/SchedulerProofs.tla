------------------------- MODULE SchedulerProofs -------------------------
(***************************************************************************)
(* Theorems about Scheduler, for any number of scheduled tasks and of runs *)
(* of the cron job that overlap, with crashes, throws and lost messages.   *)
(***************************************************************************)
EXTENDS Scheduler, QueueWorkerProofs

---------------------------------------------------------------------------
(* The base: the rows that dates, query results and runs name are there.   *)

TicksNamed ==
  \A k \in Ticker :
    /\ tick[k].pc \in {"enqueue", "publish"} => tick[k].task \in Id /\ Exists(tick[k].task)
    /\ \A t \in tick[k].found : Exists(t)

DatesNamed == \A t \in dated : Exists(t)

AbsentUncaused == \A u \in Id : ~ Exists(u) => db[u].cause = NoId

ClientsOnly == \A s \in Slot : call[s].pc \in {"idle", "schedule", "recur", "cancel"}

SchedulerBase ==
  /\ Base /\ SchedulerTypeOK
  /\ TicksNamed /\ DatesNamed /\ AbsentUncaused /\ ClientsOnly

\* Row n is new, made for the task cause; the others are as they were.
Created(n, type, cause) ==
  /\ n \in Id /\ ~ Exists(n)
  /\ db' \in [Id -> Row]
  /\ db'[n].cause = cause /\ db'[n].type = type
  /\ \A u \in Id \ {n} : db'[u] = db[u]
  /\ \A u \in Id : Exists(u)' <=> u = n \/ Exists(u)

LEMMA RowInsertion ==
  ASSUME SchedulerBase, NEW n \in Id, ~ Exists(n),
         NEW type \in TaskType, NEW payload \in SUBSET Field,
         NEW cause \in Id \cup {NoId}, NEW origin \in {"client", "worker"},
         Insert(n, type, payload, cause, origin)
  PROVE  Created(n, type, cause)
  <1> DEFINE row == [type |-> type, status |-> "pending", retries |-> 0,
                     payload |-> payload, cause |-> cause, origin |-> origin]
  <1>1. row \in Row /\ row.cause = cause /\ row.type = type /\ row.status # "absent"
    BY DEF Row, TaskStatus, TaskType, InvoiceType
  <1>2. db' = [db EXCEPT ![n] = row] /\ db \in [Id -> Row]
    BY DEF Insert, SchedulerBase, Base, TypeOK
  <1> HIDE DEF row
  <1>3. /\ db' \in [Id -> Row] /\ db'[n] = row
        /\ \A u \in Id \ {n} : db'[u] = db[u]
    BY <1>1, <1>2
  <1>4. \A u \in Id : Exists(u)' <=> u = n \/ Exists(u)
    BY <1>1, <1>3 DEF Exists
  <1> QED BY <1>1, <1>3, <1>4 DEF Created

\* The two requests that create a row.
LEMMA CreationEffect ==
  ASSUME SchedulerBase, NEW s \in Slot, NEW new \in NewTask,
         Schedule(s, new) \/ Recur(s, new)
  PROVE  /\ Base'
         /\ Created(NewId, new.type, NoId)
         /\ call'[s].task = NewId /\ call'[s].pc \in {"schedule", "recur"}
         /\ \A r \in Slot \ {s} : call'[r] = call[r]
         /\ UNCHANGED <<now, dated, due, tick>>
  <1>1. /\ Insert(NewId, new.type, new.payload, NoId, "client")
        /\ UNCHANGED <<msgs, now, dated, due, tick>>
    BY DEF Schedule, Recur
  <1>2. new.type \in TaskType /\ new.payload \in SUBSET Field
    BY NewTaskAssumption
  <1>3. Fresh # {}
    <2> SUFFICES ASSUME Fresh = {}
                 PROVE  FALSE
      OBVIOUS
    <2>1. Cardinality(Fresh) = 0
      BY FS_EmptySet
    <2> QED BY <2>1, TickerAssumption DEF Schedule, Recur, SomeRoom
  <1>4. NewId \in Id /\ {"schedule", "recur"} \subseteq PC
    BY <1>3, NewIdIsFresh DEF PC, ClientPC
  <1>5. /\ call' \in [Slot -> Call]
        /\ call'[s].task = NewId /\ call'[s].pc \in {"schedule", "recur"}
        /\ \A r \in Slot \ {s} : call'[r] = call[r]
    <2>1. CASE Schedule(s, new)
      BY <1>4, <2>1, BeginMove DEF Schedule, SchedulerBase
    <2>2. CASE Recur(s, new)
      <3> DEFINE c == [NoCall EXCEPT !.pc = "recur", !.task = NewId, !.snap = new.payload]
      <3>1. c \in Call /\ c.task = NewId /\ c.pc = "recur"
        BY <1>2, <1>4 DEF NoCall, Call
      <3>2. call' = [call EXCEPT ![s] = c] /\ call \in [Slot -> Call]
        BY <2>2 DEF Recur, SchedulerBase, Base, TypeOK
      <3> QED BY <3>1, <3>2
    <2> QED BY <2>1, <2>2
  <1>6. Base'
    BY <1>1, <1>2, <1>3, <1>5, CreationKeepsBase DEF SchedulerBase
  <1>7. Created(NewId, new.type, NoId)
    BY <1>1, <1>2, <1>3, NewIdIsFresh, RowInsertion
  <1> QED BY <1>1, <1>5, <1>6, <1>7

\* The statements of clients that change the calls, and rows only in ways
\* that no run of the cron job depends on.
LEMMA ClientEffect ==
  ASSUME SchedulerBase, NEW s \in Slot, SetCron(s) \/ CancelRequest(s)
  PROVE  /\ Base' /\ ClientsOnly'
         /\ \A u \in Id : db'[u].cause = db[u].cause /\ (Exists(u)' <=> Exists(u))
         /\ \A u \in Id : db'[u].status \in {db[u].status, "cancelled"}
         /\ \A r \in Slot : call'[r].pc = "schedule" => call'[r] = call[r]
         /\ UNCHANGED <<now, dated, due, tick>>
  <1>1. CASE SetCron(s)
    <2>1. Task(s) \in Id /\ Exists(Task(s)) /\ At(s, "recur")
      BY <1>1 DEF SetCron, SchedulerBase, Base, NamesExist, At
    <2>2. db' \in [Id -> Row] /\ Keeps /\ \A u \in Id : db'[u].status = db[u].status
      BY <1>1, <2>1 DEF SetCron, Call, SchedulerBase, Base, TypeOK, Row, Field, Keeps, Exists
    <2>3. call' \in [Slot -> Call] /\ \A r \in Slot : call'[r].pc # "idle" => call'[r] = call[r]
      BY <1>1, ReturnMove DEF SetCron, SchedulerBase
    <2>4. Base'
      BY <1>1, <2>2, <2>3, UpdateKeepsBase DEF SetCron, SchedulerBase
    <2> QED BY <1>1, <2>2, <2>3, <2>4 DEF SetCron, Keeps, ClientsOnly, SchedulerBase
  <1>2. CASE Cancel(s) /\ UNCHANGED <<now, dated, due, tick>>
    <2>1. Task(s) \in Id /\ Exists(Task(s))
      BY <1>2 DEF Cancel, SchedulerBase, Base, NamesExist, At
    <2>2. "cancelled" \in TaskStatus
      BY DEF TaskStatus
    <2>3. db' \in [Id -> Row] /\ Keeps
      BY <1>2, <2>1, <2>2, StatusUpdate DEF Cancel, SchedulerBase
    <2>4. \A u \in Id : db'[u].status \in {db[u].status, "cancelled"}
      BY <1>2, <2>1 DEF Cancel, SetStatus, SchedulerBase, Base, TypeOK, Row
    <2>5. call' \in [Slot -> Call] /\ \A r \in Slot : call'[r].pc # "idle" => call'[r] = call[r]
      BY <1>2, ReturnMove DEF Cancel, SchedulerBase
    <2>6. Base'
      BY <1>2, <2>3, <2>5, UpdateKeepsBase DEF Cancel, SchedulerBase
    <2> QED BY <1>2, <2>3, <2>4, <2>5, <2>6 DEF Keeps, ClientsOnly, SchedulerBase
  <1>3. ASSUME NEW t \in Id, CancelTask(s, t), UNCHANGED <<now, dated, due, tick>>
        PROVE  /\ Base' /\ ClientsOnly' /\ db' = db
               /\ \A r \in Slot : call'[r].pc = "schedule" => call'[r] = call[r]
    <2>1. "cancel" \in PC /\ Exists(t)
      BY <1>3 DEF CancelTask, PC, ClientPC, Exists
    <2>2. /\ call' \in [Slot -> Call] /\ call'[s].pc = "cancel" /\ call'[s].task = t
          /\ \A r \in Slot \ {s} : call'[r] = call[r]
      BY <1>3, <2>1, BeginMove DEF CancelTask, SchedulerBase
    <2>3. Base'
      BY <1>3, <2>1, <2>2 DEF CancelTask, SchedulerBase, Base, TypeOK, NamesExist, RowsNamed,
                              Exists, At, Task
    <2> QED BY <1>3, <2>2, <2>3 DEF CancelTask, ClientsOnly, SchedulerBase
  <1> QED BY <1>1, <1>2, <1>3 DEF CancelRequest, Exists

\* The steps with which a run of the cron job lets go of rows.
Releases(k) ==
  \/ PublishCopy(k) \/ Done(k) \/ Drop(k) \/ Crash(k)
  \/ \E t \in Id : Skip(k, t)

Released(k) ==
  /\ tick' \in [Ticker -> Tick]
  /\ tick'[k].found \subseteq tick[k].found /\ tick'[k].pc \in {"idle", "loop"}
  /\ tick'[k].task \in {tick[k].task, NoId}
  /\ \A j \in Ticker \ {k} : tick'[j] = tick[j]
  /\ UNCHANGED <<db, call, now, dated, due>>
  /\ msgs' \in [Id -> Nat] /\ \A t \in Id : msgs'[t] > 0 => msgs[t] > 0 \/ Exists(t)

LEMMA ReleaseEffect ==
  ASSUME SchedulerBase, NEW k \in Ticker, Releases(k)
  PROVE  Released(k)
  <1>1. tick \in [Ticker -> Tick] /\ tick[k] \in Tick /\ msgs \in [Id -> Nat]
    BY DEF SchedulerBase, SchedulerTypeOK, TypeOK
  <1>2. CASE PublishCopy(k)
    <2>1. tick[k].task \in Id /\ Exists(tick[k].task)
      BY <1>2 DEF PublishCopy, SchedulerBase, TicksNamed
    <2>2. msgs' \in [Id -> Nat] /\ \A t \in Id : msgs'[t] > 0 => msgs[t] > 0 \/ Exists(t)
      BY <1>1, <1>2, <2>1 DEF PublishCopy, Emit
    <2> QED BY <1>1, <1>2, <2>2 DEF PublishCopy, Onward, Tick, Released
  <1>3. ASSUME NEW new \in Tick, tick' = [tick EXCEPT ![k] = new],
               new.found \subseteq tick[k].found, new.pc \in {"idle", "loop"},
               new.task \in {tick[k].task, NoId},
               UNCHANGED <<db, msgs, call, now, dated, due>>
        PROVE  Released(k)
    BY <1>1, <1>3 DEF Released
  <1>4. CASE Done(k) \/ Crash(k)
    <2>1. NoTick \in Tick /\ NoTick.found = {} /\ NoTick.pc = "idle" /\ NoTick.task = NoId
      BY DEF NoTick, Tick
    <2> QED BY <1>4, <1>3, <2>1 DEF Done, Crash
  <1>5. ASSUME NEW t, tick[k].pc = "loop", tick' = [tick EXCEPT ![k].found = @ \ {t}],
               UNCHANGED <<db, msgs, call, now, dated, due>>
        PROVE  Released(k)
    <2> DEFINE new == [tick[k] EXCEPT !.found = tick[k].found \ {t}]
    <2>1. /\ new \in Tick /\ new.found \subseteq tick[k].found
          /\ new.pc = "loop" /\ new.task = tick[k].task
      BY <1>1, <1>5 DEF Tick
    <2>2. tick' = [tick EXCEPT ![k] = new]
      BY <1>1, <1>5
    <2> QED BY <1>3, <1>5, <2>1, <2>2
  <1>6. CASE Drop(k)
    <2>1. CASE tick' = [tick EXCEPT ![k] = Onward(tick[k])]
      <3>1. /\ Onward(tick[k]) \in Tick
            /\ Onward(tick[k]).found = tick[k].found
            /\ Onward(tick[k]).pc = "loop" /\ Onward(tick[k]).task = NoId
        BY <1>1 DEF Onward, Tick
      <3> QED BY <1>3, <1>6, <2>1, <3>1 DEF Drop
    <2>2. CASE tick[k].pc = "loop" /\ \E t : tick' = [tick EXCEPT ![k].found = @ \ {t}]
      BY <1>5, <1>6, <2>2 DEF Drop
    <2> QED BY <1>1, <1>6, <2>1, <2>2 DEF Drop
  <1>7. ASSUME NEW t \in Id, Skip(k, t)
        PROVE  Released(k)
    BY <1>5, <1>7 DEF Skip
  <1> QED BY <1>2, <1>4, <1>6, <1>7 DEF Releases

\* The query, and the update that begins an execution.
LEMMA FindEffect ==
  ASSUME SchedulerBase, NEW k \in Ticker, Find(k)
  PROVE  /\ tick' \in [Ticker -> Tick]
         /\ tick'[k].pc = "loop" /\ tick'[k].task = NoId
         /\ tick'[k].found = {t \in dated : db[t].status = "pending"}
         /\ \A j \in Ticker \ {k} : tick'[j] = tick[j]
         /\ UNCHANGED <<db, msgs, call, now, dated, due>>
  <1> DEFINE found == {t \in dated : db[t].status = "pending"}
  <1>1. Looking(found) \in Tick
    BY DEF Looking, Tick, SchedulerBase, SchedulerTypeOK, Base, TypeOK, Row
  <1>2. /\ Looking(found).pc = "loop" /\ Looking(found).task = NoId
        /\ Looking(found).found = found
    BY DEF Looking
  <1> HIDE DEF found
  <1>3. tick' = [tick EXCEPT ![k] = Looking(found)] /\ tick \in [Ticker -> Tick]
    BY DEF Find, found, SchedulerBase, SchedulerTypeOK
  <1>4. tick' \in [Ticker -> Tick] /\ tick'[k] = Looking(found)
    BY <1>1, <1>3
  <1> QED BY <1>2, <1>3, <1>4 DEF Find, found

LEMMA ClearEffect ==
  ASSUME SchedulerBase, NEW k \in Ticker, NEW t \in Id, Clear(k, t)
  PROVE  /\ tick' \in [Ticker -> Tick]
         /\ t \in tick[k].found /\ tick[k].pc = "loop" /\ Past(t)
         /\ tick'[k] = [pc |-> "enqueue", task |-> t, found |-> tick[k].found \ {t},
                        read |-> tick[k].read]
         /\ \A j \in Ticker \ {k} : tick'[j] = tick[j]
         /\ dated' = dated \ {t}
         /\ db' \in [Id -> Row] /\ Keeps /\ \A u \in Id \ {t} : db'[u] = db[u]
         /\ UNCHANGED <<msgs, call, now, due>>
  <1>1. tick \in [Ticker -> Tick] /\ tick[k] \in Tick
    BY DEF SchedulerBase, SchedulerTypeOK
  <1>2. t \in tick[k].found /\ Exists(t)
    BY DEF Clear, First, SchedulerBase, TicksNamed
  <1>3. "pending" \in TaskStatus
    BY DEF TaskStatus
  <1>4. db' \in [Id -> Row] /\ Keeps
    BY <1>2, <1>3, StatusUpdate DEF Clear, SchedulerBase
  <1>5. \A u \in Id \ {t} : db'[u] = db[u]
    BY DEF Clear, SetStatus, SchedulerBase, Base, TypeOK
  <1>6. /\ tick' \in [Ticker -> Tick]
        /\ tick'[k] = [pc |-> "enqueue", task |-> t, found |-> tick[k].found \ {t},
                       read |-> tick[k].read]
        /\ \A j \in Ticker \ {k} : tick'[j] = tick[j]
    BY <1>1 DEF Clear, Execute, Tick
  <1> QED BY <1>2, <1>4, <1>5, <1>6 DEF Clear

\* The row of a copy.
LEMMA CopyEffect ==
  ASSUME SchedulerBase, NEW k \in Ticker, EnqueueCopy(k)
  PROVE  /\ Base'
         /\ tick[k].pc = "enqueue" /\ tick[k].task \in Id /\ Exists(tick[k].task)
         /\ Created(NewId, db[tick[k].task].type, tick[k].task)
         /\ tick' \in [Ticker -> Tick]
         /\ tick'[k] = [tick[k] EXCEPT !.pc = "publish", !.task = NewId]
         /\ \A j \in Ticker \ {k} : tick'[j] = tick[j]
         /\ UNCHANGED <<msgs, call, now, dated, due>>
  <1> DEFINE t == tick[k].task
  <1>1. /\ tick[k].pc = "enqueue" /\ t \in Id /\ Exists(t) /\ Fresh # {}
        /\ tick \in [Ticker -> Tick] /\ tick[k] \in Tick
    BY DEF EnqueueCopy, SchedulerBase, TicksNamed, SchedulerTypeOK
  <1>2. db[t].type \in TaskType /\ tick[k].read[t] \in SUBSET Field
    BY <1>1 DEF SchedulerBase, Base, TypeOK, RowsNamed, Row, Tick
  <1>3. Insert(NewId, db[t].type, tick[k].read[t], t, "worker")
    BY DEF EnqueueCopy
  <1>4. NewId \in Id /\ Created(NewId, db[t].type, t)
    BY <1>1, <1>2, <1>3, NewIdIsFresh, RowInsertion
  <1> HIDE DEF t
  <1>5. UNCHANGED <<msgs, call, now, dated, due>>
    BY DEF EnqueueCopy
  <1>6. Base'
    <2>1. TypeOK'
      BY <1>4, <1>5 DEF Created, SchedulerBase, Base, TypeOK
    <2>2. NamesExist'
      BY <1>4, <1>5 DEF Created, SchedulerBase, Base, NamesExist, At, Task
    <2>3. RowsNamed'
      <3> SUFFICES ASSUME NEW u \in Id
                   PROVE  /\ Exists(u)' <=> db'[u].type # "none"
                          /\ db'[u].cause # NoId => Exists(db[u].cause)'
        BY DEF RowsNamed
      <3>1. CASE u = NewId
        BY <3>1, <1>1, <1>2, <1>4 DEF Created, TaskType, InvoiceType
      <3>2. CASE u # NewId
        BY <3>2, <1>4 DEF Created, SchedulerBase, Base, RowsNamed, TypeOK, Row
      <3> QED BY <3>1, <3>2
    <2> QED BY <2>1, <2>2, <2>3 DEF Base
  <1>7. /\ tick' \in [Ticker -> Tick]
        /\ tick'[k] = [tick[k] EXCEPT !.pc = "publish", !.task = NewId]
        /\ \A j \in Ticker \ {k} : tick'[j] = tick[j]
    BY <1>1, <1>4 DEF EnqueueCopy, Tick
  <1> QED BY <1>1, <1>4, <1>5, <1>6, <1>7 DEF t

\* Every step is one of these.
LEMMA SchedulerSteps ==
  ASSUME SchedulerNext
  PROVE  \/ \E s \in Slot, new \in NewTask : Schedule(s, new) \/ Recur(s, new)
         \/ \E s \in Slot : SetDate(s)
         \/ \E s \in Slot : SetCron(s) \/ CancelRequest(s)
         \/ Time
         \/ \E k \in Ticker : Find(k)
         \/ \E k \in Ticker : EnqueueCopy(k)
         \/ \E k \in Ticker, t \in Id : Clear(k, t)
         \/ \E k \in Ticker : Releases(k)
  BY DEF SchedulerNext, CronJob, Releases

LEMMA DateEffect ==
  ASSUME SchedulerBase, NEW s \in Slot, SetDate(s)
  PROVE  /\ At(s, "schedule") /\ Task(s) \in Id /\ Exists(Task(s))
         /\ dated' = dated \cup {Task(s)}
         /\ due' \in [Id -> Nat] /\ \A u \in Id \ {Task(s)} : due'[u] = due[u]
         /\ call' \in [Slot -> Call] /\ call'[s].pc = "idle"
         /\ \A r \in Slot \ {s} : call'[r] = call[r]
         /\ UNCHANGED <<db, msgs, now, tick>>
  <1>1. At(s, "schedule") /\ Task(s) \in Id /\ Exists(Task(s))
    BY DEF SetDate, SchedulerBase, Base, NamesExist, At
  <1>2. due' \in [Id -> Nat] /\ \A u \in Id \ {Task(s)} : due'[u] = due[u]
    <2> PICK d \in 1..Horizon : due' = [due EXCEPT ![Task(s)] = d]
      BY DEF SetDate
    <2>1. d \in Nat /\ due \in [Id -> Nat]
      BY TickerAssumption DEF SchedulerBase, SchedulerTypeOK
    <2> QED BY <1>1, <2>1
  <1>3. /\ call' \in [Slot -> Call] /\ call'[s].pc = "idle"
        /\ \A r \in Slot \ {s} : call'[r] = call[r]
    BY DEF SetDate, Return, SchedulerBase, Base, TypeOK, NoCall, Call, PC
  <1> QED BY <1>1, <1>2, <1>3 DEF SetDate

LEMMA SchedulerBaseInit == SchedulerInit => SchedulerBase
  <1> SUFFICES ASSUME SchedulerInit
               PROVE  SchedulerBase
    OBVIOUS
  <1>1. Base
    BY BaseInit DEF SchedulerInit
  <1>2. NoTick \in Tick /\ NoTick.pc = "idle" /\ NoTick.found = {}
    BY DEF NoTick, Tick
  <1>3. SchedulerTypeOK
    BY <1>1, <1>2 DEF SchedulerInit, SchedulerTypeOK, Base
  <1>4. TicksNamed /\ DatesNamed
    BY <1>2 DEF SchedulerInit, TicksNamed, DatesNamed
  <1>5. ClientsOnly /\ AbsentUncaused
    BY DEF SchedulerInit, Init, ClientsOnly, NoCall, AbsentUncaused, NoRow
  <1> QED BY <1>1, <1>3, <1>4, <1>5 DEF SchedulerBase

LEMMA SchedulerBaseStep == SchedulerBase /\ [SchedulerNext]_svars => SchedulerBase'
  <1> SUFFICES ASSUME SchedulerBase, [SchedulerNext]_svars
               PROVE  SchedulerBase'
    OBVIOUS
  <1> USE DEF SchedulerBase
  <1>1. ASSUME NEW s \in Slot, NEW new \in NewTask, Schedule(s, new) \/ Recur(s, new)
        PROVE  SchedulerBase'
    <2>1. /\ Base' /\ Created(NewId, new.type, NoId)
          /\ call'[s].pc \in {"schedule", "recur"}
          /\ \A r \in Slot \ {s} : call'[r] = call[r]
          /\ UNCHANGED <<now, dated, due, tick>>
      BY <1>1, CreationEffect
    <2>2. SchedulerTypeOK'
      BY <2>1 DEF SchedulerTypeOK, Base
    <2>3. TicksNamed' /\ DatesNamed'
      BY <2>1 DEF Created, TicksNamed, DatesNamed, SchedulerTypeOK, Tick
    <2>4. ClientsOnly' /\ AbsentUncaused'
      BY <2>1 DEF ClientsOnly, AbsentUncaused, Created
    <2> QED BY <2>1, <2>2, <2>3, <2>4
  <1>2. ASSUME NEW s \in Slot, SetDate(s)
        PROVE  SchedulerBase'
    <2>1. /\ Task(s) \in Id /\ Exists(Task(s)) /\ dated' = dated \cup {Task(s)}
          /\ due' \in [Id -> Nat] /\ call' \in [Slot -> Call] /\ call'[s].pc = "idle"
          /\ \A r \in Slot \ {s} : call'[r] = call[r]
          /\ UNCHANGED <<db, msgs, now, tick>>
      BY <1>2, DateEffect
    <2>2. Base'
      BY <2>1 DEF Base, TypeOK, NamesExist, RowsNamed, Exists, At, Task
    <2>3. /\ SchedulerTypeOK' /\ TicksNamed' /\ DatesNamed'
          /\ ClientsOnly' /\ AbsentUncaused'
      BY <2>1, <2>2 DEF SchedulerTypeOK, Base, TicksNamed, DatesNamed, ClientsOnly,
                        AbsentUncaused, Exists
    <2> QED BY <2>2, <2>3
  <1>3. ASSUME NEW s \in Slot, SetCron(s) \/ CancelRequest(s)
        PROVE  SchedulerBase'
    <2>1. /\ Base' /\ ClientsOnly'
          /\ \A u \in Id : db'[u].cause = db[u].cause /\ (Exists(u)' <=> Exists(u))
          /\ UNCHANGED <<now, dated, due, tick>>
      BY <1>3, ClientEffect
    <2>2. SchedulerTypeOK' /\ TicksNamed' /\ DatesNamed' /\ AbsentUncaused'
      BY <2>1 DEF SchedulerTypeOK, Base, TicksNamed, DatesNamed, AbsentUncaused, Tick
    <2> QED BY <2>1, <2>2
  <1>4. CASE Time
    <2>1. Base' /\ ClientsOnly' /\ AbsentUncaused' /\ TicksNamed' /\ DatesNamed'
      BY <1>4 DEF Time, Base, TypeOK, NamesExist, RowsNamed, Exists, At, Task,
                  ClientsOnly, AbsentUncaused, TicksNamed, DatesNamed
    <2>2. SchedulerTypeOK'
      BY <1>4, <2>1 DEF Time, SchedulerTypeOK, Base
    <2> QED BY <2>1, <2>2
  <1>5. ASSUME NEW k \in Ticker, Find(k)
        PROVE  SchedulerBase'
    <2>1. /\ tick' \in [Ticker -> Tick]
          /\ tick'[k].pc = "loop" /\ tick'[k].found \subseteq dated
          /\ \A j \in Ticker \ {k} : tick'[j] = tick[j]
          /\ UNCHANGED <<db, msgs, call, now, dated, due>>
      BY <1>5, FindEffect
    <2>2. Base' /\ ClientsOnly' /\ AbsentUncaused' /\ DatesNamed'
      BY <2>1 DEF Base, TypeOK, NamesExist, RowsNamed, Exists, At, Task,
                  ClientsOnly, AbsentUncaused, DatesNamed
    <2>3. SchedulerTypeOK' /\ TicksNamed'
      BY <2>1, <2>2 DEF SchedulerTypeOK, Base, TicksNamed, DatesNamed, Exists
    <2> QED BY <2>2, <2>3
  <1>6. ASSUME NEW k \in Ticker, EnqueueCopy(k)
        PROVE  SchedulerBase'
    <2>1. /\ Base' /\ Created(NewId, db[tick[k].task].type, tick[k].task)
          /\ tick' \in [Ticker -> Tick] /\ tick[k] \in Tick
          /\ tick'[k] = [tick[k] EXCEPT !.pc = "publish", !.task = NewId]
          /\ \A j \in Ticker \ {k} : tick'[j] = tick[j]
          /\ UNCHANGED <<msgs, call, now, dated, due>>
      BY <1>6, CopyEffect DEF SchedulerTypeOK
    <2>2. SchedulerTypeOK' /\ DatesNamed' /\ ClientsOnly' /\ AbsentUncaused'
      BY <2>1 DEF SchedulerTypeOK, Base, Created, DatesNamed, ClientsOnly, AbsentUncaused
    <2>3. TicksNamed'
      <3> SUFFICES ASSUME NEW j \in Ticker
                   PROVE  /\ tick'[j].pc \in {"enqueue", "publish"} =>
                               tick'[j].task \in Id /\ Exists(tick[j].task)'
                          /\ \A t \in tick'[j].found : Exists(t)'
        BY DEF TicksNamed
      <3>1. /\ tick[j] \in Tick /\ NewId \in Id
            /\ \A u \in Id : Exists(u)' <=> u = NewId \/ Exists(u)
        BY <2>1 DEF SchedulerTypeOK, Created
      <3>2. CASE j = k
        <4>1. tick'[j].task = NewId /\ tick'[j].found = tick[j].found
          BY <2>1, <3>2 DEF Tick
        <4> QED BY <3>1, <4>1 DEF TicksNamed, Tick
      <3>3. CASE j # k
        BY <2>1, <3>1, <3>3 DEF TicksNamed, Tick
      <3> QED BY <3>2, <3>3
    <2> QED BY <2>1, <2>2, <2>3
  <1>7. ASSUME NEW k \in Ticker, NEW t \in Id, Clear(k, t)
        PROVE  SchedulerBase'
    <2>1. /\ tick' \in [Ticker -> Tick]
          /\ t \in tick[k].found
          /\ tick'[k] = [pc |-> "enqueue", task |-> t, found |-> tick[k].found \ {t},
                         read |-> tick[k].read]
          /\ \A j \in Ticker \ {k} : tick'[j] = tick[j]
          /\ dated' = dated \ {t}
          /\ db' \in [Id -> Row] /\ Keeps
          /\ UNCHANGED <<msgs, call, now, due>>
      BY <1>7, ClearEffect
    <2>2. Base'
      BY <2>1, UpdateKeepsBase DEF Base, TypeOK
    <2>3. SchedulerTypeOK' /\ DatesNamed' /\ ClientsOnly' /\ AbsentUncaused'
      BY <2>1, <2>2 DEF SchedulerTypeOK, Base, Keeps, DatesNamed, ClientsOnly, AbsentUncaused
    <2>4. TicksNamed'
      BY <2>1 DEF Keeps, TicksNamed, SchedulerTypeOK, Tick
    <2> QED BY <2>2, <2>3, <2>4
  <1>8. ASSUME NEW k \in Ticker, Releases(k)
        PROVE  SchedulerBase'
    <2>1. Released(k)
      BY <1>8, ReleaseEffect
    <2>2. Base' /\ ClientsOnly' /\ AbsentUncaused' /\ DatesNamed'
      BY <2>1 DEF Released, Base, TypeOK, NamesExist, RowsNamed, Exists, At, Task,
                  ClientsOnly, AbsentUncaused, DatesNamed
    <2>3. SchedulerTypeOK' /\ TicksNamed'
      BY <2>1, <2>2 DEF Released, SchedulerTypeOK, Base, TicksNamed, Exists
    <2> QED BY <2>2, <2>3
  <1>9. CASE UNCHANGED svars
    BY <1>9 DEF svars, SchedulerTypeOK, Base, TypeOK, NamesExist, RowsNamed, Exists, At, Task,
                ClientsOnly, AbsentUncaused, TicksNamed, DatesNamed
  <1> QED BY <1>1, <1>2, <1>3, <1>4, <1>5, <1>6, <1>7, <1>8, <1>9, SchedulerSteps

\* The whole state is well typed, and what the cron job holds on to is there.
THEOREM SchedulerTyping == SchedulerSpec => []SchedulerTypeOK
  BY SchedulerBaseInit, SchedulerBaseStep, PTL DEF SchedulerSpec, SchedulerBase

---------------------------------------------------------------------------
(* Never early and never again.  While a request has still to write a      *)
(* task's date, nothing has looked at the task, and nobody else will write *)
(* its date: what is cleared once is never set again.                      *)

Untouched(t) ==
  /\ t \notin dated
  /\ \A u \in Id : db[u].cause # t
  /\ \A k \in Ticker : /\ t \notin tick[k].found
                       /\ tick[k].pc = "enqueue" => tick[k].task # t

DueInv ==
  /\ \A s \in Slot : At(s, "schedule") => Untouched(Task(s))
  /\ \A r, s \in Slot : At(r, "schedule") /\ At(s, "schedule") /\ Task(r) = Task(s) => r = s
  /\ CopiedOnlyWhenDue

LEMMA NewIsUntouched ==
  ASSUME SchedulerBase, NEW t \in Id, ~ Exists(t)
  PROVE  Untouched(t)
  BY IdAssumption DEF SchedulerBase, Base, RowsNamed, TicksNamed, DatesNamed, Untouched

\* Steps that make no copy, begin no execution and write no date.
LEMMA MildStepKeepsDue ==
  ASSUME SchedulerBase, DueInv,
         \A u \in Id : db'[u].cause \in {db[u].cause, NoId},
         \A k \in Ticker :
           /\ tick'[k].found \subseteq tick[k].found \cup dated
           /\ tick'[k].pc = "enqueue" => tick[k].pc = "enqueue" /\ tick'[k].task = tick[k].task,
         dated' = dated, due' = due, now' \in Nat, now <= now',
         \A s \in Slot : call'[s].pc = "schedule" =>
           \/ call'[s] = call[s]
           \/ Untouched(call'[s].task) /\ call'[s].task \in Id
                /\ \A r \in Slot \ {s} : call'[r] = call[r]
                                        /\ (At(r, "schedule") => Task(r) # call'[s].task)
  PROVE  DueInv'
  <1>1. NoId \notin Id /\ now \in Nat /\ due \in [Id -> Nat]
    BY IdAssumption DEF SchedulerBase, SchedulerTypeOK
  <1>2. ASSUME NEW t \in Id, Untouched(t)
        PROVE  Untouched(t)'
    BY <1>1, <1>2 DEF Untouched
  <1>3. \A s \in Slot : At(s, "schedule") => Task(s) \in Id
    BY DEF SchedulerBase, Base, NamesExist, At
  <1>4. \A s \in Slot : At(s, "schedule")' => Untouched(Task(s))'
    <2> SUFFICES ASSUME NEW s \in Slot, At(s, "schedule")'
                 PROVE  Untouched(Task(s))'
      OBVIOUS
    <2>1. call'[s].pc = "schedule"
      BY DEF At
    <2>2. PICK t \in Id : t = call'[s].task
      BY <1>3, <2>1 DEF At, Task
    <2>3. Untouched(t)
      BY <2>1, <2>2 DEF DueInv, At, Task
    <2>4. Untouched(t)'
      BY <1>2, <2>3
    <2> QED BY <2>2, <2>4 DEF Untouched, Task
  <1>5. \A r, s \in Slot :
          At(r, "schedule")' /\ At(s, "schedule")' /\ Task(r)' = Task(s)' => r = s
    BY DEF DueInv, At, Task
  <1>6. CopiedOnlyWhenDue'
    <2> SUFFICES ASSUME NEW t \in Id, Copies(t)' \cup Executing(t)' # {}
                 PROVE  Past(t)' /\ t \notin dated'
      BY DEF CopiedOnlyWhenDue
    <2>1. Copies(t) \cup Executing(t) # {}
      BY <1>1 DEF Copies, Executing
    <2>2. Past(t) /\ t \notin dated
      BY <2>1 DEF DueInv, CopiedOnlyWhenDue
    <2> QED BY <1>1, <2>2 DEF Past
  <1> QED BY <1>4, <1>5, <1>6 DEF DueInv

LEMMA DueInvInit == SchedulerInit => DueInv
  <1> SUFFICES ASSUME SchedulerInit
               PROVE  DueInv
    OBVIOUS
  <1>1. \A s \in Slot : ~ At(s, "schedule")
    BY DEF SchedulerInit, Init, At, NoCall
  <1>2. \A t \in Id : Copies(t) = {} /\ Executing(t) = {}
    BY IdAssumption DEF SchedulerInit, Init, NoRow, NoTick, Copies, Executing
  <1> QED BY <1>1, <1>2 DEF DueInv, CopiedOnlyWhenDue

LEMMA DueInvStep == SchedulerBase /\ DueInv /\ [SchedulerNext]_svars => DueInv'
  <1> SUFFICES ASSUME SchedulerBase, DueInv, [SchedulerNext]_svars
               PROVE  DueInv'
    OBVIOUS
  <1>1. now \in Nat /\ due \in [Id -> Nat] /\ NoId \notin Id /\ tick \in [Ticker -> Tick]
    BY IdAssumption DEF SchedulerBase, SchedulerTypeOK
  <1>2. ASSUME NEW s \in Slot, NEW new \in NewTask, Schedule(s, new) \/ Recur(s, new)
        PROVE  DueInv'
    <2>1. /\ Created(NewId, new.type, NoId) /\ call'[s].task = NewId
          /\ \A r \in Slot \ {s} : call'[r] = call[r]
          /\ UNCHANGED <<now, dated, due, tick>>
      BY <1>2, CreationEffect
    <2>2. NewId \in Id /\ ~ Exists(NewId) /\ Untouched(NewId)
          /\ \A u \in Id : db'[u].cause \in {db[u].cause, NoId}
      BY <2>1, NewIsUntouched DEF Created
    <2>3. \A r \in Slot : At(r, "schedule") => Task(r) # NewId
      BY <2>2 DEF SchedulerBase, Base, NamesExist, At
    <2> QED BY <1>1, <2>1, <2>2, <2>3, MildStepKeepsDue
  <1>3. ASSUME NEW s \in Slot, SetDate(s)
        PROVE  DueInv'
    <2>1. /\ At(s, "schedule") /\ Task(s) \in Id
          /\ dated' = dated \cup {Task(s)}
          /\ \A u \in Id \ {Task(s)} : due'[u] = due[u]
          /\ call'[s].pc = "idle"
          /\ \A r \in Slot \ {s} : call'[r] = call[r]
          /\ UNCHANGED <<db, now, tick>>
      BY <1>3, DateEffect
    <2>2. \A r \in Slot : At(r, "schedule")' => At(r, "schedule") /\ Task(r)' = Task(r)
                                               /\ Task(r) # Task(s)
      BY <2>1 DEF DueInv, At, Task
    <2>3. \A r \in Slot : At(r, "schedule")' => Untouched(Task(r))'
      BY <2>1, <2>2 DEF DueInv, Untouched
    <2>4. CopiedOnlyWhenDue'
      <3> SUFFICES ASSUME NEW t \in Id, Copies(t)' \cup Executing(t)' # {}
                   PROVE  Past(t)' /\ t \notin dated'
        BY DEF CopiedOnlyWhenDue
      <3>1. Copies(t)' = Copies(t) /\ Executing(t)' = Executing(t)
        BY <2>1 DEF Copies, Executing
      <3>2. t # Task(s)
        <4>1. Untouched(Task(s))
          BY <2>1 DEF DueInv
        <4> QED BY <3>1, <4>1 DEF Untouched, Copies, Executing
      <3>3. Past(t) /\ t \notin dated
        BY <3>1 DEF DueInv, CopiedOnlyWhenDue
      <3> QED BY <2>1, <3>2, <3>3 DEF Past
    <2>5. \A r, q \in Slot :
            At(r, "schedule")' /\ At(q, "schedule")' /\ Task(r)' = Task(q)' => r = q
      BY <2>2 DEF DueInv
    <2> QED BY <2>3, <2>4, <2>5 DEF DueInv
  <1>4. ASSUME NEW s \in Slot, SetCron(s) \/ CancelRequest(s)
        PROVE  DueInv'
    <2>1. /\ \A u \in Id : db'[u].cause = db[u].cause
          /\ \A r \in Slot : call'[r].pc = "schedule" => call'[r] = call[r]
          /\ UNCHANGED <<now, dated, due, tick>>
      BY <1>4, ClientEffect
    <2> QED BY <1>1, <2>1, MildStepKeepsDue
  <1>5. CASE Time
    BY <1>1, <1>5, MildStepKeepsDue DEF Time
  <1>6. ASSUME NEW k \in Ticker, Find(k)
        PROVE  DueInv'
    <2>1. /\ tick'[k].pc = "loop" /\ tick'[k].found \subseteq dated
          /\ \A j \in Ticker \ {k} : tick'[j] = tick[j]
          /\ UNCHANGED <<db, call, now, dated, due>>
      BY <1>6, FindEffect
    <2> QED BY <1>1, <2>1, MildStepKeepsDue
  <1>7. ASSUME NEW k \in Ticker, EnqueueCopy(k)
        PROVE  DueInv'
    <2> DEFINE c == tick[k].task
    <2>1. /\ Created(NewId, db[c].type, c)
          /\ tick[k].pc = "enqueue" /\ c \in Id
          /\ tick'[k].pc = "publish" /\ tick'[k].found = tick[k].found
          /\ \A j \in Ticker \ {k} : tick'[j] = tick[j]
          /\ UNCHANGED <<call, now, dated, due>>
      <3>1. /\ Created(NewId, db[c].type, c)
            /\ tick[k].pc = "enqueue" /\ c \in Id
            /\ tick'[k] = [tick[k] EXCEPT !.pc = "publish", !.task = NewId]
            /\ \A j \in Ticker \ {k} : tick'[j] = tick[j]
            /\ UNCHANGED <<call, now, dated, due>>
        BY <1>7, CopyEffect
      <3>2. tick[k] \in Tick
        BY <1>1
      <3> QED BY <3>1, <3>2 DEF Tick
    <2>2. \A t \in Id : Untouched(t) => t # c
      BY <2>1 DEF Untouched
    <2>3. \A t \in Id : Untouched(t) => Untouched(t)'
      <3> SUFFICES ASSUME NEW t \in Id, Untouched(t)
                   PROVE  Untouched(t)'
        OBVIOUS
      <3>1. \A u \in Id : db'[u].cause # t
        BY <2>1, <2>2 DEF Created, Untouched
      <3>2. \A j \in Ticker : /\ t \notin tick'[j].found
                             /\ tick'[j].pc = "enqueue" => tick'[j].task # t
        BY <2>1 DEF Untouched
      <3> QED BY <2>1, <3>1, <3>2 DEF Untouched
    <2>4. \A s \in Slot : At(s, "schedule")' => Untouched(Task(s))'
      <3> SUFFICES ASSUME NEW s \in Slot, At(s, "schedule")
                   PROVE  Untouched(Task(s))'
        BY <2>1 DEF At
      <3>1. Task(s) \in Id /\ Untouched(Task(s)) /\ Task(s)' = Task(s)
        BY <2>1 DEF SchedulerBase, Base, NamesExist, At, Task, DueInv
      <3> QED BY <2>3, <3>1
    <2>5. CopiedOnlyWhenDue'
      <3> SUFFICES ASSUME NEW t \in Id, Copies(t)' \cup Executing(t)' # {}
                   PROVE  Past(t)' /\ t \notin dated'
        BY DEF CopiedOnlyWhenDue
      <3>1. Copies(t) \cup Executing(t) # {}
        BY <2>1 DEF Copies, Executing, Created
      <3> QED BY <2>1, <3>1 DEF DueInv, CopiedOnlyWhenDue, Past
    <2> QED BY <2>1, <2>4, <2>5 DEF DueInv, At, Task
  <1>8. ASSUME NEW k \in Ticker, NEW t \in Id, Clear(k, t)
        PROVE  DueInv'
    <2>1. /\ t \in tick[k].found /\ Past(t)
          /\ tick'[k] = [pc |-> "enqueue", task |-> t, found |-> tick[k].found \ {t},
                         read |-> tick[k].read]
          /\ \A j \in Ticker \ {k} : tick'[j] = tick[j]
          /\ dated' = dated \ {t}
          /\ Keeps
          /\ UNCHANGED <<call, now, due>>
      BY <1>8, ClearEffect
    <2>2. \A u \in Id : Untouched(u) => Untouched(u)'
      <3> SUFFICES ASSUME NEW u \in Id, Untouched(u)
                   PROVE  Untouched(u)'
        OBVIOUS
      <3>1. u # t /\ \A v \in Id : db'[v].cause # u
        BY <2>1 DEF Untouched, Keeps
      <3>2. \A j \in Ticker : /\ u \notin tick'[j].found
                             /\ tick'[j].pc = "enqueue" => tick'[j].task # u
        BY <2>1, <3>1 DEF Untouched
      <3> QED BY <2>1, <3>1, <3>2 DEF Untouched
    <2>3. \A s \in Slot : At(s, "schedule")' => Untouched(Task(s))'
      <3> SUFFICES ASSUME NEW s \in Slot, At(s, "schedule")
                   PROVE  Untouched(Task(s))'
        BY <2>1 DEF At
      <3>1. Task(s) \in Id /\ Untouched(Task(s)) /\ Task(s)' = Task(s)
        BY <2>1 DEF SchedulerBase, Base, NamesExist, At, Task, DueInv
      <3> QED BY <2>2, <3>1
    <2>4. CopiedOnlyWhenDue'
      <3> SUFFICES ASSUME NEW u \in Id, Copies(u)' \cup Executing(u)' # {}
                   PROVE  Past(u)' /\ u \notin dated'
        BY DEF CopiedOnlyWhenDue
      <3>1. CASE u = t
        BY <2>1, <3>1 DEF Past
      <3>2. CASE u # t
        <4>1. Copies(u) \cup Executing(u) # {}
          BY <2>1, <3>2 DEF Copies, Executing, Keeps
        <4> QED BY <2>1, <4>1 DEF DueInv, CopiedOnlyWhenDue, Past
      <3> QED BY <3>1, <3>2
    <2> QED BY <2>1, <2>3, <2>4 DEF DueInv, At, Task
  <1>9. ASSUME NEW k \in Ticker, Releases(k)
        PROVE  DueInv'
    <2>1. Released(k)
      BY <1>9, ReleaseEffect
    <2> QED BY <1>1, <2>1, MildStepKeepsDue DEF Released
  <1>10. CASE UNCHANGED svars
    BY <1>1, <1>10, MildStepKeepsDue DEF svars
  <1> QED BY <1>2, <1>3, <1>4, <1>5, <1>6, <1>7, <1>8, <1>9, <1>10, SchedulerSteps

\* A copy is made only of a task whose date has come and is cleared, however
\* many runs of the cron job overlap and wherever they crash.
THEOREM NeverEarlyNeverAgain == SchedulerSpec => []CopiedOnlyWhenDue
  BY SchedulerBaseInit, SchedulerBaseStep, DueInvInit, DueInvStep, PTL
     DEF SchedulerSpec, DueInv

---------------------------------------------------------------------------
(* Only so often.  Once the date is cleared no further run finds the task: *)
(* the runs that hold it still, and the copies that runs have made, are    *)
(* together no more than the runs there can be.                            *)

Holding(t) ==
  {k \in Ticker : t \in tick[k].found \/ (tick[k].pc = "enqueue" /\ tick[k].task = t)}

WithinBound(t) == Cardinality(Copies(t)) + Cardinality(Holding(t)) <= Cardinality(Ticker)

BoundInv ==
  /\ \A k \in Ticker : tick[k].pc = "enqueue" => tick[k].task \notin tick[k].found
  /\ \A t \in Id \ dated : WithinBound(t)

LEMMA FiniteHands ==
  ASSUME NEW t
  PROVE  /\ IsFiniteSet(Copies(t)) /\ Cardinality(Copies(t)) \in Nat
         /\ IsFiniteSet(Holding(t)) /\ Cardinality(Holding(t)) \in Nat
         /\ Cardinality(Holding(t)) <= Cardinality(Ticker) /\ Cardinality(Ticker) \in Nat
  <1>1. Copies(t) \subseteq Id /\ Holding(t) \subseteq Ticker
    BY DEF Copies, Holding
  <1>2. IsFiniteSet(Id) /\ IsFiniteSet(Ticker)
    BY IdAssumption, TickerAssumption
  <1> QED BY <1>1, <1>2, FS_Subset, FS_CardinalityType

LEMMA ShrinkKeepsBound ==
  ASSUME NEW t \in Id, WithinBound(t),
         Copies(t)' \subseteq Copies(t), Holding(t)' \subseteq Holding(t)
  PROVE  WithinBound(t)'
  <1>1. /\ IsFiniteSet(Copies(t)) /\ Cardinality(Copies(t)) \in Nat
        /\ IsFiniteSet(Holding(t)) /\ Cardinality(Holding(t)) \in Nat
        /\ Cardinality(Ticker) \in Nat
    BY FiniteHands
  <1>2. /\ Cardinality(Copies(t)') <= Cardinality(Copies(t)) /\ Cardinality(Copies(t)') \in Nat
        /\ Cardinality(Holding(t)') <= Cardinality(Holding(t)) /\ Cardinality(Holding(t)') \in Nat
    BY <1>1, FS_Subset, FS_CardinalityType
  <1> QED BY <1>1, <1>2 DEF WithinBound

\* Steps that make no copy and give no run a task whose date is cleared.
LEMMA MildStepKeepsBound ==
  ASSUME SchedulerBase, BoundInv,
         \A u \in Id : db'[u].cause \in {db[u].cause, NoId},
         \A k \in Ticker :
           \/ tick'[k] = tick[k]
           \/ /\ tick'[k].found \subseteq tick[k].found \cup dated
              /\ tick'[k].pc # "enqueue",
         dated \subseteq dated'
  PROVE  BoundInv'
  <1>1. \A k \in Ticker : tick'[k].pc = "enqueue" => tick'[k].task \notin tick'[k].found
    BY DEF BoundInv
  <1>2. ASSUME NEW t \in Id, t \notin dated'
        PROVE  WithinBound(t)'
    <2>1. WithinBound(t)
      BY <1>2 DEF BoundInv
    <2>2. Copies(t)' \subseteq Copies(t) /\ Holding(t)' \subseteq Holding(t)
      BY <1>2, IdAssumption DEF Copies, Holding
    <2> QED BY <2>1, <2>2, ShrinkKeepsBound
  <1> QED BY <1>1, <1>2 DEF BoundInv

LEMMA BoundInvInit == SchedulerInit => BoundInv
  <1> SUFFICES ASSUME SchedulerInit
               PROVE  BoundInv
    OBVIOUS
  <1>1. ASSUME NEW t \in Id
        PROVE  WithinBound(t)
    <2>1. Copies(t) = {}
      BY IdAssumption DEF SchedulerInit, Init, NoRow, Copies
    <2> QED BY <2>1, FiniteHands, FS_EmptySet DEF WithinBound
  <1> QED BY <1>1 DEF SchedulerInit, NoTick, BoundInv

LEMMA BoundInvStep ==
  SchedulerBase /\ DueInv /\ BoundInv /\ [SchedulerNext]_svars => BoundInv'
  <1> SUFFICES ASSUME SchedulerBase, DueInv, BoundInv, [SchedulerNext]_svars
               PROVE  BoundInv'
    OBVIOUS
  <1>1. tick \in [Ticker -> Tick]
    BY DEF SchedulerBase, SchedulerTypeOK
  <1>2. ASSUME NEW s \in Slot, NEW new \in NewTask, Schedule(s, new) \/ Recur(s, new)
        PROVE  BoundInv'
    <2>1. Created(NewId, new.type, NoId) /\ UNCHANGED <<dated, tick>>
      BY <1>2, CreationEffect
    <2>2. \A u \in Id : db'[u].cause \in {db[u].cause, NoId}
      BY <2>1 DEF Created
    <2> QED BY <2>1, <2>2, MildStepKeepsBound
  <1>3. ASSUME NEW s \in Slot, SetDate(s)
        PROVE  BoundInv'
    <2>1. dated \subseteq dated' /\ UNCHANGED <<db, tick>>
      BY <1>3, DateEffect
    <2> QED BY <2>1, MildStepKeepsBound
  <1>4. ASSUME NEW s \in Slot, SetCron(s) \/ CancelRequest(s)
        PROVE  BoundInv'
    <2>1. (\A u \in Id : db'[u].cause = db[u].cause) /\ UNCHANGED <<dated, tick>>
      BY <1>4, ClientEffect
    <2> QED BY <2>1, MildStepKeepsBound
  <1>5. CASE Time
    BY <1>5, MildStepKeepsBound DEF Time
  <1>6. ASSUME NEW k \in Ticker, Find(k)
        PROVE  BoundInv'
    <2>1. /\ tick'[k].pc = "loop" /\ tick'[k].found \subseteq dated
          /\ \A j \in Ticker \ {k} : tick'[j] = tick[j]
          /\ UNCHANGED <<db, dated>>
      BY <1>6, FindEffect
    <2> QED BY <2>1, MildStepKeepsBound
  <1>7. ASSUME NEW k \in Ticker, EnqueueCopy(k)
        PROVE  BoundInv'
    <2>1. PICK c \in Id : c = tick[k].task
      BY <1>7, CopyEffect
    <2>2. /\ Created(NewId, db[c].type, c)
          /\ tick[k].pc = "enqueue" /\ tick[k].task = c
          /\ tick'[k].pc = "publish" /\ tick'[k].found = tick[k].found
          /\ \A j \in Ticker \ {k} : tick'[j] = tick[j]
          /\ UNCHANGED dated
      <3>1. /\ Created(NewId, db[c].type, c) /\ tick[k].pc = "enqueue"
            /\ tick'[k] = [tick[k] EXCEPT !.pc = "publish", !.task = NewId]
            /\ \A j \in Ticker \ {k} : tick'[j] = tick[j]
            /\ UNCHANGED dated
        BY <1>7, <2>1, CopyEffect
      <3>2. tick[k] \in Tick
        BY <1>1
      <3> QED BY <2>1, <3>1, <3>2 DEF Tick
    <2>3. \A j \in Ticker : tick'[j].pc = "enqueue" => tick'[j].task \notin tick'[j].found
      BY <2>2 DEF BoundInv
    <2>4. ASSUME NEW t \in Id, t \notin dated'
          PROVE  WithinBound(t)'
      <3>1. WithinBound(t)
        BY <2>2, <2>4 DEF BoundInv
      <3>2. CASE t # c
        <4>1. Copies(t)' \subseteq Copies(t) /\ Holding(t)' \subseteq Holding(t)
          BY <2>2, <3>2 DEF Created, Copies, Holding
        <4> QED BY <3>1, <4>1, ShrinkKeepsBound
      <3>3. CASE t = c
        <4>1. Copies(t)' = Copies(t) \cup {NewId} /\ NewId \notin Copies(t)
          <5>1. db[NewId].cause # c
            BY <2>2, IdAssumption DEF Created, SchedulerBase, AbsentUncaused
          <5> QED BY <2>2, <3>3, <5>1 DEF Created, Copies
        <4>2. k \in Holding(t) /\ Holding(t)' \subseteq Holding(t) \ {k}
          BY <2>2, <3>3 DEF BoundInv, Holding
        <4>3. /\ IsFiniteSet(Copies(t)) /\ Cardinality(Copies(t)) \in Nat
              /\ IsFiniteSet(Holding(t)) /\ Cardinality(Holding(t)) \in Nat
              /\ Cardinality(Ticker) \in Nat
          BY FiniteHands
        <4>4. Cardinality(Copies(t)') = Cardinality(Copies(t)) + 1
          BY <4>1, <4>3, FS_AddElement
        <4>5. /\ Cardinality(Holding(t) \ {k}) = Cardinality(Holding(t)) - 1
              /\ IsFiniteSet(Holding(t) \ {k})
          BY <4>2, <4>3, FS_RemoveElement
        <4>6. /\ Cardinality(Holding(t)') <= Cardinality(Holding(t) \ {k})
              /\ Cardinality(Holding(t)') \in Nat
          BY <4>2, <4>5, FS_Subset, FS_CardinalityType
        <4> QED BY <3>1, <4>3, <4>4, <4>5, <4>6 DEF WithinBound
      <3> QED BY <3>2, <3>3
    <2> QED BY <2>3, <2>4 DEF BoundInv
  <1>8. ASSUME NEW k \in Ticker, NEW c \in Id, Clear(k, c)
        PROVE  BoundInv'
    <2>1. /\ c \in tick[k].found
          /\ tick'[k] = [pc |-> "enqueue", task |-> c, found |-> tick[k].found \ {c},
                         read |-> tick[k].read]
          /\ \A j \in Ticker \ {k} : tick'[j] = tick[j]
          /\ dated' = dated \ {c} /\ Keeps
      BY <1>8, ClearEffect
    <2>2. \A j \in Ticker : tick'[j].pc = "enqueue" => tick'[j].task \notin tick'[j].found
      BY <2>1 DEF BoundInv
    <2>3. ASSUME NEW t \in Id, t \notin dated'
          PROVE  WithinBound(t)'
      <3>1. Copies(t)' = Copies(t)
        BY <2>1 DEF Copies, Keeps
      <3>2. CASE t \notin dated
        <4>1. Holding(t)' \subseteq Holding(t)
          BY <2>1 DEF Holding
        <4> QED BY <3>1, <3>2, <4>1, ShrinkKeepsBound DEF BoundInv
      <3>3. CASE t \in dated
        <4>1. Copies(t)' = {}
          BY <3>1, <3>3 DEF DueInv, CopiedOnlyWhenDue
        <4>2. Holding(t)' \subseteq Ticker
          BY DEF Holding
        <4>3. /\ Cardinality(Holding(t)') <= Cardinality(Ticker)
              /\ Cardinality(Holding(t)') \in Nat /\ Cardinality(Ticker) \in Nat
          BY <4>2, TickerAssumption, FS_Subset, FS_CardinalityType
        <4>4. Cardinality(Copies(t)') = 0
          BY <4>1, FS_EmptySet
        <4> QED BY <4>3, <4>4 DEF WithinBound
      <3> QED BY <3>2, <3>3
    <2> QED BY <2>2, <2>3 DEF BoundInv
  <1>9. ASSUME NEW k \in Ticker, Releases(k)
        PROVE  BoundInv'
    <2>1. Released(k)
      BY <1>9, ReleaseEffect
    <2> QED BY <2>1, MildStepKeepsBound DEF Released
  <1>10. CASE UNCHANGED svars
    BY <1>10, MildStepKeepsBound DEF svars
  <1> QED BY <1>2, <1>3, <1>4, <1>5, <1>6, <1>7, <1>8, <1>9, <1>10, SchedulerSteps

\* A task is copied no more often than runs of the cron job can overlap.
THEOREM CopiedOncePerRun == SchedulerSpec => []CopiesBounded
  <1>1. DueInv /\ BoundInv => CopiesBounded
    <2> SUFFICES ASSUME DueInv, BoundInv, NEW t \in Id
                 PROVE  Cardinality(Copies(t)) <= Cardinality(Ticker)
      BY DEF CopiesBounded
    <2>1. CASE t \in dated
      <3>1. Copies(t) = {}
        BY <2>1 DEF DueInv, CopiedOnlyWhenDue
      <3> QED BY <3>1, FiniteHands, FS_EmptySet
    <2>2. CASE t \notin dated
      BY <2>2, FiniteHands DEF BoundInv, WithinBound
    <2> QED BY <2>1, <2>2
  <1> QED BY <1>1, SchedulerBaseInit, SchedulerBaseStep, DueInvInit, DueInvStep,
             BoundInvInit, BoundInvStep, PTL DEF SchedulerSpec

---------------------------------------------------------------------------
(* Cancelled in time.                                                      *)

Settled(t) ==
  /\ db'[t].status = "cancelled"
  /\ Copies(t)' = Copies(t)
  /\ InHand(t)' = {}

LEMMA CancelledStaysSettled ==
  ASSUME SchedulerBase, [SchedulerNext]_svars,
         NEW t \in Id, db[t].status = "cancelled", InHand(t) = {}
  PROVE  Settled(t)
  <1>1. /\ Exists(t) /\ NoId # t /\ tick \in [Ticker -> Tick]
        /\ \A k \in Ticker : t \notin tick[k].found /\ tick[k].task # t
    BY IdAssumption DEF Exists, InHand, SchedulerBase, SchedulerTypeOK
  <1>2. ASSUME \A u \in Id : db'[u].cause = t <=> db[u].cause = t,
               db'[t].status = "cancelled",
               \A k \in Ticker : t \notin tick'[k].found /\ tick'[k].task # t
        PROVE  Settled(t)
    BY <1>2 DEF Settled, Copies, InHand
  <1>3. ASSUME NEW new, NEW type, NEW cause, Created(new, type, cause), cause # t
        PROVE  /\ new # t /\ db'[t].status = "cancelled"
               /\ \A u \in Id : db'[u].cause = t <=> db[u].cause = t
    BY <1>1, <1>3 DEF Created, SchedulerBase, AbsentUncaused
  <1>4. ASSUME NEW s \in Slot, NEW new \in NewTask, Schedule(s, new) \/ Recur(s, new)
        PROVE  Settled(t)
    <2>1. Created(NewId, new.type, NoId) /\ UNCHANGED tick
      BY <1>4, CreationEffect
    <2> QED BY <1>1, <1>2, <1>3, <2>1
  <1>5. ASSUME NEW s \in Slot, SetDate(s)
        PROVE  Settled(t)
    BY <1>1, <1>2, <1>5 DEF SetDate
  <1>6. ASSUME NEW s \in Slot, SetCron(s) \/ CancelRequest(s)
        PROVE  Settled(t)
    <2>1. /\ \A u \in Id : db'[u].cause = db[u].cause
          /\ \A u \in Id : db'[u].status \in {db[u].status, "cancelled"}
          /\ UNCHANGED tick
      BY <1>6, ClientEffect
    <2> QED BY <1>1, <1>2, <2>1
  <1>7. CASE Time
    BY <1>1, <1>2, <1>7 DEF Time
  <1>8. ASSUME NEW k \in Ticker, Find(k)
        PROVE  Settled(t)
    <2>1. /\ tick'[k].task = NoId
          /\ tick'[k].found = {u \in dated : db[u].status = "pending"}
          /\ \A j \in Ticker \ {k} : tick'[j] = tick[j]
          /\ UNCHANGED db
      BY <1>8, FindEffect
    <2>2. t \notin tick'[k].found
      BY <2>1
    <2> QED BY <1>1, <1>2, <2>1, <2>2
  <1>9. ASSUME NEW k \in Ticker, EnqueueCopy(k)
        PROVE  Settled(t)
    <2>1. /\ Created(NewId, db[tick[k].task].type, tick[k].task)
          /\ tick'[k] = [tick[k] EXCEPT !.pc = "publish", !.task = NewId]
          /\ \A j \in Ticker \ {k} : tick'[j] = tick[j]
      BY <1>9, CopyEffect
    <2>2. tick'[k].task = NewId /\ tick'[k].found = tick[k].found
      <3>1. tick[k] \in Tick
        BY <1>1
      <3> QED BY <2>1, <3>1 DEF Tick
    <2>3. /\ NewId # t /\ db'[t].status = "cancelled"
          /\ \A u \in Id : db'[u].cause = t <=> db[u].cause = t
      BY <1>1, <1>3, <2>1
    <2> QED BY <1>1, <1>2, <2>1, <2>2, <2>3
  <1>10. ASSUME NEW k \in Ticker, NEW c \in Id, Clear(k, c)
         PROVE  Settled(t)
    <2>1. /\ c \in tick[k].found
          /\ tick'[k] = [pc |-> "enqueue", task |-> c, found |-> tick[k].found \ {c},
                         read |-> tick[k].read]
          /\ \A j \in Ticker \ {k} : tick'[j] = tick[j]
          /\ Keeps /\ \A u \in Id \ {c} : db'[u] = db[u]
      BY <1>10, ClearEffect
    <2>2. c # t
      BY <1>1, <2>1
    <2> QED BY <1>1, <1>2, <2>1, <2>2 DEF Keeps
  <1>11. ASSUME NEW k \in Ticker, Releases(k)
         PROVE  Settled(t)
    <2>1. Released(k)
      BY <1>11, ReleaseEffect
    <2> QED BY <1>1, <1>2, <2>1 DEF Released
  <1>12. CASE UNCHANGED svars
    BY <1>1, <1>2, <1>12 DEF svars
  <1> QED BY <1>4, <1>5, <1>6, <1>7, <1>8, <1>9, <1>10, <1>11, <1>12, SchedulerSteps

\* A task that is cancelled before any run has found it stays so, and is
\* never executed.
THEOREM CancelledInTime == SchedulerSpec => CancelledIsSettled
  <1>1. SchedulerBase /\ [SchedulerNext]_svars =>
          [\A t \in Id : db[t].status = "cancelled" /\ InHand(t) = {} =>
             /\ db'[t].status = "cancelled"
             /\ Copies(t)' = Copies(t)
             /\ InHand(t)' = {}]_svars
    BY CancelledStaysSettled DEF Settled
  <1> QED BY <1>1, SchedulerBaseInit, SchedulerBaseStep, PTL
             DEF SchedulerSpec, CancelledIsSettled

---------------------------------------------------------------------------
(* The agenda is implemented: what a task's dates, states and copies may    *)
(* do.  A date is written once, for a request that has yet to write it has  *)
(* a row without one.                                                       *)

UndatedInv ==
  /\ \A t \in Id : ~ Exists(t) => due[t] = 0
  /\ \A s \in Slot : At(s, "schedule") => due[Task(s)] = 0

LEMMA UndatedKept ==
  ASSUME SchedulerBase, UndatedInv, due' = due, \A t \in Id : Exists(t) => Exists(t)',
         \A s \in Slot : call'[s].pc = "schedule" =>
           \/ call'[s] = call[s]
           \/ call'[s].task \in Id /\ ~ Exists(call'[s].task)
  PROVE  UndatedInv'
  BY DEF UndatedInv, At, Task

LEMMA UndatedInvStep ==
  ASSUME SchedulerBase, DueInv, UndatedInv, [SchedulerNext]_svars
  PROVE  UndatedInv'
  <1>1. ASSUME NEW s \in Slot, NEW new \in NewTask, Schedule(s, new) \/ Recur(s, new)
        PROVE  UndatedInv'
    BY <1>1, CreationEffect, UndatedKept DEF Created
  <1>2. ASSUME NEW s \in Slot, SetDate(s)
        PROVE  UndatedInv'
    <2>1. /\ At(s, "schedule") /\ Exists(Task(s)) /\ call'[s].pc = "idle"
          /\ \A u \in Id \ {Task(s)} : due'[u] = due[u]
          /\ \A r \in Slot \ {s} : call'[r] = call[r]
          /\ UNCHANGED db
      BY <1>2, DateEffect
    <2>2. \A t \in Id : ~ Exists(t)' => due'[t] = 0
      BY <2>1 DEF UndatedInv, Exists
    <2>3. ASSUME NEW r \in Slot, At(r, "schedule")'
          PROVE  due'[Task(r)'] = 0
      <3>1. r # s /\ At(r, "schedule") /\ Task(r)' = Task(r)
        BY <2>1, <2>3 DEF At, Task
      <3>2. Task(r) \in Id \ {Task(s)}
        BY <2>1, <3>1 DEF DueInv, SchedulerBase, Base, NamesExist, At
      <3> QED BY <2>1, <3>1, <3>2 DEF UndatedInv
    <2> QED BY <2>2, <2>3 DEF UndatedInv
  <1>3. ASSUME NEW s \in Slot, SetCron(s) \/ CancelRequest(s)
        PROVE  UndatedInv'
    BY <1>3, ClientEffect, UndatedKept
  <1>4. CASE Time \/ UNCHANGED svars
    BY <1>4, UndatedKept DEF Time, svars, Exists
  <1>5. ASSUME NEW k \in Ticker, Find(k)
        PROVE  UndatedInv'
    BY <1>5, UndatedKept DEF Find, Exists
  <1>6. ASSUME NEW k \in Ticker, EnqueueCopy(k)
        PROVE  UndatedInv'
    BY <1>6, CopyEffect, UndatedKept DEF Created
  <1>7. ASSUME NEW k \in Ticker, NEW c \in Id, Clear(k, c)
        PROVE  UndatedInv'
    BY <1>7, ClearEffect, UndatedKept DEF Keeps
  <1>8. ASSUME NEW k \in Ticker, Releases(k)
        PROVE  UndatedInv'
    BY <1>8, ReleaseEffect, UndatedKept DEF Released, Exists
  <1> QED BY <1>1, <1>2, <1>3, <1>4, <1>5, <1>6, <1>7, <1>8, SchedulerSteps

\* A run between two tasks has none in hand.
LoopersFree == \A k \in Ticker : tick[k].pc = "loop" => tick[k].task = NoId

LEMMA LoopersFreeStep ==
  ASSUME SchedulerBase, LoopersFree, [SchedulerNext]_svars
  PROVE  LoopersFree'
  <1>0. tick \in [Ticker -> Tick]
    BY DEF SchedulerBase, SchedulerTypeOK
  <1>1. ASSUME NEW k \in Ticker, \A j \in Ticker \ {k} : tick'[j] = tick[j],
               tick'[k].pc = "loop" => tick'[k].task = NoId
        PROVE  LoopersFree'
    BY <1>1 DEF LoopersFree
  <1>2. ASSUME UNCHANGED tick
        PROVE  LoopersFree'
    BY <1>2 DEF LoopersFree
  <1>3. ASSUME NEW s \in Slot, NEW new \in NewTask, Schedule(s, new) \/ Recur(s, new)
        PROVE  LoopersFree'
    BY <1>2, <1>3, CreationEffect
  <1>4. ASSUME NEW s \in Slot, SetDate(s) \/ SetCron(s) \/ CancelRequest(s)
        PROVE  LoopersFree'
    BY <1>2, <1>4, DateEffect, ClientEffect
  <1>5. CASE Time \/ UNCHANGED svars
    BY <1>2, <1>5 DEF Time, svars
  <1>6. ASSUME NEW k \in Ticker, Find(k)
        PROVE  LoopersFree'
    BY <1>1, <1>6, FindEffect
  <1>7. ASSUME NEW k \in Ticker, EnqueueCopy(k)
        PROVE  LoopersFree'
    <2>1. tick[k] \in Tick /\ tick'[k] = [tick[k] EXCEPT !.pc = "publish", !.task = NewId]
      BY <1>0, <1>7, CopyEffect
    <2>2. tick'[k].pc = "publish"
      BY <2>1 DEF Tick
    <2> QED BY <1>1, <1>7, <2>2, CopyEffect
  <1>8. ASSUME NEW k \in Ticker, NEW t \in Id, Clear(k, t)
        PROVE  LoopersFree'
    <2>1. tick'[k] = [pc |-> "enqueue", task |-> t, found |-> tick[k].found \ {t},
                      read |-> tick[k].read]
      BY <1>8, ClearEffect
    <2>2. tick'[k].pc = "enqueue"
      BY <2>1
    <2> QED BY <1>1, <1>8, <2>2, ClearEffect
  <1>9. ASSUME NEW k \in Ticker, Releases(k)
        PROVE  LoopersFree'
    <2>1. \A j \in Ticker \ {k} : tick'[j] = tick[j]
      BY <1>9, ReleaseEffect DEF Released
    <2>2. tick[k] \in Tick
      BY <1>0
    <2>3. CASE tick' = [tick EXCEPT ![k] = Onward(tick[k])]
      BY <1>0, <1>1, <2>1, <2>3 DEF Onward, Tick
    <2>4. CASE tick' = [tick EXCEPT ![k] = NoTick]
      BY <1>0, <1>1, <2>1, <2>4 DEF NoTick
    <2>5. ASSUME NEW t, tick[k].pc = "loop", tick' = [tick EXCEPT ![k].found = @ \ {t}]
          PROVE  LoopersFree'
      <3>1. tick'[k] = [tick[k] EXCEPT !.found = tick[k].found \ {t}]
        BY <1>0, <2>5
      <3>2. tick'[k].task = tick[k].task
        BY <2>2, <3>1 DEF Tick
      <3> QED BY <1>1, <2>1, <2>5, <3>2 DEF LoopersFree
    <2> QED BY <1>9, <2>3, <2>4, <2>5 DEF Releases, PublishCopy, Done, Skip, Drop, Crash
  <1> QED BY <1>3, <1>4, <1>5, <1>6, <1>7, <1>8, <1>9, SchedulerSteps

\* Most steps leave the dates and the copies alone, and only let go of tasks
\* that were cancelled.
LEMMA MildStepWithdraws ==
  ASSUME UNCHANGED <<now, dated, due>>, \A u \in Id : db'[u].cause = db[u].cause,
         \A t \in Id : db[t].status = "cancelled" /\ InHand(t) = {} => Settled(t)
  PROVE  Agenda!Withdraw
  <1>1. \A t \in Id : \/ StateOf(t)' = StateOf(t)
                      \/ StateOf(t) = "waiting" /\ StateOf(t)' = "withdrawn"
    BY DEF StateOf, Settled
  <1>2. [t \in Id |-> StateOf(t)]' =
          [t \in Id |-> IF StateOf(t) = "waiting" /\ StateOf(t)' = "withdrawn"
                        THEN "withdrawn" ELSE StateOf(t)]
    BY <1>1
  <1> QED BY <1>2 DEF Agenda!Withdraw

LEMMA AgendaStep ==
  ASSUME SchedulerBase, DueInv, BoundInv, UndatedInv, LoopersFree, [SchedulerNext]_svars
  PROVE  Agenda!AgendaNext \/ UNCHANGED Agenda!agenda
  <1> DEFINE copyOf == [u \in Id |-> db[u].cause]
  <1>1. ASSUME UNCHANGED <<now, dated, due>>, \A u \in Id : db'[u].cause = db[u].cause
        PROVE  Agenda!AgendaNext
    BY <1>1, CancelledStaysSettled, MildStepWithdraws DEF Agenda!AgendaNext
  <1>2. ASSUME NEW s \in Slot, NEW new \in NewTask, Schedule(s, new) \/ Recur(s, new)
        PROVE  Agenda!AgendaNext
    <2>1. Created(NewId, new.type, NoId) /\ UNCHANGED <<now, dated, due>>
      BY <1>2, CreationEffect
    <2>2. \A u \in Id : db'[u].cause = db[u].cause
      BY <2>1 DEF Created, SchedulerBase, AbsentUncaused
    <2> QED BY <1>1, <2>1, <2>2
  <1>3. ASSUME NEW s \in Slot, SetDate(s)
        PROVE  Agenda!AgendaNext
    <2>1. PICK t \in Id : t = Task(s)
      BY <1>3, DateEffect
    <2>2. PICK d \in 1..Horizon : due' = [due EXCEPT ![t] = d]
      BY <1>3, <2>1 DEF SetDate
    <2>3. /\ due[t] = 0 /\ due \in [Id -> Nat] /\ d \in Nat \ {0}
          /\ dated' = dated \cup {t} /\ UNCHANGED <<db, now, tick>>
      BY <1>3, <2>1, TickerAssumption
         DEF SetDate, UndatedInv, SchedulerBase, SchedulerTypeOK
    <2>4. due'[t] = d /\ \A u \in Id \ {t} : due'[u] = due[u]
      BY <2>2, <2>3
    <2>5. StateOf(t)' \in {"waiting", "withdrawn"} /\ StateOf(t) = "free"
      BY <2>3, <2>4 DEF StateOf
    <2>6. \A u \in Id \ {t} : StateOf(u)' = StateOf(u)
      BY <2>3, <2>4 DEF StateOf, InHand
    <2>7. [u \in Id |-> StateOf(u)]' = [[u \in Id |-> StateOf(u)] EXCEPT ![t] = StateOf(t)']
      BY <2>6
    <2>8. Agenda!Plan(t)
      BY <2>2, <2>3, <2>4, <2>5, <2>7 DEF Agenda!Plan
    <2> QED BY <2>8 DEF Agenda!AgendaNext
  <1>4. ASSUME NEW s \in Slot, SetCron(s) \/ CancelRequest(s)
        PROVE  Agenda!AgendaNext
    BY <1>1, <1>4, ClientEffect
  <1>5. CASE Time
    <2>1. Agenda!Pass
      BY <1>5 DEF Time, Agenda!Pass, StateOf, InHand
    <2> QED BY <2>1 DEF Agenda!AgendaNext
  <1>6. ASSUME NEW k \in Ticker, Find(k)
        PROVE  Agenda!AgendaNext
    BY <1>1, <1>6 DEF Find
  <1>7. ASSUME NEW k \in Ticker, EnqueueCopy(k)
        PROVE  Agenda!AgendaNext
    <2>1. PICK t \in Id : t = tick[k].task
      BY <1>7, CopyEffect
    <2>2. PICK n \in Id : n = NewId
      BY <1>7, CopyEffect DEF Created
    <2>3. /\ tick[k].pc = "enqueue" /\ ~ Exists(n) /\ db'[n].cause = t
          /\ \A u \in Id \ {n} : db'[u] = db[u]
          /\ \A j \in Ticker \ {k} : tick'[j] = tick[j]
          /\ UNCHANGED <<now, dated, due>>
      BY <1>7, <2>1, <2>2, CopyEffect DEF Created
    <2>4. tick'[k].task = n /\ tick'[k].found = tick[k].found
      <3>1. tick[k] \in Tick /\ tick'[k] = [tick[k] EXCEPT !.pc = "publish", !.task = NewId]
        BY <1>7, CopyEffect DEF SchedulerBase, SchedulerTypeOK
      <3> QED BY <2>2, <3>1 DEF Tick
    <2>5. t \notin dated /\ due[t] # 0
      BY <2>1, <2>3 DEF DueInv, CopiedOnlyWhenDue, Executing, Past
    <2>6. n \notin dated /\ db[n].cause = NoId
      BY <2>3 DEF SchedulerBase, DatesNamed, AbsentUncaused
    <2>7. \A u \in Id : StateOf(u)' = StateOf(u)
      <3>1. ASSUME NEW u \in dated, u \in Id
            PROVE  InHand(u)' = InHand(u) /\ db'[u].status = db[u].status
        BY <2>1, <2>3, <2>4, <2>5, <2>6, <3>1 DEF InHand
      <3> QED BY <2>3, <3>1 DEF StateOf
    <2>8. Cardinality(Copies(t)) < Cardinality(Ticker)
      <3>1. k \in Holding(t) /\ WithinBound(t)
        BY <2>1, <2>3, <2>5 DEF BoundInv, Holding
      <3>2. Cardinality(Holding(t)) # 0
        BY <3>1, FiniteHands, FS_EmptySet
      <3> QED BY <3>1, <3>2, FiniteHands DEF WithinBound
    <2>9. Cardinality({u \in Id : copyOf[u] = t}) < Cardinality(Ticker)
      <3>1. {u \in Id : copyOf[u] = t} = Copies(t)
        BY DEF Copies
      <3> QED BY <2>8, <3>1
    <2>10. \E u \in Id : copyOf[u] = NoId /\ copyOf' = [copyOf EXCEPT ![u] = t]
      BY <2>3, <2>6
    <2>11. [u \in Id |-> StateOf(u)][t] = "taken"
      BY <2>5 DEF StateOf
    <2>12. [u \in Id |-> StateOf(u)]' = [u \in Id |-> StateOf(u)]
      BY <2>7
    <2>13. Agenda!Execute(t)
      BY <2>3, <2>9, <2>10, <2>11, <2>12 DEF Agenda!Execute, Agenda!Cardinality, Cardinality
    <2> QED BY <2>13 DEF Agenda!AgendaNext
  <1>8. ASSUME NEW k \in Ticker, NEW t \in Id, Clear(k, t)
        PROVE  Agenda!AgendaNext
    <2>1. /\ t \in tick[k].found /\ Past(t) /\ tick[k].task = NoId
          /\ tick'[k] = [pc |-> "enqueue", task |-> t, found |-> tick[k].found \ {t},
                         read |-> tick[k].read]
          /\ \A j \in Ticker \ {k} : tick'[j] = tick[j]
          /\ dated' = dated \ {t} /\ Keeps /\ \A u \in Id \ {t} : db'[u] = db[u]
          /\ UNCHANGED <<now, due>>
      BY <1>8, ClearEffect DEF LoopersFree
    <2>2. CASE t \notin dated
      <3>1. dated' = dated
        BY <2>1, <2>2
      <3> QED BY <1>1, <2>1, <3>1 DEF Keeps
    <2>3. CASE t \in dated
      <3>1. InHand(t) # {} /\ due[t] # 0 /\ due[t] <= now
        BY <2>1 DEF InHand, Past
      <3>2. StateOf(t) = "waiting" /\ StateOf(t)' = "taken"
        BY <2>1, <2>3, <3>1 DEF StateOf
      <3>3. ASSUME NEW u \in Id \ {t}
            PROVE  StateOf(u)' = StateOf(u)
        <4>1. CASE u \notin dated
          BY <2>1, <4>1 DEF StateOf
        <4>2. CASE u \in dated
          <5>1. tick[k].task # u
            BY <2>1, IdAssumption
          <5>2. InHand(u)' = InHand(u)
            BY <2>1, <5>1 DEF InHand
          <5> QED BY <2>1, <4>2, <5>2 DEF StateOf
        <4> QED BY <4>1, <4>2
      <3>4. [u \in Id |-> StateOf(u)]' = [[u \in Id |-> StateOf(u)] EXCEPT ![t] = "taken"]
        BY <3>2, <3>3
      <3>5. copyOf' = copyOf
        BY <2>1 DEF Keeps
      <3>6. Agenda!Take(t)
        BY <2>1, <3>1, <3>2, <3>4, <3>5 DEF Agenda!Take
      <3> QED BY <3>6 DEF Agenda!AgendaNext
    <2> QED BY <2>2, <2>3
  <1>9. ASSUME NEW k \in Ticker, Releases(k)
        PROVE  Agenda!AgendaNext
    BY <1>1, <1>9, ReleaseEffect DEF Released
  <1>10. CASE UNCHANGED svars
    BY <1>1, <1>10 DEF svars
  <1> QED BY <1>2, <1>3, <1>4, <1>5, <1>6, <1>7, <1>8, <1>9, <1>10, SchedulerSteps

\* The scheduler keeps the promises of the agenda: whatever overlaps, crashes
\* and throws, a date is written once, a task is taken only when its date has
\* come or withdrawn for good, and only what was taken is executed.
THEOREM AgendaIsImplemented == SchedulerSpec => ImplementsAgenda
  <1>1. SchedulerInit => UndatedInv /\ LoopersFree /\ Agenda!AgendaInit
    <2> SUFFICES ASSUME SchedulerInit
                 PROVE  UndatedInv /\ LoopersFree /\ Agenda!AgendaInit
      OBVIOUS
    <2>1. \A s \in Slot : ~ At(s, "schedule")
      BY DEF SchedulerInit, Init, At, NoCall
    <2>2. LoopersFree
      BY DEF SchedulerInit, NoTick, LoopersFree
    <2> QED BY <2>1, <2>2 DEF SchedulerInit, Init, NoRow, UndatedInv, StateOf, Agenda!AgendaInit
  <1>2. SchedulerBase /\ DueInv /\ UndatedInv /\ [SchedulerNext]_svars => UndatedInv'
    BY UndatedInvStep
  <1>3. SchedulerBase /\ LoopersFree /\ [SchedulerNext]_svars => LoopersFree'
    BY LoopersFreeStep
  <1>4. SchedulerBase /\ DueInv /\ BoundInv /\ UndatedInv /\ LoopersFree /\ [SchedulerNext]_svars
          => [Agenda!AgendaNext]_(Agenda!agenda)
    BY AgendaStep
  <1> QED BY <1>1, <1>2, <1>3, <1>4, SchedulerBaseInit, SchedulerBaseStep, DueInvInit, DueInvStep,
             BoundInvInit, BoundInvStep, PTL
          DEF SchedulerSpec, ImplementsAgenda, Agenda!AgendaSpec

---------------------------------------------------------------------------
(* What is cleared is executed, while nothing throws, dies or is lost.      *)

\* A copy u of t is in the broker, or some run is about to put it there.
Sent(t, u) ==
  /\ db[u].cause = t
  /\ msgs[u] > 0 \/ \E k \in Ticker : tick[k].pc = "publish" /\ tick[k].task = u

Executed(t) ==
  \/ \E k \in Ticker : tick[k].pc = "enqueue" /\ tick[k].task = t
  \/ \E u \in Id : Sent(t, u)

ClearedInv == \A t \in Id : due[t] # 0 /\ t \notin dated => Executed(t)

\* A row that refers to another keeps doing so when rows are created.
LEMMA CausesKept ==
  ASSUME SchedulerBase, NEW n, NEW type, NEW cause, Created(n, type, cause),
         NEW t \in Id, NEW u \in Id, db[u].cause = t
  PROVE  db'[u].cause = t
  <1>1. u # n
    BY IdAssumption DEF Created, SchedulerBase, AbsentUncaused
  <1> QED BY <1>1 DEF Created

\* Enough for a step of the run k that does not end an execution.
LEMMA ExecutedKept ==
  ASSUME NEW t \in Id, Executed(t),
         \A u \in Id : db[u].cause = t => db'[u].cause = t,
         \A u \in Id : msgs[u] > 0 => msgs'[u] > 0,
         \A k \in Ticker :
           /\ tick[k].pc = "enqueue" /\ tick[k].task = t => tick'[k] = tick[k]
           /\ tick[k].pc = "publish" => tick'[k] = tick[k] \/ msgs'[tick[k].task] > 0
  PROVE  Executed(t)'
  <1>1. ASSUME NEW k \in Ticker, tick[k].pc = "enqueue", tick[k].task = t
        PROVE  Executed(t)'
    <2>1. tick'[k].pc = "enqueue" /\ tick'[k].task = t
      BY <1>1
    <2> QED BY <2>1 DEF Executed
  <1>2. ASSUME NEW u \in Id, Sent(t, u)
        PROVE  Executed(t)'
    <2>1. Sent(t, u)'
      BY <1>2 DEF Sent
    <2> QED BY <2>1 DEF Executed
  <1> QED BY <1>1, <1>2 DEF Executed

LEMMA ClearedInvStep ==
  ASSUME ~ Faults, ~ Lossy, SchedulerBase, ClearedInv, [SchedulerNext]_svars
  PROVE  ClearedInv'
  <1> SUFFICES ASSUME NEW t \in Id, due'[t] # 0, t \notin dated'
               PROVE  Executed(t)'
    BY DEF ClearedInv
  <1>0. tick \in [Ticker -> Tick] /\ msgs \in [Id -> Nat]
    BY DEF SchedulerBase, SchedulerTypeOK, TypeOK
  <1>1. ASSUME due' = due, dated' = dated
        PROVE  Executed(t)
    BY <1>1 DEF ClearedInv
  <1>2. ASSUME NEW s \in Slot, NEW new \in NewTask, Schedule(s, new) \/ Recur(s, new)
        PROVE  Executed(t)'
    <2>1. Created(NewId, new.type, NoId) /\ UNCHANGED <<dated, due, tick>>
      BY <1>2, CreationEffect
    <2>2. msgs' = msgs
      BY <1>2 DEF Schedule, Recur
    <2>3. \A u \in Id : db[u].cause = t => db'[u].cause = t
      BY <2>1, CausesKept
    <2> QED BY <1>1, <2>1, <2>2, <2>3, ExecutedKept
  <1>3. ASSUME NEW s \in Slot, SetDate(s)
        PROVE  Executed(t)'
    <2>1. /\ t # Task(s) /\ due'[t] = due[t] /\ t \notin dated
          /\ UNCHANGED <<db, msgs, tick>>
      BY <1>3, DateEffect
    <2> QED BY <2>1, ExecutedKept DEF ClearedInv
  <1>4. ASSUME NEW s \in Slot, SetCron(s) \/ CancelRequest(s)
        PROVE  Executed(t)'
    <2>1. UNCHANGED <<dated, due, tick>> /\ \A u \in Id : db'[u].cause = db[u].cause
      BY <1>4, ClientEffect
    <2>2. msgs' = msgs
      BY <1>4 DEF SetCron, CancelRequest, Cancel, CancelTask
    <2> QED BY <1>1, <2>1, <2>2, ExecutedKept
  <1>5. CASE Time \/ UNCHANGED svars
    BY <1>1, <1>5, ExecutedKept DEF Time, svars
  <1>6. ASSUME NEW k \in Ticker, Find(k)
        PROVE  Executed(t)'
    <2>1. /\ tick[k].pc = "idle" /\ \A j \in Ticker \ {k} : tick'[j] = tick[j]
          /\ UNCHANGED <<db, msgs, dated, due>>
      BY <1>6, FindEffect DEF Find
    <2> QED BY <1>1, <2>1, ExecutedKept
  <1>7. ASSUME NEW k \in Ticker, EnqueueCopy(k)
        PROVE  Executed(t)'
    <2>1. /\ tick[k].pc = "enqueue"
          /\ Created(NewId, db[tick[k].task].type, tick[k].task)
          /\ tick'[k].pc = "publish" /\ tick'[k].task = NewId
          /\ \A j \in Ticker \ {k} : tick'[j] = tick[j]
          /\ UNCHANGED <<msgs, dated, due>>
      <3>1. tick[k] \in Tick /\ tick'[k] = [tick[k] EXCEPT !.pc = "publish", !.task = NewId]
        BY <1>0, <1>7, CopyEffect DEF SchedulerBase, SchedulerTypeOK
      <3>2. tick'[k].pc = "publish" /\ tick'[k].task = NewId
        BY <3>1 DEF Tick
      <3> QED BY <1>7, <3>2, CopyEffect
    <2>2. \A u \in Id : db[u].cause = t => db'[u].cause = t
      BY <2>1, CausesKept
    <2>3. CASE tick[k].task = t
      <3>1. PICK n \in Id : n = NewId
        BY <2>1 DEF Created
      <3>2. Sent(t, n)'
        BY <2>1, <2>3, <3>1 DEF Created, Sent
      <3> QED BY <3>2 DEF Executed
    <2>4. CASE tick[k].task # t
      BY <1>1, <2>1, <2>2, <2>4, ExecutedKept
    <2> QED BY <2>3, <2>4
  <1>8. ASSUME NEW k \in Ticker, NEW u \in Id, Clear(k, u)
        PROVE  Executed(t)'
    <2>1. /\ tick[k].pc = "loop" /\ tick'[k].pc = "enqueue" /\ tick'[k].task = u
          /\ \A j \in Ticker \ {k} : tick'[j] = tick[j]
          /\ dated' = dated \ {u} /\ Keeps
          /\ UNCHANGED <<msgs, due>>
      <3>1. tick'[k] = [pc |-> "enqueue", task |-> u, found |-> tick[k].found \ {u},
                        read |-> tick[k].read]
        BY <1>8, ClearEffect
      <3>2. tick'[k].pc = "enqueue" /\ tick'[k].task = u
        BY <3>1
      <3> QED BY <1>8, <3>2, ClearEffect
    <2>2. CASE t = u
      BY <2>1, <2>2 DEF Executed
    <2>3. CASE t # u
      BY <2>1, <2>3, ExecutedKept DEF ClearedInv, Keeps
    <2> QED BY <2>2, <2>3
  <1>9. ASSUME NEW k \in Ticker, Releases(k)
        PROVE  Executed(t)'
    <2>1. /\ UNCHANGED <<db, dated, due>> /\ \A j \in Ticker \ {k} : tick'[j] = tick[j]
      BY <1>9, ReleaseEffect DEF Released
    <2>2. CASE PublishCopy(k)
      <3>1. tick[k].task \in Id /\ tick[k].pc = "publish"
        BY <2>2 DEF PublishCopy, SchedulerBase, TicksNamed
      <3>2. /\ msgs'[tick[k].task] > 0
            /\ \A u \in Id : msgs[u] > 0 => msgs'[u] > 0
        BY <1>0, <2>2, <3>1 DEF PublishCopy, Emit
      <3> QED BY <1>1, <2>1, <3>1, <3>2, ExecutedKept
    <2>3. CASE Done(k) \/ \E u \in Id : Skip(k, u)
      <3>1. tick[k].pc = "loop" /\ msgs' = msgs
        BY <2>3 DEF Done, Skip
      <3> QED BY <1>1, <2>1, <3>1, ExecutedKept
    <2> QED BY <1>9, <2>2, <2>3 DEF Releases, Drop, Crash
  <1> QED BY <1>2, <1>3, <1>4, <1>5, <1>6, <1>7, <1>8, <1>9, SchedulerSteps

\* No task falls between the clearing of its date, after which no run finds it
\* again, and the publication of its copy, however many runs overlap.
THEOREM ClearedTasksAreExecuted ==
  ASSUME ~ Faults, ~ Lossy
  PROVE  SchedulerSpec => []ClearedIsExecuted
  <1>1. SchedulerInit => ClearedInv
    BY DEF SchedulerInit, ClearedInv
  <1>2. SchedulerBase /\ ClearedInv /\ [SchedulerNext]_svars => ClearedInv'
    BY ClearedInvStep
  <1>3. ClearedInv => ClearedIsExecuted
    <2> SUFFICES ASSUME ClearedInv, NEW t \in Id, due[t] # 0 /\ t \notin dated
                 PROVE  \/ Executing(t) # {}
                        \/ \E u \in Copies(t) : msgs[u] > 0 \/ Publishing(u) # {}
      BY DEF ClearedIsExecuted
    <2>1. Executed(t)
      BY DEF ClearedInv
    <2>2. ASSUME NEW u \in Id, Sent(t, u)
          PROVE  u \in Copies(t) /\ (msgs[u] > 0 \/ Publishing(u) # {})
      BY <2>2 DEF Sent, Copies, Publishing
    <2> QED BY <2>1, <2>2 DEF Executed, Executing
  <1> QED BY <1>1, <1>2, <1>3, SchedulerBaseInit, SchedulerBaseStep, PTL DEF SchedulerSpec

===========================================================================
