---------------------------- MODULE FlowProofs ----------------------------
(***************************************************************************)
(* Theorems about how an invoice run goes on: a completed task of it has   *)
(* its successor or a call that makes it, so a run that looks complete is  *)
(* over; and every counted failure of one of its tasks is compensated or   *)
(* about to be.  Unlike what RunProofs says of pending tasks, these hold   *)
(* for every choice of client requests.                                    *)
(***************************************************************************)
EXTENDS RunProofs

---------------------------------------------------------------------------
(* Who follows up a completed task.                                         *)

\* F: where the calls may be that make the successor, or take the completion
\* back.  Neither the successors in X nor the calls in Y count.
Attended(t, Y, F) == \E r \in Slot \ Y : Task(r) = t /\ call[r].pc \in F

Followed(t, X, Y, F) ==
  db[t].status = "completed" /\ Successor(db[t].type) # "none"
    => Successors(t) \ X # {} \/ Attended(t, Y, F)

FollowPC == {"coordinate", "failIncr", "failRead", "failWrite"}

\* While nothing throws that is the call at "coordinate" alone; a call at
\* "complete" may count too.
Follower(F) ==
  \/ F = {"coordinate"} /\ ~ Faults
  \/ F = FollowPC
  \/ F = FollowPC \cup {"complete"}

\* Enough for a step of slot s that completes no task, and makes the
\* successor if it takes the call off the list.
LEMMA FollowedKept ==
  ASSUME NEW s \in Slot, NEW t \in Id, NEW X, NEW Y, NEW F, NEW X1, NEW Y1,
         Followed(t, X, Y, F),
         Y1 \subseteq Y,
         \A r \in Slot \ {s} : call'[r] = call[r],
         db'[t].status = "completed" => db[t].status = "completed",
         db'[t].type = db[t].type,
         Successors(t) \ X \subseteq Successors(t)' \ X1,
         \/ call[s].task # t \/ call[s].pc \notin F \/ s \in Y
         \/ call'[s].task = t /\ call'[s].pc \in F
         \/ Successors(t)' \ X1 # {} \/ db'[t].status # "completed"
  PROVE  Followed(t, X1, Y1, F)'
  <1> SUFFICES ASSUME db'[t].status = "completed", Successor(db'[t].type) # "none",
                      Successors(t)' \ X1 = {}
               PROVE  Attended(t, Y1, F)'
    BY DEF Followed
  <1>1. PICK r \in Slot \ Y : call[r].task = t /\ call[r].pc \in F
    BY DEF Followed, Attended, Task
  <1>2. call'[r].task = t /\ call'[r].pc \in F
    BY <1>1
  <1> QED BY <1>1, <1>2 DEF Attended, Task

\* A new row: another one's, or the successor itself.
LEMMA FollowedCreation ==
  ASSUME Base, Blank, NEW s \in Slot, CreationOf(s),
         NEW t \in Id, NEW X, NEW Y, NEW F, Follower(F), Followed(t, X, Y, F),
         X \cap Fresh = {}
  PROVE  Followed(t, X, Y, F)'
  <1> USE DEF FollowPC, Follower
  <1>1. PICK type, payload, cause, origin, pc :
          /\ Creates(s, type, payload, cause, origin, pc)
          /\ Advance(s) => cause = Task(s) /\ type # "compensation"
    <2>1. CASE Advance(s)
      BY <2>1, AdvanceCreates
    <2>2. CASE ~ Advance(s)
      BY <2>2, CreationSteps
    <2> QED BY <2>1, <2>2
  <1>2. /\ NewId \in Id /\ ~ Exists(NewId)
        /\ \A u \in Id \ {NewId} : db'[u] = db[u]
        /\ db'[NewId].status = "pending" /\ db'[NewId].type = type
        /\ db'[NewId].cause = cause
        /\ \A r \in Slot \ {s} : call'[r] = call[r]
    BY <1>1, InsertEffect, BeginEffect DEF Creates
  <1>3. CASE t = NewId
    BY <1>2, <1>3 DEF Followed
  <1>4. CASE t # NewId
    <2>1. Successors(t) \ X \subseteq Successors(t)' \ X
      BY <1>2, IdAssumption DEF Successors, Blank, NoRow
    <2>2. CASE ~ Advance(s)
      <3>1. call[s].pc \notin F
        BY <2>2 DEF CreationOf, StartInvoiceWorkflow, Enqueue, Compensate, CreateTask,
                    CompensateTask, At
      <3> QED BY <1>2, <1>4, <2>1, <3>1, FollowedKept
    <2>3. CASE Advance(s) /\ Task(s) # t
      BY <1>2, <1>4, <2>1, <2>3, FollowedKept DEF Task
    <2>4. CASE Advance(s) /\ Task(s) = t
      <3>1. PICK n \in Id : n = NewId
        BY <1>2
      <3>2. n \in Successors(t)' \ X
        BY <1>1, <1>2, <2>4, <3>1 DEF Successors, Fresh
      <3> QED BY <1>2, <1>4, <2>1, <3>2, FollowedKept
    <2> QED BY <2>2, <2>3, <2>4
  <1> QED BY <1>3, <1>4

\* Only Complete completes a task, and it calls the coordinator, or the catch
\* block if its statement took effect and threw.
LEMMA FollowedComplete ==
  ASSUME Base, PayloadInv, NEW s \in Slot, Complete(s),
         NEW t \in Id, NEW X, NEW Y, NEW F, Follower(F), Followed(t, X, Y, F),
         s \notin Y
  PROVE  Followed(t, X, Y, F)'
  <1> USE DEF FollowPC, Follower
  <1>1. Task(s) \in Id /\ \A r \in Slot \ {s} : call'[r] = call[r]
    BY GotoEffect, ReturnEffect DEF Complete, Catch, At, Base, NamesExist
  <1>2. Successors(t)' = Successors(t)
    BY SuccessorsKept DEF MarkOf
  <1>3. CASE Task(s) # t
    BY <1>1, <1>2, <1>3, FollowedKept, StatusEffect DEF Complete, Task
  <1>4. CASE Task(s) = t
    <2>1. /\ db'[t].type = db[t].type
          /\ \/ call'[s].task = t /\ call'[s].pc \in F
             \/ db[t].type \notin InvoiceType
      BY <1>1, <1>4, GotoEffect, StatusEffect DEF Complete, Catch, Task
    <2>2. db[t].type \notin InvoiceType => Successor(db[t].type) = "none"
      BY DEF InvoiceType, Successor
    <2> QED BY <2>1, <2>2 DEF Followed, Attended, Task
  <1> QED BY <1>3, <1>4

\* The coordination ends without a successor only where none is due: what it
\* looks for in the payload is there, because the task is completed.
LEMMA FollowedFinish ==
  ASSUME Base, PayloadInv, NEW s \in Slot, Finish(s),
         NEW t \in Id, NEW X, NEW Y, NEW F, Followed(t, X, Y, F)
  PROVE  Followed(t, X, Y, F)'
  <1>1. db' = db /\ \A r \in Slot \ {s} : call'[r] = call[r]
    BY ReturnEffect DEF Finish
  <1>2. Successors(t)' = Successors(t)
    BY <1>1 DEF Successors
  <1>3. CASE Task(s) # t
    BY <1>1, <1>2, <1>3, FollowedKept DEF Task
  <1>4. CASE Task(s) = t
    <2>1. Successor(db[t].type) = "none" \/ Key(db[t].type) \notin db[t].payload
      BY <1>4 DEF Finish
    <2>2. /\ db[t].status = "completed" => Product(db[t].type) \subseteq db[t].payload
          /\ Successor(db[t].type) # "none" => Key(db[t].type) \in Product(db[t].type)
      BY DEF PayloadInv, CompletedHasProduct, Successor, Key, Product
    <2> QED BY <1>1, <2>1, <2>2 DEF Followed
  <1> QED BY <1>3, <1>4

\* The other steps complete nothing, and leave none of the calls that follow
\* up a task but for one of the others, or with the completion taken back.
LEMMA FollowedOther ==
  ASSUME Base, PayloadInv, NEW s \in Slot,
         \/ Start(s) \/ FailWrite(s) \/ Cancel(s) \/ Store(s) \/ FailIncr(s)
         \/ Succeed(s) \/ Fail(s) \/ Throw(s) \/ FailRead(s) \/ Publish(s)
         \/ \E u \in Id : \/ Deliver(s, u) \/ RetryTask(s, u)
                          \/ RequeueTask(s, u) \/ CancelTask(s, u),
         NEW t \in Id, NEW X, NEW Y, NEW F, Follower(F), Followed(t, X, Y, F)
  PROVE  Followed(t, X, Y, F)'
  <1> USE DEF FollowPC, Follower
  <1>1. \/ MarkOf(s) \/ Store(s) \/ FailIncr(s) \/ SilentOf(s)
    BY DEF MarkOf, SilentOf
  <1>2. Successors(t)' = Successors(t)
    BY <1>1, SuccessorsKept
  <1>3. ~ At(s, "idle") => Task(s) \in Id
    BY DEF Base, NamesExist
  <1>4. /\ db'[t].type = db[t].type
        /\ db'[t].status = "completed" => db[t].status = "completed"
    <2>1. CASE Start(s) \/ FailWrite(s) \/ Cancel(s) \/ \E u \in Id : RetryTask(s, u)
      BY <1>3, <2>1, StatusEffect DEF Start, FailWrite, Cancel, RetryTask, At
    <2>2. CASE Store(s) \/ FailIncr(s) \/ SilentOf(s)
      BY <2>2, StoreEffect, FailIncrEffect, SilentSteps
    <2> QED BY <2>1, <2>2 DEF SilentOf
  <1>5. \A r \in Slot \ {s} : call'[r] = call[r]
    <2>1. CASE Succeed(s) \/ FailRead(s)
      BY <2>1 DEF Succeed, FailRead, Base, TypeOK
    <2>2. CASE ~ (Succeed(s) \/ FailRead(s))
      BY <2>2, GotoEffect, BeginEffect, ReturnEffect
         DEF Start, Fail, Store, Throw, FailIncr, FailWrite, Cancel, Catch, Publish,
             Deliver, RetryTask, RequeueTask, CancelTask
    <2> QED BY <2>1, <2>2
  <1>6. CASE call[s].task # t \/ call[s].pc \notin F
    BY <1>2, <1>4, <1>5, <1>6, FollowedKept
  <1>7. CASE call[s].task = t /\ call[s].pc \in F
    <2>1. CASE FailIncr(s)
      BY <1>2, <1>4, <1>5, <1>7, <2>1, GotoEffect, FollowedKept DEF FailIncr, At
    <2>2. CASE FailRead(s)
      <3>1. call'[s].task = t /\ call'[s].pc = "failWrite"
        BY <1>7, <2>2 DEF FailRead, Base, TypeOK, Call, At
      <3> QED BY <1>2, <1>4, <1>5, <1>7, <2>2, <3>1, FollowedKept DEF FailRead, At
    <2>3. CASE FailWrite(s)
      <3>1. db'[t].status \in {"failed", "pending"}
        BY <1>7, <2>3, StatusEffect DEF FailWrite, Task
      <3> QED BY <3>1 DEF Followed
    <2>4. CASE Throw(s)
      BY <1>2, <1>4, <1>5, <1>7, <2>4, GotoEffect, FollowedKept DEF Throw
    <2>5. CASE ~ (FailIncr(s) \/ FailRead(s) \/ FailWrite(s) \/ Throw(s))
      BY <1>7, <2>5 DEF Start, Cancel, Store, Succeed, Fail, Throw, Publish, Deliver,
                        RetryTask, RequeueTask, CancelTask, At
    <2> QED BY <2>1, <2>2, <2>3, <2>4, <2>5
  <1> QED BY <1>6, <1>7

\* Every step but the end of a call.
LEMMA FollowedStep ==
  ASSUME Base, PayloadInv, Blank, NEW s \in Slot,
         Request(s) \/ (\E u \in Id : Deliver(s, u)) \/ Step(s) \/ Throw(s),
         NEW t \in Id, NEW X, NEW Y, NEW F, Follower(F), Followed(t, X, Y, F),
         X \cap Fresh = {}, s \in Y => At(s, "coordinate")
  PROVE  Followed(t, X, Y, F)'
  <1>1. CASE CreationOf(s)
    BY <1>1, FollowedCreation
  <1>2. CASE Complete(s)
    BY <1>2, FollowedComplete DEF Complete, At
  <1>3. CASE Finish(s)
    BY <1>3, FollowedFinish
  <1>4. CASE \/ Start(s) \/ FailWrite(s) \/ Cancel(s) \/ Store(s) \/ FailIncr(s)
             \/ Succeed(s) \/ Fail(s) \/ Throw(s) \/ FailRead(s) \/ Publish(s)
             \/ \E u \in Id : \/ Deliver(s, u) \/ RetryTask(s, u)
                              \/ RequeueTask(s, u) \/ CancelTask(s, u)
    BY <1>4, FollowedOther
  <1> QED BY <1>1, <1>2, <1>3, <1>4 DEF Request, Step, CreationOf

\* The end of a call on another task.
LEMMA FollowedEnd ==
  ASSUME Base, NEW s \in Slot, Return(s), db' = db,
         NEW t \in Id, NEW X, NEW Y, NEW F, Task(s) # t, Followed(t, X, Y, F)
  PROVE  Followed(t, X, Y, F)'
  <1>1. \A r \in Slot \ {s} : call'[r] = call[r]
    BY ReturnEffect
  <1>2. Successors(t)' = Successors(t)
    BY DEF Successors
  <1> QED BY <1>1, <1>2, FollowedKept DEF Task

---------------------------------------------------------------------------
(* A run that looks complete is over.                                       *)

ChainInv ==
  /\ Base /\ PayloadInv /\ Blank /\ SuccessorInv
  /\ \A t \in Id : Followed(t, {}, {}, {"coordinate"})

LEMMA ChainInitial == Init => ChainInv
  <1> SUFFICES ASSUME Init
               PROVE  ChainInv
    OBVIOUS
  <1>1. Base /\ PayloadInv
    BY BaseInit, PayloadInvInit
  <1>2. Blank /\ SuccessorInv
    BY DEF Init, Blank, SuccessorInv, NoRow
  <1>3. \A t \in Id : Followed(t, {}, {}, {"coordinate"})
    BY DEF Init, Followed, NoRow
  <1> QED BY <1>1, <1>2, <1>3 DEF ChainInv

LEMMA ChainStep ==
  ASSUME ~ Faults, ChainInv, [Next]_vars
  PROVE  ChainInv'
  <1>1. Base' /\ PayloadInv' /\ Blank' /\ SuccessorInv'
    BY BaseStep, PayloadInvStep, BlankStep, SuccessorStep DEF ChainInv
  <1>2. ASSUME NEW t \in Id
        PROVE  Followed(t, {}, {}, {"coordinate"})'
    <2> DEFINE F == {"coordinate"}
    <2>1. Followed(t, {}, {}, F) /\ Follower(F)
      BY DEF ChainInv, Follower
    <2>2. CASE UNCHANGED vars
      BY <2>1, <2>2 DEF vars, Followed, Attended, Task, Successors
    <2>3. ASSUME NEW s \in Slot,
                 Request(s) \/ (\E u \in Id : Deliver(s, u)) \/ Step(s) \/ Throw(s)
          PROVE  Followed(t, {}, {}, F)'
      BY <2>1, <2>3, FollowedStep DEF ChainInv
    <2> QED BY <2>2, <2>3 DEF Next, Calm, Abort
  <1> QED BY <1>1, <1>2 DEF ChainInv

\* A completed task in whose run nobody is coordinating has a next task in the
\* run, of the next type.
LEMMA NextInRun ==
  ASSUME ChainInv, NEW t \in Id,
         db[t].status = "completed", Successor(db[t].type) # "none",
         CallsOn(t, {"coordinate"}) = {}
  PROVE  \E u \in Id : db[u].cause = t /\ db[u].type = Successor(db[t].type)
  <1>1. ~ Attended(t, {}, {"coordinate"})
    BY DEF Attended, CallsOn, Task
  <1>2. PICK u \in Id : u \in Successors(t)
    BY <1>1 DEF ChainInv, Followed, Successors
  <1>3. db[u].cause = t /\ db[u].type # "compensation" /\ t # NoId
    BY <1>2, IdAssumption DEF Successors
  <1> QED BY <1>3 DEF ChainInv, SuccessorInv, Succeeds

\* While nothing throws and no process dies, a customer is told that everything
\* is complete only when each run has got its email, a task of it was given up,
\* or a call is about to make the next one, however clients retry and cancel
\* its tasks (calculateWorkflowGroupStatus, handleTaskCompletion).
THEOREM CompleteRunsAreOver ==
  ASSUME ~ Faults
  PROVE  Spec => []CompleteMeansOver
  <1>1. ChainInv => CompleteMeansOver
    <2> SUFFICES ASSUME ChainInv, NEW t \in Id, db[t].type = "fetch_orders",
                        ReportedComplete(CustomerTasks),
                        \A u \in RunOf(t) : /\ db[u].type # "send_email"
                                            /\ db[u].status # "failed"
                                            /\ CallsOn(u, {"coordinate"}) = {}
                 PROVE  FALSE
      BY DEF CompleteMeansOver
    <2> USE DEF InvoiceType
    <2>1. \A u \in RunOf(t) : db[u].status = "completed" /\ CallsOn(u, {"coordinate"}) = {}
      BY DEF ReportedComplete, CustomerTasks, RunOf
    <2>2. t \in RunOf(t) /\ t # NoId
      BY IdAssumption DEF RunOf
    <2>3. PICK u \in Id : db[u].cause = t /\ db[u].type = "create_invoice"
      BY <2>1, <2>2, NextInRun DEF Successor
    <2>4. u \in RunOf(t) /\ Up(u) = t /\ u # NoId
      BY <2>3, IdAssumption DEF RunOf, Up
    <2>5. PICK v \in Id : db[v].cause = u /\ db[v].type = "generate_pdf"
      BY <2>1, <2>3, <2>4, NextInRun DEF Successor
    <2>6. v \in RunOf(t) /\ Up(v) = u /\ v # NoId
      BY <2>4, <2>5, IdAssumption DEF RunOf, Up
    <2>7. PICK w \in Id : db[w].cause = v /\ db[w].type = "send_email"
      BY <2>1, <2>5, <2>6, NextInRun DEF Successor
    <2>8. w \in RunOf(t)
      <3>1. Up(w) = v
        BY <2>7, IdAssumption DEF Up
      <3> QED BY <2>4, <2>6, <2>7, <3>1 DEF RunOf
    <2> QED BY <2>7, <2>8
  <1> QED BY <1>1, ChainInitial, ChainStep, PTL DEF Spec

---------------------------------------------------------------------------
(* Every counted failure of an invoice task has its compensation, or a call *)
(* that is about to make it.                                                *)

Accounted(t) ==
  db[t].type \in InvoiceType =>
    db[t].retries = Cardinality(WorkerCompensations(t)) + Cardinality(CallsOn(t, CountedPC))

\* Only Compensate adds a compensation that is a worker's.
LEMMA CompensationsKept ==
  ASSUME Base, PayloadInv, NEW s \in Slot,
         \/ CreationOf(s) /\ ~ Compensate(s)
         \/ MarkOf(s) \/ Store(s) \/ FailIncr(s) \/ SilentOf(s),
         NEW t \in Id
  PROVE  WorkerCompensations(t)' = WorkerCompensations(t)
  <1>1. CASE CreationOf(s) /\ ~ Compensate(s)
    <2>1. PICK type, payload, cause, origin, pc :
            /\ Creates(s, type, payload, cause, origin, pc)
            /\ type # "compensation" \/ origin # "worker"
      <3>1. CASE Advance(s)
        BY <3>1, AdvanceCreates
      <3>2. CASE ~ Advance(s)
        <4>1. PICK type, payload, cause, pc :
                Creates(s, type, payload, cause, "client", pc)
          BY <1>1, <3>2, ClientCreations
        <4> QED BY <4>1
      <3> QED BY <3>1, <3>2
    <2>2. /\ NewId \in Id /\ \A u \in Id \ {NewId} : db'[u] = db[u]
          /\ db'[NewId].type # "compensation" \/ db'[NewId].origin # "worker"
          /\ db[NewId].type # "compensation"
      BY <2>1, InsertEffect DEF Creates, Base, RowsNamed
    <2>3. PICK n \in Id :
            /\ \A u \in Id \ {n} : db'[u] = db[u]
            /\ db'[n].type # "compensation" \/ db'[n].origin # "worker"
            /\ db[n].type # "compensation"
      BY <2>2
    <2> QED BY <2>3 DEF WorkerCompensations
  <1>2. CASE MarkOf(s) \/ Store(s) \/ FailIncr(s) \/ SilentOf(s)
    <2>1. \A u \in Id : /\ db'[u].type = db[u].type /\ db'[u].cause = db[u].cause
                        /\ db'[u].origin = db[u].origin
      <3>1. CASE MarkOf(s)
        BY <3>1, MarkSteps, StatusEffect DEF Marks
      <3>2. CASE Store(s) \/ FailIncr(s) \/ SilentOf(s)
        BY <3>2, StoreEffect, FailIncrEffect, SilentSteps
      <3> QED BY <1>2, <3>1, <3>2
    <2> QED BY <2>1 DEF WorkerCompensations
  <1> QED BY <1>1, <1>2

\* The silent steps but for the end of a call that is cut short.
GoesOn(s) ==
  \/ Succeed(s) \/ Fail(s) \/ Throw(s) \/ FailRead(s) \/ Finish(s) \/ Publish(s)
  \/ \E u \in Id : Deliver(s, u) \/ RequeueTask(s, u) \/ CancelTask(s, u)

\* A call with a counted failure of an invoice task keeps it until Compensate,
\* unless the call is cut short.
LEMMA CountedKept ==
  ASSUME Base, NEW s \in Slot,
         \/ CreationOf(s) /\ ~ Compensate(s)
         \/ MarkOf(s) \/ Store(s) \/ GoesOn(s),
         NEW t \in Id, db[t].type \in InvoiceType
  PROVE  CallsOn(t, CountedPC)' = CallsOn(t, CountedPC)
  <1>1. CallsOn(t, CountedPC)' \subseteq CallsOn(t, CountedPC)
    BY CountedStep DEF GoesOn, SilentOf
  <1>2. \A r \in Slot \ {s} : call'[r] = call[r]
    <2>1. CASE CreationOf(s)
      BY <2>1, CreationSteps, BeginEffect DEF Creates
    <2>2. CASE Succeed(s) \/ FailRead(s)
      BY <2>2 DEF Succeed, FailRead, Base, TypeOK
    <2>3. CASE ~ CreationOf(s) /\ ~ (Succeed(s) \/ FailRead(s))
      BY <2>3, GotoEffect, BeginEffect, ReturnEffect
         DEF MarkOf, GoesOn, Start, Fail, Store, Complete, Throw, FailWrite, Finish, Cancel,
             Catch, Publish, Deliver, RetryTask, RequeueTask, CancelTask
    <2> QED BY <2>1, <2>2, <2>3
  <1>3. ASSUME call[s].task = t, call[s].pc \in CountedPC
        PROVE  call'[s].task = t /\ call'[s].pc \in CountedPC
    <2>1. FailRead(s) \/ FailWrite(s)
      BY <1>3 DEF CountedPC, CreationOf, MarkOf, GoesOn, StartInvoiceWorkflow, Enqueue,
                  Advance, Compensate, CreateTask, CompensateTask, Start, Complete, Cancel,
                  RetryTask, Store, Succeed, Fail, Throw, Finish, Publish, Deliver,
                  RequeueTask, CancelTask, At
    <2>2. CASE FailRead(s)
      BY <1>3, <2>2 DEF FailRead, Base, TypeOK, Call, CountedPC
    <2>3. CASE FailWrite(s)
      <3>1. Goto(s, "compensate")
        BY <1>3, <2>3 DEF FailWrite, Task
      <3> QED BY <1>3, <3>1, GotoEffect DEF CountedPC
    <2> QED BY <2>1, <2>2, <2>3
  <1>4. CallsOn(t, CountedPC) \subseteq CallsOn(t, CountedPC)'
    BY <1>2, <1>3 DEF CallsOn, Task
  <1> QED BY <1>1, <1>4

\* FailIncr adds one to both sides ...
LEMMA AccountedCount ==
  ASSUME Base, PayloadInv, NEW s \in Slot, FailIncr(s), NEW t \in Id, Accounted(t)
  PROVE  Accounted(t)'
  <1> DEFINE W == WorkerCompensations(t)  C == CallsOn(t, CountedPC)
             C1 == CallsOn(t, CountedPC)'
  <1>1. /\ call'[s].pc = "failRead" /\ call'[s].task = Task(s)
        /\ \A r \in Slot \ {s} : call'[r] = call[r]
        /\ call[s].pc = "failIncr"
    BY GotoEffect DEF FailIncr, At, Task
  <1>2. W' = W
    BY CompensationsKept
  <1>3. db'[t].type = db[t].type
    BY FailIncrEffect
  <1>4. IsFiniteSet(C) /\ Cardinality(C) \in Nat /\ Cardinality(W) \in Nat
    BY FiniteParts
  <1>5. CASE Task(s) # t
    <2>1. C1 = C /\ db'[t].retries = db[t].retries
      BY <1>1, <1>5, FailIncrEffect DEF CallsOn, Task, CountedPC
    <2> QED BY <1>2, <1>3, <2>1 DEF Accounted
  <1>6. CASE Task(s) = t
    <2>1. C1 = C \cup {s} /\ s \notin C
      BY <1>1, <1>6 DEF CallsOn, Task, CountedPC
    <2>2. db'[t].retries = db[t].retries + 1
      BY <1>6, FailIncrEffect
    <2>3. Cardinality(C1) = Cardinality(C) + 1
      <3> HIDE DEF C, C1
      <3> QED BY <1>4, <2>1, FS_AddElement
    <2>4. db[t].type \in InvoiceType => db[t].retries = Cardinality(W) + Cardinality(C)
      BY DEF Accounted
    <2>5. db[t].type \in InvoiceType => db'[t].retries = Cardinality(W) + Cardinality(C1)
      <3> HIDE DEF W, C, C1
      <3> QED BY <1>4, <2>2, <2>3, <2>4
    <2> QED BY <1>2, <1>3, <2>5 DEF Accounted
  <1> QED BY <1>5, <1>6

\* ... and Compensate turns a call into a compensation.
LEMMA AccountedCompensate ==
  ASSUME Base, NEW s \in Slot, Compensate(s), NEW t \in Id, Accounted(t)
  PROVE  Accounted(t)'
  <1> DEFINE W == WorkerCompensations(t)  C == CallsOn(t, CountedPC)
             W1 == WorkerCompensations(t)'  C1 == CallsOn(t, CountedPC)'
  <1>1. PICK n \in Id :
          /\ ~ Exists(n)
          /\ \A u \in Id \ {n} : db'[u] = db[u]
          /\ db'[n].type = "compensation" /\ db'[n].origin = "worker"
          /\ db'[n].cause = Task(s)
    BY CompensateCreates, InsertEffect DEF Creates
  <1>2. /\ call'[s].pc = "publish" /\ call[s].pc = "compensate"
        /\ \A r \in Slot \ {s} : call'[r] = call[r]
    BY CompensateCreates, BeginEffect DEF Creates, At
  <1>3. CASE t = n
    <2>1. db'[t].type \notin InvoiceType
      BY <1>1, <1>3 DEF InvoiceType
    <2> QED BY <2>1 DEF Accounted
  <1>4. CASE t # n /\ Task(s) # t
    <2>1. n \notin W
      BY <1>1 DEF WorkerCompensations, Base, RowsNamed, Exists
    <2>2. W1 = W
      BY <1>1, <1>4, <2>1 DEF WorkerCompensations
    <2>3. C1 = C
      BY <1>2, <1>4 DEF CallsOn, Task, CountedPC
    <2> QED BY <1>1, <1>4, <2>2, <2>3 DEF Accounted
  <1>5. CASE t # n /\ Task(s) = t
    <2>1. n \notin W /\ W1 = W \cup {n}
      BY <1>1, <1>5 DEF WorkerCompensations, Base, RowsNamed, Exists
    <2>2. s \in C /\ C1 = C \ {s}
      BY <1>2, <1>5 DEF CallsOn, Task, CountedPC
    <2>3. /\ IsFiniteSet(W) /\ Cardinality(W) \in Nat
          /\ IsFiniteSet(C) /\ Cardinality(C) \in Nat
      BY FiniteParts
    <2>4. db[t].type \in InvoiceType => db[t].retries = Cardinality(W) + Cardinality(C)
      BY DEF Accounted
    <2>5. db[t].type \in InvoiceType => db[t].retries = Cardinality(W1) + Cardinality(C1)
      <3> HIDE DEF W, C, W1, C1
      <3>1. Cardinality(W1) = Cardinality(W) + 1
        BY <2>1, <2>3, FS_AddElement
      <3>2. Cardinality(C1) = Cardinality(C) - 1
        BY <2>2, <2>3, FS_RemoveElement
      <3> QED BY <2>3, <2>4, <3>1, <3>2
    <2> QED BY <1>1, <1>5, <2>5 DEF Accounted
  <1> QED BY <1>3, <1>4, <1>5

\* Every step but the end of a call.
LEMMA AccountedStep ==
  ASSUME Base, PayloadInv, NEW s \in Slot,
         Request(s) \/ (\E u \in Id : Deliver(s, u)) \/ Step(s) \/ Throw(s),
         NEW t \in Id, Accounted(t)
  PROVE  Accounted(t)'
  <1>1. CASE Compensate(s)
    BY <1>1, AccountedCompensate
  <1>2. CASE FailIncr(s)
    BY <1>2, AccountedCount
  <1>3. CASE CreationOf(s) /\ ~ Compensate(s)
    <2>1. WorkerCompensations(t)' = WorkerCompensations(t)
      BY <1>3, CompensationsKept
    <2>2. PICK n \in Id : /\ ~ Exists(n) /\ db'[n].retries = 0
                          /\ \A u \in Id \ {n} : db'[u] = db[u]
      BY <1>3, CreationSteps, InsertEffect DEF Creates
    <2>3. CASE t = n
      <3>1. WorkerCompensations(t) = {} /\ CallsOn(t, CountedPC) = {}
        BY <2>2, <2>3, NothingOnMissing DEF CountedPC
      <3>2. CallsOn(t, CountedPC)' = {}
        BY <1>3, <3>1, CountedStep
      <3> QED BY <2>1, <2>2, <2>3, <3>1, <3>2, FS_EmptySet DEF Accounted
    <2>4. CASE t # n
      <3>1. db[t].type \in InvoiceType => CallsOn(t, CountedPC)' = CallsOn(t, CountedPC)
        BY <1>3, CountedKept
      <3> QED BY <2>1, <2>2, <2>4, <3>1 DEF Accounted
    <2> QED BY <2>3, <2>4
  <1>4. CASE MarkOf(s) \/ Store(s) \/ GoesOn(s)
    <2>1. WorkerCompensations(t)' = WorkerCompensations(t)
      BY <1>4, CompensationsKept DEF GoesOn, SilentOf
    <2>2. db'[t].type = db[t].type /\ db'[t].retries = db[t].retries
      <3>1. CASE MarkOf(s)
        BY <3>1, MarkSteps, StatusEffect DEF Marks
      <3>2. CASE Store(s) \/ GoesOn(s)
        BY <3>2, StoreEffect, SilentSteps DEF GoesOn, SilentOf
      <3> QED BY <1>4, <3>1, <3>2
    <2>3. db[t].type \in InvoiceType => CallsOn(t, CountedPC)' = CallsOn(t, CountedPC)
      BY <1>4, CountedKept
    <2> QED BY <2>1, <2>2, <2>3 DEF Accounted
  <1> QED BY <1>1, <1>2, <1>3, <1>4 DEF Request, Step, CreationOf, MarkOf, GoesOn

\* The end of a call on another task.
LEMMA AccountedEnd ==
  ASSUME Base, NEW s \in Slot, Return(s), db' = db,
         NEW t \in Id, Task(s) # t, Accounted(t)
  PROVE  Accounted(t)'
  <1>1. \A r \in Slot \ {s} : call'[r] = call[r]
    BY ReturnEffect
  <1>2. call'[s].pc \notin CountedPC
    BY ReturnEffect DEF CountedPC
  <1>3. CallsOn(t, CountedPC)' = CallsOn(t, CountedPC)
    BY <1>1, <1>2 DEF CallsOn, Task
  <1>4. WorkerCompensations(t)' = WorkerCompensations(t)
    BY DEF WorkerCompensations
  <1> QED BY <1>3, <1>4 DEF Accounted

===========================================================================
