------------------------- MODULE DeploymentProofs -------------------------
(***************************************************************************)
(* Theorems about the deployed application: whatever the instances do, a   *)
(* deployment is a behaviour of QueueWorker with faults, so that its       *)
(* theorems hold of it; and the tasks it loses are those that were struck. *)
(***************************************************************************)
EXTENDS Deployment, FlowProofs

---------------------------------------------------------------------------
(* Refinement *)

LEMMA PhaseStep ==
  ASSUME NEW i \in Instance, Boot(i) \/ Connect(i) \/ Disconnect(i) \/ Die(i)
  PROVE  /\ UNCHANGED <<db, msgs, call, struck, superseded, behind>>
         /\ \E p \in Phase : phase' = [phase EXCEPT ![i] = p]
  BY DEF Boot, Connect, Disconnect, Die, Enter, Phase, replaced

LEMMA StepIsStep ==
  ASSUME Faults, [DeploymentNext]_dvars
  PROVE  [Next]_vars
  <1>1. ASSUME NEW i \in Instance, Boot(i) \/ Connect(i) \/ Disconnect(i) \/ Die(i)
        PROVE  [Next]_vars
    BY <1>1, PhaseStep DEF vars
  <1>2. ASSUME NEW s \in Slot, Accept(s) \/ Work(s) \/ Transmit(s) \/ CutShort(s)
        PROVE  [Next]_vars
    BY <1>2 DEF Accept, Work, Transmit, CutShort, Next, Calm, Step
  <1>3. ASSUME NEW s \in Slot, Refuse(s)
        PROVE  [Next]_vars
    <2>1. Abort(s)
      BY <1>3 DEF Refuse, Abort, At
    <2> QED BY <2>1 DEF Next, Calm
  <1>4. CASE UNCHANGED dvars
    BY <1>4 DEF dvars, vars
  <1> QED BY <1>1, <1>2, <1>3, <1>4 DEF DeploymentNext

\* Starting, stopping, refusing and losing are all faults of the kind that
\* QueueWorker allows for: what is true of it with faults is true of every
\* deployment.
THEOREM DeploymentIsQueueWorker ==
  ASSUME Faults
  PROVE  DeploymentSpec => Spec
  <1>1. DeploymentInit => Init
    BY DEF DeploymentInit
  <1>2. [DeploymentNext]_dvars => [Next]_vars
    BY StepIsStep
  <1> QED BY <1>1, <1>2, PTL DEF DeploymentSpec, Spec

\* The properties of the application that hold however its instances come
\* and go: references, results, compensations and the ledger.
THEOREM DeploymentKeeps ==
  ASSUME Faults
  PROVE  DeploymentSpec => /\ []NamesExist /\ []FailedIsExhausted /\ []CompletedHasProduct
                           /\ []CompensationsBounded /\ []SuccessorsRunnable
                           /\ ImplementsLedger
  BY DeploymentIsQueueWorker, NoDanglingReference, GivenUpOnlyWhenExhausted,
     CompletedTasksHaveResults, NoCompensationWithoutFailure, SuccessorsHaveInputs,
     LedgerIsImplemented

---------------------------------------------------------------------------
(* Typing *)

LEMMA CallsHaveTasks ==
  ASSUME Base, NEW s \in Slot, ~ At(s, "idle")
  PROVE  Task(s) \in Id
  BY DEF Base, NamesExist

LEMMA StruckTyped ==
  ASSUME Base, struck \subseteq Id, [DeploymentNext]_dvars
  PROVE  struck' \subseteq Id
  <1>1. ASSUME NEW s \in Slot, Refuse(s) \/ Transmit(s) \/ CutShort(s)
        PROVE  struck' \subseteq Id
    <2>1. Task(s) \in Id
      BY <1>1, CallsHaveTasks DEF Refuse, Transmit, CutShort, Publish, Abort, At
    <2> QED BY <1>1, <2>1 DEF Refuse, Transmit, CutShort, Strike
  <1> QED BY <1>1, PhaseStep DEF DeploymentNext, Accept, Work, dvars

LEMMA PhaseTyped ==
  ASSUME phase \in [Instance -> Phase], [DeploymentNext]_dvars
  PROVE  phase' \in [Instance -> Phase]
  <1>1. ASSUME NEW i \in Instance, Boot(i) \/ Connect(i) \/ Disconnect(i) \/ Die(i)
        PROVE  phase' \in [Instance -> Phase]
    BY <1>1, PhaseStep
  <1> QED BY <1>1 DEF DeploymentNext, Accept, Work, Refuse, Transmit, CutShort, dvars

\* What the histories hold: tasks that are there, and calls that coordinate.
HistoryInv ==
  /\ \A u \in superseded : u \in Id /\ Exists(u)
  /\ \A r \in behind : r \in Slot /\ At(r, "coordinate")

LEMMA OtherCallsStay ==
  ASSUME Base, NEW s \in Slot, Work(s) \/ Accept(s) \/ Refuse(s) \/ Transmit(s) \/ CutShort(s)
  PROVE  \A r \in Slot \ {s} : call'[r] = call[r]
  <1>1. CASE \/ CreationOf(s) \/ MarkOf(s) \/ Store(s) \/ FailIncr(s) \/ Fail(s) \/ Throw(s)
             \/ Finish(s) \/ Abort(s) \/ Publish(s) \/ Return(s)
             \/ \E t \in Id : Deliver(s, t) \/ RequeueTask(s, t) \/ CancelTask(s, t)
    <2>1. CASE CreationOf(s)
      BY <2>1, CreationSteps, BeginEffect DEF Creates
    <2>2. CASE ~ CreationOf(s)
      BY <1>1, <2>2, GotoEffect, BeginEffect, ReturnEffect
         DEF MarkOf, Start, Complete, FailWrite, Cancel, RetryTask, Store, FailIncr, Fail,
             Throw, Finish, Abort, Publish, Catch, Deliver, RequeueTask, CancelTask
    <2> QED BY <2>1, <2>2
  <1>2. CASE Succeed(s) \/ FailRead(s)
    BY <1>2 DEF Succeed, FailRead, Base, TypeOK
  <1> QED BY <1>1, <1>2 DEF Work, Accept, Refuse, Transmit, CutShort, Request, Step,
                            CreationOf, MarkOf

LEMMA HistoryStep ==
  ASSUME Faults, Base, PayloadInv, Blank, HistoryInv, [DeploymentNext]_dvars
  PROVE  HistoryInv'
  <1>1. Base' /\ \A u \in Id : Exists(u) => Exists(u)'
    BY StepIsStep, BaseStep, RowStep
  <1>2. CASE UNCHANGED <<superseded, behind, call>>
    BY <1>1, <1>2 DEF HistoryInv, At
  <1>3. ASSUME NEW s \in Slot,
               Work(s) \/ Accept(s) \/ Refuse(s) \/ Transmit(s) \/ CutShort(s),
               \A u \in superseded' : u \in superseded \/ (u \in Id /\ Exists(u)'),
               \A r \in behind' : r # s /\ r \in Slot /\ At(r, "coordinate")
        PROVE  HistoryInv'
    <2>1. \A r \in Slot \ {s} : At(r, "coordinate") => At(r, "coordinate")'
      BY <1>3, OtherCallsStay DEF At
    <2>2. \A u \in superseded' : u \in Id /\ Exists(u)'
      BY <1>1, <1>3 DEF HistoryInv
    <2> QED BY <1>3, <2>1, <2>2 DEF HistoryInv
  <1>4. ASSUME NEW s \in Slot, Accept(s) \/ Refuse(s) \/ Transmit(s)
        PROVE  HistoryInv'
    <2>1. UNCHANGED <<superseded, behind>> /\ ~ At(s, "coordinate")
      BY <1>4 DEF Accept, Refuse, Transmit, replaced, Request, Deliver, Publish, At,
                  CreateTask, StartInvoiceWorkflow, RetryTask, RequeueTask, CancelTask,
                  CompensateTask
    <2> QED BY <1>3, <1>4, <2>1 DEF HistoryInv
  <1>5. ASSUME NEW s \in Slot, CutShort(s)
        PROVE  HistoryInv'
    BY <1>3, <1>5 DEF CutShort, HistoryInv
  <1>6. ASSUME NEW s \in Slot, Work(s)
        PROVE  HistoryInv'
    <2>1. CASE Store(s) /\ Replace(s)
      <3>1. Task(s) \in Id /\ ~ At(s, "coordinate")
        BY <2>1, CallsHaveTasks DEF Store, At
      <3>2. \A u \in superseded' : u \in superseded \/ (u \in Id /\ Exists(u)')
        BY <1>1, <2>1, <3>1, IdAssumption DEF Replace, Successors, Blank, NoRow
      <3>3. \A r \in behind' : r # s /\ r \in Slot /\ At(r, "coordinate")
        BY <2>1, <3>1 DEF Replace, CallsOn, HistoryInv, At
      <3> QED BY <1>3, <1>6, <3>2, <3>3
    <2>2. CASE Advance(s) /\ HandOn(s)
      <3>1. PICK n \in Id : n = NewId /\ Exists(n)'
        BY <2>2, AdvanceCreates, InsertEffect DEF Creates, Exists
      <3>2. \A u \in superseded' : u \in superseded \/ (u \in Id /\ Exists(u)')
        BY <2>2, <3>1 DEF HandOn
      <3> QED BY <1>3, <1>6, <2>2, <3>2 DEF HandOn, HistoryInv
    <2>3. CASE behind' = behind \ {s} /\ UNCHANGED superseded
      BY <1>3, <1>6, <2>3 DEF HistoryInv
    <2> QED BY <1>6, <2>1, <2>2, <2>3 DEF Work
  <1> QED BY <1>2, <1>4, <1>5, <1>6, PhaseStep DEF DeploymentNext, dvars

\* Typing of a deployment's state.
THEOREM DeploymentTyping ==
  ASSUME Faults
  PROVE  DeploymentSpec => []DeploymentTypeOK
  <1> DEFINE Inv == /\ Base /\ PayloadInv /\ Blank /\ HistoryInv
                    /\ struck \subseteq Id /\ phase \in [Instance -> Phase]
  <1>1. DeploymentInit => Inv
    BY BaseInit, PayloadInvInit DEF DeploymentInit, Init, Phase, HistoryInv, Blank, NoRow
  <1>2. Inv /\ [DeploymentNext]_dvars => Inv'
    BY StepIsStep, BaseStep, PayloadInvStep, BlankStep, HistoryStep, StruckTyped, PhaseTyped
  <1>3. Inv => DeploymentTypeOK
    BY DEF DeploymentTypeOK, Base, HistoryInv
  <1> QED BY <1>1, <1>2, <1>3, PTL DEF DeploymentSpec

---------------------------------------------------------------------------
(* What is lost.  The invariant says of every task but the struck ones that *)
(* somebody tends to it; FailIncr may be what carries a pending task, for   *)
(* a statement before it may throw.                                         *)

Hands == {"publish", "start", "failIncr"}

SurvivalInv ==
  /\ Base /\ PayloadInv /\ FailingInv
  /\ \A t \in Id \ struck : Tended(t, Hands)

\* A call that ends leaves alone every task but its own.
LEMMA TendedEnd ==
  ASSUME Base, NEW s \in Slot, Return(s), UNCHANGED <<db, msgs>>,
         NEW t \in Id, Task(s) # t, Tended(t, Hands)
  PROVE  Tended(t, Hands)'
  <1>1. /\ \A r \in Slot \ {s} : call'[r] = call[r]
        /\ db'[t] = db[t] /\ msgs'[t] = msgs[t] /\ call[s].task # t
    BY ReturnEffect DEF Task
  <1> QED BY <1>1, TendedElsewhere

LEMMA SurvivalStep ==
  ASSUME Faults, "start" \notin Api, SurvivalInv, [DeploymentNext]_dvars
  PROVE  SurvivalInv'
  <1>1. Base' /\ PayloadInv' /\ FailingInv'
    BY StepIsStep, BaseStep, PayloadInvStep, FailingStep DEF SurvivalInv
  <1>2. SUFFICES ASSUME NEW t \in Id, t \notin struck'
                 PROVE  Tended(t, Hands)'
    BY <1>1 DEF SurvivalInv
  <1>3. Carriers(Hands)
    BY DEF Carriers, Hands
  <1>4. CASE struck' = struck /\ UNCHANGED <<db, msgs, call>>
    <2>1. Tended(t, Hands)
      BY <1>2, <1>4 DEF SurvivalInv
    <2> QED BY <1>4, <2>1 DEF Tended, Carried0, On
  <1>5. ASSUME NEW s \in Slot, Accept(s) \/ Work(s)
        PROVE  Tended(t, Hands)'
    <2>1. Tended(t, Hands)
      BY <1>2, <1>5 DEF SurvivalInv, Accept, Work
    <2>2. \/ Request(s) \/ (\E u \in Id : Deliver(s, u))
          \/ (Step(s) /\ ~ Publish(s)) \/ Throw(s)
      <3>1. Store(s) \/ Advance(s) => Step(s)
        BY DEF Step
      <3> QED BY <1>5, <3>1 DEF Accept, Work, Publish
    <2> QED BY <1>3, <2>1, <2>2, TendedStep DEF SurvivalInv
  <1>6. ASSUME NEW s \in Slot, Refuse(s) \/ CutShort(s)
        PROVE  Tended(t, Hands)'
    <2>1. t \notin struck /\ Task(s) # t
      BY <1>2, <1>6 DEF Refuse, CutShort, Strike
    <2>2. Tended(t, Hands)
      BY <2>1 DEF SurvivalInv
    <2> QED BY <1>6, <2>1, <2>2, TendedEnd DEF SurvivalInv, Refuse, CutShort, Abort
  <1>7. ASSUME NEW s \in Slot, Transmit(s)
        PROVE  Tended(t, Hands)'
    <2>1. t \notin struck /\ (Task(s) # t \/ msgs' # msgs)
      BY <1>2, <1>7 DEF Transmit, Strike
    <2>2. Tended(t, Hands)
      BY <2>1 DEF SurvivalInv
    <2> QED BY <1>7, <2>1, <2>2, TendedPublish DEF SurvivalInv, Transmit
  <1> QED BY <1>4, <1>5, <1>6, <1>7, PhaseStep DEF DeploymentNext, dvars

LEMMA SurvivalInvariant ==
  ASSUME Faults, "start" \notin Api
  PROVE  DeploymentSpec => []SurvivalInv
  <1>1. DeploymentInit => SurvivalInv
    BY TendedInit DEF DeploymentInit, SurvivalInv
  <1>2. SurvivalInv /\ [DeploymentNext]_dvars => SurvivalInv'
    BY SurvivalStep
  <1> QED BY <1>1, <1>2, PTL DEF DeploymentSpec

\* Nothing is lost but what was struck, in whatever way instances start, stop
\* and fail.
THEOREM OnlyTheStruckAreStranded ==
  ASSUME Faults, "start" \notin Api
  PROVE  DeploymentSpec => []StrandedOnlyWhenStruck
  <1>1. SurvivalInv => StrandedOnlyWhenStruck
    <2> SUFFICES ASSUME SurvivalInv, NEW t \in Id, t \notin struck
                 PROVE  /\ db[t].status = "pending" /\ db[t].retries = 0
                             => msgs[t] > 0 \/ CallsOn(t, Hands) # {}
                        /\ db[t].status = "processing" => CallsOn(t, OwnerPC) # {}
      BY DEF StrandedOnlyWhenStruck, Hands, OwnerPC
    <2>1. Tended(t, Hands)
      BY DEF SurvivalInv
    <2> QED BY <2>1 DEF Tended, Carried0, On, CallsOn, Task
  <1> QED BY <1>1, SurvivalInvariant, PTL

---------------------------------------------------------------------------
(* What stops a run, and which failures are forgotten: of the tasks that    *)
(* were not struck, every completed one is followed up and every failure is *)
(* accounted for.  Here clients may start workflows too.                    *)

FlowInv ==
  /\ Base /\ PayloadInv /\ Blank
  /\ \A t \in Id \ struck : Followed(t, {}, {}, FollowPC) /\ Accounted(t)

LEMMA FlowStep ==
  ASSUME Faults, FlowInv, [DeploymentNext]_dvars
  PROVE  FlowInv'
  <1>1. Base' /\ PayloadInv' /\ Blank'
    BY StepIsStep, BaseStep, PayloadInvStep, BlankStep DEF FlowInv
  <1>2. SUFFICES ASSUME NEW t \in Id, t \notin struck'
                 PROVE  Followed(t, {}, {}, FollowPC)' /\ Accounted(t)'
    BY <1>1 DEF FlowInv
  <1>3. Follower(FollowPC)
    BY DEF Follower
  <1>4. CASE struck' = struck /\ UNCHANGED <<db, msgs, call>>
    <2>1. Followed(t, {}, {}, FollowPC) /\ Accounted(t)
      BY <1>2, <1>4 DEF FlowInv
    <2>2. /\ Successors(t)' = Successors(t) /\ Attended(t, {}, FollowPC)' = Attended(t, {}, FollowPC)
          /\ WorkerCompensations(t)' = WorkerCompensations(t)
          /\ CallsOn(t, CountedPC)' = CallsOn(t, CountedPC)
      BY <1>4 DEF Successors, Attended, WorkerCompensations, CallsOn, Task
    <2> QED BY <1>4, <2>1, <2>2 DEF Followed, Accounted
  <1>5. ASSUME NEW s \in Slot, t \notin struck,
               Request(s) \/ (\E u \in Id : Deliver(s, u)) \/ Step(s) \/ Throw(s)
        PROVE  Followed(t, {}, {}, FollowPC)' /\ Accounted(t)'
    BY <1>3, <1>5, FollowedStep, AccountedStep DEF FlowInv
  <1>6. ASSUME NEW s \in Slot, Accept(s) \/ Work(s) \/ Transmit(s)
        PROVE  Followed(t, {}, {}, FollowPC)' /\ Accounted(t)'
    <2>1. t \notin struck
      BY <1>2, <1>6 DEF Accept, Work, Transmit, Strike
    <2> QED BY <1>5, <1>6, <2>1 DEF Accept, Work, Transmit, Step
  <1>7. ASSUME NEW s \in Slot, Refuse(s) \/ CutShort(s)
        PROVE  Followed(t, {}, {}, FollowPC)' /\ Accounted(t)'
    <2>1. t \notin struck /\ Task(s) # t
      BY <1>2, <1>7 DEF Refuse, CutShort, Strike
    <2>2. Return(s) /\ db' = db
      BY <1>7 DEF Refuse, CutShort, Abort
    <2> QED BY <2>1, <2>2, FollowedEnd, AccountedEnd DEF FlowInv
  <1> QED BY <1>4, <1>6, <1>7, PhaseStep DEF DeploymentNext, dvars

LEMMA FlowInvariant ==
  ASSUME Faults
  PROVE  DeploymentSpec => []FlowInv
  <1>1. DeploymentInit => FlowInv
    <2> SUFFICES ASSUME DeploymentInit
                 PROVE  FlowInv
      OBVIOUS
    <2>1. Base /\ PayloadInv
      BY BaseInit, PayloadInvInit DEF DeploymentInit
    <2>2. Blank /\ \A t \in Id : Followed(t, {}, {}, FollowPC) /\ Accounted(t)
      BY DEF DeploymentInit, Init, Blank, Followed, Accounted, NoRow, InvoiceType
    <2> QED BY <2>1, <2>2 DEF FlowInv
  <1>2. FlowInv /\ [DeploymentNext]_dvars => FlowInv'
    BY FlowStep
  <1> QED BY <1>1, <1>2, PTL DEF DeploymentSpec

\* An invoice run only stops at a struck task, whatever clients ask for.
THEOREM OnlyTheStruckStopRuns ==
  ASSUME Faults
  PROVE  DeploymentSpec => []RunsStopOnlyWhenStruck
  <1>1. FlowInv => RunsStopOnlyWhenStruck
    <2> SUFFICES ASSUME FlowInv, NEW t \in Id, t \notin struck,
                        db[t].status = "completed", Successor(db[t].type) # "none"
                 PROVE  Successors(t) # {} \/ CallsOn(t, FollowPC) # {}
      BY DEF RunsStopOnlyWhenStruck, FollowPC
    <2>1. Followed(t, {}, {}, FollowPC)
      BY DEF FlowInv
    <2> QED BY <2>1 DEF Followed, Attended, CallsOn, Task
  <1> QED BY <1>1, FlowInvariant, PTL

\* ... and a counted failure of an invoice task goes without its compensation
\* only when the task was struck: the number of compensations, with the calls
\* that will make one, is the number of failures.
THEOREM OnlyTheStruckGoUncompensated ==
  ASSUME Faults
  PROVE  DeploymentSpec => []UncompensatedOnlyWhenStruck
  <1>1. FlowInv => UncompensatedOnlyWhenStruck
    BY DEF FlowInv, Accounted, UncompensatedOnlyWhenStruck, CountedPC
  <1> QED BY <1>1, FlowInvariant, PTL

---------------------------------------------------------------------------
(* The last result is what the run goes on with.  What counts as following  *)
(* up a completed task is a successor that is not superseded, or a call     *)
(* that is not behind; a call at "complete" counts too, for the result that *)
(* its attempt has just stored.                                             *)

LatestPC == {"complete", "coordinate", "failIncr", "failRead", "failWrite"}

PassedOn(t) == Followed(t, superseded, behind, LatestPC)

LatestInv ==
  /\ Base /\ PayloadInv /\ Blank /\ HistoryInv
  /\ \A t \in Id \ struck : PassedOn(t)

LEMMA LatestFollower == Follower(LatestPC)
  <1>1. LatestPC = FollowPC \cup {"complete"}
    BY DEF LatestPC, FollowPC
  <1> QED BY <1>1 DEF Follower

\* A step that adds nothing to the histories but for taking a call off them.
LEMMA LatestQuiet ==
  ASSUME LatestInv, NEW s \in Slot, NEW t \in Id, PassedOn(t),
         Request(s) \/ (\E u \in Id : Deliver(s, u)) \/ Step(s) \/ Throw(s),
         superseded' = superseded, behind' \subseteq behind
  PROVE  PassedOn(t)'
  <1>1. PICK X, Y : X = superseded /\ Y = behind
    OBVIOUS
  <1>2. X \cap Fresh = {} /\ (s \in Y => At(s, "coordinate"))
    BY <1>1 DEF LatestInv, HistoryInv, Fresh
  <1>3. Followed(t, X, Y, LatestPC)
    BY <1>1 DEF PassedOn
  <1>4. Followed(t, X, Y, LatestPC)'
    BY <1>2, <1>3, LatestFollower, FollowedStep DEF LatestInv
  <1> QED BY <1>1, <1>4 DEF PassedOn, Followed, Attended

\* A new result: its own attempt is there to complete the task with it, and the
\* successors of other tasks are not superseded.
LEMMA LatestStored ==
  ASSUME LatestInv, NEW s \in Slot, NEW t \in Id, PassedOn(t), Store(s), Replace(s)
  PROVE  PassedOn(t)'
  <1>1. /\ call'[s].pc \in LatestPC /\ call'[s].task = Task(s) /\ call[s].pc = "store"
        /\ \A r \in Slot \ {s} : call'[r] = call[r]
    BY GotoEffect DEF Store, Catch, LatestInv, LatestPC, At, Task
  <1>2. Successors(t)' = Successors(t)
    BY SuccessorsKept DEF LatestInv
  <1>3. CASE Task(s) = t
    <2>1. s \notin behind'
      BY <1>1 DEF Replace, CallsOn, LatestInv, HistoryInv, At
    <2> QED BY <1>1, <1>3, <2>1 DEF PassedOn, Followed, Attended, Task
  <1>4. CASE Task(s) # t
    <2>1. /\ Successors(t) \cap Successors(Task(s)) = {}
          /\ superseded' = superseded \cup Successors(Task(s))
      BY <1>4 DEF Successors, Replace
    <2>2. ASSUME NEW r \in Slot \ behind, Task(r) = t
          PROVE  r \notin behind'
      BY <1>4, <2>2 DEF Replace, CallsOn
    <2>3. /\ db'[t].type = db[t].type
          /\ db'[t].status = db[t].status
      BY StoreEffect DEF LatestInv
    <2>4. Successors(t) \ superseded # {} => (Successors(t) \ superseded)' # {}
      BY <1>2, <2>1
    <2>5. Attended(t, behind, LatestPC) => Attended(t, behind, LatestPC)'
      BY <1>1, <1>4, <2>2 DEF Attended, Task
    <2> QED BY <2>3, <2>4, <2>5 DEF PassedOn, Followed
  <1> QED BY <1>3, <1>4

\* A task made from a result that was replaced does not count, nor did the call
\* that made it.
LEMMA LatestHandedOn ==
  ASSUME LatestInv, NEW s \in Slot, NEW t \in Id, PassedOn(t), Advance(s), s \in behind,
         superseded' = superseded \cup {NewId}, behind' = behind \ {s}
  PROVE  PassedOn(t)'
  <1>1. /\ NewId \in Id /\ ~ Exists(NewId) /\ db'[NewId].status = "pending"
        /\ \A u \in Id \ {NewId} : db'[u] = db[u]
        /\ \A r \in Slot \ {s} : call'[r] = call[r]
    BY AdvanceCreates, InsertEffect, BeginEffect DEF Creates, LatestInv
  <1>2. CASE t = NewId
    BY <1>1, <1>2 DEF PassedOn, Followed
  <1>3. CASE t # NewId
    <2>1. Successors(t) \ superseded \subseteq (Successors(t) \ superseded)'
      BY <1>1, IdAssumption DEF Successors, LatestInv, Blank, NoRow
    <2>2. Attended(t, behind, LatestPC) => Attended(t, behind, LatestPC)'
      BY <1>1 DEF Attended, Task
    <2> QED BY <1>1, <1>3, <2>1, <2>2 DEF PassedOn, Followed
  <1> QED BY <1>2, <1>3

LEMMA LatestStep ==
  ASSUME Faults, LatestInv, [DeploymentNext]_dvars
  PROVE  LatestInv'
  <1>1. Base' /\ PayloadInv' /\ Blank' /\ HistoryInv'
    BY StepIsStep, BaseStep, PayloadInvStep, BlankStep, HistoryStep DEF LatestInv
  <1>2. SUFFICES ASSUME NEW t \in Id, t \notin struck'
                 PROVE  PassedOn(t)'
    BY <1>1 DEF LatestInv
  <1>3. CASE struck' = struck /\ UNCHANGED <<db, call, superseded, behind>>
    <2>1. PassedOn(t)
      BY <1>2, <1>3 DEF LatestInv
    <2> QED BY <1>3, <2>1 DEF PassedOn, Followed, Attended, Successors, Task
  <1>4. ASSUME NEW s \in Slot, Accept(s) \/ Transmit(s)
        PROVE  PassedOn(t)'
    <2>1. /\ t \notin struck /\ UNCHANGED <<superseded, behind>>
          /\ Request(s) \/ (\E u \in Id : Deliver(s, u)) \/ Step(s)
      BY <1>2, <1>4 DEF Accept, Transmit, Strike, Step, replaced
    <2> QED BY <2>1, LatestQuiet DEF LatestInv
  <1>5. ASSUME NEW s \in Slot, Work(s)
        PROVE  PassedOn(t)'
    <2>1. PassedOn(t)
      BY <1>2, <1>5 DEF Work, LatestInv
    <2>2. CASE Advance(s) /\ HandOn(s) /\ s \notin behind
      BY <2>1, <2>2, LatestQuiet DEF HandOn, Step
    <2>3. CASE Advance(s) /\ HandOn(s) /\ s \in behind
      BY <2>1, <2>3, LatestHandedOn DEF HandOn
    <2> QED BY <1>5, <2>1, <2>2, <2>3, LatestStored, LatestQuiet DEF Work
  <1>6. ASSUME NEW s \in Slot, Refuse(s) \/ CutShort(s)
        PROVE  PassedOn(t)'
    <2>1. /\ t \notin struck /\ Task(s) # t
          /\ superseded' = superseded /\ behind' \subseteq behind
      BY <1>2, <1>6 DEF Refuse, CutShort, Strike, replaced
    <2>2. Return(s) /\ db' = db
      BY <1>6 DEF Refuse, CutShort, Abort
    <2>3. PICK X, Y : X = superseded /\ Y = behind
      OBVIOUS
    <2>4. Followed(t, X, Y, LatestPC)
      BY <2>1, <2>3 DEF LatestInv, PassedOn
    <2>5. Followed(t, X, Y, LatestPC)'
      BY <2>1, <2>2, <2>4, FollowedEnd DEF LatestInv
    <2> QED BY <2>1, <2>3, <2>5 DEF PassedOn, Followed, Attended
  <1> QED BY <1>3, <1>4, <1>5, <1>6, PhaseStep DEF DeploymentNext, dvars

\* The result that the last of several attempts at a task has stored is what the
\* run goes on with, or a call is about to see to it, unless the task was struck.
THEOREM TheLastResultGoesOn ==
  ASSUME Faults
  PROVE  DeploymentSpec => []LatestResultPassedOn
  <1>1. DeploymentInit => LatestInv
    <2> SUFFICES ASSUME DeploymentInit
                 PROVE  LatestInv
      OBVIOUS
    <2>1. Base /\ PayloadInv
      BY BaseInit, PayloadInvInit DEF DeploymentInit
    <2>2. Blank /\ HistoryInv /\ \A t \in Id : PassedOn(t)
      BY DEF DeploymentInit, Init, Blank, HistoryInv, PassedOn, Followed, NoRow
    <2> QED BY <2>1, <2>2 DEF LatestInv
  <1>2. LatestInv /\ [DeploymentNext]_dvars => LatestInv'
    BY LatestStep
  <1>3. LatestInv => LatestResultPassedOn
    BY DEF LatestInv, PassedOn, Followed, Attended, LatestPC, LatestResultPassedOn,
           CallsOn, Task
  <1> QED BY <1>1, <1>2, <1>3, PTL DEF DeploymentSpec

===========================================================================
