---------------------------- MODULE RunProofs ----------------------------
(***************************************************************************)
(* Theorems about what attempts leave behind: compensations, the tasks of  *)
(* an invoice run, and the refinement of the task ledger.  As in           *)
(* QueueWorkerProofs they hold for any number of tasks, calls and retries. *)
(***************************************************************************)
EXTENDS QueueWorkerProofs

---------------------------------------------------------------------------
(* What any step does to a row: nothing, or one of four things.             *)

\* Steps that only write statuses, and what they write.
Marks(s, t, status) ==
  /\ t \in Id /\ Exists(t)
  /\ SetStatus(t, status)
  /\ UNCHANGED msgs
  /\ \/ status \in {"processing", "pending", "cancelled"}
     \/ status = "completed" /\ At(s, "complete") /\ t = Task(s)
     \/ /\ status = "failed" /\ At(s, "failWrite") /\ t = Task(s)
        /\ call[s].seen >= MaxRetries

MarkOf(s) ==
  \/ Start(s) \/ Complete(s) \/ FailWrite(s) \/ Cancel(s)
  \/ \E t \in Id : RetryTask(s, t)

SilentOf(s) ==
  \/ Succeed(s) \/ Fail(s) \/ Throw(s) \/ FailRead(s)
  \/ Finish(s) \/ Abort(s) \/ Publish(s)
  \/ \E t \in Id : Deliver(s, t) \/ RequeueTask(s, t) \/ CancelTask(s, t)

LEMMA StepKinds ==
  ASSUME [Next]_vars
  PROVE  \/ \E s \in Slot : \/ CreationOf(s) \/ MarkOf(s) \/ Store(s)
                            \/ FailIncr(s) \/ SilentOf(s)
         \/ UNCHANGED vars
  BY DEF Next, Calm, Step, Request, CreationOf, MarkOf, SilentOf

LEMMA SilentSteps ==
  ASSUME NEW s \in Slot, SilentOf(s)
  PROVE  db' = db
  BY DEF SilentOf, Succeed, Fail, Throw, FailRead, Finish, Abort, Publish,
         Deliver, RequeueTask, CancelTask

LEMMA MarkSteps ==
  ASSUME Base, NEW s \in Slot, MarkOf(s)
  PROVE  \E t \in Id, status \in TaskStatus : Marks(s, t, status)
  <1> USE DEF TaskStatus
  <1>1. ~ At(s, "idle") => Task(s) \in Id /\ Exists(Task(s))
    BY DEF Base, NamesExist
  <1>2. CASE Start(s)
    <2>1. Marks(s, Task(s), "processing")
      BY <1>1, <1>2 DEF Start, Marks, At
    <2> QED BY <2>1, <1>1, <1>2 DEF Start, At
  <1>3. CASE Complete(s)
    <2>1. Marks(s, Task(s), "completed")
      BY <1>1, <1>3 DEF Complete, Marks, At
    <2> QED BY <2>1, <1>1, <1>3 DEF Complete, At
  <1>4. CASE FailWrite(s)
    <2>1. CASE call[s].seen >= MaxRetries
      <3>1. Marks(s, Task(s), "failed")
        BY <1>1, <1>4, <2>1 DEF FailWrite, Marks, At
      <3> QED BY <3>1, <1>1, <1>4 DEF FailWrite, At
    <2>2. CASE ~ (call[s].seen >= MaxRetries)
      <3>1. Marks(s, Task(s), "pending")
        BY <1>1, <1>4, <2>2 DEF FailWrite, Marks, At
      <3> QED BY <3>1, <1>1, <1>4 DEF FailWrite, At
    <2> QED BY <2>1, <2>2
  <1>5. CASE Cancel(s)
    <2>1. Marks(s, Task(s), "cancelled")
      BY <1>1, <1>5 DEF Cancel, Marks, At
    <2> QED BY <2>1, <1>1, <1>5 DEF Cancel, At
  <1>6. ASSUME NEW t \in Id, RetryTask(s, t)
        PROVE  Marks(s, t, "pending")
    BY <1>6 DEF RetryTask, Retriable, Marks
  <1> QED BY <1>2, <1>3, <1>4, <1>5, <1>6 DEF MarkOf

LEMMA StoreEffect ==
  ASSUME Base, PayloadInv, NEW s \in Slot, Store(s)
  PROVE  /\ Task(s) \in Id /\ Exists(Task(s))
         /\ \A u \in Id \ {Task(s)} : db'[u] = db[u]
         /\ \A u \in Id : /\ db'[u].type = db[u].type
                          /\ db'[u].status = db[u].status
                          /\ db'[u].retries = db[u].retries
                          /\ db'[u].cause = db[u].cause
                          /\ db'[u].origin = db[u].origin
         /\ db'[Task(s)].payload
              = db[Task(s)].payload \cup Product(db[Task(s)].type)
  <1>1. Task(s) \in Id /\ Exists(Task(s))
    BY DEF Store, At, Base, NamesExist
  <1>2. call[s].snap \cup Product(db[Task(s)].type)
          = db[Task(s)].payload \cup Product(db[Task(s)].type)
    BY DEF Store, PayloadInv, StoreLosesNothing
  <1> QED BY <1>1, <1>2 DEF Store, Base, TypeOK, Row

LEMMA FailIncrEffect ==
  ASSUME Base, NEW s \in Slot, FailIncr(s)
  PROVE  /\ Task(s) \in Id /\ Exists(Task(s))
         /\ \A u \in Id \ {Task(s)} : db'[u] = db[u]
         /\ \A u \in Id : /\ db'[u].type = db[u].type
                          /\ db'[u].status = db[u].status
                          /\ db'[u].payload = db[u].payload
                          /\ db'[u].cause = db[u].cause
                          /\ db'[u].origin = db[u].origin
         /\ db'[Task(s)].retries = db[Task(s)].retries + 1
  <1>1. Task(s) \in Id /\ Exists(Task(s))
    BY DEF FailIncr, At, Base, NamesExist
  <1> QED BY <1>1 DEF FailIncr, Base, TypeOK, Row

\* A row, once there, stays, keeps its type, cause and origin, and gains
\* nothing but failures and the product of its type.
LEMMA RowStep ==
  ASSUME Base, PayloadInv, [Next]_vars, NEW u \in Id, Exists(u)
  PROVE  /\ Exists(u)'
         /\ db'[u].type = db[u].type
         /\ db'[u].cause = db[u].cause
         /\ db'[u].origin = db[u].origin
         /\ db[u].retries \in Nat /\ db'[u].retries \in Nat
         /\ db[u].retries <= db'[u].retries
         /\ db[u].payload \subseteq db'[u].payload
         /\ db'[u].payload \subseteq db[u].payload \cup Product(db[u].type)
  <1>0. Base'
    BY BaseStep
  <1>1. db[u].retries \in Nat /\ db'[u].retries \in Nat
    BY <1>0 DEF Base, TypeOK, Row
  <1>2. ASSUME NEW s \in Slot, CreationOf(s)
        PROVE  db'[u] = db[u]
    BY <1>2, CreationSteps, InsertEffect DEF Creates
  <1>3. ASSUME NEW s \in Slot, MarkOf(s)
        PROVE  /\ Exists(u)' /\ db'[u].type = db[u].type
               /\ db'[u].cause = db[u].cause /\ db'[u].origin = db[u].origin
               /\ db'[u].retries = db[u].retries /\ db'[u].payload = db[u].payload
    <2>1. PICK t \in Id, status \in TaskStatus : SetStatus(t, status)
      BY <1>3, MarkSteps DEF Marks
    <2>2. status # "absent"
      BY DEF TaskStatus
    <2> QED BY <2>1, <2>2, StatusEffect DEF Exists
  <1>4. ASSUME NEW s \in Slot, Store(s)
        PROVE  /\ Exists(u)' /\ db'[u].type = db[u].type
               /\ db'[u].cause = db[u].cause /\ db'[u].origin = db[u].origin
               /\ db'[u].retries = db[u].retries
               /\ db[u].payload \subseteq db'[u].payload
               /\ db'[u].payload \subseteq db[u].payload \cup Product(db[u].type)
    BY <1>4, StoreEffect DEF Exists
  <1>5. ASSUME NEW s \in Slot, FailIncr(s)
        PROVE  /\ Exists(u)' /\ db'[u].type = db[u].type
               /\ db'[u].cause = db[u].cause /\ db'[u].origin = db[u].origin
               /\ db[u].retries <= db'[u].retries
               /\ db'[u].payload = db[u].payload
    BY <1>1, <1>5, FailIncrEffect DEF Exists
  <1>6. ASSUME NEW s \in Slot, SilentOf(s)
        PROVE  db' = db
    BY <1>6, SilentSteps
  <1>7. CASE UNCHANGED vars
    BY <1>1, <1>7 DEF vars, Exists
  <1> QED
    BY <1>1, <1>2, <1>3, <1>4, <1>5, <1>6, <1>7, StepKinds DEF Exists

\* A row that was not there was created with NewId.
LEMMA NewRowStep ==
  ASSUME Base, PayloadInv, [Next]_vars, NEW u \in Id, ~ Exists(u), Exists(u)'
  PROVE  \E s \in Slot : CreationOf(s) /\ u = NewId
  <1>1. ASSUME NEW s \in Slot, MarkOf(s)
        PROVE  FALSE
    <2>1. PICK t \in Id, status \in TaskStatus : Exists(t) /\ SetStatus(t, status)
      BY <1>1, MarkSteps DEF Marks
    <2> QED BY <2>1, StatusEffect DEF Exists
  <1>2. ASSUME NEW s \in Slot, Store(s) \/ FailIncr(s) \/ SilentOf(s)
        PROVE  FALSE
    BY <1>2, StoreEffect, FailIncrEffect, SilentSteps DEF Exists
  <1>3. ASSUME NEW s \in Slot, CreationOf(s), u # NewId
        PROVE  FALSE
    BY <1>3, CreationSteps, InsertEffect DEF Creates, Exists
  <1>4. CASE UNCHANGED vars
    BY <1>4 DEF vars, Exists
  <1> QED BY <1>1, <1>2, <1>3, <1>4, StepKinds


\* A row that is not there says nothing.
Blank == \A u \in Id : ~ Exists(u) => db[u] = NoRow

LEMMA BlankStep ==
  ASSUME Base, PayloadInv, Blank, [Next]_vars
  PROVE  Blank'
  <1> SUFFICES ASSUME NEW u \in Id, ~ Exists(u)'
               PROVE  db'[u] = db[u]
    BY RowStep DEF Blank
  <1>1. ASSUME NEW s \in Slot, CreationOf(s)
        PROVE  db'[u] = db[u]
    BY <1>1, CreationSteps, InsertEffect DEF Creates, Exists
  <1>2. ASSUME NEW s \in Slot, MarkOf(s)
        PROVE  db'[u] = db[u]
    <2>1. PICK t \in Id, status \in TaskStatus : SetStatus(t, status)
      BY <1>2, MarkSteps DEF Marks
    <2>2. status # "absent"
      BY DEF TaskStatus
    <2> QED BY <2>1, <2>2, StatusEffect DEF Exists
  <1>3. ASSUME NEW s \in Slot, Store(s) \/ FailIncr(s) \/ SilentOf(s)
        PROVE  db'[u] = db[u]
    BY <1>3, StoreEffect, FailIncrEffect, SilentSteps DEF Exists
  <1>4. CASE UNCHANGED vars
    BY <1>4 DEF vars
  <1> QED BY <1>1, <1>2, <1>3, <1>4, StepKinds

---------------------------------------------------------------------------
(* The refinement: every step of the application is a step of the ledger,   *)
(* or leaves the ledger alone.                                              *)

Entries == [t \in Id |-> Entry(t)]

\* A step on one row is a step on one line.
LEMMA EntriesStep ==
  ASSUME NEW t \in Id, \A u \in Id \ {t} : db'[u] = db[u], NEW line, Entry(t)' = line
  PROVE  Entries' = [Entries EXCEPT ![t] = line]
  <1>1. \A u \in Id \ {t} : Entry(u)' = Entry(u)
    BY DEF Entry, Exists
  <1>2. Entries' = [u \in Id |-> Entry(u)']
    BY DEF Entries
  <1> HIDE DEF Entry
  <1> QED BY <1>1, <1>2 DEF Entries

LEMMA LedgerCreates ==
  ASSUME Base, Base', NEW s \in Slot, CreationOf(s)
  PROVE  \E t \in Id : Ledger!Create(t)
  <1>1. PICK type, payload, cause, origin, pc :
          Creates(s, type, payload, cause, origin, pc)
    BY CreationSteps
  <1>2. PICK n \in Id :
          /\ ~ Exists(n)
          /\ \A u \in Id \ {n} : db'[u] = db[u]
          /\ db'[n].type = type /\ db'[n].status = "pending"
          /\ db'[n].retries = 0 /\ db'[n].payload = payload
    BY <1>1, InsertEffect DEF Creates
  <1>3. payload \in SUBSET Field
    BY <1>2 DEF Base, TypeOK, Row
  <1> DEFINE input == payload \ Product(type)
             done == Product(type) \subseteq payload
             line == [status |-> "pending", failures |-> 0, input |-> input, done |-> done]
  <1>4. Entry(n)' = line
    BY <1>2 DEF Entry, Exists
  <1>5. input \in SUBSET Field /\ done \in BOOLEAN
    BY <1>3
  <1> HIDE DEF input, done
  <1>6. Entries' = [Entries EXCEPT ![n] = line]
    BY <1>2, <1>4, EntriesStep
  <1>7. Entries[n].status = "absent"
    BY <1>2 DEF Entries, Entry, Exists
  <1>8. Ledger!Create(n)
    BY <1>5, <1>6, <1>7 DEF Ledger!Create, Ledger!Known, Entries
  <1> QED BY <1>8

LEMMA LedgerMarks ==
  ASSUME Base, PayloadInv, FailedInv, NEW s \in Slot, MarkOf(s)
  PROVE  \E t \in Id, status \in Ledger!Status : Ledger!Mark(t, status)
  <1>1. PICK t \in Id, status \in TaskStatus : Marks(s, t, status)
    BY MarkSteps
  <1>2. status \in Ledger!Status
    BY <1>1 DEF Marks, Ledger!Status
  <1>3. Exists(t) /\ SetStatus(t, status)
    BY <1>1 DEF Marks
  <1>4. /\ db'[t].status = status /\ \A u \in Id \ {t} : db'[u] = db[u]
        /\ db'[t].type = db[t].type /\ db'[t].retries = db[t].retries
        /\ db'[t].payload = db[t].payload
    BY <1>3, StatusEffect
  <1>5. status = "completed" => Product(db[t].type) \subseteq db[t].payload
    BY <1>1 DEF Marks, PayloadInv, CompleteHasProduct
  <1>6. status = "failed" => db[t].retries >= MaxRetries
    <2>1. ASSUME status = "failed" PROVE db[t].retries >= MaxRetries
      <3>1. /\ At(s, "failWrite") /\ t = Task(s) /\ call[s].seen >= MaxRetries
        BY <1>1, <2>1 DEF Marks
      <3>2. call[s].seen <= db[t].retries
        BY <3>1 DEF FailedInv, SeenIsPast
      <3>3. call[s].seen \in Nat /\ db[t].retries \in Nat
        BY DEF Base, TypeOK, Call, Row
      <3> QED BY <3>1, <3>2, <3>3, MaxRetriesAssumption
    <2> QED BY <2>1
  <1> DEFINE has == Product(db[t].type) \subseteq db[t].payload
             line == [status |-> status, failures |-> db[t].retries,
                      input |-> db[t].payload \ Product(db[t].type), done |-> has]
  <1>7. status # "absent"
    BY <1>2 DEF Ledger!Status
  <1>8. Entry(t)' = line
    BY <1>3, <1>4, <1>7 DEF Entry, Exists
  <1>9. Entries[t] = [status |-> db[t].status, failures |-> db[t].retries,
                      input |-> db[t].payload \ Product(db[t].type), done |-> has]
    BY <1>3 DEF Entries, Entry, Exists
  <1> HIDE DEF has
  <1>10. Entries' = [Entries EXCEPT ![t] = line]
    BY <1>4, <1>8, EntriesStep
  <1>11. /\ Entries[t].status # "absent"
         /\ status = "completed" => Entries[t].done
         /\ status = "failed" => Entries[t].failures >= MaxRetries
    <2>1. Entries[t].status = db[t].status /\ Entries[t].failures = db[t].retries
      BY <1>9
    <2>2. Entries[t].done = has
      BY <1>9
    <2>3. status = "completed" => Entries[t].done
      BY <2>2, <1>5 DEF has
    <2> QED BY <1>3, <1>6, <2>1, <2>3 DEF Exists
  <1>12. [Entries[t] EXCEPT !.status = status] = line
    BY <1>9
  <1>13. Ledger!Mark(t, status)
    BY <1>10, <1>11, <1>12 DEF Ledger!Mark, Ledger!Known, Entries
  <1> QED BY <1>2, <1>13


LEMMA LedgerCounts ==
  ASSUME Base, NEW s \in Slot, FailIncr(s)
  PROVE  \E t \in Id : Ledger!Attempted(t)
  <1>1. PICK t \in Id : t = Task(s)
    BY FailIncrEffect
  <1> DEFINE has == Product(db[t].type) \subseteq db[t].payload
             line == [status |-> db[t].status, failures |-> db[t].retries + 1,
                      input |-> db[t].payload \ Product(db[t].type), done |-> has]
  <1>2. /\ Exists(t) /\ \A u \in Id \ {t} : db'[u] = db[u]
        /\ db'[t].type = db[t].type /\ db'[t].status = db[t].status
        /\ db'[t].payload = db[t].payload /\ db'[t].retries = db[t].retries + 1
    BY <1>1, FailIncrEffect
  <1>3. Entry(t)' = line
    BY <1>2 DEF Entry, Exists
  <1>4. Entries[t] = [status |-> db[t].status, failures |-> db[t].retries,
                      input |-> db[t].payload \ Product(db[t].type), done |-> has]
    BY <1>2 DEF Entries, Entry, Exists
  <1> HIDE DEF has
  <1>5. Entries' = [Entries EXCEPT ![t] = line]
    BY <1>2, <1>3, EntriesStep
  <1>6. [Entries[t] EXCEPT !.failures = @ + 1] = line
    BY <1>4
  <1>7. Entries[t].status # "absent"
    BY <1>2, <1>4 DEF Exists
  <1>8. Ledger!Attempted(t)
    BY <1>5, <1>6, <1>7 DEF Ledger!Attempted, Ledger!Known, Entries
  <1> QED BY <1>8

LEMMA LedgerProduces ==
  ASSUME Base, PayloadInv, NEW s \in Slot, Store(s)
  PROVE  \E t \in Id : Ledger!Produced(t)
  <1>1. PICK t \in Id : t = Task(s)
    BY StoreEffect
  <1> DEFINE P == Product(db[t].type)
             has == P \subseteq db[t].payload
             yes == TRUE
             line == [status |-> db[t].status, failures |-> db[t].retries,
                      input |-> db[t].payload \ P, done |-> yes]
  <1>2. /\ Exists(t) /\ \A u \in Id \ {t} : db'[u] = db[u]
        /\ db'[t].type = db[t].type /\ db'[t].status = db[t].status
        /\ db'[t].payload = db[t].payload \cup P /\ db'[t].retries = db[t].retries
    BY <1>1, StoreEffect
  <1>3. Entry(t)' = line
    <2>1. P \subseteq db'[t].payload /\ db'[t].payload \ P = db[t].payload \ P
      BY <1>2
    <2> QED BY <1>2, <2>1 DEF Entry, Exists
  <1>4. Entries[t] = [status |-> db[t].status, failures |-> db[t].retries,
                      input |-> db[t].payload \ P, done |-> has]
    BY <1>2 DEF Entries, Entry, Exists
  <1> HIDE DEF has, yes
  <1>5. Entries' = [Entries EXCEPT ![t] = line]
    BY <1>2, <1>3, EntriesStep
  <1>6. [Entries[t] EXCEPT !.done = yes] = line
    BY <1>4
  <1>7. Entries[t].status # "absent"
    BY <1>2, <1>4 DEF Exists
  <1>8. Ledger!Produced(t)
    BY <1>5, <1>6, <1>7 DEF Ledger!Produced, Ledger!Known, Entries, yes
  <1> QED BY <1>8

LEMMA LedgerStep ==
  ASSUME Base, PayloadInv, FailedInv, [Next]_vars
  PROVE  [Ledger!LedgerNext]_Entries
  <1>1. Base'
    BY BaseStep
  <1>2. ASSUME NEW s \in Slot, CreationOf(s)
        PROVE  Ledger!LedgerNext
    BY <1>1, <1>2, LedgerCreates DEF Ledger!LedgerNext
  <1>3. ASSUME NEW s \in Slot, MarkOf(s)
        PROVE  Ledger!LedgerNext
    BY <1>3, LedgerMarks DEF Ledger!LedgerNext
  <1>4. ASSUME NEW s \in Slot, Store(s)
        PROVE  Ledger!LedgerNext
    BY <1>4, LedgerProduces DEF Ledger!LedgerNext
  <1>5. ASSUME NEW s \in Slot, FailIncr(s)
        PROVE  Ledger!LedgerNext
    BY <1>5, LedgerCounts DEF Ledger!LedgerNext
  <1>6. ASSUME db' = db
        PROVE  Entries' = Entries
    BY <1>6 DEF Entries, Entry, Exists
  <1> QED
    BY <1>2, <1>3, <1>4, <1>5, <1>6, StepKinds, SilentSteps DEF vars

LEMMA LedgerStart == Init => Ledger!LedgerInit
  <1> SUFFICES ASSUME Init
               PROVE  Ledger!LedgerInit
    OBVIOUS
  <1> DEFINE line == [status |-> "absent", failures |-> 0, input |-> {}, done |-> FALSE]
  <1>1. \A t \in Id : Entry(t) = line
    BY DEF Init, NoRow, Entry, Exists
  <1>2. {} \in SUBSET Field
    OBVIOUS
  <1> QED BY <1>1, <1>2 DEF Ledger!LedgerInit

\* What every reader of the rows can rely on: the calls, messages and
\* statements of the application, with whatever crashes and overlaps,
\* implement the ledger.
THEOREM LedgerIsImplemented == Spec => ImplementsLedger
  <1>1. Init => Base /\ PayloadInv /\ FailedInv
    BY BaseInit, PayloadInvInit
       DEF Init, FailedInv, FailedIsExhausted, SeenIsPast, NoRow, NoCall, At
  <1>2. Base /\ PayloadInv /\ FailedInv /\ [Next]_vars
          => (Base /\ PayloadInv /\ FailedInv)'
    BY BaseStep, PayloadInvStep, FailedInvStep
  <1>3. Base /\ PayloadInv /\ FailedInv /\ [Next]_vars
          => [Ledger!LedgerNext]_[t \in Id |-> Entry(t)]
    BY LedgerStep DEF Entries
  <1> QED
    BY <1>1, <1>2, <1>3, LedgerStart, PTL DEF Spec, ImplementsLedger, Ledger!LedgerSpec


---------------------------------------------------------------------------
(* Compensations.  A counted failure is either compensated for already, or  *)
(* in the hands of a call that may still do it; the two together are never  *)
(* more than the failures.                                                  *)

CountedPC == {"failRead", "failWrite", "compensate"}

CompensationInv ==
  \A t \in Id :
    Cardinality(WorkerCompensations(t)) + Cardinality(CallsOn(t, CountedPC)) <= db[t].retries

LEMMA FiniteParts ==
  ASSUME NEW t, NEW pcs
  PROVE  /\ IsFiniteSet(WorkerCompensations(t)) /\ Cardinality(WorkerCompensations(t)) \in Nat
         /\ IsFiniteSet(CallsOn(t, pcs)) /\ Cardinality(CallsOn(t, pcs)) \in Nat
  <1>1. WorkerCompensations(t) \in SUBSET Id /\ CallsOn(t, pcs) \in SUBSET Slot
    BY DEF WorkerCompensations, CallsOn
  <1> QED BY <1>1, IdAssumption, SlotAssumption, FS_Subset, FS_CardinalityType

\* Nothing refers to a row that is not there.
LEMMA NothingOnMissing ==
  ASSUME Base, NEW t \in Id, ~ Exists(t), NEW pcs, "idle" \notin pcs
  PROVE  WorkerCompensations(t) = {} /\ Successors(t) = {} /\ CallsOn(t, pcs) = {}
  <1>1. \A u \in Id : db[u].cause # t
    BY IdAssumption DEF Base, RowsNamed
  <1>2. \A s \in Slot : Task(s) = t => call[s].pc = "idle"
    BY DEF Base, NamesExist, At
  <1> QED BY <1>1, <1>2 DEF WorkerCompensations, Successors, CallsOn

\* Only FailIncr brings a call among those with a counted failure.
LEMMA CountedStep ==
  ASSUME Base, NEW s \in Slot, CreationOf(s) \/ MarkOf(s) \/ Store(s) \/ SilentOf(s),
         NEW t \in Id
  PROVE  CallsOn(t, CountedPC)' \subseteq CallsOn(t, CountedPC)
  <1> SUFFICES ASSUME NEW r \in Slot, call'[r].pc \in CountedPC
               PROVE  call[r].pc \in CountedPC /\ call'[r].task = call[r].task
    BY DEF CallsOn, Task
  <1> USE DEF CountedPC
  <1>1. CASE CreationOf(s)
    BY <1>1, CreationSteps, BeginEffect DEF Creates
  <1>2. CASE MarkOf(s)
    BY <1>2, GotoEffect, BeginEffect, ReturnEffect
       DEF MarkOf, Start, Complete, FailWrite, Cancel, RetryTask, Catch, At
  <1>3. CASE Store(s)
    BY <1>3, GotoEffect DEF Store, Catch
  <1>4. CASE Succeed(s)
    BY <1>4 DEF Succeed, Base, TypeOK, Call
  <1>5. CASE FailRead(s)
    BY <1>5 DEF FailRead, Base, TypeOK, Call, At
  <1>6. CASE \/ Fail(s) \/ Throw(s) \/ Finish(s) \/ Abort(s) \/ Publish(s)
             \/ \E u \in Id : Deliver(s, u) \/ RequeueTask(s, u) \/ CancelTask(s, u)
    BY <1>6, GotoEffect, BeginEffect, ReturnEffect
       DEF Fail, Throw, Finish, Abort, Publish, Deliver, RequeueTask, CancelTask
  <1> QED BY <1>1, <1>2, <1>3, <1>4, <1>5, <1>6 DEF SilentOf

\* Enough for a step that neither compensates nor counts a failure.
LEMMA CompensationInvKept ==
  ASSUME Base, Base', CompensationInv, NEW t \in Id,
         Exists(t) => db[t].retries <= db'[t].retries,
         WorkerCompensations(t)' \subseteq WorkerCompensations(t),
         CallsOn(t, CountedPC)' \subseteq CallsOn(t, CountedPC)
  PROVE  Cardinality(WorkerCompensations(t)') + Cardinality(CallsOn(t, CountedPC)')
           <= db'[t].retries
  <1> DEFINE W == WorkerCompensations(t)  C == CallsOn(t, CountedPC)
             W1 == WorkerCompensations(t)'  C1 == CallsOn(t, CountedPC)'
  <1>1. /\ IsFiniteSet(W) /\ Cardinality(W) \in Nat
        /\ IsFiniteSet(C) /\ Cardinality(C) \in Nat
        /\ db[t].retries \in Nat /\ db'[t].retries \in Nat
    BY FiniteParts DEF Base, TypeOK, Row
  <1>2. W1 \subseteq W /\ C1 \subseteq C
    OBVIOUS
  <1>3. ~ Exists(t) => W = {} /\ C = {}
    BY NothingOnMissing DEF CountedPC
  <1>4. Cardinality(W) + Cardinality(C) <= db[t].retries
    BY DEF CompensationInv
  <1> HIDE DEF W, C, W1, C1
  <1>5. /\ Cardinality(W1) \in Nat /\ Cardinality(W1) <= Cardinality(W)
        /\ Cardinality(C1) \in Nat /\ Cardinality(C1) <= Cardinality(C)
    BY <1>1, <1>2, FS_Subset, FS_CardinalityType
  <1>6. Exists(t) => Cardinality(W1) + Cardinality(C1) <= db'[t].retries
    BY <1>1, <1>4, <1>5
  <1>7. ~ Exists(t) => Cardinality(W1) = 0 /\ Cardinality(C1) = 0
    BY <1>2, <1>3, FS_EmptySet
  <1>8. Cardinality(W1) + Cardinality(C1) <= db'[t].retries
    BY <1>1, <1>5, <1>6, <1>7
  <1> QED BY <1>8 DEF W1, C1


\* What clients create: nothing that is a worker's, and no successor.
LEMMA ClientCreations ==
  ASSUME NEW s \in Slot, CreationOf(s), ~ Advance(s), ~ Compensate(s)
  PROVE  \E type, payload, cause, pc :
           /\ Creates(s, type, payload, cause, "client", pc)
           /\ cause = NoId \/ type = "compensation"
  <1>1. CASE StartInvoiceWorkflow(s)
    <2>1. Creates(s, "fetch_orders", {}, NoId, "client", "enqueue")
      BY <1>1 DEF StartInvoiceWorkflow, Creates
    <2> QED BY <2>1
  <1>2. CASE Enqueue(s)
    <2>1. Creates(s, "fetch_orders", {}, NoId, "client", "publish")
      BY <1>2 DEF Enqueue, Creates
    <2> QED BY <2>1
  <1>3. ASSUME NEW new \in NewTask, CreateTask(s, new)
        PROVE  Creates(s, new.type, new.payload, NoId, "client", "publish")
    BY <1>3 DEF CreateTask, Creates
  <1>4. ASSUME NEW t \in Id, CompensateTask(s, t)
        PROVE  Creates(s, "compensation", {}, t, "client", "publish")
    BY <1>4 DEF CompensateTask, Creates
  <1> QED BY <1>1, <1>2, <1>3, <1>4 DEF CreationOf

LEMMA AdvanceCreates ==
  ASSUME NEW s \in Slot, Advance(s)
  PROVE  /\ At(s, "coordinate")
         /\ Creates(s, Successor(db[Task(s)].type),
                    db[Task(s)].payload \cap Carried(db[Task(s)].type),
                    Task(s), "worker", "publish")
         /\ Successor(db[Task(s)].type) \notin {"none", "compensation", "fetch_orders"}
  BY DEF Advance, Creates, Successor

LEMMA CompensateCreates ==
  ASSUME NEW s \in Slot, Compensate(s)
  PROVE  /\ At(s, "compensate")
         /\ Creates(s, "compensation", {}, Task(s), "worker", "publish")
  BY DEF Compensate, Creates

LEMMA CompensationStep ==
  ASSUME Base, PayloadInv, CompensationInv, [Next]_vars
  PROVE  CompensationInv'
  <1>1. Base'
    BY BaseStep
  <1> SUFFICES ASSUME NEW t \in Id
               PROVE  Cardinality(WorkerCompensations(t)') + Cardinality(CallsOn(t, CountedPC)')
                        <= db'[t].retries
    BY DEF CompensationInv
  <1>2. Exists(t) => db[t].retries <= db'[t].retries
    BY RowStep
  <1>3. \A s \in Slot : ~ At(s, "idle") => Task(s) \in Id /\ Exists(Task(s))
    BY DEF Base, NamesExist
  <1>4. ASSUME NEW s \in Slot, CreationOf(s), ~ Compensate(s)
        PROVE  WorkerCompensations(t)' \subseteq WorkerCompensations(t)
    <2>1. PICK type, payload, cause, origin, pc :
            /\ Creates(s, type, payload, cause, origin, pc)
            /\ type # "compensation" \/ origin # "worker"
      <3>1. CASE Advance(s)
        BY <3>1, AdvanceCreates
      <3>2. CASE ~ Advance(s)
        <4>1. PICK type, payload, cause, pc :
                Creates(s, type, payload, cause, "client", pc)
          BY <1>4, <3>2, ClientCreations
        <4> QED BY <4>1
      <3> QED BY <3>1, <3>2
    <2> QED BY <2>1, InsertEffect DEF Creates, WorkerCompensations
  <1>5. ASSUME NEW s \in Slot, MarkOf(s) \/ Store(s) \/ FailIncr(s) \/ SilentOf(s)
        PROVE  WorkerCompensations(t)' \subseteq WorkerCompensations(t)
    <2>1. \A u \in Id : /\ db'[u].type = db[u].type /\ db'[u].cause = db[u].cause
                        /\ db'[u].origin = db[u].origin
      <3>1. CASE MarkOf(s)
        BY <3>1, MarkSteps, StatusEffect DEF Marks
      <3>2. CASE Store(s) \/ FailIncr(s) \/ SilentOf(s)
        BY <3>2, StoreEffect, FailIncrEffect, SilentSteps
      <3> QED BY <1>5, <3>1, <3>2
    <2> QED BY <2>1 DEF WorkerCompensations
  <1>6. ASSUME NEW s \in Slot, CreationOf(s), ~ Compensate(s)
        PROVE  Cardinality(WorkerCompensations(t)') + Cardinality(CallsOn(t, CountedPC)')
                 <= db'[t].retries
    BY <1>1, <1>2, <1>4, <1>6, CountedStep, CompensationInvKept
  <1>7. ASSUME NEW s \in Slot, MarkOf(s) \/ Store(s) \/ SilentOf(s)
        PROVE  Cardinality(WorkerCompensations(t)') + Cardinality(CallsOn(t, CountedPC)')
                 <= db'[t].retries
    BY <1>1, <1>2, <1>5, <1>7, CountedStep, CompensationInvKept
  <1> DEFINE W == WorkerCompensations(t)  C == CallsOn(t, CountedPC)
             W1 == WorkerCompensations(t)'  C1 == CallsOn(t, CountedPC)'
  <1>8. /\ IsFiniteSet(W) /\ Cardinality(W) \in Nat
        /\ IsFiniteSet(C) /\ Cardinality(C) \in Nat
        /\ db[t].retries \in Nat /\ db'[t].retries \in Nat
        /\ Cardinality(W) + Cardinality(C) <= db[t].retries
    BY <1>1, FiniteParts DEF Base, TypeOK, Row, CompensationInv
  <1>9. ASSUME NEW s \in Slot, FailIncr(s)
        PROVE  Cardinality(W1) + Cardinality(C1) <= db'[t].retries
    <2>1. /\ call'[s].pc = "failRead" /\ call'[s].task = Task(s)
          /\ \A r \in Slot \ {s} : call'[r] = call[r]
          /\ call[s].pc = "failIncr"
      BY <1>9, GotoEffect DEF FailIncr, At, Task
    <2>2. W1 \subseteq W
      BY <1>5, <1>9
    <2>3. CASE Task(s) # t
      <3>1. C1 \subseteq C
        BY <2>1, <2>3 DEF CallsOn, Task
      <3> QED BY <1>1, <1>2, <2>2, <3>1, CompensationInvKept
    <2>4. CASE Task(s) = t
      <3>1. C1 = C \cup {s} /\ s \notin C
        BY <2>1, <2>4 DEF CallsOn, Task, CountedPC
      <3>2. db'[t].retries = db[t].retries + 1
        BY <1>9, <2>4, FailIncrEffect
      <3> HIDE DEF W, C, W1, C1
      <3>3. Cardinality(C1) = Cardinality(C) + 1
        BY <1>8, <3>1, FS_AddElement
      <3>4. Cardinality(W1) \in Nat /\ Cardinality(W1) <= Cardinality(W)
        BY <1>8, <2>2, FS_Subset, FS_CardinalityType
      <3> QED BY <1>8, <3>2, <3>3, <3>4
    <2> QED BY <2>3, <2>4
  <1>10. ASSUME NEW s \in Slot, Compensate(s)
         PROVE  Cardinality(W1) + Cardinality(C1) <= db'[t].retries
    <2>1. /\ NewId \in Id /\ ~ Exists(NewId)
          /\ \A u \in Id \ {NewId} : db'[u] = db[u]
          /\ db'[NewId].type = "compensation" /\ db'[NewId].origin = "worker"
          /\ db'[NewId].cause = Task(s)
          /\ call'[s].pc = "publish"
          /\ \A r \in Slot \ {s} : call'[r] = call[r]
          /\ call[s].pc = "compensate"
      BY <1>10, CompensateCreates, InsertEffect, BeginEffect DEF Creates, At
    <2>2. C1 \subseteq C
      BY <2>1 DEF CallsOn, Task, CountedPC
    <2>3. NewId \notin W
      BY <2>1 DEF WorkerCompensations, Base, RowsNamed, Exists
    <2>4. CASE Task(s) # t
      <3>1. W1 \subseteq W
        BY <2>1, <2>4 DEF WorkerCompensations
      <3> QED BY <1>1, <1>2, <2>2, <3>1, CompensationInvKept
    <2>5. CASE Task(s) = t
      <3>1. W1 = W \cup {NewId}
        BY <2>1, <2>5 DEF WorkerCompensations
      <3>2. s \in C /\ s \notin C1
        BY <2>1, <2>5 DEF CallsOn, Task, CountedPC
      <3>3. Exists(t)
        BY <1>3, <2>1, <2>5 DEF At
      <3> HIDE DEF W, C, W1, C1
      <3>4. Cardinality(W1) = Cardinality(W) + 1
        BY <1>8, <2>3, <3>1, FS_AddElement
      <3>5. IsFiniteSet(C \ {s}) /\ Cardinality(C \ {s}) = Cardinality(C) - 1
        BY <1>8, <3>2, FS_RemoveElement
      <3>6. Cardinality(C1) \in Nat /\ Cardinality(C1) <= Cardinality(C \ {s})
        BY <2>2, <3>2, <3>5, FS_Subset, FS_CardinalityType
      <3> QED BY <1>2, <1>8, <3>3, <3>4, <3>5, <3>6
    <2> QED BY <2>4, <2>5
  <1>11. CASE UNCHANGED vars
    <2>1. WorkerCompensations(t)' = WorkerCompensations(t) /\ db' = db
          /\ CallsOn(t, CountedPC)' = CallsOn(t, CountedPC)
      BY <1>11 DEF vars, WorkerCompensations, CallsOn, Task
    <2> QED BY <2>1, <1>8
  <1> QED BY <1>6, <1>7, <1>9, <1>10, <1>11, StepKinds

\* A failed attempt is compensated for at most once, however attempts at one
\* task overlap, crash or throw.
THEOREM NoCompensationWithoutFailure == Spec => []CompensationsBounded
  <1>1. Init => Base /\ PayloadInv /\ CompensationInv
    <2> SUFFICES ASSUME Init
                 PROVE  CompensationInv
      BY BaseInit, PayloadInvInit
    <2>1. \A t \in Id : WorkerCompensations(t) = {} /\ CallsOn(t, CountedPC) = {}
      BY BaseInit, NothingOnMissing DEF Init, NoRow, Exists, CountedPC
    <2>2. \A t \in Id : db[t].retries = 0
      BY DEF Init, NoRow
    <2> QED BY <2>1, <2>2, FS_EmptySet DEF CompensationInv
  <1>2. Base /\ PayloadInv /\ CompensationInv /\ [Next]_vars
          => (Base /\ PayloadInv /\ CompensationInv)'
    BY BaseStep, PayloadInvStep, CompensationStep
  <1>3. Base /\ CompensationInv => CompensationsBounded
    <2> SUFFICES ASSUME Base, CompensationInv, NEW t \in Id
                 PROVE  Cardinality(WorkerCompensations(t)) <= db[t].retries
      BY DEF CompensationsBounded
    <2>1. /\ Cardinality(WorkerCompensations(t)) \in Nat
          /\ Cardinality(CallsOn(t, CountedPC)) \in Nat
          /\ db[t].retries \in Nat
      BY FiniteParts DEF Base, TypeOK, Row
    <2> QED BY <2>1 DEF CompensationInv
  <1> QED BY <1>1, <1>2, <1>3, PTL DEF Spec


---------------------------------------------------------------------------
(* Inputs.  A successor has what its predecessor had; both payloads only    *)
(* gain products, and none of those is the invoice of a generate_pdf.       *)

Succeeds(t) ==
  LET from == db[db[t].cause] IN
  /\ db[t].type = Successor(from.type)
  /\ Key(from.type) \in db[t].payload
  /\ \/ Requires(db[t].type) \subseteq db[t].payload
     \/ from.type = "generate_pdf" /\ "invoice" \notin from.payload

SuccessorInv ==
  \A t \in Id : db[t].cause # NoId /\ db[t].type # "compensation" => Succeeds(t)

LEMMA SuccessorStep ==
  ASSUME Base, PayloadInv, Blank, SuccessorInv, [Next]_vars
  PROVE  SuccessorInv'
  <1> SUFFICES ASSUME NEW t \in Id, db'[t].cause # NoId, db'[t].type # "compensation"
               PROVE  Succeeds(t)'
    BY DEF SuccessorInv
  <1>1. Base'
    BY BaseStep
  <1>2. Exists(t)'
    BY BlankStep DEF Blank, NoRow
  <1>3. CASE Exists(t)
    <2>1. /\ db'[t].type = db[t].type /\ db'[t].cause = db[t].cause
          /\ db[t].payload \subseteq db'[t].payload
      BY <1>3, RowStep
    <2>2. PICK c \in Id : c = db[t].cause /\ Exists(c)
      BY <2>1 DEF Base, TypeOK, Row, RowsNamed
    <2>3. /\ db'[c].type = db[c].type
          /\ db'[c].payload \subseteq db[c].payload \cup Product(db[c].type)
      BY <2>2, RowStep
    <2>4. /\ db[t].type = Successor(db[c].type)
          /\ Key(db[c].type) \in db[t].payload
          /\ \/ Requires(db[t].type) \subseteq db[t].payload
             \/ db[c].type = "generate_pdf" /\ "invoice" \notin db[c].payload
      BY <2>1, <2>2 DEF SuccessorInv, Succeeds
    <2>5. db[c].type = "generate_pdf" => "invoice" \notin Product(db[c].type)
      BY DEF Product
    <2> QED BY <2>1, <2>2, <2>3, <2>4, <2>5 DEF Succeeds
  <1>4. CASE ~ Exists(t)
    <2>1. PICK s \in Slot : CreationOf(s) /\ t = NewId
      BY <1>2, <1>4, NewRowStep
    <2>2. CASE Advance(s)
      <3>1. PICK c \in Id : c = Task(s) /\ Exists(c)
        BY <2>2 DEF Advance, At, Base, NamesExist
      <3>2. /\ Key(db[c].type) \in db[c].payload
            /\ Successor(db[c].type) # "none"
        BY <2>2, <3>1 DEF Advance
      <3>3. /\ c # t /\ db'[c] = db[c]
            /\ db'[t].type = Successor(db[c].type) /\ db'[t].cause = c
            /\ db'[t].payload = db[c].payload \cap Carried(db[c].type)
        BY <1>4, <2>1, <2>2, <3>1, AdvanceCreates, InsertEffect DEF Creates
      <3>4. Key(db[c].type) \in Carried(db[c].type)
        BY DEF Key, Carried
      <3>5. \/ Requires(Successor(db[c].type)) \subseteq db[c].payload \cap Carried(db[c].type)
            \/ db[c].type = "generate_pdf" /\ "invoice" \notin db[c].payload
        BY <3>2, <3>4 DEF Successor, Requires, Carried, Key
      <3> QED BY <3>2, <3>3, <3>4, <3>5 DEF Succeeds
    <2>3. CASE Compensate(s)
      BY <2>1, <2>3, CompensateCreates, InsertEffect DEF Creates
    <2>4. CASE ~ Advance(s) /\ ~ Compensate(s)
      BY <2>1, <2>4, ClientCreations, InsertEffect DEF Creates
    <2> QED BY <2>2, <2>3, <2>4
  <1> QED BY <1>3, <1>4

\* A step of an invoice run always starts from what the step before it
\* produced, whatever was retried, stored late or lost in between.
THEOREM SuccessorsHaveInputs == Spec => []SuccessorsRunnable
  <1>1. Init => Base /\ PayloadInv /\ Blank /\ SuccessorInv
    BY BaseInit, PayloadInvInit DEF Init, NoRow, SuccessorInv, Blank
  <1>2. Base /\ PayloadInv /\ Blank /\ SuccessorInv /\ [Next]_vars
          => (Base /\ PayloadInv /\ Blank /\ SuccessorInv)'
    BY BaseStep, PayloadInvStep, BlankStep, SuccessorStep
  <1>3. SuccessorInv => SuccessorsRunnable
    BY DEF SuccessorInv, Succeeds, SuccessorsRunnable
  <1> QED BY <1>1, <1>2, <1>3, PTL DEF Spec


---------------------------------------------------------------------------
(* One handler, one successor, when no client retries.  A task is either in *)
(* the broker or in the hands of one call, and who has made its successor   *)
(* was that call.                                                           *)

HandPC == WorkerPC \cup {"publish"}

Handling(t) == CallsOn(t, HandPC)

Single(t) ==
  \/ msgs[t] = 0 /\ \A r, q \in Handling(t) : r = q
  \/ msgs[t] = 1 /\ Handling(t) = {}

SingleInv == \A t \in Id : Single(t)

ForkInv ==
  \A t \in Id : Successors(t) # {} =>
    /\ msgs[t] = 0 /\ Handling(t) = {}
    /\ \A u, v \in Successors(t) : u = v

\* Steps that neither create, nor publish, nor deliver.
QuietOf(s) ==
  \/ Start(s) \/ Complete(s) \/ FailWrite(s) \/ Cancel(s)
  \/ Store(s) \/ FailIncr(s)
  \/ Succeed(s) \/ Fail(s) \/ Throw(s) \/ FailRead(s) \/ Finish(s) \/ Abort(s)
  \/ \E t \in Id : CancelTask(s, t)

LEMMA StepsWithoutRetry ==
  ASSUME {"retry", "requeue"} \cap Api = {}, [Next]_vars
  PROVE  \/ \E s \in Slot : \/ CreationOf(s) \/ QuietOf(s) \/ Publish(s)
                            \/ \E t \in Id : Deliver(s, t)
         \/ UNCHANGED vars
  BY DEF Next, Calm, Step, Request, CreationOf, QuietOf

LEMMA QuietCalls ==
  ASSUME Base, NEW s \in Slot, QuietOf(s)
  PROVE  /\ msgs' = msgs
         /\ \A r \in Slot : call'[r].pc \in HandPC =>
              call[r].pc \in HandPC /\ call'[r].task = call[r].task
  <1> USE DEF HandPC, WorkerPC
  <1>1. CASE \/ Start(s) \/ Complete(s) \/ FailWrite(s) \/ Cancel(s)
             \/ Store(s) \/ FailIncr(s) \/ \E t \in Id : CancelTask(s, t)
    BY <1>1, GotoEffect, BeginEffect, ReturnEffect
       DEF Start, Complete, FailWrite, Cancel, Store, FailIncr, CancelTask, Catch, At
  <1>2. CASE Fail(s) \/ Throw(s) \/ Finish(s) \/ Abort(s)
    BY <1>2, GotoEffect, ReturnEffect DEF Fail, Throw, Finish, Abort, At
  <1>3. CASE Succeed(s)
    BY <1>3 DEF Succeed, Base, TypeOK, Call, At
  <1>4. CASE FailRead(s)
    BY <1>4 DEF FailRead, Base, TypeOK, Call, At
  <1> QED BY <1>1, <1>2, <1>3, <1>4 DEF QuietOf

LEMMA SuccessorsKept ==
  ASSUME Base, PayloadInv, NEW s \in Slot, NEW t \in Id,
         MarkOf(s) \/ Store(s) \/ FailIncr(s) \/ SilentOf(s)
  PROVE  Successors(t)' = Successors(t)
  <1>1. \A u \in Id : db'[u].type = db[u].type /\ db'[u].cause = db[u].cause
    <2>1. CASE MarkOf(s)
      BY <2>1, MarkSteps, StatusEffect DEF Marks
    <2>2. CASE Store(s) \/ FailIncr(s) \/ SilentOf(s)
      BY <2>2, StoreEffect, FailIncrEffect, SilentSteps
    <2> QED BY <2>1, <2>2
  <1> QED BY <1>1 DEF Successors

LEMMA QuietRows ==
  ASSUME Base, PayloadInv, NEW s \in Slot,
         QuietOf(s) \/ Publish(s) \/ \E t \in Id : Deliver(s, t), NEW u \in Id
  PROVE  Successors(u)' = Successors(u)
  <1>1. MarkOf(s) \/ Store(s) \/ FailIncr(s) \/ SilentOf(s)
    BY DEF QuietOf, MarkOf, SilentOf
  <1> QED BY <1>1, SuccessorsKept

LEMMA CreationHandling ==
  ASSUME Base, NEW s \in Slot, CreationOf(s)
  PROVE  /\ msgs' = msgs
         /\ NewId \in Id /\ ~ Exists(NewId)
         /\ call'[s].task = NewId
         /\ \A r \in Slot \ {s} : call'[r] = call[r]
         /\ \A u \in Id \ {NewId} : db'[u] = db[u]
         /\ msgs[NewId] = 0 /\ Handling(NewId) = {} /\ Successors(NewId) = {}
  <1>1. /\ msgs' = msgs /\ NewId \in Id /\ ~ Exists(NewId)
        /\ call'[s].task = NewId /\ \A r \in Slot \ {s} : call'[r] = call[r]
        /\ \A u \in Id \ {NewId} : db'[u] = db[u]
    BY CreationSteps, InsertEffect, BeginEffect DEF Creates
  <1>2. msgs[NewId] = 0
    BY <1>1 DEF Base, TypeOK, NamesExist
  <1>3. Handling(NewId) = {} /\ Successors(NewId) = {}
    BY <1>1, NothingOnMissing DEF Handling, HandPC, WorkerPC
  <1> QED BY <1>1, <1>2, <1>3

LEMMA PublishHandling ==
  ASSUME Base, NEW s \in Slot, Publish(s)
  PROVE  /\ Task(s) \in Id /\ s \in Handling(Task(s))
         /\ msgs'[Task(s)] \in {msgs[Task(s)], msgs[Task(s)] + 1}
         /\ \A u \in Id \ {Task(s)} : msgs'[u] = msgs[u]
         /\ \A u \in Id : Handling(u)' = Handling(u) \ {s}
  <1>1. Task(s) \in Id /\ call[s].pc = "publish"
    BY DEF Publish, At, Base, NamesExist
  <1>2. call'[s].pc = "idle" /\ \A r \in Slot \ {s} : call'[r] = call[r]
    BY ReturnEffect DEF Publish
  <1>3. /\ msgs'[Task(s)] \in {msgs[Task(s)], msgs[Task(s)] + 1}
        /\ \A u \in Id \ {Task(s)} : msgs'[u] = msgs[u]
    BY <1>1 DEF Publish, Emit, Base, TypeOK
  <1> QED BY <1>1, <1>2, <1>3 DEF Handling, CallsOn, HandPC, WorkerPC, Task

LEMMA DeliverHandling ==
  ASSUME Base, NEW s \in Slot, NEW t \in Id, Deliver(s, t)
  PROVE  /\ msgs[t] > 0 /\ msgs'[t] = msgs[t] - 1
         /\ \A u \in Id \ {t} : msgs'[u] = msgs[u] /\ Handling(u)' = Handling(u)
         /\ Handling(t)' = Handling(t) \cup {s}
  <1>1. /\ call'[s].pc = "start" /\ call'[s].task = t /\ call[s].pc = "idle"
        /\ \A r \in Slot \ {s} : call'[r] = call[r]
    BY BeginEffect DEF Deliver, At
  <1>2. /\ msgs[t] > 0 /\ msgs'[t] = msgs[t] - 1
        /\ \A u \in Id \ {t} : msgs'[u] = msgs[u]
    BY DEF Deliver, Base, TypeOK
  <1> QED BY <1>1, <1>2 DEF Handling, CallsOn, HandPC, WorkerPC, Task

LEMMA SingleStep ==
  ASSUME {"retry", "requeue"} \cap Api = {}, Base, SingleInv, [Next]_vars
  PROVE  SingleInv'
  <1> SUFFICES ASSUME NEW t \in Id
               PROVE  Single(t)'
    BY DEF SingleInv
  <1>0. Single(t) /\ msgs[t] \in Nat
    BY DEF SingleInv, Base, TypeOK
  <1>1. ASSUME NEW s \in Slot, CreationOf(s)
        PROVE  Single(t)'
    <2>1. CASE t = NewId
      BY <1>1, <2>1, CreationHandling DEF Single, Handling, CallsOn, Task
    <2>2. CASE t # NewId
      <3>1. Handling(t)' \subseteq Handling(t) /\ msgs'[t] = msgs[t]
        BY <1>1, <2>2, CreationHandling DEF Handling, CallsOn, Task
      <3> QED BY <1>0, <3>1 DEF Single
    <2> QED BY <2>1, <2>2
  <1>2. ASSUME NEW s \in Slot, QuietOf(s)
        PROVE  Single(t)'
    <2>1. Handling(t)' \subseteq Handling(t) /\ msgs'[t] = msgs[t]
      BY <1>2, QuietCalls DEF Handling, CallsOn, Task
    <2> QED BY <1>0, <2>1 DEF Single
  <1>3. ASSUME NEW s \in Slot, Publish(s)
        PROVE  Single(t)'
    <2>1. CASE t = Task(s)
      <3>1. s \in Handling(t) /\ Handling(t)' = Handling(t) \ {s}
        BY <1>3, <2>1, PublishHandling
      <3>2. msgs[t] = 0 /\ Handling(t)' = {}
        BY <1>0, <3>1 DEF Single
      <3>3. msgs'[t] \in {0, 1}
        BY <1>3, <2>1, <3>2, PublishHandling
      <3> QED BY <3>2, <3>3 DEF Single
    <2>2. CASE t # Task(s)
      <3>1. Handling(t)' \subseteq Handling(t) /\ msgs'[t] = msgs[t]
        BY <1>3, <2>2, PublishHandling
      <3> QED BY <1>0, <3>1 DEF Single
    <2> QED BY <2>1, <2>2
  <1>4. ASSUME NEW s \in Slot, NEW u \in Id, Deliver(s, u)
        PROVE  Single(t)'
    <2>1. CASE t = u
      <3>1. /\ msgs[t] > 0 /\ msgs'[t] = msgs[t] - 1
            /\ Handling(t)' = Handling(t) \cup {s}
        BY <1>4, <2>1, DeliverHandling
      <3>2. msgs[t] = 1 /\ Handling(t) = {}
        BY <1>0, <3>1 DEF Single
      <3> QED BY <3>1, <3>2 DEF Single
    <2>2. CASE t # u
      BY <1>0, <1>4, <2>2, DeliverHandling DEF Single
    <2> QED BY <2>1, <2>2
  <1>5. CASE UNCHANGED vars
    BY <1>0, <1>5 DEF vars, Single, Handling, CallsOn, Task
  <1> QED BY <1>1, <1>2, <1>3, <1>4, <1>5, StepsWithoutRetry

LEMMA ForkStep ==
  ASSUME {"retry", "requeue"} \cap Api = {}, Base, PayloadInv, SingleInv, ForkInv, [Next]_vars
  PROVE  ForkInv'
  <1> SUFFICES ASSUME NEW t \in Id, Successors(t)' # {}
               PROVE  /\ msgs'[t] = 0 /\ Handling(t)' = {}
                      /\ \A u, v \in Successors(t)' : u = v
    BY DEF ForkInv
  <1> DEFINE Goal == /\ msgs'[t] = 0 /\ Handling(t)' = {}
                     /\ \A u, v \in Successors(t)' : u = v
  <1>0. Successors(t) # {} => /\ msgs[t] = 0 /\ Handling(t) = {}
                              /\ \A u, v \in Successors(t) : u = v
    BY DEF ForkInv
  <1>1. ASSUME NEW s \in Slot, CreationOf(s), ~ Advance(s)
        PROVE  Goal
    <2>1. /\ db'[NewId].type = "compensation" \/ db'[NewId].cause = NoId
          /\ NewId \in Id /\ ~ Exists(NewId)
          /\ \A u \in Id \ {NewId} : db'[u] = db[u]
      BY <1>1, ClientCreations, CompensateCreates, InsertEffect DEF Creates
    <2>2. Successors(t)' \subseteq Successors(t)
      BY <2>1, IdAssumption DEF Successors
    <2>3. t # NewId
      BY <2>2, <1>1, CreationHandling
    <2>4. Handling(t)' \subseteq Handling(t) /\ msgs'[t] = msgs[t]
      BY <1>1, <2>3, CreationHandling DEF Handling, CallsOn, Task
    <2> QED BY <1>0, <2>2, <2>4
  <1>2. ASSUME NEW s \in Slot, Advance(s)
        PROVE  Goal
    <2>1. CreationOf(s) /\ At(s, "coordinate")
      BY <1>2, AdvanceCreates DEF CreationOf
    <2>2. db'[NewId].cause = Task(s) /\ Task(s) \in Id
      BY <1>2, <2>1, AdvanceCreates, InsertEffect DEF Creates, Base, NamesExist, At
    <2>3. s \in Handling(Task(s))
      BY <2>1 DEF Handling, CallsOn, HandPC, WorkerPC, At
    <2>4. CASE t # Task(s)
      <3>1. Successors(t)' \subseteq Successors(t)
        BY <2>1, <2>2, <2>4, CreationHandling DEF Successors
      <3>2. t # NewId
        BY <2>1, <3>1, CreationHandling
      <3>3. Handling(t)' \subseteq Handling(t) /\ msgs'[t] = msgs[t]
        BY <2>1, <3>2, CreationHandling DEF Handling, CallsOn, Task
      <3> QED BY <1>0, <3>1, <3>3
    <2>5. CASE t = Task(s)
      <3>1. msgs[t] = 0 /\ \A r \in Handling(t) : r = s
        BY <2>3, <2>5 DEF SingleInv, Single
      <3>2. Successors(t) = {}
        BY <1>0, <2>3, <2>5
      <3>3. Successors(t)' \subseteq {NewId}
        BY <2>1, <3>2, CreationHandling DEF Successors
      <3>4. t # NewId
        BY <2>1, <2>3, <2>5, CreationHandling
      <3>5. Handling(t)' = {} /\ msgs'[t] = 0
        BY <2>1, <3>1, <3>4, CreationHandling DEF Handling, CallsOn, Task
      <3> QED BY <3>3, <3>5
    <2> QED BY <2>4, <2>5
  <1>3. ASSUME NEW s \in Slot, QuietOf(s)
        PROVE  Goal
    <2>1. Successors(t)' = Successors(t)
      BY <1>3, QuietRows
    <2>2. Handling(t)' \subseteq Handling(t) /\ msgs'[t] = msgs[t]
      BY <1>3, QuietCalls DEF Handling, CallsOn, Task
    <2> QED BY <1>0, <2>1, <2>2
  <1>4. ASSUME NEW s \in Slot, Publish(s)
        PROVE  Goal
    <2>1. Successors(t)' = Successors(t)
      BY <1>4, QuietRows
    <2>2. t # Task(s)
      BY <1>0, <1>4, <2>1, PublishHandling
    <2> QED BY <1>0, <1>4, <2>1, <2>2, PublishHandling
  <1>5. ASSUME NEW s \in Slot, NEW u \in Id, Deliver(s, u)
        PROVE  Goal
    <2>1. Successors(t)' = Successors(t)
      BY <1>5, QuietRows
    <2>2. t # u
      BY <1>0, <1>5, <2>1, DeliverHandling
    <2> QED BY <1>0, <1>5, <2>1, <2>2, DeliverHandling
  <1>6. CASE UNCHANGED vars
    BY <1>0, <1>6 DEF vars, Handling, CallsOn, Task, Successors
  <1> QED BY <1>1, <1>2, <1>3, <1>4, <1>5, <1>6, StepsWithoutRetry

LEMMA HandlingInvariant ==
  ASSUME {"retry", "requeue"} \cap Api = {}
  PROVE  Spec => [](Base /\ PayloadInv /\ SingleInv /\ ForkInv)
  <1>1. Init => Base /\ PayloadInv /\ SingleInv /\ ForkInv
    <2> SUFFICES ASSUME Init
                 PROVE  SingleInv /\ ForkInv
      BY BaseInit, PayloadInvInit
    <2>1. \A t \in Id : msgs[t] = 0 /\ Handling(t) = {} /\ Successors(t) = {}
      BY IdAssumption DEF Init, NoRow, NoCall, Handling, CallsOn, HandPC, WorkerPC, Successors
    <2> QED BY <2>1 DEF SingleInv, Single, ForkInv
  <1>2. Base /\ PayloadInv /\ SingleInv /\ ForkInv /\ [Next]_vars
          => (Base /\ PayloadInv /\ SingleInv /\ ForkInv)'
    BY BaseStep, PayloadInvStep, SingleStep, ForkStep
  <1> QED BY <1>1, <1>2, PTL DEF Spec

LEMMA AtMostOne ==
  ASSUME NEW S, IsFiniteSet(S), \A r, q \in S : r = q
  PROVE  Cardinality(S) \in {0, 1}
  <1>1. CASE S = {}
    BY <1>1, FS_EmptySet
  <1>2. ASSUME NEW r \in S
        PROVE  Cardinality(S) \in {0, 1}
    <2>1. S = {r}
      BY <1>2
    <2> QED BY <2>1, FS_Singleton
  <1> QED BY <1>1, <1>2

\* Without retries a task is handled once: the broker and the calls hold one
\* copy of it between them, even when messages are lost and processes die.
THEOREM TasksAreHandledOnce ==
  ASSUME {"retry", "requeue"} \cap Api = {}
  PROVE  Spec => []OneHandler
  <1>1. SingleInv => OneHandler
    <2> SUFFICES ASSUME NEW t \in Id, Single(t)
                 PROVE  msgs[t] + Cardinality(Handling(t)) <= 1
      BY DEF SingleInv, OneHandler, Handling, HandPC
    <2>1. IsFiniteSet(Handling(t))
      BY FiniteParts DEF Handling
    <2> QED BY <2>1, AtMostOne, FS_EmptySet DEF Single
  <1> QED BY <1>1, HandlingInvariant, PTL

\* ... and an invoice run is never forked.
THEOREM RunsAreNotForked ==
  ASSUME {"retry", "requeue"} \cap Api = {}
  PROVE  Spec => []RunNotForked
  <1>1. ForkInv => RunNotForked
    <2> SUFFICES ASSUME ForkInv, NEW t \in Id
                 PROVE  Cardinality(Successors(t)) <= 1
      BY DEF RunNotForked
    <2>1. \A u, v \in Successors(t) : u = v
      BY DEF ForkInv
    <2>2. IsFiniteSet(Successors(t))
      BY IdAssumption, FS_Subset DEF Successors
    <2> QED BY <2>1, <2>2, AtMostOne
  <1> QED BY <1>1, HandlingInvariant, PTL


---------------------------------------------------------------------------
(* Who tends to a task.  A pending task that was never attempted and one in *)
(* processing need somebody; no step but the end of a call, or an emission  *)
(* that is lost, leaves them alone.                                         *)

On(t, pcs) == \E r \in Slot : call[r].task = t /\ call[r].pc \in pcs

\* K: who carries a pending task besides the broker.
Carried0(t, K) ==
  db[t].status = "pending" /\ db[t].retries = 0 => msgs[t] > 0 \/ On(t, K)

Tended(t, K) ==
  /\ Carried0(t, K)
  /\ db[t].status = "processing" => On(t, OwnerPC)

Carriers(K) ==
  \/ K = {"publish", "start"} /\ ~ Faults
  \/ K = {"publish", "start", "failIncr"}

\* A call past FailIncr has counted its failure, and nobody starts a
\* workflow, whose first row is published by no one.
FailingInv ==
  /\ \A s \in Slot : call[s].pc \in {"failRead", "failWrite"} => db[Task(s)].retries >= 1
  /\ \A s \in Slot : ~ At(s, "enqueue")

LEMMA OnKept ==
  ASSUME NEW s \in Slot, NEW t, NEW pcs, On(t, pcs),
         \A r \in Slot \ {s} : call'[r] = call[r],
         call[s].task = t /\ call[s].pc \in pcs => call'[s].task = t /\ call'[s].pc \in pcs
  PROVE  On(t, pcs)'
  <1>1. PICK r \in Slot : call[r].task = t /\ call[r].pc \in pcs
    BY DEF On
  <1>2. call'[r].task = t /\ call'[r].pc \in pcs
    BY <1>1
  <1> QED BY <1>2 DEF On

\* Enough for a step of slot s that leaves the row's status alone.
LEMMA TendedKept ==
  ASSUME NEW s \in Slot, NEW t \in Id, NEW K, Tended(t, K),
         \A r \in Slot \ {s} : call'[r] = call[r],
         db'[t].status = db[t].status, db'[t].retries = db[t].retries,
         msgs[t] > 0 => msgs'[t] > 0,
         call[s].task = t => /\ call'[s].task = t
                             /\ call[s].pc \in K => call'[s].pc \in K
                             /\ call[s].pc \in OwnerPC => call'[s].pc \in OwnerPC
  PROVE  Tended(t, K)'
  <1>1. Carried0(t, K)'
    BY OnKept DEF Tended, Carried0
  <1>2. db'[t].status = "processing" => On(t, OwnerPC)'
    BY OnKept DEF Tended
  <1> QED BY <1>1, <1>2 DEF Tended

\* A step of a call on another task, or of one that is on neither list.
LEMMA TendedElsewhere ==
  ASSUME NEW s \in Slot, NEW t \in Id, NEW K, Tended(t, K),
         \A r \in Slot \ {s} : call'[r] = call[r],
         db'[t] = db[t], msgs'[t] = msgs[t],
         call[s].task # t \/ call[s].pc \notin K \cup OwnerPC
  PROVE  Tended(t, K)'
  <1>1. Carried0(t, K)'
    BY OnKept DEF Tended, Carried0
  <1>2. db'[t].status = "processing" => On(t, OwnerPC)'
    BY OnKept DEF Tended
  <1> QED BY <1>1, <1>2 DEF Tended

LEMMA TendedCreation ==
  ASSUME Base, FailingInv, NEW s \in Slot, CreationOf(s), ~ StartInvoiceWorkflow(s),
         NEW t \in Id, NEW K, Carriers(K), Tended(t, K)
  PROVE  Tended(t, K)'
  <1> USE DEF OwnerPC, Carriers
  <1>1. PICK type, payload, cause, origin :
          Creates(s, type, payload, cause, origin, "publish")
    <2>1. ~ Enqueue(s)
      BY DEF FailingInv, Enqueue
    <2>2. CASE Advance(s) \/ Compensate(s)
      BY <2>2, AdvanceCreates, CompensateCreates
    <2>3. ASSUME NEW new \in NewTask, CreateTask(s, new)
          PROVE  Creates(s, new.type, new.payload, NoId, "client", "publish")
      BY <2>3 DEF CreateTask, Creates
    <2>4. ASSUME NEW u \in Id, CompensateTask(s, u)
          PROVE  Creates(s, "compensation", {}, u, "client", "publish")
      BY <2>4 DEF CompensateTask, Creates
    <2> QED BY <2>1, <2>2, <2>3, <2>4 DEF CreationOf
  <1>2. /\ NewId \in Id
        /\ \A u \in Id \ {NewId} : db'[u] = db[u]
        /\ db'[NewId].status = "pending"
        /\ call'[s].pc = "publish" /\ call'[s].task = NewId
        /\ \A r \in Slot \ {s} : call'[r] = call[r]
        /\ UNCHANGED msgs
    BY <1>1, InsertEffect, BeginEffect DEF Creates
  <1>3. CASE t = NewId
    <2>1. On(t, K)'
      BY <1>2, <1>3 DEF On
    <2> QED BY <1>2, <1>3, <2>1 DEF Tended, Carried0
  <1>4. CASE t # NewId
    <2>1. call[s].pc \notin K \cup OwnerPC
      BY DEF CreationOf, StartInvoiceWorkflow, Advance, Enqueue, Compensate, CreateTask,
             CompensateTask, At
    <2> QED BY <1>2, <1>4, <2>1, TendedElsewhere
  <1> QED BY <1>3, <1>4

\* The steps on the row of the call's own task, by what they write.
LEMMA TendedWork ==
  ASSUME Base, PayloadInv, FailingInv, NEW s \in Slot,
         NEW t \in Id, NEW K, Carriers(K), Tended(t, K),
         \/ Start(s) \/ Succeed(s) \/ Fail(s) \/ Store(s) \/ Complete(s) \/ Throw(s)
         \/ FailIncr(s) \/ FailRead(s) \/ FailWrite(s) \/ Finish(s) \/ Cancel(s)
  PROVE  Tended(t, K)'
  <1> USE DEF OwnerPC, Carriers
  <1>1. Task(s) \in Id /\ Exists(Task(s))
    BY DEF Start, Succeed, Fail, Store, Complete, Throw, FailIncr, FailRead, FailWrite,
           Finish, Cancel, At, Base, NamesExist
  <1>2. msgs' = msgs /\ \A u \in Id \ {Task(s)} : db'[u] = db[u]
    BY <1>1, StatusEffect, StoreEffect, FailIncrEffect
       DEF Start, Succeed, Fail, Store, Complete, Throw, FailIncr, FailRead, FailWrite,
           Finish, Cancel
  <1>3. \A r \in Slot \ {s} : call'[r] = call[r]
    <2>1. CASE Succeed(s) \/ FailRead(s)
      BY <2>1 DEF Succeed, FailRead, Base, TypeOK
    <2>2. CASE ~ (Succeed(s) \/ FailRead(s))
      BY <2>2, GotoEffect, ReturnEffect
         DEF Start, Fail, Store, Complete, Throw, FailIncr, FailWrite, Finish, Cancel, Catch
    <2> QED BY <2>1, <2>2
  <1>4. CASE Task(s) # t
    BY <1>2, <1>3, <1>4, TendedElsewhere DEF Task
  <1>5. CASE Task(s) = t
    <2>1. CASE Start(s)
      <3>1. call'[s].task = t /\ call'[s].pc \in OwnerPC /\ db'[t].status = "processing"
        BY <1>1, <1>5, <2>1, GotoEffect, StatusEffect DEF Start, Catch, Task
      <3> QED BY <3>1 DEF Tended, Carried0, On
    <2>2. CASE Complete(s)
      <3>1. db'[t].status = "completed"
        BY <1>1, <1>5, <2>2, StatusEffect DEF Complete
      <3> QED BY <3>1 DEF Tended, Carried0
    <2>3. CASE FailIncr(s)
      <3>1. /\ db'[t].retries = db[t].retries + 1 /\ db[t].retries \in Nat
            /\ call'[s].task = t /\ call'[s].pc = "failRead"
        BY <1>1, <1>5, <2>3, GotoEffect, FailIncrEffect DEF FailIncr, Task, Base, TypeOK, Row
      <3> QED BY <3>1 DEF Tended, Carried0, On
    <2>4. CASE FailWrite(s)
      <3>1. /\ db'[t].status \in {"failed", "pending"} /\ db'[t].retries = db[t].retries
            /\ db[t].retries \in Nat /\ db[t].retries >= 1
        BY <1>1, <1>5, <2>4, StatusEffect
           DEF FailWrite, FailingInv, At, Task, Base, TypeOK, Row
      <3> QED BY <3>1 DEF Tended, Carried0
    <2>5. CASE Cancel(s)
      <3>1. db'[t].status = "cancelled"
        BY <1>1, <1>5, <2>5, StatusEffect DEF Cancel
      <3> QED BY <3>1 DEF Tended, Carried0
    <2>6. CASE Finish(s)
      <3>1. call[s].pc = "coordinate" /\ db' = db
        BY <2>6 DEF Finish, At
      <3> QED BY <1>2, <1>3, <3>1, TendedElsewhere
    <2>7. CASE Succeed(s) \/ Fail(s) \/ Store(s) \/ Throw(s) \/ FailRead(s)
      <3>1. db'[t].status = db[t].status /\ db'[t].retries = db[t].retries
        BY <1>1, <1>5, <2>7, StoreEffect DEF Succeed, Fail, Throw, FailRead
      <3>2. /\ call'[s].task = t
            /\ call[s].pc \in K => call'[s].pc \in K
            /\ call[s].pc \in OwnerPC => call'[s].pc \in OwnerPC
        <4>1. CASE Succeed(s)
          BY <1>5, <4>1 DEF Succeed, Base, TypeOK, Call, At, Task
        <4>2. CASE FailRead(s)
          BY <1>5, <4>2 DEF FailRead, Base, TypeOK, Call, At, Task
        <4>3. CASE Fail(s) \/ Store(s)
          BY <1>5, <4>3, GotoEffect DEF Fail, Store, Catch, At, Task
        <4>4. CASE Throw(s)
          BY <1>5, <4>4, GotoEffect DEF Throw, Task
        <4> QED BY <2>7, <4>1, <4>2, <4>3, <4>4
      <3> QED BY <1>2, <1>3, <3>1, <3>2, TendedKept
    <2> QED BY <2>1, <2>2, <2>3, <2>4, <2>5, <2>6, <2>7
  <1> QED BY <1>4, <1>5

\* A message comes, or a client asks for a task to be done again or not at all.
LEMMA TendedRequest ==
  ASSUME Base, NEW s \in Slot, NEW u \in Id,
         Deliver(s, u) \/ RetryTask(s, u) \/ RequeueTask(s, u) \/ CancelTask(s, u),
         NEW t \in Id, NEW K, Carriers(K), Tended(t, K)
  PROVE  Tended(t, K)'
  <1> USE DEF OwnerPC, Carriers
  <1>1. /\ call[s].pc = "idle" /\ call'[s].task = u
        /\ \A r \in Slot \ {s} : call'[r] = call[r]
    BY BeginEffect DEF Deliver, RetryTask, RequeueTask, CancelTask, At
  <1>2. /\ \A v \in Id \ {u} : db'[v] = db[v] /\ msgs'[v] = msgs[v]
        /\ db'[u].status = db[u].status \/ db'[u].status = "pending"
    BY StatusEffect DEF Deliver, RetryTask, RequeueTask, CancelTask, Base, TypeOK
  <1>3. CASE t # u
    BY <1>1, <1>2, <1>3, TendedElsewhere
  <1>4. CASE t = u /\ CancelTask(s, u)
    BY <1>1, <1>4, TendedElsewhere DEF CancelTask
  <1>5. CASE t = u /\ ~ CancelTask(s, u)
    <2>1. call'[s].pc \in K
      BY <1>5, BeginEffect DEF Deliver, RetryTask, RequeueTask
    <2>2. On(t, K)'
      BY <1>1, <1>5, <2>1 DEF On
    <2>3. db'[t].status = "processing" => On(t, OwnerPC)'
      BY <1>1, <1>2, <1>5, OnKept DEF Tended
    <2> QED BY <2>2, <2>3 DEF Tended, Carried0
  <1> QED BY <1>3, <1>4, <1>5

\* An emission leaves every task tended to but the one it fails to publish.
LEMMA TendedPublish ==
  ASSUME Base, NEW s \in Slot, Publish(s),
         NEW t \in Id, NEW K, Tended(t, K), Task(s) # t \/ msgs' # msgs
  PROVE  Tended(t, K)'
  <1> USE DEF OwnerPC
  <1>1. /\ call[s].pc = "publish" /\ Task(s) \in Id /\ db' = db
        /\ \A r \in Slot \ {s} : call'[r] = call[r]
    BY ReturnEffect DEF Publish, At, Base, NamesExist
  <1>2. CASE Task(s) # t
    <2>1. msgs'[t] = msgs[t]
      BY <1>1, <1>2 DEF Publish, Emit, Base, TypeOK
    <2> QED BY <1>1, <1>2, <2>1, TendedElsewhere DEF Task
  <1>3. CASE Task(s) = t /\ msgs' # msgs
    <2>1. msgs'[t] > 0
      BY <1>3 DEF Publish, Emit, Base, TypeOK
    <2>2. db[t].status = "processing" => On(t, OwnerPC)'
      BY <1>1, OnKept DEF Tended
    <2> QED BY <1>1, <2>1, <2>2 DEF Tended, Carried0
  <1> QED BY <1>2, <1>3

LEMMA FailingStep ==
  ASSUME "start" \notin Api, Base, PayloadInv, FailingInv, [Next]_vars
  PROVE  FailingInv'
  <1>1. Base'
    BY BaseStep
  <1>2. \A u \in Id : Exists(u) => /\ db[u].retries \in Nat /\ db'[u].retries \in Nat
                                  /\ db[u].retries <= db'[u].retries
    BY RowStep
  <1>3. SUFFICES ASSUME NEW r \in Slot,
                        \/ call'[r].pc \in {"failRead", "failWrite"}
                        \/ call'[r].pc = "enqueue"
                 PROVE  /\ call'[r].pc # "enqueue"
                        /\ db'[call'[r].task].retries >= 1
    BY DEF FailingInv, At, Task
  <1>4. ASSUME call'[r].task = call[r].task,
               call[r].pc \in {"failRead", "failWrite"}, call'[r].pc # "enqueue"
        PROVE  db'[call'[r].task].retries >= 1
    <2>1. Task(r) \in Id /\ Exists(Task(r)) /\ db[Task(r)].retries >= 1
      BY <1>4 DEF Base, NamesExist, At, FailingInv
    <2> QED BY <1>2, <1>4, <2>1 DEF Task
  <1>5. CASE call'[r] = call[r]
    BY <1>3, <1>4, <1>5 DEF FailingInv, At
  <1>6. ASSUME NEW s \in Slot, CreationOf(s), ~ StartInvoiceWorkflow(s)
        PROVE  call'[r] = call[r]
    <2>1. PICK type, payload, cause, origin, pc :
            Creates(s, type, payload, cause, origin, pc) /\ pc = "publish"
      <3>1. CASE Enqueue(s)
        BY <3>1 DEF FailingInv, Enqueue
      <3>2. CASE Advance(s) \/ Compensate(s)
        BY <3>2, AdvanceCreates, CompensateCreates
      <3>3. ASSUME NEW new \in NewTask, CreateTask(s, new)
            PROVE  Creates(s, new.type, new.payload, NoId, "client", "publish")
        BY <3>3 DEF CreateTask, Creates
      <3>4. ASSUME NEW u \in Id, CompensateTask(s, u)
            PROVE  Creates(s, "compensation", {}, u, "client", "publish")
        BY <3>4 DEF CompensateTask, Creates
      <3> QED BY <1>6, <3>1, <3>2, <3>3, <3>4 DEF CreationOf
    <2> QED BY <1>3, <2>1, BeginEffect DEF Creates
  <1>7. ASSUME NEW s \in Slot, FailIncr(s), r = s
        PROVE  /\ call'[r].pc # "enqueue" /\ db'[call'[r].task].retries >= 1
    <2>1. call'[r].pc = "failRead" /\ call'[r].task = Task(s)
      BY <1>7, GotoEffect DEF FailIncr, Task
    <2>2. db'[Task(s)].retries = db[Task(s)].retries + 1 /\ db[Task(s)].retries \in Nat
      BY <1>2, <1>7, FailIncrEffect
    <2> QED BY <2>1, <2>2
  <1>8. ASSUME NEW s \in Slot, FailRead(s), r = s
        PROVE  /\ call'[r].task = call[r].task /\ call[r].pc = "failRead"
               /\ call'[r].pc = "failWrite"
    BY <1>8 DEF FailRead, Base, TypeOK, Call, At
  <1>9. ASSUME NEW s \in Slot,
               \/ Start(s) \/ Fail(s) \/ Store(s) \/ Complete(s) \/ Throw(s)
               \/ (FailIncr(s) /\ r # s) \/ FailWrite(s) \/ Finish(s) \/ Cancel(s)
               \/ Publish(s) \/ Abort(s)
               \/ \E u \in Id : \/ Deliver(s, u) \/ RetryTask(s, u)
                               \/ RequeueTask(s, u) \/ CancelTask(s, u)
        PROVE  call'[r] = call[r]
    BY <1>3, <1>9, GotoEffect, BeginEffect, ReturnEffect
       DEF Start, Fail, Store, Complete, Throw, FailIncr, FailWrite, Finish, Cancel, Publish,
           Abort, Deliver, RetryTask, RequeueTask, CancelTask, Catch
  <1>10. ASSUME NEW s \in Slot, Succeed(s) \/ (FailRead(s) /\ r # s)
         PROVE  call'[r] = call[r]
    BY <1>3, <1>10 DEF Succeed, FailRead, Base, TypeOK, Call
  <1>11. CASE UNCHANGED vars
    BY <1>5, <1>11 DEF vars
  <1>12. ASSUME NEW s \in Slot, Request(s)
         PROVE  call'[r] = call[r]
    <2>1. CASE \E u \in Id : RetryTask(s, u) \/ RequeueTask(s, u) \/ CancelTask(s, u)
      BY <1>9, <2>1
    <2>2. CASE \/ \E new \in NewTask : CreateTask(s, new)
               \/ \E u \in Id : CompensateTask(s, u)
      <3>1. call'[s].pc = "publish"
        BY <2>2, BeginEffect DEF CreateTask, CompensateTask
      <3>2. ~ StartInvoiceWorkflow(s)
        BY <3>1, BeginEffect DEF StartInvoiceWorkflow
      <3> QED BY <1>6, <2>2, <3>2 DEF CreationOf
    <2> QED BY <1>12, <2>1, <2>2 DEF Request
  <1>13. ASSUME NEW s \in Slot, Step(s)
         PROVE  /\ call'[r].pc # "enqueue" /\ db'[call'[r].task].retries >= 1
    <2>1. CASE Advance(s) \/ Compensate(s) \/ Enqueue(s)
      <3>1. ~ StartInvoiceWorkflow(s)
        BY <2>1 DEF Advance, Compensate, Enqueue, StartInvoiceWorkflow, At
      <3> QED BY <1>5, <1>6, <2>1, <3>1 DEF CreationOf
    <2>2. CASE FailIncr(s)
      <3>1. CASE r = s
        BY <1>7, <2>2, <3>1
      <3>2. CASE r # s
        BY <1>5, <1>9, <2>2, <3>2
      <3> QED BY <3>1, <3>2
    <2>3. CASE FailRead(s)
      <3>1. CASE r = s
        BY <1>4, <1>8, <2>3, <3>1
      <3>2. CASE r # s
        BY <1>5, <1>10, <2>3, <3>2
      <3> QED BY <3>1, <3>2
    <2>4. CASE \/ Start(s) \/ Fail(s) \/ Store(s) \/ Complete(s)
               \/ FailWrite(s) \/ Finish(s) \/ Cancel(s) \/ Publish(s)
      <3>1. call'[r] = call[r]
        BY <1>9, <2>4
      <3> QED BY <1>5, <3>1
    <2>5. CASE Succeed(s)
      <3>1. call'[r] = call[r]
        BY <1>10, <2>5
      <3> QED BY <1>5, <3>1
    <2> QED BY <1>13, <2>1, <2>2, <2>3, <2>4, <2>5 DEF Step
  <1> QED BY <1>5, <1>9, <1>11, <1>12, <1>13 DEF Next, Calm


\* Every step of a call but its emission or its end.
LEMMA TendedStep ==
  ASSUME "start" \notin Api, Base, PayloadInv, FailingInv, NEW s \in Slot,
         \/ Request(s) \/ (\E u \in Id : Deliver(s, u))
         \/ (Step(s) /\ ~ Publish(s)) \/ Throw(s),
         NEW t \in Id, NEW K, Carriers(K), Tended(t, K)
  PROVE  Tended(t, K)'
  <1>1. CASE CreationOf(s) /\ ~ StartInvoiceWorkflow(s)
    BY <1>1, TendedCreation
  <1>2. CASE \E u \in Id : \/ Deliver(s, u) \/ RetryTask(s, u)
                           \/ RequeueTask(s, u) \/ CancelTask(s, u)
    BY <1>2, TendedRequest
  <1>3. CASE \/ Start(s) \/ Succeed(s) \/ Fail(s) \/ Store(s) \/ Complete(s) \/ Throw(s)
             \/ FailIncr(s) \/ FailRead(s) \/ FailWrite(s) \/ Finish(s) \/ Cancel(s)
    BY <1>3, TendedWork
  <1>4. CASE Request(s)
    <2>1. CASE \/ \E new \in NewTask : CreateTask(s, new)
               \/ \E u \in Id : CompensateTask(s, u)
      <3>1. ~ StartInvoiceWorkflow(s)
        <4>1. call'[s].pc = "publish"
          BY <2>1, BeginEffect DEF CreateTask, CompensateTask
        <4> QED BY <4>1, BeginEffect DEF StartInvoiceWorkflow
      <3> QED BY <1>1, <2>1, <3>1 DEF CreationOf
    <2> QED BY <1>2, <1>4, <2>1 DEF Request
  <1>5. CASE Step(s) /\ ~ Publish(s)
    <2>1. CASE Advance(s) \/ Compensate(s) \/ Enqueue(s)
      <3>1. ~ StartInvoiceWorkflow(s)
        BY <2>1 DEF Advance, Compensate, Enqueue, StartInvoiceWorkflow, At
      <3> QED BY <1>1, <2>1, <3>1 DEF CreationOf
    <2> QED BY <1>3, <1>5, <2>1 DEF Step
  <1> QED BY <1>2, <1>3, <1>4, <1>5

LEMMA TendedInit ==
  ASSUME Init, NEW K
  PROVE  Base /\ PayloadInv /\ FailingInv /\ \A t \in Id : Tended(t, K)
  <1>1. Base /\ PayloadInv
    BY BaseInit, PayloadInvInit
  <1>2. FailingInv
    BY DEF Init, FailingInv, At, Task, NoCall
  <1>3. \A t \in Id : Tended(t, K)
    BY DEF Init, Tended, Carried0, NoRow
  <1> QED BY <1>1, <1>2, <1>3

CarriedInv ==
  /\ Base /\ PayloadInv /\ FailingInv
  /\ \A t \in Id : Tended(t, {"publish", "start"})

\* While nothing throws, dies or is lost, and every row that is made is
\* published, a task that was never attempted is always on its way.
THEOREM NewTasksAreCarried ==
  ASSUME ~ Faults, ~ Lossy, "start" \notin Api
  PROVE  Spec => []PendingIsCarried
  <1> DEFINE K == {"publish", "start"}
  <1>1. Init => CarriedInv
    BY TendedInit DEF CarriedInv
  <1>2. CarriedInv /\ [Next]_vars => CarriedInv'
    <2> SUFFICES ASSUME CarriedInv, [Next]_vars PROVE CarriedInv'
      OBVIOUS
    <2>1. Base' /\ PayloadInv' /\ FailingInv'
      BY BaseStep, PayloadInvStep, FailingStep DEF CarriedInv
    <2>2. ASSUME NEW t \in Id PROVE Tended(t, K)'
      <3>1. Tended(t, K) /\ Carriers(K)
        BY DEF CarriedInv, Carriers
      <3>2. CASE UNCHANGED vars
        BY <3>1, <3>2 DEF vars, Tended, Carried0, On
      <3>3. ASSUME NEW s \in Slot, Publish(s) PROVE Tended(t, K)'
        <4>1. Task(s) \in Id /\ msgs[Task(s)] \in Nat /\ msgs \in [Id -> Nat]
          BY <3>3 DEF Publish, At, CarriedInv, Base, TypeOK, NamesExist
        <4>2. msgs'[Task(s)] = msgs[Task(s)] + 1
          BY <3>3, <4>1 DEF Publish, Emit
        <4>3. msgs' # msgs
          BY <4>1, <4>2
        <4> QED BY <3>1, <3>3, <4>3, TendedPublish DEF CarriedInv
      <3>4. ASSUME NEW s \in Slot,
                   \/ Request(s) \/ (\E u \in Id : Deliver(s, u))
                   \/ (Step(s) /\ ~ Publish(s)) \/ Throw(s)
            PROVE  Tended(t, K)'
        BY <3>1, <3>4, TendedStep DEF CarriedInv
      <3> QED BY <3>2, <3>3, <3>4 DEF Next, Calm, Abort
    <2> QED BY <2>1, <2>2 DEF CarriedInv
  <1>3. CarriedInv => PendingIsCarried
    <2> SUFFICES ASSUME CarriedInv, NEW t \in Id,
                        db[t].status = "pending" /\ db[t].retries = 0
                 PROVE  msgs[t] > 0 \/ CallsOn(t, K) # {}
      BY DEF PendingIsCarried
    <2>1. msgs[t] > 0 \/ On(t, K)
      BY DEF CarriedInv, Tended, Carried0
    <2> QED BY <2>1 DEF On, CallsOn, Task
  <1> QED BY <1>1, <1>2, <1>3, PTL DEF Spec

==========================================================================
