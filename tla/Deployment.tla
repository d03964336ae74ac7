---------------------------- MODULE Deployment ----------------------------
(***************************************************************************)
(* The application as it is deployed: instances that start, serve, shut    *)
(* down and die (main.ts), each with one connection to the broker that its *)
(* calls publish on (messaging.service.ts, base.provider.ts).  Every call  *)
(* runs on one instance and dies with it.                                  *)
(*                                                                         *)
(* A message that reaches the broker is taken to reach the workers of some *)
(* instance.                                                               *)
(***************************************************************************)
EXTENDS QueueWorker

CONSTANTS
  Instance,  \* the instances
  Home       \* Home[s]: the instance that the calls in slot s run on

ASSUME InstanceAssumption == IsFiniteSet(Instance) /\ Home \in [Slot -> Instance]

VARIABLES
  phase,       \* phase[i]: how far instance i is in its life
  struck,      \* history: the tasks some call on which was cut short, or whose
               \* emission was refused or lost
  superseded,  \* history: the tasks made from a result that another attempt at
               \* the same task has replaced by its own
  behind       \* history: the calls that are making a task from such a result

replaced == <<superseded, behind>>
dvars == <<db, msgs, call, phase, struck, superseded, behind>>

\* "booting": the microservice listens, the provider does not exist yet;
\* "serving": everything is up, and the connected flag is set; "closing":
\* the provider is disconnected, while workers and requests still go on.
Phase == {"booting", "serving", "closing", "dead"}

DeploymentInit ==
  /\ Init
  /\ phase = [i \in Instance |-> "dead"]
  /\ struck = {}
  /\ superseded = {}
  /\ behind = {}

PhaseOf(s) == phase[Home[s]]
Calls(i)   == {s \in Slot : Home[s] = i /\ ~ At(s, "idle")}

Enter(i, p) == phase' = [phase EXCEPT ![i] = p] /\ UNCHANGED <<db, msgs, call, struck, replaced>>

---------------------------------------------------------------------------
(* The life of an instance *)

\* bootstrap up to startAllMicroservices: the workers receive events, before
\* app.listen runs onModuleInit and opens the HTTP port.
Boot(i) == phase[i] = "dead" /\ Calls(i) = {} /\ Enter(i, "booting")

\* MessagingService.onModuleInit: the provider is made and connected.
Connect(i) == phase[i] = "booting" /\ Enter(i, "serving")

\* SIGTERM: the destroy hooks run before the servers are closed, and
\* MessagingService.onModuleDestroy is one of them.
Disconnect(i) == phase[i] = "serving" /\ Enter(i, "closing")

\* The end of a shutdown, which waits for no worker; a failed connect, which
\* leaves bootstrap with an exception; a crash.
Die(i) == phase[i] # "dead" /\ Enter(i, "dead")

---------------------------------------------------------------------------
(* Calls, as far as their instance lets them *)

Strike(s) == struck' = struck \cup {Task(s)}

\* HTTP requests and events.
Accept(s) ==
  /\ \/ PhaseOf(s) \in {"serving", "closing"} /\ Request(s)
     \/ PhaseOf(s) # "dead" /\ \E t \in Id : Deliver(s, t)
  /\ UNCHANGED <<phase, struck, replaced>>

\* A result takes the place of the one another attempt may have stored.  A call
\* at "coordinate" may have read that one already, to make a task from it.
Replace(s) ==
  /\ superseded' = superseded \cup Successors(Task(s))
  /\ \E read \in SUBSET CallsOn(Task(s), {"coordinate"}) : behind' = behind \cup read

\* A task is made from the result that the call has read.
HandOn(s) ==
  /\ superseded' = IF s \in behind THEN superseded \cup {NewId} ELSE superseded
  /\ behind' = behind \ {s}

Work(s) ==
  /\ PhaseOf(s) # "dead"
  /\ ~ At(s, "publish")
  /\ \/ Store(s) /\ Replace(s)
     \/ Advance(s) /\ HandOn(s)
     \/ /\ Throw(s) \/ (Step(s) /\ ~ Store(s) /\ ~ Advance(s))
        /\ behind' = behind \ {s}
        /\ UNCHANGED superseded
  /\ UNCHANGED <<phase, struck>>

\* emit throws without the provider or its connected flag, and the call ends:
\* nobody repairs the row it has written.
Refuse(s) ==
  /\ PhaseOf(s) \in {"booting", "closing"}
  /\ At(s, "publish")
  /\ Return(s)
  /\ Strike(s)
  /\ UNCHANGED <<db, msgs, phase, replaced>>

\* The connected flag is set, whether or not the broker is still there: an
\* emission that went nowhere looks like any other.
Transmit(s) ==
  /\ PhaseOf(s) = "serving"
  /\ Publish(s)
  /\ IF msgs' = msgs THEN Strike(s) ELSE UNCHANGED struck
  /\ UNCHANGED <<phase, replaced>>

\* An exception leaves the call, or its instance is dead.
CutShort(s) ==
  /\ Abort(s)
  /\ Strike(s)
  /\ behind' = behind \ {s}
  /\ UNCHANGED <<phase, superseded>>

DeploymentNext ==
  \/ \E i \in Instance : Boot(i) \/ Connect(i) \/ Disconnect(i) \/ Die(i)
  \/ \E s \in Slot : Accept(s) \/ Work(s) \/ Refuse(s) \/ Transmit(s) \/ CutShort(s)

DeploymentSpec == DeploymentInit /\ [][DeploymentNext]_dvars

---------------------------------------------------------------------------
(* Properties *)

\* Typing of the whole state.
DeploymentTypeOK ==
  /\ TypeOK
  /\ phase \in [Instance -> Phase]
  /\ struck \subseteq Id
  /\ superseded \subseteq Id /\ behind \subseteq Slot

\* The application itself loses no task, whatever starts, stops and fails
\* around it: a row is stranded, that is pending and never attempted with
\* nothing on its way to it, or processing in nobody's hands, only if a call on
\* it was cut short or its emission was refused or lost.  Nothing else needs
\* a repair after an outage (handleTask, handleFailure, emit).
StrandedOnlyWhenStruck ==
  \A t \in Id \ struck :
    /\ db[t].status = "pending" /\ db[t].retries = 0
         => msgs[t] > 0 \/ CallsOn(t, {"publish", "start", "failIncr"}) # {}
    /\ db[t].status = "processing"
         => CallsOn(t, {"run", "store", "complete", "failIncr", "failRead", "failWrite"}) # {}

\* In the same way an invoice run stops half-way only at a task that was
\* struck: a completed task has its successor, or a call that is about to make
\* it or to take the completion back (handleTaskCompletion).
RunsStopOnlyWhenStruck ==
  \A t \in Id \ struck :
    db[t].status = "completed" /\ Successor(db[t].type) # "none" =>
      \/ Successors(t) # {}
      \/ CallsOn(t, {"coordinate", "failIncr", "failRead", "failWrite"}) # {}

\* When several attempts at a task store a result, each in place of the one
\* before, the last one is what the run goes on with, unless the task was struck:
\* a completed task has a successor made from the result that its row now holds,
\* or a call that is about to make one, from the row as it is now, or to take
\* the completion back (updateTaskPayload, handleTaskCompletion).
LatestResultPassedOn ==
  \A t \in Id \ struck :
    db[t].status = "completed" /\ Successor(db[t].type) # "none" =>
      \/ Successors(t) \ superseded # {}
      \/ CallsOn(t, {"complete", "coordinate", "failIncr", "failRead", "failWrite"})
           \ behind # {}

\* And it forgets no failure: of the failed attempts that were counted for an
\* invoice task, each has its own compensation or is in the hands of a call
\* that is about to make it, unless a call on the task was cut short
\* (handleFailure, handleTaskFailure).
UncompensatedOnlyWhenStruck ==
  \A t \in Id \ struck : db[t].type \in InvoiceType =>
    db[t].retries = Cardinality(WorkerCompensations(t))
                      + Cardinality(CallsOn(t, {"failRead", "failWrite", "compensate"}))

==========================================================================
