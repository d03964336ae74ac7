---------------------------- MODULE TaskAgenda ----------------------------
(***************************************************************************)
(* What the scheduler promises of a task with a date, with no word of cron *)
(* jobs, queries or rows: it waits until its date has come, is             *)
(* withdrawn for good or taken once, and what is taken is executed a       *)
(* limited number of times, maybe never.  Scheduler implements it (Agenda  *)
(* there).                                                                 *)
(***************************************************************************)
EXTENDS Naturals, FiniteSets

CONSTANTS
  Id,         \* the tasks there may ever be
  NoId,       \* "no task"
  Executions  \* how often one may be executed

VARIABLES
  clock,  \* the time
  date,   \* date[t]: when task t is to be executed (0: it has no date)
  state,  \* state[t]: what has become of it
  copyOf  \* copyOf[u]: the task that u was made to execute

agenda == <<clock, date, state, copyOf>>

State == {"free", "waiting", "withdrawn", "taken"}

AgendaInit ==
  /\ clock = 0
  /\ date = [t \in Id |-> 0]
  /\ state = [t \in Id |-> "free"]
  /\ copyOf = [t \in Id |-> NoId]

Pass == clock' = clock + 1 /\ UNCHANGED <<date, state, copyOf>>

\* Any of the tasks that wait: a run of the cron job that dies may let go of
\* several that were cancelled.
Withdraw ==
  /\ UNCHANGED <<clock, date, copyOf>>
  /\ state' = [t \in Id |->
       IF state[t] = "waiting" /\ state'[t] = "withdrawn" THEN "withdrawn" ELSE state[t]]

\* A task that was cancelled before it got its date is withdrawn at once.
Plan(t) ==
  /\ state[t] = "free"
  /\ date'[t] \in Nat \ {0} /\ date' = [date EXCEPT ![t] = date'[t]]
  /\ \E s \in {"waiting", "withdrawn"} : state' = [state EXCEPT ![t] = s]
  /\ UNCHANGED <<clock, copyOf>>

Take(t) ==
  /\ state[t] = "waiting" /\ date[t] <= clock
  /\ state' = [state EXCEPT ![t] = "taken"]
  /\ UNCHANGED <<clock, date, copyOf>>

Execute(t) ==
  /\ state[t] = "taken"
  /\ Cardinality({u \in Id : copyOf[u] = t}) < Executions
  /\ \E u \in Id : copyOf[u] = NoId /\ copyOf' = [copyOf EXCEPT ![u] = t]
  /\ UNCHANGED <<clock, date, state>>

AgendaNext ==
  \/ Pass \/ Withdraw
  \/ \E t \in Id : Plan(t) \/ Take(t) \/ Execute(t)

AgendaSpec == AgendaInit /\ [][AgendaNext]_agenda

==========================================================================
