-------------------------- MODULE Administration --------------------------
(***************************************************************************)
(* The requests of operators on one database: workflows made, changed,     *)
(* deleted and started while the seeder fills the tables and empties them. *)
(* Workers are left out: a task that is started stays as it is.            *)
(***************************************************************************)
EXTENDS Seeder

CONSTANT MaxStrikes  \* how often a statement throws or a process dies (bound)
ASSUME StrikeAssumption == MaxStrikes \in Nat

VARIABLE strikes  \* how often one has

avars == <<db, msgs, call, wf, owner, op, settled, spent, job, customers, logs, strikes>>

AdminInit == Init /\ WorkflowInit /\ SeederInit /\ strikes = 0

AdminNext ==
  \E a \in Admin :
    \/ /\ \/ JobAt(a, "idle") /\ WorkflowNext(a) /\ UNCHANGED seedvars
          \/ OpAt(a, "idle") /\ SeederNext(a)
       /\ UNCHANGED strikes
    \/ /\ (WorkflowFault(a) /\ UNCHANGED seedvars) \/ SeederFault(a)
       /\ strikes < MaxStrikes
       /\ strikes' = strikes + 1

AdminSpec == AdminInit /\ [][AdminNext]_avars

---------------------------------------------------------------------------
(* Properties *)

\* Typing.
AdminTypeOK ==
  /\ TypeOK
  /\ wf \in [Wf -> WfRow]
  /\ owner \in [Id -> Wf \cup {NoWf}]
  /\ op \in [Admin -> Op]
  /\ settled \subseteq Wf
  /\ spent \subseteq Wf \cup Id
  /\ job \in [Admin -> Job]
  /\ customers \in BOOLEAN
  /\ logs \subseteq Id
  /\ strikes \in 0 .. MaxStrikes

\* Whatever is truncated, deleted and inserted in between, no task belongs to
\* a workflow and no log row to a task that is gone (clear, createTask,
\* seedTasks, seedTaskLogs).
NoOrphans ==
  /\ \A t \in Id : owner[t] # NoWf => Exists(t) /\ Stored(owner[t])
  /\ \A t \in logs : Exists(t)

\* Two requests may both find the tables empty and both seed them, but seeding
\* never adds to data that was there all along: when its three counts, taken
\* at three moments, have come back zero, every row that was there at the
\* request has gone (hasExistingData).
SeedsOnlyWhenGone ==
  \A a \in Admin : JobAt(a, "count") /\ job[a].todo = {} => job[a].old \cap Present = {}

\* A clear that succeeds, with the truncations or with the fallback that takes
\* over half-way, has removed every row that was there at the request (clear).
ClearedWhatWasThere ==
  \A a \in Admin : job[a].pc \in {"truncate", "delete"} /\ job[a].todo = {} =>
    job[a].old \cap Present = {}

==========================================================================
