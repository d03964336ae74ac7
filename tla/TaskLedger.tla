---------------------------- MODULE TaskLedger ----------------------------
(***************************************************************************)
(* What a task row promises to whoever reads it (GET /tasks/:id), with no  *)
(* word of calls, messages or statements: a task keeps the input it was    *)
(* made with, its failures are counted one by one, a result once held is   *)
(* never lost, and a final status tells the truth.  QueueWorker implements *)
(* it (Ledger there).                                                      *)
(***************************************************************************)
EXTENDS Naturals

CONSTANTS
  Id,         \* the tasks there may ever be
  Input,      \* what a task may be made with
  MaxRetries  \* failures after which a task may be given up

VARIABLE ledger  \* ledger[t]: what the row of task t says

Status == {"pending", "processing", "completed", "failed", "cancelled"}

Line == [status   : Status \cup {"absent"},
         failures : Nat,
         input    : Input,
         done     : BOOLEAN]   \* the result is held

LedgerTypeOK == ledger \in [Id -> Line]

Known(t) == ledger[t].status # "absent"

LedgerInit ==
  \E blank \in Input :
    ledger = [t \in Id |-> [status |-> "absent", failures |-> 0,
                            input |-> blank, done |-> FALSE]]

\* A task of a kind that has no result is done from the start.
Create(t) ==
  /\ ~ Known(t)
  /\ \E input \in Input, done \in BOOLEAN :
       ledger' = [ledger EXCEPT ![t] = [status |-> "pending", failures |-> 0,
                                        input |-> input, done |-> done]]

Attempted(t) ==
  /\ Known(t)
  /\ ledger' = [ledger EXCEPT ![t].failures = @ + 1]

Produced(t) ==
  /\ Known(t)
  /\ ledger' = [ledger EXCEPT ![t].done = TRUE]

Mark(t, status) ==
  /\ Known(t)
  /\ status = "completed" => ledger[t].done
  /\ status = "failed" => ledger[t].failures >= MaxRetries
  /\ ledger' = [ledger EXCEPT ![t].status = status]

LedgerNext ==
  \E t \in Id : \/ Create(t) \/ Attempted(t) \/ Produced(t)
                \/ \E status \in Status : Mark(t, status)

LedgerSpec == LedgerInit /\ [][LedgerNext]_ledger

==========================================================================
