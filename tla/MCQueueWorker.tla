-------------------------- MODULE MCQueueWorker --------------------------
(* Model-checking instances of QueueWorker. *)
EXTENDS QueueWorker, TLC

\* What clients may post.
Http    == [type |-> "http_request", payload |-> {}]
Billed  == [type |-> "generate_pdf", payload |-> {"invoice"}]

HttpTask  == {Http}
FlakyPdf  == {Billed}
FirstTask == {[type |-> "fetch_orders", payload |-> {}]}
NoTasks   == {}

\* What clients leave of the ids: a chain is the three tasks after the first.
\* RunLeft lets one run begin, with a start or with its first task, and one
\* compensation by a client besides.
NoneLeft  == [r \in Requests |-> 0]
ChainLeft == [r \in Requests |-> 3]
RunLeft   == [r \in Requests |-> IF r = "create" THEN 6 ELSE 5]

\* Slots are interchangeable: every action treats all of them alike.
SlotSymmetry == Permutations(Slot)
==========================================================================
