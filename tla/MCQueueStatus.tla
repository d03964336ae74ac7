-------------------------- MODULE MCQueueStatus --------------------------
(* Model-checking instances of QueueStatus. *)
EXTENDS QueueStatus, TLC

\* What clients may post.
Http     == [type |-> "http_request", payload |-> {}]
HttpTask == {Http}

NoneLeft == [r \in Requests |-> 0]

==========================================================================
