--------------------------- MODULE MCScheduler ---------------------------
(* Model-checking instances of Scheduler. *)
EXTENDS Scheduler, TLC

Report == {[type |-> "http_request", payload |-> {}]}

\* Runs of the cron job are interchangeable, and so are the clients' calls.
TickerSymmetry == Permutations(Ticker) \cup Permutations(Slot)
==========================================================================
