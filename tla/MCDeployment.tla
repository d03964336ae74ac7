--------------------------- MODULE MCDeployment ---------------------------
(* Model-checking instances of Deployment. *)
EXTENDS Deployment, TLC

\* What clients may post.
Billed   == [type |-> "generate_pdf", payload |-> {"invoice"}]
FlakyPdf == {Billed}

\* One id is left for what follows from a client's task.
OneLeft == [r \in Requests |-> 1]

\* One call on each instance.
CONSTANTS s1, s2, i1, i2
OneEach == (s1 :> i1) @@ (s2 :> i2)

==========================================================================
