------------------------- MODULE MCAdministration -------------------------
(* Model-checking instances of Administration. *)
EXTENDS Administration, TLC

\* Requests are interchangeable: every action treats all of them alike.
AdminSymmetry == Permutations(Admin)

==========================================================================
