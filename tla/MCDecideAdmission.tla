-------------------------- MODULE MCDecideAdmission --------------------------
(* Small instances of the decide gate for TLC. *)
EXTENDS DecideAdmission, TLC

\* The calls are interchangeable until they are made.
CallSymmetry == Permutations(Calls)
=============================================================================
