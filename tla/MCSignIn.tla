------------------------------ MODULE MCSignIn ------------------------------
(* SignIn on a small instance.                                             *)
EXTENDS SignIn, TLC

Symmetry == Permutations(Worker) \cup Permutations(Challenge)
=============================================================================
