----------------------------- MODULE MCAccounts -----------------------------
(* Accounts on a small instance: two Google identities that may share an  *)
(* address.                                                                *)
EXTENDS Accounts, TLC

CONSTANTS i1, i2, e1, e2

GoogleAddresses == [i \in Identity |-> IF i = i1 THEN {e1} ELSE {e1, e2}]

Symmetry == Permutations(Account) \cup Permutations(Worker) \cup Permutations(State)
=============================================================================
