----------------------------- MODULE MCSessions -----------------------------
(* Sessions on a small instance.                                           *)
EXTENDS Sessions, TLC

Symmetry ==
    Permutations(Worker) \cup Permutations(Session) \cup Permutations(Token \ Legacy)

\* No request crashes and no token expires: what still goes wrong is the doing
\* of interleavings only.
NothingFails ==
    Init /\ [][\E w \in Worker : Begin(w) \/ Step(w) \/ DeadlockVictim(w)]_vars
=============================================================================
