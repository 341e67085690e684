------------------------------ MODULE MCResets ------------------------------
(* Resets on a small instance.                                             *)
EXTENDS Resets

\* No request dies, no token expires, the relay takes every mail, and who confirms has
\* had one: what still goes wrong is the doing of two confirmations that overlap.
NothingFails ==
    ResetsInit /\ [][\E w \in Mailer :
        \/ IssueReset(w) \/ RelayTakes(w)
        \/ LoadReset(w) /\ token'[w] \in inbox
        \/ ChangePassword(w) \/ EndTheSessions(w)]_resetsVars
=============================================================================
