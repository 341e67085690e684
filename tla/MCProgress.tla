----------------------------- MODULE MCProgress -----------------------------
(***************************************************************************)
(* What must happen in the end, in the two components that have fairness,  *)
(* each on a small instance.  `picked` is the one that moves.              *)
(***************************************************************************)
EXTENDS Sessions, Events

VARIABLE picked

progressVars == <<picked, vars, eventsVars>>

ProgressInit ==
    /\ picked \in {"sessions", "events"}
    /\ address \in IF picked = "events" THEN Address ELSE {CHOOSE e \in Address : TRUE}
    /\ Init /\ EventsInit

\* An account that is disabled has no more events.
Rest == picked = "events" /\ UNCHANGED progressVars

ProgressNext ==
    \/ picked = "sessions" /\ Next /\ UNCHANGED <<picked, eventsVars>>
    \/ picked = "events" /\ EventsNext /\ UNCHANGED <<picked, vars>>
    \/ Rest

ProgressSpec == ProgressInit /\ [][ProgressNext]_progressVars /\ Fairness /\ EventsFairness
=============================================================================
