------------------------------ MODULE MCEdges ------------------------------
(***************************************************************************)
(* Five components that share no state, each on a small instance, in one   *)
(* run.  `picked` is the one that moves; the others stay where they start, *)
(* so the states of the run are those of each component, one after the     *)
(* other, and a property of a component is checked on all of its own.      *)
(***************************************************************************)
EXTENDS AccountsBoth, MCAccounts, RateLimiter, Startup, Browser, Resets

CONSTANTS none, two

\* A bucket closed to all but the request that opens its window, and one with a
\* ceiling of two.
Ceilings == [s \in Slot |-> IF s = two THEN 2 ELSE 0]

\* Of the switches refused outside development one stands for all; the cookie's
\* policy needs its own.
Deployments ==
    {c \in [development : BOOLEAN, admin : {"published", "private"},
            relay : BOOLEAN, relaySecret : {"unset", "published", "private"},
            hooks : BOOLEAN, hookSecret : {"unset", "private"},
            fallback : BOOLEAN, hazards : {{}, {"REFRESH_COOKIE_SECURE"}},
            sameSiteNone : BOOLEAN, pem : BOOLEAN, mounted : BOOLEAN] :
        /\ c.sameSiteNone => c.admin = "private" /\ ~c.hooks
        /\ ~c.hooks => c.hookSecret = "unset"
        /\ ~c.relay => c.relaySecret = "unset"}

\* The default of settings.py, and a deployment that has widened it.
CookiePaths == {<<"v1", "token">>, <<"v1">>}

VARIABLE picked

Parts == {"accounts", "limiter", "startup", "browser", "resets"}

edgesVars == <<picked, bothVars, limiterVars, startupVars, browserVars, resetsVars>>

\* What tells states apart: where sign-ups are in turn, nothing checked reads the history
\* of Accounts that has not been checked where they are not.
Distinct ==
    <<picked, inTurn, credential, oauth, request, IF inTurn THEN <<>> ELSE history,
      limiterVars, startupVars, browserVars, resetsVars>>

\* A bound: the third OAuth state is issued only where sign-ups may overlap and none
\* with a key has been answered yet.
Callbacks == (\A s \in State : oauth[s] # "none") => ~inTurn /\ answers = {}

\* The components that stay put start in one of their initial states.
EdgesInit ==
    /\ picked \in Parts
    /\ inTurn \in IF picked = "accounts" THEN BOOLEAN ELSE {FALSE}
    /\ sinceSweep \in IF picked = "limiter" THEN 0 .. Window ELSE {0}
    /\ conf \in IF picked = "startup" THEN Deployments ELSE {CHOOSE c \in Deployments : TRUE}
    /\ cookiePath \in IF picked = "browser" THEN CookiePaths ELSE {<<"v1">>}
    /\ paths \in IF picked = "resets" THEN (SUBSET {"relay", "fallback"}) \ {{}} ELSE {{"relay"}}
    /\ BothInit /\ LimiterInit /\ StartupInit /\ BrowserInit /\ ResetsInit

\* The others may run out of rows or keys with no request left to go on.
Rest == picked # "accounts" /\ UNCHANGED edgesVars

EdgesNext ==
    \/ /\ picked = "accounts" /\ BothNext
       /\ UNCHANGED <<picked, limiterVars, startupVars, browserVars, resetsVars>>
    \/ /\ picked = "limiter" /\ LimiterNext
       /\ UNCHANGED <<picked, bothVars, startupVars, browserVars, resetsVars>>
    \/ /\ picked = "startup" /\ StartupNext
       /\ UNCHANGED <<picked, bothVars, limiterVars, browserVars, resetsVars>>
    \/ /\ picked = "browser" /\ BrowserNext
       /\ UNCHANGED <<picked, bothVars, limiterVars, startupVars, resetsVars>>
    \/ /\ picked = "resets" /\ ResetsNext
       /\ UNCHANGED <<picked, bothVars, limiterVars, startupVars, browserVars>>
    \/ Rest

EdgesSpec == EdgesInit /\ [][EdgesNext]_edgesVars
=============================================================================
