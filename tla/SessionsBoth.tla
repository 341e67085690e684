---------------------------- MODULE SessionsBoth ----------------------------
(* Sessions as it is, and without the races of NoRace, in one behaviour    *)
(* specification: `raceless` says which, and never changes.                *)
EXTENDS Sessions

VARIABLE raceless

\* What the code does not rule out, ruled out: two sign-ins of one account at once; an
\* account disabled between the check of a request and the session it then inserts, be
\* it a sign-in or the adoption of a legacy family; a refresh of the family in which a
\* reuse is being answered; two requests at once that end a disabled account.
SigningIn(w) == pc[w] \in {"signin", "superseding"}

Adopting(w) == pc[w] \in {"checked", "rotating"} /\ sess[w] = None

Refreshing(w) == pc[w] \in {"claimed", "checked", "rotating"}

EndingAll(w) == pc[w] \in {"endTokens", "endSessions", "ending"}

Closing(w) == EndingAll(w) /\ cred[w] \in disabled

NoRace ==
    /\ \A v, w \in Worker : v # w /\ SigningIn(v) /\ SigningIn(w) => cred[v] # cred[w]
    /\ \A w \in Worker : SigningIn(w) \/ Adopting(w) => cred[w] \notin disabled
    /\ \A v, w \in Worker :
          pc[v] = "burning" /\ Refreshing(w) => family[tok[v]] # family[tok[w]]
    /\ \A v, w \in Worker : v # w /\ Closing(v) /\ Closing(w) => cred[v] # cred[w]

\* Nor does a request die between the commit of a disable and that of the end of the
\* sessions.  Anything else still overlaps, and dies, as it may.
RacelessNext ==
    /\ \/ \E w \in Worker : Begin(w) \/ Step(w)
       \/ \E w \in Worker : ~Closing(w) /\ (Crash(w) \/ DeadlockVictim(w))
       \/ \E t \in Token : Expire(t)
    /\ NoRace'

BothInit == Init /\ raceless \in BOOLEAN

BothNext ==
    /\ \/ ~raceless /\ Next
       \/ raceless /\ RacelessNext
    /\ UNCHANGED raceless

bothVars == <<vars, raceless>>

BothSpec == BothInit /\ [][BothNext]_bothVars

\* Without a refresh of the family under way, an answered reuse leaves no token of it
\* to spend (rotate_refresh).
RacelessReuseBurns == raceless => BurnedFamilyIsRevoked

\* Sign-ins that do not overlap leave one live session (_start_session).
RacelessSignInSupersedes == raceless => OneLiveSession

\* A disable that no sign-in overlaps, and that does not die, leaves no live session
\* (disable_credential).
RacelessDisableSignsOut == raceless => DisabledIsSignedOut
=============================================================================
