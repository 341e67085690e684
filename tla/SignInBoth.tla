----------------------------- MODULE SignInBoth -----------------------------
(* SignIn as it is, and with the two ways around the count of wrong codes  *)
(* closed, in one behaviour specification: `strict` says which, and never  *)
(* changes.                                                                *)
EXTENDS SignIn

VARIABLE strict

\* Two ways around the count of wrong codes, ruled out: two requests at once that
\* have loaded it, and a right password that clears it.
Loaded(w) == pc[w] \in {"rightPassword", "wrongPassword", "rightCode", "wrongCode", "resetting"}

OneAtATime == \A v, w \in Worker : Loaded(v) /\ Loaded(w) => v = w

ClearsGuesses == guesses > 0 /\ \E w \in Worker : RightPassword(w)

StrictNext == Next /\ ~ClearsGuesses /\ OneAtATime'

BothInit == Init /\ strict \in BOOLEAN

BothNext ==
    /\ \/ ~strict /\ Next
       \/ strict /\ StrictNext
    /\ UNCHANGED strict

bothVars == <<vars, strict>>

BothSpec == BothInit /\ [][BothNext]_bothVars

\* Where the count is not cleared by a right password and not lost to an overlap, the
\* guesses at the codes of all challenges stay in one budget (verify_challenge).
StrictGuessBudget == strict => GuessBudget
=============================================================================
