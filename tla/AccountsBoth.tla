---------------------------- MODULE AccountsBoth ----------------------------
(* Accounts as it is, and with the sign-ups under one key in turn, in one  *)
(* behaviour specification: `inTurn` says which, and never changes.        *)
EXTENDS Accounts

VARIABLE inTurn

\* What no index rules out, ruled out: two sign-ups at once under one key.
OneSignUpPerKey ==
    \A v, w \in Worker :
        v # w /\ pc[v] # "idle" /\ pc[w] # "idle" /\ want[v].key # None =>
            want[v].key # want[w].key

InTurnNext == Next /\ OneSignUpPerKey'

BothInit == Init /\ inTurn \in BOOLEAN

BothNext ==
    /\ \/ ~inTurn /\ Next
       \/ inTurn /\ InTurnNext
    /\ UNCHANGED inTurn

bothVars == <<vars, inTurn>>

BothSpec == BothInit /\ [][BothNext]_bothVars

\* Sign-ups under one key that do not overlap make one account (create_credential).
InTurnKeyNamesOneAccount == inTurn => KeyNamesOneAccount
=============================================================================
