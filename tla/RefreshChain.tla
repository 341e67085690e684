---------------------------- MODULE RefreshChain ----------------------------
(***************************************************************************)
(* What rotation promises of refresh tokens: each family is a chain.  A    *)
(* token is spent once; what comes after it is issued once, to a family    *)
(* whose tokens are all spent; and a token never changes its family.       *)
(***************************************************************************)
CONSTANTS Token, None

VARIABLES
    chain,  \* the family of a token; None: not issued
    spent

chainVars == <<chain, spent>>

Links(f) == {t \in Token : chain[t] = f}

\* Each token issued before rotation was watched is alone in its family.
Init ==
    /\ chain \in [Token -> Token \cup {None}]
    /\ \A t \in Token : chain[t] \in {t, None}
    /\ spent = {}

Start(t) ==
    /\ chain[t] = None
    /\ chain' = [chain EXCEPT ![t] = t]
    /\ UNCHANGED spent

Spend(t) ==
    /\ chain[t] # None
    /\ t \notin spent
    /\ spent' = spent \cup {t}
    /\ UNCHANGED chain

Succeed(t, f) ==
    /\ chain[t] = None
    /\ Links(f) # {} /\ Links(f) \subseteq spent
    /\ chain' = [chain EXCEPT ![t] = f]
    /\ UNCHANGED spent

Next == \E t \in Token : Start(t) \/ Spend(t) \/ \E f \in Token : Succeed(t, f)

Spec == Init /\ [][Next]_chainVars
=============================================================================
