---------------------------- MODULE LookThenUse -----------------------------
(***************************************************************************)
(* A secret (a sign-in challenge, a reset token) that a request looks up   *)
(* and later uses, in two transactions with no claim in between.  Only a   *)
(* request that has found it fresh gets through by it, and a secret that   *)
(* is out, used or withdrawn, is never fresh again.                        *)
(*                                                                         *)
(* This is less than single use: of several requests that have found the   *)
(* secret fresh each may get through, whatever the others have done to it. *)
(***************************************************************************)
CONSTANTS Secret, Request, None

VARIABLES
    fresh,
    out,
    taken,      \* the secret a request has found fresh
    used        \* secrets that have let a request through

secretVars == <<fresh, out, taken, used>>

Init ==
    /\ fresh = {}
    /\ out = {}
    /\ taken = [r \in Request |-> None]
    /\ used = {}

\* A new secret, which may put others out.
Issue(s) ==
    /\ s \notin fresh \cup out
    /\ s \in fresh' /\ fresh' \subseteq fresh \cup {s}
    /\ out' = out \cup (fresh \ fresh')
    /\ UNCHANGED <<taken, used>>

Withdraw(s) ==
    /\ s \in fresh
    /\ fresh' = fresh \ {s}
    /\ out' = out \cup {s}
    /\ UNCHANGED <<taken, used>>

Find(r, s) ==
    /\ taken[r] = None
    /\ s \in fresh
    /\ taken' = [taken EXCEPT ![r] = s]
    /\ UNCHANGED <<fresh, out, used>>

\* Fresh when it was found; it may be out by now.
Use(r) ==
    /\ taken[r] # None
    /\ fresh' = fresh \ {taken[r]}
    /\ out' = out \cup {taken[r]}
    /\ used' = used \cup {taken[r]}
    /\ taken' = [taken EXCEPT ![r] = None]

\* What a request has found does not let it through, and may be withdrawn for that.
Fail(r) ==
    /\ taken[r] # None
    /\ \/ UNCHANGED <<fresh, out>>
       \/ fresh' = fresh \ {taken[r]} /\ out' = out \cup {taken[r]}
    /\ taken' = [taken EXCEPT ![r] = None]
    /\ UNCHANGED used

Next ==
    \/ \E s \in Secret : Issue(s) \/ Withdraw(s)
    \/ \E r \in Request : Use(r) \/ Fail(r) \/ \E s \in Secret : Find(r, s)

Spec == Init /\ [][Next]_secretVars
=============================================================================
