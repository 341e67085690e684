--------------------------- MODULE SessionsProofs ---------------------------
(***************************************************************************)
(* Proofs about Sessions, for any sets of accounts, tokens, sessions and   *)
(* concurrent requests.                                                    *)
(***************************************************************************)
EXTENDS SessionsBoth, FiniteSetTheorems, TLAPS

\* What the types rest on: a row has an owner exactly when it has a family,
\* and a request knows an existing token and a credential when it uses them.
WellFormed ==
    /\ \A r \in Row : owner[r] = None <=> family[r] = None
    /\ \A w \in Worker :
          /\ pc[w] \in {"claimed", "checked", "rotating", "burning"} =>
                tok[w] \in Token /\ Exists(tok[w])
          /\ pc[w] \in {"checked", "rotating"} => cred[w] = owner[tok[w]]
          /\ pc[w] \in {"signin", "superseding"} => cred[w] \in Credential

TypeInv == TypeOK /\ WellFormed

LEMMA InitTypeInv == Init => TypeInv
BY ConstantsAssumption
   DEF Init, NoRequest, TypeInv, TypeOK, WellFormed, Exists, Row, Label

\* One step per action.
LEMMA NextTypeInv == TypeInv /\ [Next]_vars => TypeInv'
<1> SUFFICES ASSUME TypeInv, [Next]_vars PROVE TypeInv'
  OBVIOUS
<1> USE ConstantsAssumption
    DEF TypeInv, TypeOK, WellFormed, Exists, Row, database, request, history
<1>1. ASSUME NEW w \in Worker, NEW c \in Credential, BeginSignIn(w, c) PROVE TypeInv'
  BY <1>1 DEF BeginSignIn, FamiliesOf, Label
<1>2. ASSUME NEW w \in Worker, SelectSuperseded(w) PROVE TypeInv'
  BY <1>2 DEF SelectSuperseded, LiveSessions, Label
<1>3. ASSUME NEW w \in Worker, NEW s \in Session, RevokeSession(w, s) PROVE TypeInv'
  BY <1>3 DEF RevokeSession, Flush, Marked, FamilyTokens
<1>4. ASSUME NEW w \in Worker, NEW t \in Token, NEW s \in Session, CommitSignIn(w, t, s)
      PROVE TypeInv'
  BY <1>4 DEF CommitSignIn, CommitRevocations, InsertTokenAndSession, Done, Label
<1>5. ASSUME NEW w \in Worker, NEW t \in Token, ClaimToken(w, t) PROVE TypeInv'
  BY <1>5 DEF ClaimToken, Flush, Label
<1>6. ASSUME NEW w \in Worker, RefuseRefresh(w) PROVE TypeInv'
  BY <1>6 DEF RefuseRefresh, Done, Label
<1>7. ASSUME NEW w \in Worker, AcceptRefresh(w) PROVE TypeInv'
  BY <1>7 DEF AcceptRefresh, FamilySessions, Label
<1>8. ASSUME NEW w \in Worker, CommitClaim(w) PROVE TypeInv'
  BY <1>8 DEF CommitClaim, Label
<1>9. ASSUME NEW w \in Worker, NEW t \in Token, IssueSuccessor(w, t) PROVE TypeInv'
  BY <1>9 DEF IssueSuccessor, InsertToken, Done, Label
<1>10. ASSUME NEW w \in Worker, NEW t \in Token, NEW s \in Session, AdoptFamily(w, t, s)
       PROVE TypeInv'
  BY <1>10 DEF AdoptFamily, InsertTokenAndSession, Done, Label
<1>11. ASSUME NEW w \in Worker, NEW t \in Token, DetectReuse(w, t) PROVE TypeInv'
  BY <1>11 DEF DetectReuse, Marked, FamilyTokens, Label
<1>12. ASSUME NEW w \in Worker, BurnFamily(w) PROVE TypeInv'
  BY <1>12 DEF BurnFamily, CommitRevocations, Done, Label
<1>13. ASSUME NEW w \in Worker, NEW t \in Token, BeginLogout(w, t) PROVE TypeInv'
  BY <1>13 DEF BeginLogout, Marked, FamilyTokens, Label
<1>14. ASSUME NEW w \in Worker, LogoutSession(w) PROVE TypeInv'
  BY <1>14 DEF LogoutSession, Flush, Marked, FamilySessions, Label
<1>15. ASSUME NEW w \in Worker, CommitLogout(w) PROVE TypeInv'
  BY <1>15 DEF CommitLogout, CommitRevocations, Done, Label
<1>16. ASSUME NEW w \in Worker, NEW c \in Credential, PasswordReset(w, c) \/ Disable(w, c)
       PROVE TypeInv'
  BY <1>16 DEF PasswordReset, Disable, BeginEndAll, FamiliesOf, Label
<1>17. ASSUME NEW w \in Worker, NEW t \in Token, LogoutAll(w, t) PROVE TypeInv'
  BY <1>17 DEF LogoutAll, BeginEndAll, FamiliesOf, Label
<1>18. ASSUME NEW w \in Worker, SelectTokens(w) PROVE TypeInv'
  BY <1>18 DEF SelectTokens, Marked, Label
<1>19. ASSUME NEW w \in Worker, SelectSessions(w) PROVE TypeInv'
  BY <1>19 DEF SelectSessions, Flush, LiveSessions, Label
<1>20. ASSUME NEW w \in Worker, CommitEndAll(w) PROVE TypeInv'
  BY <1>20 DEF CommitEndAll, CommitRevocations, Done, Label
<1>21. ASSUME NEW w \in Worker, Crash(w) \/ DeadlockVictim(w) PROVE TypeInv'
  <2>1. Abandon(w)
    BY <1>21 DEF Crash, DeadlockVictim
  <2> QED
    BY <2>1 DEF Abandon, Done, Label
<1>22. ASSUME NEW t \in Token, Expire(t) PROVE TypeInv'
  BY <1>22 DEF Expire
<1>23. CASE UNCHANGED vars
  BY <1>23 DEF vars
<1> QED
  BY <1>1, <1>2, <1>3, <1>4, <1>5, <1>6, <1>7, <1>8, <1>9, <1>10, <1>11, <1>12, <1>13,
     <1>14, <1>15, <1>16, <1>17, <1>18, <1>19, <1>20, <1>21, <1>22, <1>23
     DEF Next, Begin, Step

\* Every variable stays in its type.
THEOREM TypeCorrect == Spec => []TypeOK
<1>1. TypeInv => TypeOK
  BY DEF TypeInv
<1> QED
  BY <1>1, InitTypeInv, NextTypeInv, PTL DEF Spec

-----------------------------------------------------------------------------
(* Rotation keeps every family a chain with at most one session.  The      *)
(* inductive invariant adds to the two properties what they rest on: a     *)
(* family leads to its first token, a row is written by one transaction at *)
(* a time, a claim holds its token, and a refresh that read no session is  *)
(* alone in a position to insert one.                                      *)

Rooted ==
    \A r \in Row : Exists(r) =>
        /\ Exists(family[r])
        /\ family[family[r]] = family[r]
        /\ owner[family[r]] = owner[r]

LocksExclusive == \A v, w \in Worker : v # w => held[v] \cap held[w] = {}

ClaimsHold ==
    \A w \in Worker : pc[w] \in {"claimed", "checked"} =>
        tok[w] \in held[w] /\ tok[w] \notin rotated

Linear ==
    /\ \A t, u \in Token :
          Exists(t) /\ family[t] = family[u] /\ t \notin rotated /\ u \notin rotated => t = u
    /\ \A w \in Worker : \A t \in Token :
          Rotating(w) /\ family[t] = family[tok[w]] => t \in rotated
    /\ \A v, w \in Worker :
          Rotating(v) /\ Rotating(w) /\ family[tok[v]] = family[tok[w]] => v = w

Single ==
    /\ \A s, u \in Session : Exists(s) /\ family[s] = family[u] => s = u
    /\ \A w \in Worker : \A s \in Session :
          pc[w] \in {"checked", "rotating"} /\ sess[w] = None => family[s] # family[tok[w]]

ChainInv == Rooted /\ LocksExclusive /\ ClaimsHold /\ Linear /\ Single

LEMMA InitChainInv == Init => ChainInv
BY ConstantsAssumption
   DEF Init, NoRequest, ChainInv, Rooted, LocksExclusive, ClaimsHold, Linear, Single,
       Exists, Rotating, Row

\* A transaction writes a row only when no other holds it.
LEMMA LocksStayExclusive ==
    ASSUME TypeInv, LocksExclusive, [Next]_vars
    PROVE  LocksExclusive'
<1> USE DEF TypeInv, TypeOK, LocksExclusive
<1>1. ASSUME NEW w \in Worker, NEW rows, Flush(w, rows) PROVE LocksExclusive'
  BY <1>1 DEF Flush, Unlocked
<1>2. ASSUME NEW w \in Worker, held' = [held EXCEPT ![w] = {}] PROVE LocksExclusive'
  BY <1>2
<1>3. CASE UNCHANGED held
  BY <1>3
<1>4. CASE UNCHANGED vars
  BY <1>3, <1>4 DEF vars, request
<1>5. ASSUME NEW w \in Worker, Begin(w) PROVE LocksExclusive'
  BY <1>1, <1>3, <1>5
     DEF Begin, BeginSignIn, PasswordReset, Disable, LogoutAll, BeginEndAll, ClaimToken,
         DetectReuse, BeginLogout
<1>6. ASSUME NEW w \in Worker, Step(w) PROVE LocksExclusive'
  BY <1>1, <1>2, <1>3, <1>6
     DEF Step, SelectSuperseded, RevokeSession, CommitSignIn, AdoptFamily, RefuseRefresh,
         AcceptRefresh, CommitClaim, IssueSuccessor, BurnFamily, LogoutSession, CommitLogout,
         SelectTokens, SelectSessions, CommitEndAll, Done
<1>7. ASSUME NEW w \in Worker, Crash(w) \/ DeadlockVictim(w) PROVE LocksExclusive'
  BY <1>2, <1>7 DEF Crash, DeadlockVictim, Abandon, Done
<1>8. ASSUME NEW t \in Token, Expire(t) PROVE LocksExclusive'
  BY <1>3, <1>8 DEF Expire, request
<1> QED
  BY <1>4, <1>5, <1>6, <1>7, <1>8 DEF Next

\* A step that inserts no row, spends no token and takes no request further
\* along a refresh.
Quiet ==
    /\ UNCHANGED <<owner, family, rotated>>
    /\ \A w \in Worker : pc'[w] \in {"claimed", "checked", "rotating"} =>
          pc'[w] = pc[w] /\ tok'[w] = tok[w] /\ sess'[w] = sess[w] /\ held'[w] = held[w]

LEMMA QuietKeepsChainInv ==
    ASSUME TypeInv, ChainInv, Quiet, LocksExclusive'
    PROVE  ChainInv'
<1> USE DEF TypeInv, TypeOK, ChainInv, Quiet, Exists
<1>1. Rooted'
  BY DEF Rooted
<1>2. ClaimsHold'
  BY DEF ClaimsHold
<1>3. Linear'
  BY DEF Linear, Rotating
<1>4. Single'
  BY DEF Single
<1> QED
  BY <1>1, <1>2, <1>3, <1>4

\* A family begun by a token that did not exist meets no other.
LEMMA NewFamilyKeepsChainInv ==
    ASSUME TypeInv, ChainInv, LocksExclusive',
           NEW w \in Worker, NEW t \in Token, NEW s \in Session, CommitSignIn(w, t, s)
    PROVE  ChainInv'
<1> USE ConstantsAssumption
    DEF TypeInv, TypeOK, WellFormed, ChainInv, Exists, Row, CommitSignIn, InsertTokenAndSession,
        Done
<1>1. cred[w] \in Credential /\ cred[w] # None
  OBVIOUS
<1>2. \A r \in Row : Exists(r) => family[r] # t /\ r # t /\ r # s
  BY DEF Rooted
<1>3. \A v \in Worker : pc'[v] \in {"claimed", "checked", "rotating"} =>
         /\ v # w
         /\ pc'[v] = pc[v] /\ tok'[v] = tok[v] /\ sess'[v] = sess[v] /\ held'[v] = held[v]
         /\ tok[v] # t /\ tok[v] \in Token /\ Exists(tok[v])
         /\ family'[tok'[v]] = family[tok[v]]
  OBVIOUS
<1>4. Rooted'
  BY <1>1, <1>2 DEF Rooted
<1>5. ClaimsHold'
  BY <1>3 DEF ClaimsHold
<1>6. Linear'
  BY <1>2, <1>3 DEF Linear, Rotating
<1>7. Single'
  BY <1>2, <1>3 DEF Single
<1> QED
  BY <1>4, <1>5, <1>6, <1>7

\* A claim, and the checks made under it.  That no request of the family is
\* past its claim, when a refresh finds no session, comes from the chain and
\* from the row lock.
LEMMA ClaimKeepsChainInv ==
    ASSUME TypeInv, ChainInv, LocksExclusive', NEW w \in Worker,
           \/ \E t \in Token : ClaimToken(w, t)
           \/ AcceptRefresh(w)
    PROVE  ChainInv'
<1> USE DEF ChainInv
<1>1. UNCHANGED <<owner, family, rotated>>
  BY DEF ClaimToken, AcceptRefresh, database
<1>2. \A v \in Worker \ {w} :
         pc'[v] = pc[v] /\ tok'[v] = tok[v] /\ sess'[v] = sess[v] /\ held'[v] = held[v]
  BY DEF TypeInv, TypeOK, ClaimToken, AcceptRefresh, Flush
<1>3. /\ pc'[w] \in {"claimed", "checked"} /\ tok'[w] \in Token /\ Exists(tok'[w])
      /\ tok'[w] \in held'[w] /\ tok'[w] \notin rotated
  <2>1. CASE \E t \in Token : ClaimToken(w, t)
    BY <2>1 DEF TypeInv, TypeOK, ClaimToken, Flush, Exists
  <2>2. CASE AcceptRefresh(w)
    BY <2>2 DEF TypeInv, TypeOK, WellFormed, ClaimsHold, AcceptRefresh
  <2> QED
    BY <2>1, <2>2
<1>4. pc'[w] = "checked" /\ sess'[w] = None =>
         \A s \in Session : family[s] # family[tok'[w]]
  <2>1. CASE \E t \in Token : ClaimToken(w, t)
    BY <2>1 DEF TypeInv, TypeOK, ClaimToken
  <2>2. CASE AcceptRefresh(w)
    <3>1. sess'[w] = None => FamilySessions(family[tok[w]]) = {}
      BY <2>2, ConstantsAssumption DEF TypeInv, TypeOK, AcceptRefresh, FamilySessions
    <3> QED
      BY <2>2, <3>1 DEF TypeInv, TypeOK, AcceptRefresh, FamilySessions
  <2> QED
    BY <2>1, <2>2
<1>5. Rooted'
  BY <1>1 DEF Rooted, Exists
<1>6. ClaimsHold'
  BY <1>1, <1>2, <1>3 DEF ClaimsHold
<1>7. Linear'
  BY <1>1, <1>2, <1>3 DEF Linear, Rotating, Exists
<1>8. Single'
  BY <1>1, <1>2, <1>3, <1>4 DEF Single, Exists
<1> QED
  BY <1>5, <1>6, <1>7, <1>8

\* The commit of a claim spends the only unspent token of the family.
LEMMA CommitClaimKeepsChainInv ==
    ASSUME TypeInv, ChainInv, LocksExclusive', NEW w \in Worker, CommitClaim(w)
    PROVE  ChainInv'
<1> USE DEF TypeInv, TypeOK, WellFormed, ChainInv, Exists, CommitClaim
<1>1. tok[w] \in Token /\ Exists(tok[w]) /\ tok[w] \in held[w] /\ tok[w] \notin rotated
  BY DEF ClaimsHold
<1>2. Rooted'
  BY DEF Rooted
<1>3. ClaimsHold'
  BY <1>1 DEF ClaimsHold, LocksExclusive
<1>4. Linear'
  BY <1>1 DEF Linear, Rotating
<1>5. Single'
  BY DEF Single
<1> QED
  BY <1>2, <1>3, <1>4, <1>5

\* A successor is inserted in a family whose tokens are all spent, and by the
\* one request that rotates it.
LEMMA SuccessorKeepsChainInv ==
    ASSUME TypeInv, ChainInv, LocksExclusive', NEW w \in Worker, NEW t \in Token,
           \/ IssueSuccessor(w, t)
           \/ \E s \in Session : AdoptFamily(w, t, s)
    PROVE  ChainInv'
<1> USE ConstantsAssumption
    DEF TypeInv, TypeOK, WellFormed, ChainInv, Exists, Row, IssueSuccessor, AdoptFamily,
        InsertToken, InsertTokenAndSession, Done
<1> DEFINE f == family[tok[w]]
<1>1. /\ Rotating(w) /\ tok[w] \in Token /\ Exists(tok[w]) /\ ~Exists(t) /\ t # tok[w]
      /\ cred[w] = owner[tok[w]] /\ f \in Token /\ Exists(f) /\ f # t
      /\ family[f] = f /\ owner[f] = cred[w]
  BY DEF Rooted, Rotating
<1>2. \A v \in Worker : pc'[v] \in {"claimed", "checked", "rotating"} =>
         /\ v # w
         /\ pc'[v] = pc[v] /\ tok'[v] = tok[v] /\ sess'[v] = sess[v] /\ held'[v] = held[v]
         /\ tok[v] # t /\ tok[v] \in Token /\ Exists(tok[v])
         /\ family'[tok'[v]] = family[tok[v]]
  OBVIOUS
<1>3. \A v \in Worker : pc'[v] \in {"claimed", "checked", "rotating"} => family[tok[v]] # f
  BY <1>1, <1>2 DEF Linear, ClaimsHold, Rotating
<1>4. /\ \A r \in Row : Exists(r) => owner'[r] = owner[r] /\ family'[r] = family[r]
      /\ \A r \in Row : Exists(r)' /\ ~Exists(r) => owner'[r] = cred[w] /\ family'[r] = f
      /\ \A u \in Token : Exists(u)' => Exists(u) \/ u = t
      /\ UNCHANGED rotated
  BY <1>1
<1>5. Rooted'
  BY <1>1, <1>4 DEF Rooted
<1>6. ClaimsHold'
  BY <1>2, <1>4 DEF ClaimsHold
<1>7. Linear'
  <2> USE DEF Linear, Rotating
  <2>1. \A u \in Token : family[u] = f => u \in rotated
    BY <1>1
  <2>2. \A u, v \in Token :
           Exists(u)' /\ family'[u] = family'[v] /\ u \notin rotated' /\ v \notin rotated' => u = v
    BY <1>1, <1>4, <2>1
  <2>3. \A v \in Worker : \A u \in Token :
           Rotating(v)' /\ family'[u] = family'[tok'[v]] => u \in rotated'
    BY <1>1, <1>2, <1>3, <1>4
  <2> QED
    BY <1>2, <2>2, <2>3
<1>8. Single'
  BY <1>1, <1>2, <1>3, <1>4 DEF Single, Rotating
<1> QED
  BY <1>5, <1>6, <1>7, <1>8

LEMMA NextChainInv == TypeInv /\ ChainInv /\ [Next]_vars => ChainInv'
<1> SUFFICES ASSUME TypeInv, ChainInv, [Next]_vars PROVE ChainInv'
  OBVIOUS
<1>1. LocksExclusive'
  BY LocksStayExclusive DEF ChainInv
<1> USE DEF database
<1>2. ASSUME NEW w \in Worker, Begin(w) PROVE ChainInv'
  <2>1. CASE \E t \in Token : ClaimToken(w, t)
    BY <1>1, <2>1, ClaimKeepsChainInv
  <2>2. CASE ~ \E t \in Token : ClaimToken(w, t)
    <3>1. Quiet
      BY <1>2, <2>2
         DEF Quiet, Begin, BeginSignIn, PasswordReset, Disable, LogoutAll, BeginEndAll,
             DetectReuse, BeginLogout, TypeInv, TypeOK
    <3> QED
      BY <1>1, <3>1, QuietKeepsChainInv
  <2> QED
    BY <2>1, <2>2
<1>3. ASSUME NEW w \in Worker, Step(w) PROVE ChainInv'
  <2>1. CASE \E t \in Token, s \in Session : CommitSignIn(w, t, s)
    BY <1>1, <2>1, NewFamilyKeepsChainInv
  <2>2. CASE \E t \in Token : \/ IssueSuccessor(w, t)
                              \/ \E s \in Session : AdoptFamily(w, t, s)
    BY <1>1, <2>2, SuccessorKeepsChainInv
  <2>3. CASE AcceptRefresh(w)
    BY <1>1, <2>3, ClaimKeepsChainInv
  <2>4. CASE CommitClaim(w)
    BY <1>1, <2>4, CommitClaimKeepsChainInv
  <2>5. CASE \/ SelectSuperseded(w)
             \/ \E s \in Session : RevokeSession(w, s)
             \/ RefuseRefresh(w) \/ BurnFamily(w)
             \/ LogoutSession(w) \/ CommitLogout(w)
             \/ SelectTokens(w) \/ SelectSessions(w) \/ CommitEndAll(w)
    <3>1. Quiet
      BY <2>5
         DEF Quiet, SelectSuperseded, RevokeSession, RefuseRefresh, BurnFamily, LogoutSession,
             CommitLogout, SelectTokens, SelectSessions, CommitEndAll, Done, Flush,
             TypeInv, TypeOK
    <3> QED
      BY <1>1, <3>1, QuietKeepsChainInv
  <2> QED
    BY <1>3, <2>1, <2>2, <2>3, <2>4, <2>5 DEF Step
<1>4. ASSUME NEW w \in Worker, Crash(w) \/ DeadlockVictim(w) PROVE ChainInv'
  <2>1. Abandon(w)
    BY <1>4 DEF Crash, DeadlockVictim
  <2>2. Quiet
    BY <2>1 DEF Quiet, Abandon, Done, TypeInv, TypeOK
  <2> QED
    BY <1>1, <2>2, QuietKeepsChainInv
<1>5. ASSUME NEW t \in Token, Expire(t) PROVE ChainInv'
  <2>1. Quiet
    BY <1>5 DEF Quiet, Expire, request
  <2> QED
    BY <1>1, <2>1, QuietKeepsChainInv
<1>6. CASE UNCHANGED vars
  <2>1. Quiet
    BY <1>6 DEF Quiet, vars, request
  <2> QED
    BY <1>1, <2>1, QuietKeepsChainInv
<1> QED
  BY <1>2, <1>3, <1>4, <1>5, <1>6 DEF Next

\* A refresh family is a chain: at most one token to spend, and none while
\* its successor is on the way.
THEOREM RotationStaysLinear == Spec => []RotationIsLinear
<1>1. TypeInv /\ ChainInv => RotationIsLinear
  BY DEF TypeInv, TypeOK, WellFormed, ChainInv, Linear, RotationIsLinear, Unspent,
         FamilyTokens, RotatingFamily, Rotating
<1> QED
  BY <1>1, InitTypeInv, NextTypeInv, InitChainInv, NextChainInv, PTL DEF Spec

\* A refresh family has at most one session, and rows of one account only.
THEOREM SessionsStaySingle == Spec => []OneSessionPerFamily
<1>1. TypeInv /\ ChainInv => OneSessionPerFamily
  BY DEF TypeInv, TypeOK, WellFormed, Row, ChainInv, Rooted, Single, OneSessionPerFamily,
         FamilySessions, FamilyTokens, Exists
<1> QED
  BY <1>1, InitTypeInv, NextTypeInv, InitChainInv, NextChainInv, PTL DEF Spec

\* Of all the actions, three write a family or spend a token.
LEMMA ChainIsElsewhereUntouched ==
    ASSUME Next
    PROVE  \/ UNCHANGED <<family, rotated>>
           \/ \E w \in Worker : CommitClaim(w)
           \/ \E w \in Worker, t \in Token :
                 \/ IssueSuccessor(w, t)
                 \/ \E s \in Session : CommitSignIn(w, t, s) \/ AdoptFamily(w, t, s)
<1> DEFINE Untouched == UNCHANGED <<family, rotated>>
<1>1. ASSUME NEW w \in Worker, Begin(w) PROVE Untouched
  BY <1>1 DEF Begin, BeginSignIn, PasswordReset, Disable, LogoutAll, BeginEndAll, ClaimToken,
              DetectReuse, BeginLogout, database
<1>2. ASSUME NEW w \in Worker, Crash(w) \/ DeadlockVictim(w) PROVE Untouched
  BY <1>2 DEF Crash, DeadlockVictim, Abandon, database
<1>3. ASSUME NEW t \in Token, Expire(t) PROVE Untouched
  BY <1>3 DEF Expire
<1>4. ASSUME NEW w \in Worker,
             \/ SelectSuperseded(w) \/ \E s \in Session : RevokeSession(w, s)
             \/ RefuseRefresh(w) \/ AcceptRefresh(w) \/ BurnFamily(w)
             \/ LogoutSession(w) \/ CommitLogout(w)
             \/ SelectTokens(w) \/ SelectSessions(w) \/ CommitEndAll(w)
      PROVE  Untouched
  BY <1>4 DEF SelectSuperseded, RevokeSession, RefuseRefresh, AcceptRefresh, BurnFamily,
              LogoutSession, CommitLogout, SelectTokens, SelectSessions, CommitEndAll, database
<1> QED
  BY <1>1, <1>2, <1>3, <1>4 DEF Next, Step

\* Sessions implements RefreshChain: the commits of a sign-in, of a claim and of a
\* successor are its three steps, and nothing else touches a chain.
THEOREM RotationIsAChain == Spec => IsRefreshChain
<1>1. Init => Chain!Init
  BY ConstantsAssumption DEF Init, Chain!Init, Row
<1>2. ASSUME TypeInv, ChainInv, [Next]_vars PROVE [Chain!Next]_(Chain!chainVars)
  <2>1. ASSUME NEW t \in Token, NEW f \in Token, family[t] = None, family'[t] = f,
               \A u \in Token \ {t} : family'[u] = family[u]
        PROVE  [u \in Token |-> family'[u]] = [[u \in Token |-> family[u]] EXCEPT ![t] = f]
    BY <2>1
  <2>2. CASE UNCHANGED <<family, rotated>>
    BY <2>2 DEF Chain!chainVars
  <2>3. ASSUME NEW w \in Worker, CommitClaim(w) PROVE Chain!Next
    <3>1. tok[w] \in Token /\ family[tok[w]] # None /\ tok[w] \notin rotated
      BY <1>2, <2>3 DEF CommitClaim, TypeInv, TypeOK, WellFormed, ChainInv, ClaimsHold, Row,
                        Exists
    <3>2. rotated' = rotated \cup {tok[w]} /\ family' = family
      BY <2>3 DEF CommitClaim
    <3> QED
      BY <3>1, <3>2 DEF Chain!Spend, Chain!Next
  <2>4. ASSUME NEW w \in Worker, NEW t \in Token, NEW s \in Session, CommitSignIn(w, t, s)
        PROVE  Chain!Next
    <3>1. family[t] = None /\ rotated' = rotated
      BY <1>2, <2>4 DEF CommitSignIn, InsertTokenAndSession, TypeInv, TypeOK, WellFormed, Row,
                        Exists
    <3>2. family'[t] = t /\ \A u \in Token \ {t} : family'[u] = family[u]
      BY <1>2, <2>4, ConstantsAssumption
         DEF CommitSignIn, InsertTokenAndSession, TypeInv, TypeOK, Row
    <3> QED
      BY <2>1, <3>1, <3>2 DEF Chain!Start, Chain!Next
  <2>5. ASSUME NEW w \in Worker, NEW t \in Token,
               IssueSuccessor(w, t) \/ \E s \in Session : AdoptFamily(w, t, s)
        PROVE  Chain!Next
    <3> DEFINE f == family[tok[w]]
    <3>1. Rotating(w) /\ ~Exists(t) /\ rotated' = rotated
      BY <2>5 DEF IssueSuccessor, AdoptFamily, InsertToken, InsertTokenAndSession, Rotating
    <3>2. tok[w] \in Token /\ Exists(tok[w]) /\ family[t] = None
      BY <1>2, <3>1 DEF Rotating, TypeInv, TypeOK, WellFormed, Row, Exists
    <3>3. f \in Token
      BY <1>2, <3>2 DEF TypeInv, TypeOK, WellFormed, Row, Exists
    <3>4. Chain!Links(f) # {} /\ Chain!Links(f) \subseteq rotated
      BY <1>2, <3>1, <3>2 DEF Chain!Links, ChainInv, Linear, RotatingFamily
    <3>5. family'[t] = f /\ \A u \in Token \ {t} : family'[u] = family[u]
      BY <1>2, <2>5, ConstantsAssumption
         DEF IssueSuccessor, AdoptFamily, InsertToken, InsertTokenAndSession, TypeInv, TypeOK, Row
    <3>6. [u \in Token |-> family'[u]] = [[u \in Token |-> family[u]] EXCEPT ![t] = f]
      BY <2>1, <3>2, <3>3, <3>5
    <3> QED
      BY <3>1, <3>2, <3>3, <3>4, <3>6 DEF Chain!Succeed, Chain!Next
  <2>6. CASE UNCHANGED vars
    BY <2>6 DEF vars, database, Chain!chainVars
  <2> QED
    BY <1>2, <2>2, <2>3, <2>4, <2>5, <2>6, ChainIsElsewhereUntouched
<1> QED
  BY <1>1, <1>2, InitTypeInv, NextTypeInv, InitChainInv, NextChainInv, PTL
     DEF Spec, IsRefreshChain, Chain!Spec

-----------------------------------------------------------------------------
(* What is ended stays ended.  A family that is not legacy has a session   *)
(* from its first commit on, so a request that has listed the sessions has *)
(* one of each family it was asked to end: dead already, written, marked,  *)
(* or still on its list.                                                   *)

Exist(rows) == \A r \in rows : Exists(r)

Housed ==
    \A t \in Token : Exists(t) /\ family[t] \notin Legacy => FamilySessions(family[t]) # {}

Listed(w) == pc[w] \in {"superseding", "ending", "leaving"}

Dying(w) == revoked \cup held[w] \cup dirty[w] \cup todo[w]

Asked(w) ==
    /\ Exist(known[w])
    /\ pc[w] \in {"idle", "claimed", "checked", "rotating", "burning"} => known[w] = {}
    /\ pc[w] \in {"signin", "endTokens", "endSessions"} => \A f \in known[w] : owner[f] = cred[w]
    /\ pc[w] \notin {"superseding", "ending"} => todo[w] = {}
    /\ pc[w] = "signin" /\ ~SingleSession => known[w] = {}
    /\ pc[w] = "logout" => tok[w] \in Token /\ Exists(tok[w]) /\ known[w] = {family[tok[w]]}
    /\ Listed(w) => \A s \in Session : family[s] \in known[w] \ Legacy => s \in Dying(w)

EndInv ==
    /\ Housed
    /\ Exist(ended)
    /\ \A w \in Worker : Asked(w)
    /\ EndedSessionsAreDead

LEMMA InitEndInv == Init => EndInv
  BY ConstantsAssumption
     DEF Init, NoRequest, EndInv, Housed, Exist, Asked, Listed, EndedSessionsAreDead, Exists, Row

\* Rows are inserted, never changed but for their flags; and only a family that is
\* new, or legacy, gets a session.
Grows ==
    /\ \A r \in Row : Exists(r) => owner'[r] = owner[r] /\ family'[r] = family[r]
    /\ \A s \in Session : ~Exists(s) /\ Exists(s)' =>
          family'[s] \in Legacy \/ (family'[s] \in Token /\ ~Exists(family'[s]))
    /\ revoked \subseteq revoked'

Resting(v) ==
    /\ pc'[v] = pc[v] /\ cred'[v] = cred[v] /\ tok'[v] = tok[v] /\ sess'[v] = sess[v]
    /\ todo'[v] = todo[v] /\ dirty'[v] = dirty[v] /\ held'[v] = held[v] /\ known'[v] = known[v]

\* What a step of w owes to EndInv: the families it ends are those it was asked to.
LEMMA StepKeepsEndInv ==
    ASSUME TypeInv, TypeInv', EndInv, Grows, NEW w \in Worker, \A v \in Worker \ {w} : Resting(v),
           Housed', Asked(w)',
           \/ ended' = ended
           \/ /\ ended' = ended \cup known[w]
              /\ revoked' = revoked \cup held[w] \cup dirty[w]
              /\ known[w] = {} \/ (Listed(w) /\ todo[w] = {})
    PROVE  EndInv'
<1> USE DEF TypeInv, TypeOK, WellFormed, Exists, Row
<1>1. ASSUME NEW s \in Session, NEW F \in SUBSET Token, Exist(F), family'[s] \in F \ Legacy
      PROVE  Exists(s) /\ family[s] = family'[s]
  BY <1>1, ConstantsAssumption DEF Grows, Exist
<1>2. ASSUME NEW F \in SUBSET Token, Exist(F) PROVE Exist(F)'
  BY <1>2 DEF Grows, Exist
<1>3. ASSUME NEW v \in Worker \ {w} PROVE Asked(v)'
  <2> USE <1>3 DEF EndInv, Resting
  <2>1. Asked(v)
    OBVIOUS
  <2>2. known[v] \in SUBSET Token /\ Exist(known[v]) /\ Exist(known[v])'
    BY <2>1, <1>2 DEF Asked
  <2>3. pc[v] \in {"signin", "endTokens", "endSessions"} => \A f \in known[v] : owner'[f] = cred[v]
    BY <2>1, <2>2 DEF Asked, Grows, Exist
  <2>4. pc[v] = "logout" => tok[v] \in Token /\ Exists(tok[v])' /\ known[v] = {family'[tok[v]]}
    BY <2>1 DEF Asked, Grows
  <2>5. Listed(v) => \A s \in Session : family'[s] \in known[v] \ Legacy => s \in Dying(v)'
    BY <2>1, <2>2, <1>1 DEF Asked, Grows, Dying
  <2> QED
    BY <2>1, <2>2, <2>3, <2>4, <2>5 DEF Asked, Listed, Exist
<1>4. Exist(known[w]) /\ Exist(ended)
  BY DEF EndInv, Asked
<1>5. Exist(ended)'
  BY <1>2, <1>4 DEF Exist
<1>6. EndedSessionsAreDead'
  <2> SUFFICES ASSUME NEW s \in Session, family'[s] \in ended' \ Legacy PROVE s \in revoked'
    BY DEF EndedSessionsAreDead
  <2>1. CASE family'[s] \in ended
    BY <1>1, <1>4, <2>1 DEF EndInv, EndedSessionsAreDead, Grows
  <2>2. CASE family'[s] \notin ended
    <3>1. family[s] \in known[w] \ Legacy /\ Listed(w) /\ todo[w] = {}
      BY <1>1, <1>4, <2>2
    <3>2. s \in Dying(w)
      BY <3>1 DEF EndInv, Asked
    <3> QED
      BY <2>2, <3>1, <3>2 DEF Dying
  <2> QED
    BY <2>1, <2>2
<1> QED
  BY <1>3, <1>5, <1>6 DEF EndInv

\* A step of one request leaves what the others remember.
LEMMA OthersRest ==
    ASSUME TypeInv, NEW w \in Worker, Begin(w) \/ Step(w) \/ Abandon(w)
    PROVE  \A v \in Worker \ {w} : Resting(v)
<1> SUFFICES ASSUME NEW v \in Worker \ {w} PROVE Resting(v)
  OBVIOUS
<1> USE DEF TypeInv, TypeOK, history, Resting
<1>1. ASSUME NEW c \in Credential, BeginSignIn(w, c) \/ BeginEndAll(w, c) PROVE Resting(v)
  BY <1>1 DEF BeginSignIn, BeginEndAll
<1>2. ASSUME NEW t \in Token, ClaimToken(w, t) \/ DetectReuse(w, t) \/ BeginLogout(w, t)
      PROVE  Resting(v)
  BY <1>2 DEF ClaimToken, DetectReuse, BeginLogout, Flush
<1>3. CASE SelectSuperseded(w) \/ SelectTokens(w)
  BY <1>3 DEF SelectSuperseded, SelectTokens
<1>4. CASE SelectSessions(w)
  BY <1>4 DEF SelectSessions, Flush
<1>5. ASSUME NEW s \in Session, RevokeSession(w, s) PROVE Resting(v)
  BY <1>5 DEF RevokeSession, Flush
<1>6. CASE AcceptRefresh(w) \/ CommitClaim(w)
  <2>1. sess'[v] = sess[v]
    BY <1>6 DEF AcceptRefresh, CommitClaim
  <2> QED
    BY <1>6, <2>1 DEF AcceptRefresh, CommitClaim
<1>7. CASE LogoutSession(w)
  <2>1. dirty'[v] = dirty[v] /\ held'[v] = held[v]
    BY <1>7 DEF LogoutSession, Flush
  <2> QED
    BY <1>7, <2>1 DEF LogoutSession
<1>8. ASSUME Done(w) PROVE Resting(v)
  BY <1>8 DEF Done
<1>9. CASE Begin(w)
  <2>1. ASSUME NEW t \in Token, LogoutAll(w, t) PROVE Resting(v)
    BY <1>1, <2>1 DEF LogoutAll, Exists, Row
  <2> QED
    BY <1>1, <1>2, <1>9, <2>1 DEF Begin, PasswordReset, Disable
<1>10. CASE Step(w) \/ Abandon(w)
  BY <1>3, <1>4, <1>5, <1>6, <1>7, <1>8, <1>10
     DEF Step, CommitSignIn, AdoptFamily, RefuseRefresh, IssueSuccessor, BurnFamily,
         CommitLogout, CommitEndAll, Abandon
<1> QED
  BY <1>9, <1>10

LEMMA NoRowIsNoGrowth ==
    ASSUME EndInv, UNCHANGED <<owner, family>>, revoked \subseteq revoked'
    PROVE  Grows /\ Housed'
  BY DEF Grows, EndInv, Housed, FamilySessions, Exists

\* Requests are asked to end families of their account.
LEMMA BeginKeepsEndInv ==
    ASSUME TypeInv, TypeInv', ChainInv, EndInv, NEW w \in Worker, Begin(w)
    PROVE  EndInv'
<1> USE DEF TypeInv, TypeOK, ChainInv, Exists, Row, database, history
<1>1. UNCHANGED <<owner, family, revoked, ended>> /\ pc[w] = "idle" /\ known[w] = {} /\ todo[w] = {}
  BY DEF Begin, BeginSignIn, PasswordReset, Disable, LogoutAll, BeginEndAll, ClaimToken,
         DetectReuse, BeginLogout, EndInv, Asked
<1>2. \A v \in Worker \ {w} : Resting(v)
  BY OthersRest
<1>3. ASSUME NEW c \in Credential, NEW kind \in {Token, Session}
      PROVE  \A f \in FamiliesOf(c, kind) : Exists(f) /\ owner[f] = c
  BY ConstantsAssumption DEF FamiliesOf, Rooted
<1>4. Asked(w)'
  <2>1. ASSUME NEW c \in Credential, BeginSignIn(w, c) PROVE Asked(w)'
    BY <1>1, <1>3, <2>1 DEF BeginSignIn, Asked, Exist, Listed
  <2>2. ASSUME NEW c \in Credential, BeginEndAll(w, c) PROVE Asked(w)'
    BY <1>1, <1>3, <2>2 DEF BeginEndAll, Asked, Exist, Listed
  <2>3. ASSUME NEW t \in Token, ClaimToken(w, t) \/ DetectReuse(w, t) PROVE Asked(w)'
    BY <1>1, <2>3 DEF ClaimToken, DetectReuse, Asked, Exist, Listed
  <2>4. ASSUME NEW t \in Token, BeginLogout(w, t) PROVE Asked(w)'
    BY <1>1, <2>4 DEF BeginLogout, Asked, Exist, Listed, Rooted
  <2>5. ASSUME NEW t \in Token, LogoutAll(w, t) PROVE Asked(w)'
    BY <2>2, <2>5 DEF LogoutAll
  <2> QED
    BY <2>1, <2>2, <2>3, <2>4, <2>5 DEF Begin, PasswordReset, Disable
<1> QED
  BY <1>1, <1>2, <1>4, NoRowIsNoGrowth, StepKeepsEndInv

\* Steps that list or revoke, and commits that insert nothing.
LEMMA RevokingKeepsEndInv ==
    ASSUME TypeInv, TypeInv', ChainInv, EndInv, NEW w \in Worker,
           \/ SelectSuperseded(w) \/ \E s \in Session : RevokeSession(w, s)
           \/ RefuseRefresh(w) \/ AcceptRefresh(w) \/ CommitClaim(w) \/ BurnFamily(w)
           \/ LogoutSession(w) \/ CommitLogout(w)
           \/ SelectTokens(w) \/ SelectSessions(w) \/ CommitEndAll(w)
           \/ Abandon(w)
    PROVE  EndInv'
<1> USE DEF TypeInv, TypeOK, ChainInv, Exists, Row, database, history
<1>1. UNCHANGED <<owner, family>> /\ revoked \subseteq revoked'
  BY DEF SelectSuperseded, RevokeSession, RefuseRefresh, AcceptRefresh, CommitClaim, BurnFamily,
         LogoutSession, CommitLogout, SelectTokens, SelectSessions, CommitEndAll, Abandon,
         CommitRevocations
<1>2. \A v \in Worker \ {w} : Resting(v)
  BY OthersRest DEF Step
<1>3. Asked(w)
  BY DEF EndInv
<1>4. \A s \in Session : family[s] \in known[w] => Exists(s) /\ owner[s] = owner[family[s]]
  BY <1>3, ConstantsAssumption DEF Asked, Exist, Rooted, WellFormed
<1>5. ASSUME Done(w) PROVE Asked(w)'
  BY <1>5 DEF Done, Asked, Exist, Listed
<1>6. Asked(w)'
  <2>1. CASE SelectSuperseded(w)
    BY <1>3, <1>4, <2>1 DEF SelectSuperseded, Asked, Exist, Listed, Dying, LiveSessions
  <2>2. ASSUME NEW s \in Session, RevokeSession(w, s) PROVE Asked(w)'
    BY <1>3, <2>2 DEF RevokeSession, Flush, Asked, Exist, Listed, Dying
  <2>3. CASE AcceptRefresh(w) \/ CommitClaim(w)
    BY <1>3, <2>3 DEF AcceptRefresh, CommitClaim, Asked, Exist, Listed
  <2>4. CASE LogoutSession(w)
    <3>1. /\ pc[w] = "logout" /\ pc'[w] = "leaving" /\ known' = known /\ revoked' = revoked
          /\ known[w] = {family[tok[w]]} /\ Exist(known[w])
          /\ held'[w] = held[w] \cup dirty[w] /\ todo'[w] = {}
      BY <1>3, <2>4 DEF LogoutSession, Flush, Asked
    <3>2. ASSUME NEW s \in Session, family[s] \in known[w] PROVE s \in Dying(w)'
      <4>1. s \in FamilySessions(family[tok[w]]) /\ Exists(s)
        BY <1>4, <3>1, <3>2 DEF FamilySessions
      <4>2. FamilySessions(family[tok[w]]) = {s}
        BY <4>1 DEF Single, FamilySessions
      <4>3. dirty'[w] = Marked(w, {s})
        BY <2>4, <4>2 DEF LogoutSession
      <4> QED
        BY <3>1, <4>3 DEF Marked, Dying
    <3> QED
      BY <1>1, <3>1, <3>2 DEF Asked, Exist, Listed
  <2>5. CASE SelectTokens(w)
    BY <1>3, <2>5 DEF SelectTokens, Asked, Exist, Listed
  <2>6. CASE SelectSessions(w)
    BY <1>3, <1>4, <2>6 DEF SelectSessions, Flush, Asked, Exist, Listed, Dying, LiveSessions
  <2> QED
    BY <1>5, <2>1, <2>2, <2>3, <2>4, <2>5, <2>6
       DEF RefuseRefresh, BurnFamily, CommitLogout, CommitEndAll, Abandon
<1>7. \/ ended' = ended
      \/ /\ ended' = ended \cup known[w]
         /\ revoked' = revoked \cup held[w] \cup dirty[w]
         /\ known[w] = {} \/ (Listed(w) /\ todo[w] = {})
  <2>1. CASE CommitLogout(w)
    <3>1. todo[w] = {}
      BY <1>3, <2>1 DEF CommitLogout, Asked
    <3> QED
      BY <2>1, <3>1 DEF CommitLogout, CommitRevocations, Listed
  <2>2. CASE BurnFamily(w)
    BY <1>3, <2>2 DEF BurnFamily, CommitRevocations, Asked
  <2>3. CASE CommitEndAll(w)
    BY <2>3 DEF CommitEndAll, CommitRevocations, Listed
  <2> QED
    BY <2>1, <2>2, <2>3
       DEF SelectSuperseded, RevokeSession, RefuseRefresh, AcceptRefresh, CommitClaim,
           LogoutSession, SelectTokens, SelectSessions, Abandon
<1> QED
  BY <1>1, <1>2, <1>6, <1>7, NoRowIsNoGrowth, StepKeepsEndInv

\* Steps that insert: a new family, or a successor in a family with a session, or
\* in a legacy one.
LEMMA InsertingKeepsEndInv ==
    ASSUME TypeInv, TypeInv', ChainInv, EndInv, NEW w \in Worker, NEW t \in Token,
           \/ IssueSuccessor(w, t)
           \/ \E s \in Session : CommitSignIn(w, t, s) \/ AdoptFamily(w, t, s)
    PROVE  EndInv'
<1> USE ConstantsAssumption DEF TypeInv, TypeOK, ChainInv, Exists, Row
<1>1. \A v \in Worker \ {w} : Resting(v)
  BY OthersRest DEF Step
<1>2. Asked(w)'
  BY DEF IssueSuccessor, CommitSignIn, AdoptFamily, Done, Asked, Exist, Listed
<1>3. ASSUME NEW s \in Session, CommitSignIn(w, t, s) PROVE Grows /\ Housed'
  BY <1>3 DEF CommitSignIn, InsertTokenAndSession, CommitRevocations, Grows, EndInv, Housed,
              FamilySessions, WellFormed
<1>4. ASSUME Rotating(w), NEW f, f = family[tok[w]], f \notin Legacy
      PROVE  f \in Token /\ \E s \in Session : Exists(s) /\ family[s] = f
  BY <1>4 DEF Rotating, WellFormed, EndInv, Housed, FamilySessions
<1>5. CASE IssueSuccessor(w, t)
  <2>1. Grows
    BY <1>5 DEF IssueSuccessor, InsertToken, Grows
  <2>2. Housed'
    BY <1>4, <1>5 DEF IssueSuccessor, InsertToken, EndInv, Housed, FamilySessions, Rotating
  <2> QED
    BY <1>1, <1>2, <1>5, <2>1, <2>2, StepKeepsEndInv DEF IssueSuccessor
<1>6. ASSUME NEW s \in Session, AdoptFamily(w, t, s) PROVE EndInv'
  <2>1. family[tok[w]] \in Legacy
    BY <1>4, <1>6 DEF AdoptFamily, Single, Rotating
  <2>2. Grows
    BY <1>6, <2>1 DEF AdoptFamily, InsertTokenAndSession, Grows
  <2>3. Housed'
    BY <1>6, <2>1 DEF AdoptFamily, InsertTokenAndSession, EndInv, Housed, FamilySessions, WellFormed
  <2> QED
    BY <1>1, <1>2, <1>6, <2>2, <2>3, StepKeepsEndInv DEF AdoptFamily
<1>7. ASSUME NEW s \in Session, CommitSignIn(w, t, s) PROVE EndInv'
  BY <1>1, <1>2, <1>3, <1>7, StepKeepsEndInv DEF CommitSignIn, CommitRevocations, Listed
<1> QED
  BY <1>5, <1>6, <1>7

LEMMA NextEndInv == TypeInv /\ ChainInv /\ EndInv /\ [Next]_vars => EndInv'
<1> SUFFICES ASSUME TypeInv, ChainInv, EndInv, [Next]_vars PROVE EndInv'
  OBVIOUS
<1>1. TypeInv'
  BY NextTypeInv
<1>2. ASSUME NEW w \in Worker, Begin(w) PROVE EndInv'
  BY <1>1, <1>2, BeginKeepsEndInv
<1>3. ASSUME NEW w \in Worker, Step(w) PROVE EndInv'
  BY <1>1, <1>3, RevokingKeepsEndInv, InsertingKeepsEndInv DEF Step
<1>4. ASSUME NEW w \in Worker, Crash(w) \/ DeadlockVictim(w) PROVE EndInv'
  BY <1>1, <1>4, RevokingKeepsEndInv DEF Crash, DeadlockVictim
<1>5. CASE UNCHANGED <<owner, family, revoked, request, history>>
  BY <1>5 DEF EndInv, Housed, Exist, Exists, FamilySessions, Asked, Listed, Dying,
              EndedSessionsAreDead, request, history
<1>6. ASSUME NEW t \in Token, Expire(t) PROVE EndInv'
  BY <1>5, <1>6 DEF Expire
<1>7. CASE UNCHANGED vars
  BY <1>5, <1>7 DEF vars, database
<1> QED
  BY <1>2, <1>3, <1>4, <1>6, <1>7 DEF Next

\* The session of a family that is not legacy is dead from the commit that ends the
\* family on.
THEOREM EndedIsDead == Spec => []EndedSessionsAreDead
<1>1. EndInv => EndedSessionsAreDead
  BY DEF EndInv
<1> QED
  BY <1>1, InitTypeInv, NextTypeInv, InitChainInv, NextChainInv, InitEndInv, NextEndInv, PTL
     DEF Spec

\* And no refresh of it is accepted again: its session is there to refuse it.
THEOREM EndedIsForGood == Spec => EndedStaysEnded
<1>1. ASSUME TypeInv, ChainInv, EndInv, [Next]_vars,
             NEW w \in Worker, pc[w] = "claimed", pc'[w] = "checked"
      PROVE  family[tok[w]] \notin ended \ Legacy
  <2> USE <1>1 DEF TypeInv, TypeOK
  <2>1. AcceptRefresh(w)
    <3>1. ASSUME NEW v \in Worker, Begin(v) PROVE FALSE
      BY <3>1 DEF Begin, BeginSignIn, PasswordReset, Disable, LogoutAll, BeginEndAll, ClaimToken,
                  DetectReuse, BeginLogout
    <3>2. ASSUME NEW v \in Worker, Crash(v) \/ DeadlockVictim(v) PROVE FALSE
      BY <3>2 DEF Crash, DeadlockVictim, Abandon, Done
    <3>3. ASSUME NEW v \in Worker,
                 \/ SelectSuperseded(v) \/ \E s \in Session : RevokeSession(v, s)
                 \/ RefuseRefresh(v) \/ CommitClaim(v) \/ BurnFamily(v)
                 \/ LogoutSession(v) \/ CommitLogout(v)
                 \/ SelectTokens(v) \/ SelectSessions(v) \/ CommitEndAll(v)
                 \/ \E t \in Token : \/ IssueSuccessor(v, t)
                                     \/ \E s \in Session : \/ CommitSignIn(v, t, s)
                                                          \/ AdoptFamily(v, t, s)
          PROVE  FALSE
      BY <3>3 DEF SelectSuperseded, RevokeSession, RefuseRefresh, CommitClaim, BurnFamily,
                  LogoutSession, CommitLogout, SelectTokens, SelectSessions, CommitEndAll,
                  IssueSuccessor, CommitSignIn, AdoptFamily, Done
    <3>4. ASSUME NEW v \in Worker, v # w, AcceptRefresh(v) PROVE FALSE
      BY <3>4 DEF AcceptRefresh
    <3>5. pc' # pc
      OBVIOUS
    <3> QED
      BY <3>1, <3>2, <3>3, <3>4, <3>5 DEF Next, Step, Expire, vars, request
  <2>2. tok[w] \in Token /\ Exists(tok[w])
    BY DEF WellFormed
  <2>3. CASE FamilySessions(family[tok[w]]) = {}
    BY <2>2, <2>3 DEF EndInv, Housed
  <2>4. CASE FamilySessions(family[tok[w]]) # {}
    <3>1. PICK s \in FamilySessions(family[tok[w]]) : s \notin revoked
      BY <2>1, <2>4 DEF AcceptRefresh
    <3> QED
      BY <3>1 DEF EndInv, EndedSessionsAreDead, FamilySessions
  <2> QED
    BY <2>3, <2>4
<1>2. TypeInv /\ ChainInv /\ EndInv /\ [Next]_vars =>
         \A w \in Worker :
            pc[w] = "claimed" /\ pc'[w] = "checked" => family[tok[w]] \notin ended \ Legacy
  BY <1>1
<1> QED
  BY <1>2, InitTypeInv, NextTypeInv, InitChainInv, NextChainInv, InitEndInv, NextEndInv, PTL
     DEF Spec, EndedStaysEnded

-----------------------------------------------------------------------------
(* A live session keeps a token.  A request that is about to revoke tokens *)
(* nobody has spent is about to revoke their session too, once it has      *)
(* listed the sessions; unless the session is inserted later, by a refresh *)
(* that has spent those tokens.                                            *)

Revokes(w) ==
    /\ Exist(dirty[w] \cup held[w] \cup todo[w])
    /\ pc[w] \in {"endTokens", "endSessions"} => cred[w] # None
    /\ pc[w] \in {"idle", "signin", "rotating", "endTokens"} => dirty[w] = {} /\ held[w] = {}
    /\ pc[w] \in {"claimed", "checked"} => dirty[w] = {} /\ held[w] = {tok[w]}
    /\ pc[w] \in {"burning", "logout"} =>
          held[w] = {} /\ dirty[w] \subseteq FamilyTokens(family[tok[w]])
    /\ pc[w] = "endSessions" =>
          held[w] = {} /\ \A u \in dirty[w] : u \in Token /\ owner[u] = cred[w]
    /\ Listed(w) => \A u \in Token, s \in Session :
          u \in dirty[w] \cup held[w] /\ u \notin rotated /\ family[s] = family[u] => s \in Dying(w)

LiveInv ==
    /\ Exist(rotated \cup revoked)
    /\ \A w \in Worker : Revokes(w)
    /\ LiveSessionKeepsToken

LEMMA InitLiveInv == Init => LiveInv
  BY ConstantsAssumption
     DEF Init, NoRequest, LiveInv, Exist, Revokes, Listed, LiveSessionKeepsToken, Exists, Row

\* A session is inserted where no token, or no unspent one, is.
Crowns ==
    \A s \in Session, u \in Token :
        ~Exists(s) /\ Exists(s)' /\ Exists(u) /\ family[u] = family'[s] => u \in rotated

LEMMA OthersStillRevoke ==
    ASSUME TypeInv, TypeInv', EndInv, LiveInv, Grows, Crowns, rotated \subseteq rotated',
           NEW v \in Worker, Resting(v)
    PROVE  Revokes(v)'
<1> USE DEF TypeInv, TypeOK, Row, Resting
<1>1. Revokes(v) /\ Asked(v)
  BY DEF LiveInv, EndInv
<1>2. Exist(dirty[v] \cup held[v] \cup todo[v])'
  BY <1>1 DEF Revokes, Exist, Grows, Exists
<1>3. pc[v] \in {"burning", "logout"} =>
         FamilyTokens(family[tok[v]]) \subseteq FamilyTokens(family[tok[v]])'
  <2>1. pc[v] \in {"burning", "logout"} => tok[v] \in Token /\ Exists(tok[v])
    BY <1>1 DEF Asked, WellFormed
  <2> QED
    BY <2>1 DEF FamilyTokens, Grows, WellFormed, Exists
<1>4. pc[v] = "endSessions" => \A u \in dirty[v] : u \in Token /\ owner'[u] = cred[v]
  BY <1>1 DEF Revokes, Exist, Grows
<1>5. ASSUME Listed(v), NEW u \in Token, NEW s \in Session,
             u \in dirty[v] \cup held[v], u \notin rotated', family'[s] = family'[u]
      PROVE  s \in Dying(v)'
  <2>1. Exists(u) /\ family'[u] = family[u] /\ u \notin rotated
    BY <1>1, <1>5 DEF Revokes, Exist, Grows
  <2>2. Exists(s)'
    BY <1>2, <1>5, <2>1 DEF WellFormed, Exist, Exists
  <2>3. Exists(s) /\ family'[s] = family[s]
    BY <1>5, <2>1, <2>2 DEF Crowns, Grows
  <2>4. s \in Dying(v)
    BY <1>1, <1>5, <2>1, <2>3 DEF Revokes
  <2> QED
    BY <2>4 DEF Dying, Grows
<1> QED
  BY <1>1, <1>2, <1>3, <1>4, <1>5 DEF Revokes, Listed

\* What is revoked in one commit with its session, or in a burnt family, takes no
\* token from a session that stays live.
LEMMA RevocationsSpareTheLive ==
    ASSUME TypeInv, ChainInv, EndInv, LiveInv, NEW w \in Worker,
           \/ Listed(w) /\ todo[w] = {}
           \/ pc[w] = "burning",
           NEW s \in Session, Exists(s), s \notin revoked \cup held[w] \cup dirty[w],
           family[s] \notin burned \cup lost,
           pc[w] = "burning" => family[s] # family[tok[w]]
    PROVE  \/ \E u \in Token : /\ u \in Unspent(family[s])
                               /\ u \notin revoked \cup held[w] \cup dirty[w]
           \/ \E v \in Worker \ {w} : Rotating(v) /\ RotatingFamily(v) = family[s]
<1>1. CASE Unspent(family[s]) \ revoked # {}
  <2>1. PICK u \in Token : family[u] = family[s] /\ u \notin rotated /\ u \notin revoked
    BY <1>1 DEF Unspent, FamilyTokens
  <2>2. u \notin held[w] \cup dirty[w]
    <3>1. CASE Listed(w) /\ todo[w] = {}
      BY <2>1, <3>1 DEF LiveInv, Revokes, Dying
    <3>2. CASE pc[w] = "burning"
      BY <2>1, <3>2 DEF LiveInv, Revokes, FamilyTokens
    <3> QED
      BY <3>1, <3>2
  <2> QED
    BY <2>1, <2>2 DEF Unspent, FamilyTokens
<1>2. CASE \E v \in Worker : Rotating(v) /\ RotatingFamily(v) = family[s]
  BY <1>2 DEF Rotating, Listed
<1> QED
  BY <1>1, <1>2 DEF LiveInv, LiveSessionKeepsToken

\* Steps that spend, revoke and insert nothing.  A rotation that is given up is lost.
Inert(w) ==
    /\ UNCHANGED <<owner, family, rotated, revoked>>
    /\ burned \subseteq burned' /\ lost \subseteq lost'
    /\ \A v \in Worker \ {w} : Resting(v)
    /\ Rotating(w) => family[tok[w]] \in lost'

LEMMA InertKeepsLiveInv ==
    ASSUME TypeInv, TypeInv', EndInv, LiveInv, NEW w \in Worker, Inert(w), Revokes(w)'
    PROVE  LiveInv'
<1>1. Grows /\ Crowns
  BY DEF Inert, Grows, Crowns, Exists
<1>2. Exist(rotated \cup revoked)'
  BY DEF Inert, LiveInv, Exist, Exists
<1>3. \A v \in Worker : Revokes(v)'
  BY <1>1, OthersStillRevoke DEF Inert
<1>4. LiveSessionKeepsToken'
  <2> SUFFICES ASSUME NEW s \in Session, Exists(s)', s \notin revoked',
                      family'[s] \notin burned' \cup lost'
               PROVE  \/ Unspent(family[s])' \ revoked' # {}
                      \/ \E v \in Worker : Rotating(v)' /\ RotatingFamily(v)' = family'[s]
    BY DEF LiveSessionKeepsToken
  <2>1. CASE Unspent(family[s]) \ revoked # {}
    BY <2>1 DEF Inert, Unspent, FamilyTokens
  <2>2. ASSUME NEW v \in Worker, Rotating(v), RotatingFamily(v) = family[s]
        PROVE  Rotating(v)' /\ RotatingFamily(v)' = family'[s]
    BY <2>2 DEF Inert, Resting, Rotating, RotatingFamily
  <2> QED
    BY <2>1, <2>2 DEF LiveInv, LiveSessionKeepsToken, Inert, Exists
<1> QED
  BY <1>2, <1>3, <1>4 DEF LiveInv

\* A request marks what exists, and writes it before or with its session.
LEMMA MarkingIsInert ==
    ASSUME TypeInv, ChainInv, EndInv, LiveInv, NEW w \in Worker,
           \/ Begin(w)
           \/ SelectSuperseded(w) \/ \E s \in Session : RevokeSession(w, s)
           \/ RefuseRefresh(w) \/ AcceptRefresh(w) \/ LogoutSession(w)
           \/ SelectTokens(w) \/ SelectSessions(w) \/ Abandon(w)
    PROVE  Inert(w) /\ Revokes(w)'
<1> USE DEF TypeInv, TypeOK, ChainInv, Exists, Row, database, history
<1>1. /\ UNCHANGED <<owner, family, rotated, revoked, burned>>
      /\ lost \subseteq lost'
      /\ Rotating(w) => family[tok[w]] \in lost'
  BY DEF Begin, BeginSignIn, PasswordReset, Disable, LogoutAll, BeginEndAll, ClaimToken,
         DetectReuse, BeginLogout, SelectSuperseded, RevokeSession, RefuseRefresh,
         AcceptRefresh, LogoutSession, SelectTokens, SelectSessions, Abandon, Rotating
<1>2. \A v \in Worker \ {w} : Resting(v)
  BY OthersRest DEF Step
<1>3. Revokes(w) /\ Asked(w)
  BY DEF LiveInv, EndInv
<1>4. \A r, x \in Row : Exists(r) /\ family[x] = family[r] => Exists(x) /\ owner[x] = owner[r]
  BY DEF WellFormed, Rooted
<1>5. ASSUME Done(w) PROVE Revokes(w)'
  BY <1>5 DEF Done, Revokes, Exist, Listed
<1>6. ASSUME Begin(w) PROVE Revokes(w)'
  <2>1. ASSUME NEW c \in Credential, BeginSignIn(w, c) \/ BeginEndAll(w, c) PROVE Revokes(w)'
    BY <1>3, <2>1, ConstantsAssumption DEF BeginSignIn, BeginEndAll, Revokes, Exist, Listed, Asked
  <2>2. ASSUME NEW t \in Token, ClaimToken(w, t) PROVE Revokes(w)'
    BY <1>3, <2>2 DEF ClaimToken, Flush, Revokes, Exist, Listed, Asked
  <2>3. ASSUME NEW t \in Token, DetectReuse(w, t) \/ BeginLogout(w, t) PROVE Revokes(w)'
    <3>1. /\ Exists(t) /\ pc[w] = "idle" /\ tok'[w] = t /\ pc'[w] \in {"burning", "logout"}
          /\ dirty'[w] \subseteq FamilyTokens(family[t])
          /\ UNCHANGED <<owner, family, held, todo, rotated>>
      BY <2>3 DEF DetectReuse, BeginLogout, Marked
    <3>2. Exist(FamilyTokens(family[t]))
      BY <1>4, <3>1 DEF Exist, FamilyTokens
    <3> QED
      BY <1>3, <3>1, <3>2 DEF Revokes, Exist, Listed, Asked, FamilyTokens
  <2>4. ASSUME NEW t \in Token, LogoutAll(w, t) PROVE Revokes(w)'
    BY <2>1, <2>4 DEF LogoutAll
  <2>5. ASSUME NEW c \in Credential, PasswordReset(w, c) \/ Disable(w, c) PROVE Revokes(w)'
    BY <2>1, <2>5 DEF PasswordReset, Disable
  <2> QED
    BY <1>6, <2>1, <2>2, <2>3, <2>4, <2>5 DEF Begin
<1>7. ASSUME SelectSuperseded(w) PROVE Revokes(w)'
  BY <1>3, <1>7, ConstantsAssumption
     DEF SelectSuperseded, LiveSessions, WellFormed, Revokes, Exist, Listed
<1>8. ASSUME NEW s \in Session, RevokeSession(w, s) PROVE Revokes(w)'
  <2>1. /\ Listed(w) /\ Exists(s) /\ pc'[w] = pc[w] /\ tok'[w] = tok[w] /\ cred'[w] = cred[w]
        /\ held'[w] = held[w] \cup dirty[w] \cup {s}
        /\ todo'[w] = todo[w] \ {s}
        /\ dirty'[w] \subseteq FamilyTokens(family[s])
    BY <1>3, <1>8 DEF RevokeSession, Flush, Marked, Listed, Revokes, Exist
  <2>2. Exist(dirty[w] \cup held[w] \cup todo[w])'
    BY <1>1, <1>3, <1>4, <2>1 DEF Revokes, Exist, FamilyTokens
  <2>3. ASSUME NEW u \in Token, NEW x \in Session,
               u \in dirty'[w] \cup held'[w], u \notin rotated, family[x] = family[u]
        PROVE  x \in Dying(w)'
    <3>1. CASE u \in dirty'[w]
      <4>1. x = s
        BY <2>1, <2>3, <3>1 DEF FamilyTokens, Single
      <4> QED
        BY <2>1, <4>1 DEF Dying
    <3>2. CASE u \in dirty[w] \cup held[w]
      <4>1. x \in Dying(w)
        BY <1>3, <2>1, <2>3, <3>2 DEF Revokes
      <4> QED
        BY <1>1, <2>1, <4>1 DEF Dying
    <3> QED
      BY <2>1, <2>3, <3>1, <3>2, ConstantsAssumption
  <2> QED
    BY <1>1, <2>1, <2>2, <2>3 DEF Revokes, Listed
<1>9. ASSUME AcceptRefresh(w) PROVE Revokes(w)'
  BY <1>3, <1>9 DEF AcceptRefresh, Revokes, Exist, Listed
<1>10. ASSUME LogoutSession(w) PROVE Revokes(w)'
  <2> DEFINE f == family[tok[w]]
  <2>1. /\ pc[w] = "logout" /\ pc'[w] = "leaving" /\ todo'[w] = {} /\ tok[w] \in Token
        /\ held'[w] = dirty[w] /\ held[w] = {} /\ dirty[w] \subseteq FamilyTokens(f)
        /\ dirty'[w] \subseteq FamilySessions(f) /\ Exists(tok[w])
    BY <1>3, <1>10 DEF LogoutSession, Flush, Marked, Revokes, Asked
  <2>2. Exist(dirty[w] \cup held[w] \cup todo[w])'
    BY <1>1, <1>3, <1>4, <2>1 DEF Revokes, Exist, FamilySessions
  <2>3. ASSUME NEW u \in Token, NEW x \in Session,
               u \in dirty'[w] \cup held'[w], family[x] = family[u]
        PROVE  x \in Dying(w)'
    <3>1. family[x] = f /\ Exists(x)
      BY <1>4, <2>1, <2>3, ConstantsAssumption DEF FamilyTokens, FamilySessions
    <3>2. FamilySessions(f) = {x}
      BY <3>1 DEF FamilySessions, Single
    <3>3. dirty'[w] = Marked(w, {x})
      BY <1>10, <3>2 DEF LogoutSession
    <3> QED
      BY <1>1, <2>1, <3>3 DEF Marked, Dying
  <2> QED
    BY <1>1, <2>1, <2>2, <2>3 DEF Revokes, Listed
<1>11. ASSUME SelectTokens(w) PROVE Revokes(w)'
  BY <1>3, <1>11 DEF SelectTokens, Marked, Revokes, Exist, Listed, Asked
<1>12. ASSUME SelectSessions(w) PROVE Revokes(w)'
  <2>1. /\ pc'[w] = "ending" /\ cred[w] # None
        /\ held'[w] = dirty[w] /\ dirty'[w] = {} /\ todo'[w] = LiveSessions(cred[w])
        /\ \A u \in dirty[w] : u \in Token /\ owner[u] = cred[w]
    BY <1>3, <1>12 DEF SelectSessions, Flush, Revokes
  <2>2. Exist(dirty[w] \cup held[w] \cup todo[w])'
    BY <1>1, <2>1 DEF Exist, LiveSessions
  <2>3. ASSUME NEW u \in Token, NEW x \in Session,
               u \in dirty'[w] \cup held'[w], family[x] = family[u]
        PROVE  x \in Dying(w)'
    BY <1>1, <1>4, <2>1, <2>3 DEF LiveSessions, Dying
  <2> QED
    BY <1>1, <2>1, <2>2, <2>3 DEF Revokes, Listed
<1>13. Revokes(w)'
  BY <1>5, <1>6, <1>7, <1>8, <1>9, <1>10, <1>11, <1>12 DEF RefuseRefresh, Abandon
<1> QED
  BY <1>1, <1>2, <1>13 DEF Inert

\* The commit of a claim turns the family's last token into a rotation in flight.
LEMMA CommitClaimKeepsLiveInv ==
    ASSUME TypeInv, TypeInv', EndInv, LiveInv, NEW w \in Worker, CommitClaim(w)
    PROVE  LiveInv'
<1>1. /\ UNCHANGED <<owner, family, revoked, burned, lost, tok, todo, dirty>>
      /\ rotated' = rotated \cup {tok[w]} /\ pc[w] = "checked" /\ tok[w] \in Token
      /\ pc'[w] = "rotating" /\ held'[w] = {} /\ Exists(tok[w])
  BY DEF CommitClaim, history, TypeInv, TypeOK, WellFormed
<1>2. \A v \in Worker \ {w} : Resting(v)
  BY OthersRest DEF Step
<1>3. Grows /\ Crowns
  BY <1>1 DEF Grows, Crowns, Exists
<1>4. Exist(rotated \cup revoked)'
  BY <1>1 DEF LiveInv, Exist, Exists
<1>5. Revokes(w)'
  BY <1>1 DEF LiveInv, EndInv, Revokes, Asked, Exist, Exists, Listed
<1>6. \A v \in Worker : Revokes(v)'
  BY <1>1, <1>2, <1>3, <1>5, OthersStillRevoke
<1>7. LiveSessionKeepsToken'
  <2> SUFFICES ASSUME NEW s \in Session, Exists(s)', s \notin revoked',
                      family'[s] \notin burned' \cup lost'
               PROVE  \/ Unspent(family[s])' \ revoked' # {}
                      \/ \E v \in Worker : Rotating(v)' /\ RotatingFamily(v)' = family'[s]
    BY DEF LiveSessionKeepsToken
  <2>1. ASSUME NEW u \in Token, family[u] = family[s], u \notin rotated \cup revoked
        PROVE  \/ u \in Unspent(family[s])' \ revoked'
               \/ Rotating(w)' /\ RotatingFamily(w)' = family'[s]
    BY <1>1, <2>1 DEF Unspent, FamilyTokens, Rotating, RotatingFamily
  <2>2. ASSUME NEW v \in Worker, Rotating(v), RotatingFamily(v) = family[s]
        PROVE  Rotating(v)' /\ RotatingFamily(v)' = family'[s]
    BY <1>1, <1>2, <2>2 DEF Resting, Rotating, RotatingFamily
  <2>3. \/ \E u \in Token : family[u] = family[s] /\ u \notin rotated \cup revoked
        \/ \E v \in Worker : Rotating(v) /\ RotatingFamily(v) = family[s]
    BY <1>1 DEF LiveInv, LiveSessionKeepsToken, Exists, Unspent, FamilyTokens
  <2> QED
    BY <2>1, <2>2, <2>3
<1> QED
  BY <1>4, <1>6, <1>7 DEF LiveInv

\* A commit of revocations that inserts nothing.
LEMMA RevokingKeepsLiveInv ==
    ASSUME TypeInv, TypeInv', ChainInv, EndInv, LiveInv, NEW w \in Worker,
           BurnFamily(w) \/ CommitLogout(w) \/ CommitEndAll(w)
    PROVE  LiveInv'
<1>1. /\ UNCHANGED <<owner, family, rotated, lost>> /\ Done(w)
      /\ revoked' = revoked \cup held[w] \cup dirty[w]
      /\ burned \subseteq burned'
      /\ pc[w] = "burning" => family[tok[w]] \in burned'
  BY DEF BurnFamily, CommitLogout, CommitEndAll, CommitRevocations
<1>2. pc[w] = "burning" \/ (Listed(w) /\ todo[w] = {})
  BY DEF BurnFamily, CommitLogout, CommitEndAll, EndInv, Asked, Listed
<1>3. \A v \in Worker \ {w} : Resting(v)
  BY OthersRest DEF Step
<1>4. Grows /\ Crowns
  BY <1>1 DEF Grows, Crowns, Exists
<1>5. Exist(rotated \cup revoked)'
  BY <1>1 DEF LiveInv, Revokes, Exist, Exists
<1>6. Revokes(w)'
  BY <1>1 DEF Done, Revokes, Exist, Listed, TypeInv, TypeOK
<1>7. \A v \in Worker : Revokes(v)'
  BY <1>1, <1>3, <1>4, <1>6, OthersStillRevoke
<1>8. LiveSessionKeepsToken'
  <2> SUFFICES ASSUME NEW s \in Session, Exists(s)', s \notin revoked',
                      family'[s] \notin burned' \cup lost'
               PROVE  \/ Unspent(family[s])' \ revoked' # {}
                      \/ \E v \in Worker : Rotating(v)' /\ RotatingFamily(v)' = family'[s]
    BY DEF LiveSessionKeepsToken
  <2>1. /\ Exists(s) /\ s \notin revoked \cup held[w] \cup dirty[w]
        /\ family[s] \notin burned \cup lost
        /\ pc[w] = "burning" => family[s] # family[tok[w]]
    BY <1>1 DEF Exists
  <2>2. CASE \E u \in Token : u \in Unspent(family[s]) /\ u \notin revoked'
    BY <1>1, <2>2 DEF Unspent, FamilyTokens
  <2>3. ASSUME NEW v \in Worker \ {w}, Rotating(v), RotatingFamily(v) = family[s]
        PROVE  Rotating(v)' /\ RotatingFamily(v)' = family'[s]
    BY <1>1, <1>3, <2>3 DEF Resting, Rotating, RotatingFamily
  <2> QED
    BY <1>1, <1>2, <2>1, <2>2, <2>3, RevocationsSpareTheLive
<1> QED
  BY <1>5, <1>7, <1>8 DEF LiveInv

\* A session comes with a token that nothing has spent or marked.
LEMMA InsertingKeepsLiveInv ==
    ASSUME TypeInv, TypeInv', ChainInv, EndInv, LiveInv, NEW w \in Worker, NEW t \in Token,
           \/ IssueSuccessor(w, t)
           \/ \E s \in Session : CommitSignIn(w, t, s) \/ AdoptFamily(w, t, s)
    PROVE  LiveInv'
<1>1. /\ ~Exists(t) /\ Done(w) /\ UNCHANGED <<rotated, burned, lost>>
      /\ revoked \subseteq revoked' /\ revoked' \subseteq revoked \cup held[w] \cup dirty[w]
  BY DEF IssueSuccessor, CommitSignIn, AdoptFamily, InsertToken, InsertTokenAndSession,
         CommitRevocations
<1>2. \A v \in Worker \ {w} : Resting(v)
  BY OthersRest DEF Step
<1>3. ASSUME NEW s \in Session, CommitSignIn(w, t, s)
      PROVE  /\ Grows /\ Crowns
             /\ \A x \in Session : ~Exists(x) /\ Exists(x)' => family'[x] = family'[t]
  BY <1>1, <1>3, ConstantsAssumption
     DEF CommitSignIn, InsertTokenAndSession, TypeInv, TypeOK, WellFormed, ChainInv, Rooted,
         Exists, Row, Grows, Crowns
<1>4. ASSUME IssueSuccessor(w, t) \/ \E s \in Session : AdoptFamily(w, t, s)
      PROVE  /\ Grows /\ Crowns
             /\ \A x \in Session : ~Exists(x) /\ Exists(x)' => family'[x] = family'[t]
             /\ Rotating(w) /\ family'[t] = family[tok[w]] /\ UNCHANGED revoked
  <2>1. Rotating(w) /\ tok[w] \in Token /\ Exists(tok[w])
    BY <1>4 DEF IssueSuccessor, AdoptFamily, Rotating, TypeInv, WellFormed
  <2>2. CASE IssueSuccessor(w, t)
    BY <2>1, <2>2, ConstantsAssumption
       DEF IssueSuccessor, InsertToken, TypeInv, TypeOK, Exists, Row, Grows, Crowns
  <2>3. ASSUME NEW s \in Session, AdoptFamily(w, t, s)
        PROVE  /\ Grows /\ Crowns
               /\ \A x \in Session : ~Exists(x) /\ Exists(x)' => family'[x] = family'[t]
               /\ family'[t] = family[tok[w]] /\ UNCHANGED revoked
    <3> DEFINE f == family[tok[w]]
    <3>1. /\ owner' = [owner EXCEPT ![t] = cred[w], ![s] = cred[w]]
          /\ family' = [family EXCEPT ![t] = f, ![s] = f]
          /\ UNCHANGED revoked /\ ~Exists(t) /\ ~Exists(s) /\ s # t /\ sess[w] = None
      BY <2>3, ConstantsAssumption DEF AdoptFamily, InsertTokenAndSession
    <3>2. f \in Legacy
      BY <2>1, <3>1 DEF EndInv, Housed, FamilySessions, ChainInv, Single, Rotating
    <3>3. \A u \in Token : Exists(u) /\ family[u] = f => u \in rotated
      BY <2>1 DEF ChainInv, Linear
    <3> HIDE DEF f
    <3>4. \A r \in Row : IF r \in {s, t}
                         THEN family'[r] = f
                         ELSE owner'[r] = owner[r] /\ family'[r] = family[r]
      BY <3>1 DEF TypeInv, TypeOK, Row
    <3>5. \A x \in Session : ~Exists(x) /\ Exists(x)' => family'[x] = f
      BY <3>4 DEF Exists, Row
    <3>6. Grows
      BY <3>1, <3>2, <3>4, <3>5 DEF Grows
    <3> QED
      BY <3>1, <3>3, <3>4, <3>5, <3>6 DEF Crowns, Row, f
  <2> QED
    BY <1>4, <2>1, <2>2, <2>3
<1>5. Grows /\ Crowns /\ \A x \in Session : ~Exists(x) /\ Exists(x)' => family'[x] = family'[t]
  BY <1>3, <1>4
<1>6. t \notin rotated' /\ t \notin revoked'
  BY <1>1 DEF LiveInv, Revokes, Exist
<1>7. Exist(rotated \cup revoked)'
  <2>1. \A r \in rotated' \cup revoked' : r \in Row /\ Exists(r)
    BY <1>1 DEF LiveInv, Revokes, Exist, TypeInv, TypeOK, Row
  <2> QED
    BY <1>5, <2>1 DEF Exist, Grows, Exists
<1>8. Revokes(w)'
  BY <1>1 DEF Done, Revokes, Exist, Listed, TypeInv, TypeOK
<1>9. \A v \in Worker : Revokes(v)'
  BY <1>1, <1>2, <1>5, <1>8, OthersStillRevoke
<1>10. LiveSessionKeepsToken'
  <2> SUFFICES ASSUME NEW s \in Session, Exists(s)', s \notin revoked',
                      family'[s] \notin burned' \cup lost'
               PROVE  \/ \E u \in Token : family'[u] = family'[s] /\ u \notin rotated' \cup revoked'
                      \/ \E v \in Worker : Rotating(v)' /\ RotatingFamily(v)' = family'[s]
    BY DEF LiveSessionKeepsToken, Unspent, FamilyTokens
  <2>1. CASE ~Exists(s)
    BY <1>5, <1>6, <2>1
  <2>2. CASE Exists(s)
    <3>1. family'[s] = family[s] /\ family[s] \notin burned \cup lost /\ s \notin revoked
      BY <1>1, <1>5, <2>2 DEF Grows, Row
    <3>2. ASSUME NEW u \in Token, family[u] = family[s] PROVE family'[u] = family'[s]
      BY <1>5, <2>2, <3>1, <3>2 DEF Grows, Row, Exists, TypeInv, TypeOK, WellFormed
    <3>3. ASSUME NEW v \in Worker \ {w}, Rotating(v), RotatingFamily(v) = family[s]
          PROVE  Rotating(v)' /\ RotatingFamily(v)' = family'[s]
      <4>1. tok[v] \in Token
        BY <3>3 DEF Rotating, TypeInv, WellFormed
      <4> QED
        BY <1>2, <3>2, <3>3, <4>1 DEF Resting, Rotating, RotatingFamily
    <3>4. CASE IssueSuccessor(w, t) \/ \E x \in Session : AdoptFamily(w, t, x)
      <4>1. UNCHANGED revoked /\ family'[t] = family[tok[w]]
        BY <1>4, <3>4
      <4>2. \/ \E u \in Token : family[u] = family[s] /\ u \notin rotated \cup revoked
            \/ \E v \in Worker : Rotating(v) /\ RotatingFamily(v) = family[s]
        BY <2>2, <3>1 DEF LiveInv, LiveSessionKeepsToken, Unspent, FamilyTokens
      <4> QED
        BY <1>1, <1>6, <3>1, <3>2, <3>3, <4>1, <4>2 DEF RotatingFamily
    <3>5. ASSUME NEW x \in Session, CommitSignIn(w, t, x)
          PROVE  \/ \E u \in Token : family'[u] = family'[s] /\ u \notin rotated' \cup revoked'
                 \/ \E v \in Worker : Rotating(v)' /\ RotatingFamily(v)' = family'[s]
      <4>1. /\ revoked' = revoked \cup held[w] \cup dirty[w]
            /\ Listed(w) /\ todo[w] = {} /\ pc[w] # "burning"
        BY <3>5 DEF CommitSignIn, CommitRevocations, Listed
      <4>2. \/ \E u \in Token : u \in Unspent(family[s]) /\ u \notin revoked'
            \/ \E v \in Worker \ {w} : Rotating(v) /\ RotatingFamily(v) = family[s]
        BY <2>2, <3>1, <4>1, RevocationsSpareTheLive
      <4> QED
        BY <1>1, <3>2, <3>3, <4>2 DEF Unspent, FamilyTokens
    <3> QED
      BY <3>4, <3>5
  <2> QED
    BY <2>1, <2>2
<1> QED
  BY <1>7, <1>9, <1>10 DEF LiveInv

LEMMA NextLiveInv == TypeInv /\ ChainInv /\ EndInv /\ LiveInv /\ [Next]_vars => LiveInv'
<1> SUFFICES ASSUME TypeInv, ChainInv, EndInv, LiveInv, [Next]_vars PROVE LiveInv'
  OBVIOUS
<1>1. TypeInv'
  BY NextTypeInv
<1>2. ASSUME NEW w \in Worker, Begin(w) PROVE LiveInv'
  BY <1>1, <1>2, MarkingIsInert, InertKeepsLiveInv
<1>3. ASSUME NEW w \in Worker, Step(w) PROVE LiveInv'
  <2>1. CASE \/ SelectSuperseded(w) \/ \E s \in Session : RevokeSession(w, s)
             \/ RefuseRefresh(w) \/ AcceptRefresh(w) \/ LogoutSession(w)
             \/ SelectTokens(w) \/ SelectSessions(w)
    BY <1>1, <2>1, MarkingIsInert, InertKeepsLiveInv
  <2> QED
    BY <1>1, <1>3, <2>1, CommitClaimKeepsLiveInv, RevokingKeepsLiveInv, InsertingKeepsLiveInv
       DEF Step
<1>4. ASSUME NEW w \in Worker, Crash(w) \/ DeadlockVictim(w) PROVE LiveInv'
  BY <1>1, <1>4, MarkingIsInert, InertKeepsLiveInv DEF Crash, DeadlockVictim
<1>5. CASE UNCHANGED <<owner, family, rotated, revoked, request, history>>
  BY <1>5 DEF LiveInv, Exist, Exists, Revokes, FamilyTokens, Listed, Dying,
              LiveSessionKeepsToken, Unspent, Rotating, RotatingFamily, request, history
<1>6. ASSUME NEW t \in Token, Expire(t) PROVE LiveInv'
  BY <1>5, <1>6 DEF Expire
<1>7. CASE UNCHANGED vars
  BY <1>5, <1>7 DEF vars, database
<1> QED
  BY <1>2, <1>3, <1>4, <1>6, <1>7 DEF Next

\* A live session keeps a token to refresh it with, or has one on the way; only an
\* answered reuse, or a rotation that died between its commits, leaves it without.
THEOREM LiveIsRefreshable == Spec => []LiveSessionKeepsToken
<1>1. LiveInv => LiveSessionKeepsToken
  BY DEF LiveInv
<1> QED
  BY <1>1, InitTypeInv, NextTypeInv, InitChainInv, NextChainInv, InitEndInv, NextEndInv,
     InitLiveInv, NextLiveInv, PTL DEF Spec

-----------------------------------------------------------------------------
(* The exact boundary of what the README promises.  Burning a family,      *)
(* superseding a session and disabling an account each list rows and end   *)
(* them at a later commit; the promise breaks only by a row inserted in    *)
(* between, and NoRace says which requests may not insert it.              *)

LEMMA RacelessIsNext == [RacelessNext]_vars => [Next]_vars
  BY DEF RacelessNext, Next

LEMMA InitNoRace == Init => NoRace
  BY ConstantsAssumption DEF Init, NoRequest, NoRace, SigningIn, Adopting, Refreshing, Closing, EndingAll

LEMMA NextNoRace == NoRace /\ [RacelessNext]_vars => NoRace'
<1>1. CASE UNCHANGED vars
  BY <1>1
     DEF NoRace, SigningIn, Adopting, Refreshing, Closing, EndingAll, vars, database, request
<1> QED
  BY <1>1 DEF RacelessNext

\* What a burnt family rests on: the answer to a reuse has marked every token of the
\* family, and no refresh is under way in a family already burnt.
BurnInv ==
    /\ Exist(burned)
    /\ BurnedFamilyIsRevoked
    /\ \A w \in Worker : Refreshing(w) => family[tok[w]] \notin burned
    /\ \A v \in Worker, t \in Token :
          pc[v] = "burning" /\ family[t] = family[tok[v]] => t \in revoked \cup dirty[v]

LEMMA InitBurnInv == Init => BurnInv
  BY ConstantsAssumption
     DEF Init, NoRequest, BurnInv, Exist, BurnedFamilyIsRevoked, Refreshing

\* A step that inserts nothing, burns nothing, begins no refresh and answers no reuse.
Mild ==
    /\ UNCHANGED <<owner, family, burned>>
    /\ rotated \subseteq rotated' /\ revoked \subseteq revoked'
    /\ \A v \in Worker :
          /\ Refreshing(v)' => Refreshing(v) /\ tok'[v] = tok[v]
          /\ pc'[v] = "burning" => pc[v] = "burning" /\ tok'[v] = tok[v] /\ dirty'[v] = dirty[v]

LEMMA MildKeepsBurnInv ==
    ASSUME TypeInv, BurnInv, Mild
    PROVE  BurnInv'
<1>1. Exist(burned)' /\ BurnedFamilyIsRevoked'
  BY DEF BurnInv, Mild, Exist, Exists, BurnedFamilyIsRevoked
<1>2. \A w \in Worker : Refreshing(w)' => family'[tok'[w]] \notin burned'
  BY DEF BurnInv, Mild
<1>3. \A v \in Worker, t \in Token :
         pc'[v] = "burning" /\ family'[t] = family'[tok'[v]] => t \in revoked' \cup dirty'[v]
  BY DEF BurnInv, Mild
<1> QED
  BY <1>1, <1>2, <1>3 DEF BurnInv

\* Most steps are mild.
LEMMA MostStepsAreMild ==
    ASSUME TypeInv, NEW w \in Worker,
           \/ \E c \in Credential : BeginSignIn(w, c) \/ PasswordReset(w, c) \/ Disable(w, c)
           \/ \E t \in Token : BeginLogout(w, t) \/ LogoutAll(w, t)
           \/ SelectSuperseded(w) \/ \E s \in Session : RevokeSession(w, s)
           \/ RefuseRefresh(w) \/ AcceptRefresh(w) \/ CommitClaim(w)
           \/ LogoutSession(w) \/ CommitLogout(w)
           \/ SelectTokens(w) \/ SelectSessions(w) \/ CommitEndAll(w)
           \/ Abandon(w)
    PROVE  Mild
<1> USE DEF TypeInv, TypeOK
<1>1. /\ UNCHANGED <<owner, family, burned>>
      /\ rotated \subseteq rotated' /\ revoked \subseteq revoked'
  BY DEF BeginSignIn, PasswordReset, Disable, LogoutAll, BeginEndAll, BeginLogout,
         SelectSuperseded, RevokeSession, RefuseRefresh, AcceptRefresh, CommitClaim,
         LogoutSession, CommitLogout, SelectTokens, SelectSessions, CommitEndAll, Abandon,
         CommitRevocations, database, history
<1>2. \A v \in Worker \ {w} : Resting(v)
  BY OthersRest DEF Begin, Step
<1>3. /\ Refreshing(w)' => Refreshing(w) /\ tok'[w] = tok[w]
      /\ pc'[w] = "burning" => pc[w] = "burning" /\ tok'[w] = tok[w] /\ dirty'[w] = dirty[w]
  BY DEF Refreshing, BeginSignIn, PasswordReset, Disable, LogoutAll, BeginEndAll, BeginLogout,
         SelectSuperseded, RevokeSession, RefuseRefresh, AcceptRefresh, CommitClaim,
         LogoutSession, CommitLogout, SelectTokens, SelectSessions, CommitEndAll, Abandon, Done
<1> QED
  BY <1>1, <1>2, <1>3 DEF Mild, Resting, Refreshing

\* A claimed token is neither spent nor revoked, so its family is not burnt; and an
\* answer marks what is not revoked yet.
LEMMA PresentingKeepsBurnInv ==
    ASSUME TypeInv, LiveInv, BurnInv, NEW w \in Worker, NEW t \in Token,
           ClaimToken(w, t) \/ DetectReuse(w, t)
    PROVE  BurnInv'
<1> USE DEF TypeInv, TypeOK
<1>1. UNCHANGED <<owner, family, burned, rotated, revoked>> /\ pc[w] = "idle" /\ Exists(t)
  BY DEF ClaimToken, DetectReuse, database, history
<1>2. \A v \in Worker \ {w} : Resting(v)
  BY OthersRest DEF Begin
<1>3. Exist(burned)' /\ BurnedFamilyIsRevoked'
  BY <1>1 DEF BurnInv, Exist, Exists, BurnedFamilyIsRevoked
<1>4. \A v \in Worker : Refreshing(v)' => family'[tok'[v]] \notin burned'
  <2>1. Refreshing(w)' => family'[tok'[w]] \notin burned'
    BY <1>1 DEF ClaimToken, DetectReuse, Refreshing, BurnInv, BurnedFamilyIsRevoked
  <2> QED
    BY <1>1, <1>2, <2>1 DEF BurnInv, Resting, Refreshing
<1>5. ASSUME NEW v \in Worker, NEW u \in Token, pc'[v] = "burning", family'[u] = family'[tok'[v]]
      PROVE  u \in revoked' \cup dirty'[v]
  <2>1. CASE v = w
    <3>1. held[w] = {}
      BY <1>1 DEF LiveInv, Revokes
    <3> QED
      BY <1>1, <1>5, <2>1, <3>1 DEF ClaimToken, DetectReuse, Marked, FamilyTokens
  <2> QED
    BY <1>1, <1>2, <1>5, <2>1 DEF BurnInv, Resting
<1> QED
  BY <1>3, <1>4, <1>5 DEF BurnInv

\* The commit of an answer: NoRace keeps the family clear of refreshes.
LEMMA BurningKeepsBurnInv ==
    ASSUME TypeInv, ChainInv, NoRace, BurnInv, NEW w \in Worker, BurnFamily(w)
    PROVE  BurnInv'
<1> USE DEF TypeInv, TypeOK, WellFormed
<1> DEFINE f == family[tok[w]]
<1>1. /\ UNCHANGED <<owner, family, rotated>> /\ pc[w] = "burning"
      /\ burned' = burned \cup {f} /\ revoked' = revoked \cup held[w] \cup dirty[w]
      /\ pc'[w] = "idle"
  BY DEF BurnFamily, CommitRevocations, Done
<1>2. \A v \in Worker \ {w} : Resting(v)
  BY OthersRest DEF Step
<1>3. Exist(burned)'
  <2>1. Exists(f)
    BY <1>1 DEF ChainInv, Rooted, Row
  <2> QED
    BY <1>1, <2>1 DEF BurnInv, Exist, Exists
<1>4. BurnedFamilyIsRevoked'
  BY <1>1 DEF BurnInv, BurnedFamilyIsRevoked, Exists
<1>5. \A v \in Worker : Refreshing(v)' => family'[tok'[v]] \notin burned'
  BY <1>1, <1>2 DEF BurnInv, NoRace, Resting, Refreshing
<1>6. \A v \in Worker, u \in Token :
         pc'[v] = "burning" /\ family'[u] = family'[tok'[v]] => u \in revoked' \cup dirty'[v]
  BY <1>1, <1>2 DEF BurnInv, Resting
<1> QED
  BY <1>3, <1>4, <1>5, <1>6 DEF BurnInv

\* A token is inserted in a family of its own, or in one that is being refreshed: not
\* burnt, and with no reuse being answered.
LEMMA InsertingKeepsBurnInv ==
    ASSUME TypeInv, TypeInv', ChainInv, NoRace, BurnInv, NEW w \in Worker, NEW t \in Token,
           \/ IssueSuccessor(w, t)
           \/ \E s \in Session : CommitSignIn(w, t, s) \/ AdoptFamily(w, t, s)
    PROVE  BurnInv'
<1> USE DEF TypeInv, TypeOK, WellFormed, Row
<1>1. /\ ~Exists(t) /\ UNCHANGED <<rotated, burned>> /\ revoked \subseteq revoked'
      /\ pc'[w] = "idle"
  BY DEF IssueSuccessor, CommitSignIn, AdoptFamily, InsertToken, InsertTokenAndSession,
         CommitRevocations, Done
<1>2. \A v \in Worker \ {w} : Resting(v)
  BY OthersRest DEF Step
<1>3. \A u \in Token : u # t => owner'[u] = owner[u] /\ family'[u] = family[u]
  BY ConstantsAssumption
     DEF IssueSuccessor, CommitSignIn, AdoptFamily, InsertToken, InsertTokenAndSession
<1>4. \/ family'[t] = t
      \/ Refreshing(w) /\ family'[t] = family[tok[w]]
  BY ConstantsAssumption
     DEF IssueSuccessor, CommitSignIn, AdoptFamily, InsertToken, InsertTokenAndSession, Refreshing
<1>5. ASSUME NEW v \in Worker, v # w, Refreshing(v) \/ pc[v] = "burning"
      PROVE  tok[v] \in Token /\ tok[v] # t /\ Exists(tok[v]) /\ family[tok[v]] # t
  BY <1>1, <1>5 DEF Refreshing, ChainInv, Rooted
<1>6. family'[t] \notin burned
  BY <1>1, <1>4 DEF BurnInv, Exist
<1>7. Exist(burned)'
  <2>1. \A r \in burned : r # t
    BY <1>1 DEF BurnInv, Exist
  <2> QED
    BY <1>1, <1>3, <2>1 DEF BurnInv, Exist, Exists
<1>8. BurnedFamilyIsRevoked'
  BY <1>1, <1>3, <1>6 DEF BurnInv, BurnedFamilyIsRevoked, Exists
<1>9. \A v \in Worker : Refreshing(v)' => family'[tok'[v]] \notin burned'
  <2>1. ASSUME NEW v \in Worker, Refreshing(v)' PROVE v # w /\ Refreshing(v) /\ tok'[v] = tok[v]
    BY <1>1, <1>2, <2>1 DEF Resting, Refreshing
  <2> QED
    BY <1>1, <1>3, <1>5, <2>1 DEF BurnInv
<1>10. ASSUME NEW v \in Worker, NEW u \in Token, pc'[v] = "burning", family'[u] = family'[tok'[v]]
       PROVE  u \in revoked' \cup dirty'[v]
  <2>1. v # w /\ pc[v] = "burning" /\ tok'[v] = tok[v] /\ dirty'[v] = dirty[v]
    BY <1>1, <1>2, <1>10 DEF Resting
  <2>2. family'[tok[v]] = family[tok[v]] /\ family[tok[v]] # t
    BY <1>3, <1>5, <2>1
  <2>3. u # t
    BY <1>4, <1>10, <2>1, <2>2 DEF NoRace
  <2> QED
    BY <1>1, <1>3, <1>10, <2>1, <2>2, <2>3 DEF BurnInv
<1> QED
  BY <1>7, <1>8, <1>9, <1>10 DEF BurnInv

LEMMA NextBurnInv ==
    TypeInv /\ ChainInv /\ LiveInv /\ NoRace /\ BurnInv /\ [RacelessNext]_vars => BurnInv'
<1> SUFFICES ASSUME TypeInv, ChainInv, LiveInv, NoRace, BurnInv, [RacelessNext]_vars PROVE BurnInv'
  OBVIOUS
<1>1. TypeInv'
  BY RacelessIsNext, NextTypeInv
<1>2. ASSUME NEW w \in Worker, Begin(w) PROVE BurnInv'
  BY <1>2, MostStepsAreMild, MildKeepsBurnInv, PresentingKeepsBurnInv DEF Begin
<1>3. ASSUME NEW w \in Worker, Step(w) PROVE BurnInv'
  BY <1>1, <1>3, MostStepsAreMild, MildKeepsBurnInv, BurningKeepsBurnInv, InsertingKeepsBurnInv
     DEF Step
<1>4. ASSUME NEW w \in Worker, Crash(w) \/ DeadlockVictim(w) PROVE BurnInv'
  BY <1>4, MostStepsAreMild, MildKeepsBurnInv DEF Crash, DeadlockVictim
<1>5. ASSUME NEW t \in Token, Expire(t) PROVE BurnInv'
  <2>1. Mild
    BY <1>5 DEF Expire, Mild, request, history, Refreshing
  <2> QED
    BY <2>1, MildKeepsBurnInv
<1>6. CASE UNCHANGED vars
  <2>1. Mild
    BY <1>6 DEF vars, database, request, history, Mild, Refreshing
  <2> QED
    BY <2>1, MildKeepsBurnInv
<1> QED
  BY <1>2, <1>3, <1>4, <1>5, <1>6 DEF RacelessNext

\* Of the behaviours of BothSpec, those that are raceless take raceless steps, and the
\* rest any step.
LEMMA BothIsRacelessOrNot ==
    [BothNext]_bothVars =>
        /\ [Next]_vars
        /\ raceless' = raceless
        /\ raceless => [RacelessNext]_vars
<1>1. [BothNext]_bothVars => raceless' = raceless /\ (raceless => [RacelessNext]_vars)
  BY DEF BothNext, bothVars
<1>2. [BothNext]_bothVars => [Next]_vars
  BY RacelessIsNext DEF BothNext, bothVars
<1> QED
  BY <1>1, <1>2

\* Once a reuse has been answered no token of its family can be spent, provided no
\* refresh of that family overlaps the answer (rotate_refresh).
THEOREM ReuseBurnsTheFamily == BothSpec => []RacelessReuseBurns
<1> DEFINE Burnt == raceless => NoRace /\ BurnInv
<1>1. Burnt => RacelessReuseBurns
  BY DEF BurnInv, RacelessReuseBurns
<1>2. BothInit => Init /\ Burnt
  BY InitNoRace, InitBurnInv DEF BothInit
<1>3. [BothNext]_bothVars => [Next]_vars
  BY BothIsRacelessOrNot
<1>4. TypeInv /\ ChainInv /\ LiveInv /\ Burnt /\ [BothNext]_bothVars => Burnt'
  BY BothIsRacelessOrNot, NextNoRace, NextBurnInv
<1> QED
  BY <1>1, <1>2, <1>3, <1>4, InitTypeInv, NextTypeInv, InitChainInv, NextChainInv, InitEndInv,
     NextEndInv, InitLiveInv, NextLiveInv, PTL DEF BothSpec

\* A request that has listed the live sessions of an account has all of them dead, or
\* dying, while nobody else signs in to it.  A sign-in lists them to leave one session,
\* which the adoption of a legacy family, evicting nobody, would make two.
Superseding == SingleSession /\ Legacy = {}

MustCover(w) ==
    \/ pc[w] = "superseding" /\ Superseding
    \/ pc[w] = "ending" /\ Closing(w)

CoverInv ==
    /\ \A w \in Worker : MustCover(w) => LiveSessions(cred[w]) \subseteq Dying(w)
    /\ Superseding =>
          \A s, u \in Session :
             Exists(s) /\ owner[s] = owner[u] /\ s \notin revoked /\ u \notin revoked => s = u
    /\ \A c \in disabled :
          LiveSessions(c) # {} => \E w \in Worker : EndingAll(w) /\ cred[w] = c

LEMMA InitCoverInv == Init => CoverInv
  BY ConstantsAssumption
     DEF Init, NoRequest, CoverInv, MustCover, Closing, EndingAll, LiveSessions, Exists, Row

\* What a step that inserts no session owes to CoverInv.
LEMMA NoSessionKeepsCoverInv ==
    ASSUME TypeInv, CoverInv, NEW w \in Worker, \A v \in Worker \ {w} : Resting(v),
           \A s \in Session : owner'[s] = owner[s],
           revoked \subseteq revoked',
           \A v \in Worker \ {w} : Closing(v)' => Closing(v),
           MustCover(w)' => LiveSessions(cred[w])' \subseteq Dying(w)',
           \A c \in disabled' :
              \/ EndingAll(w)' /\ cred'[w] = c
              \/ LiveSessions(c)' = {}
              \/ c \in disabled /\ ~(Closing(w) /\ cred[w] = c)
    PROVE  CoverInv'
<1>1. \A c : LiveSessions(c)' \subseteq LiveSessions(c)
  BY DEF LiveSessions
<1>2. ASSUME NEW v \in Worker, MustCover(v)' PROVE LiveSessions(cred[v])' \subseteq Dying(v)'
  <2>1. CASE v = w
    BY <1>2, <2>1
  <2>2. CASE v # w
    <3>1. Resting(v) /\ MustCover(v)
      BY <1>2, <2>2 DEF MustCover, Resting
    <3>2. LiveSessions(cred[v]) \subseteq Dying(v)
      BY <3>1 DEF CoverInv
    <3>3. Dying(v) \subseteq Dying(v)' /\ LiveSessions(cred[v])' \subseteq LiveSessions(cred[v])
      BY <1>1, <3>1 DEF Resting, Dying, LiveSessions
    <3> QED
      BY <3>2, <3>3
  <2> QED
    BY <2>1, <2>2
<1>3. Superseding =>
         \A s, u \in Session :
            Exists(s)' /\ owner'[s] = owner'[u] /\ s \notin revoked' /\ u \notin revoked' => s = u
  BY DEF CoverInv, Exists
<1>4. ASSUME NEW c \in disabled', LiveSessions(c)' # {}
      PROVE  \E v \in Worker : EndingAll(v)' /\ cred'[v] = c
  <2>1. CASE c \in disabled /\ ~(Closing(w) /\ cred[w] = c)
    <3>1. PICK v \in Worker : EndingAll(v) /\ cred[v] = c
      BY <1>1, <1>4, <2>1 DEF CoverInv
    <3>2. v # w
      BY <2>1, <3>1 DEF Closing
    <3> QED
      BY <3>1, <3>2 DEF Resting, EndingAll
  <2> QED
    BY <1>4, <2>1
<1> QED
  BY <1>2, <1>3, <1>4 DEF CoverInv

\* A sign-in supersedes what was live: NoRace keeps out of its account any other
\* sign-in, and any request that disables it.
LEMMA SignInKeepsCoverInv ==
    ASSUME TypeInv, CoverInv, NoRace,
           NEW w \in Worker, NEW t \in Token, NEW s \in Session, CommitSignIn(w, t, s)
    PROVE  CoverInv'
<1> USE DEF TypeInv, TypeOK, WellFormed, Row
<1> DEFINE c == cred[w]
<1>1. /\ pc[w] = "superseding" /\ todo[w] = {} /\ ~Exists(s)
      /\ revoked' = revoked \cup held[w] \cup dirty[w] /\ UNCHANGED disabled
      /\ pc'[w] = "idle" /\ c \in Credential /\ c # None
      /\ owner'[s] = c /\ \A x \in Session \ {s} : owner'[x] = owner[x]
  BY ConstantsAssumption DEF CommitSignIn, CommitRevocations, InsertTokenAndSession, Done
<1>2. \A v \in Worker \ {w} : Resting(v)
  BY OthersRest DEF Step
<1>3. c \notin disabled /\ \A v \in Worker \ {w} : SigningIn(v) => cred[v] # c
  BY <1>1 DEF NoRace, SigningIn
<1>4. \A d : d # c => LiveSessions(d)' \subseteq LiveSessions(d)
  BY <1>1 DEF LiveSessions
<1>5. ASSUME NEW v \in Worker, MustCover(v)' PROVE LiveSessions(cred[v])' \subseteq Dying(v)'
  <2>1. v # w /\ Resting(v)
    BY <1>1, <1>2, <1>5 DEF MustCover
  <2>2. MustCover(v) /\ cred[v] # c
    BY <1>1, <1>3, <1>5, <2>1 DEF MustCover, Closing, EndingAll, SigningIn, Resting
  <2>3. LiveSessions(cred[v]) \subseteq Dying(v)
    BY <2>2 DEF CoverInv
  <2>4. Dying(v) \subseteq Dying(v)' /\ cred'[v] = cred[v]
    BY <1>1, <2>1 DEF Resting, Dying
  <2>5. LiveSessions(cred[v])' \subseteq LiveSessions(cred[v])
    BY <1>4, <2>2, <2>4 DEF LiveSessions
  <2> QED
    BY <2>3, <2>4, <2>5
<1>6. ASSUME Superseding, NEW x \in Session, NEW u \in Session,
             Exists(x)', owner'[x] = owner'[u], x \notin revoked', u \notin revoked'
      PROVE  x = u
  <2>1. LiveSessions(c) \subseteq revoked'
    BY <1>1, <1>6 DEF CoverInv, MustCover, Dying
  <2>2. \A y \in Session : owner'[y] = c /\ y \notin revoked' => y = s
    BY <1>1, <2>1 DEF LiveSessions
  <2>3. CASE owner'[x] = c
    BY <1>6, <2>2, <2>3
  <2>4. CASE owner'[x] # c
    BY <1>1, <1>6, <2>4 DEF CoverInv, Exists
  <2> QED
    BY <2>3, <2>4
<1>7. ASSUME NEW d \in disabled', LiveSessions(d)' # {}
      PROVE  \E v \in Worker : EndingAll(v)' /\ cred'[v] = d
  <2>1. d \in disabled /\ LiveSessions(d) # {}
    BY <1>1, <1>3, <1>4, <1>7
  <2>2. PICK v \in Worker : EndingAll(v) /\ cred[v] = d
    BY <2>1 DEF CoverInv
  <2>3. v # w
    BY <1>1, <2>2 DEF EndingAll
  <2> QED
    BY <1>2, <2>2, <2>3 DEF Resting, EndingAll
<1> QED
  BY <1>5, <1>6, <1>7 DEF CoverInv

\* A request begins: only a disable makes others' lists matter, and NoRace says that
\* there are none.
LEMMA BeginKeepsCoverInv ==
    ASSUME TypeInv, CoverInv, NoRace', NEW w \in Worker, Begin(w)
    PROVE  CoverInv'
<1> USE DEF TypeInv, TypeOK
<1>1. /\ UNCHANGED <<owner, revoked>> /\ pc[w] = "idle"
      /\ pc'[w] \notin {"superseding", "ending"}
  BY DEF Begin, BeginSignIn, PasswordReset, Disable, LogoutAll, BeginEndAll, ClaimToken,
         DetectReuse, BeginLogout, database
<1>2. \A v \in Worker \ {w} : Resting(v)
  BY OthersRest
<1>3. CASE UNCHANGED disabled
  <2>1. \A v \in Worker \ {w} : Closing(v)' => Closing(v)
    BY <1>2, <1>3 DEF Resting, Closing, EndingAll
  <2>2. ~Closing(w) /\ ~MustCover(w)'
    BY <1>1 DEF Closing, EndingAll, MustCover
  <2> QED
    BY <1>1, <1>2, <1>3, <2>1, <2>2, NoSessionKeepsCoverInv
<1>4. ASSUME NEW c \in Credential, Disable(w, c) PROVE CoverInv'
  <2>1. disabled' = disabled \cup {c} /\ EndingAll(w)' /\ cred'[w] = c
    BY <1>4 DEF Disable, BeginEndAll, EndingAll
  <2>2. \A v \in Worker \ {w} : Closing(v)' => Closing(v)
    BY <1>2, <2>1 DEF NoRace, Resting, Closing, EndingAll
  <2>3. ~Closing(w) /\ ~MustCover(w)'
    BY <1>1 DEF Closing, EndingAll, MustCover
  <2> QED
    BY <1>1, <1>2, <2>1, <2>2, <2>3, NoSessionKeepsCoverInv
<1>5. \/ UNCHANGED disabled
      \/ \E c \in Credential : Disable(w, c)
  BY DEF Begin, BeginSignIn, PasswordReset, LogoutAll, ClaimToken, DetectReuse, BeginLogout, database
<1> QED
  BY <1>3, <1>4, <1>5

\* The steps of a request that insert no session.
LEMMA StepKeepsCoverInv ==
    ASSUME TypeInv, CoverInv, NEW w \in Worker,
           \/ SelectSuperseded(w) \/ \E s \in Session : RevokeSession(w, s)
           \/ RefuseRefresh(w) \/ AcceptRefresh(w) \/ CommitClaim(w)
           \/ \E t \in Token : IssueSuccessor(w, t)
           \/ BurnFamily(w) \/ LogoutSession(w) \/ CommitLogout(w)
           \/ SelectTokens(w) \/ SelectSessions(w) \/ CommitEndAll(w)
           \/ ~Closing(w) /\ Abandon(w)
    PROVE  CoverInv'
<1> USE DEF TypeInv, TypeOK
<1>1. /\ \A s \in Session : owner'[s] = owner[s]
      /\ revoked \subseteq revoked' /\ UNCHANGED disabled
  <2>1. ASSUME NEW t \in Token, IssueSuccessor(w, t), NEW s \in Session PROVE owner'[s] = owner[s]
    BY <2>1, ConstantsAssumption DEF IssueSuccessor, InsertToken, Row
  <2> QED
    BY <2>1
       DEF SelectSuperseded, RevokeSession, RefuseRefresh, AcceptRefresh, CommitClaim,
           IssueSuccessor, BurnFamily, LogoutSession, CommitLogout, SelectTokens,
           SelectSessions, CommitEndAll, Abandon, CommitRevocations, database
<1>2. \A v \in Worker \ {w} : Resting(v)
  BY OthersRest DEF Step
<1>3. \A v \in Worker \ {w} : Closing(v)' => Closing(v)
  BY <1>1, <1>2 DEF Resting, Closing, EndingAll
<1>4. MustCover(w)' => LiveSessions(cred[w])' \subseteq Dying(w)'
  <2>1. CASE SelectSuperseded(w) \/ SelectSessions(w)
    BY <2>1 DEF SelectSuperseded, SelectSessions, MustCover, Superseding, Closing, EndingAll,
                LiveSessions, Dying, database
  <2>2. ASSUME NEW s \in Session, RevokeSession(w, s)
        PROVE  MustCover(w)' => LiveSessions(cred[w])' \subseteq Dying(w)'
    BY <2>2 DEF RevokeSession, Flush, CoverInv, MustCover, Closing, EndingAll, LiveSessions,
                Dying, database
  <2>3. CASE pc'[w] \notin {"superseding", "ending"}
    BY <2>3 DEF MustCover
  <2> QED
    BY <2>1, <2>2, <2>3
       DEF RefuseRefresh, AcceptRefresh, CommitClaim, IssueSuccessor, BurnFamily, LogoutSession,
           CommitLogout, SelectTokens, CommitEndAll, Abandon, Done
<1>5. ASSUME NEW c \in disabled', Closing(w), cred[w] = c
      PROVE  \/ EndingAll(w)' /\ cred'[w] = c
             \/ LiveSessions(c)' = {}
  <2>1. CASE CommitEndAll(w)
    <3>1. LiveSessions(c) \subseteq Dying(w) /\ todo[w] = {}
      BY <1>5, <2>1 DEF CommitEndAll, CoverInv, MustCover
    <3> QED
      BY <1>1, <2>1, <3>1 DEF CommitEndAll, CommitRevocations, Dying, LiveSessions
  <2>2. CASE SelectTokens(w) \/ SelectSessions(w) \/ \E s \in Session : RevokeSession(w, s)
    BY <1>5, <2>2 DEF SelectTokens, SelectSessions, RevokeSession, Closing, EndingAll
  <2> QED
    BY <1>5, <2>1, <2>2
       DEF Closing, EndingAll, SelectSuperseded, RefuseRefresh, AcceptRefresh, CommitClaim,
           IssueSuccessor, BurnFamily, LogoutSession, CommitLogout, Abandon
<1> QED
  BY <1>1, <1>2, <1>3, <1>4, <1>5, NoSessionKeepsCoverInv

\* Without legacy tokens every family that is refreshed has its session.
LEMMA NothingToAdopt ==
    ASSUME Legacy = {}, TypeInv, ChainInv, EndInv,
           NEW w \in Worker, NEW t \in Token, NEW s \in Session, AdoptFamily(w, t, s)
    PROVE  FALSE
  BY DEF AdoptFamily, TypeInv, TypeOK, WellFormed, Row, ChainInv, Single, EndInv, Housed,
         FamilySessions, Exists

\* A legacy family is adopted for an account that NoRace keeps enabled meanwhile.
LEMMA AdoptKeepsCoverInv ==
    ASSUME ~Superseding, TypeInv, CoverInv, NoRace,
           NEW w \in Worker, NEW t \in Token, NEW s \in Session, AdoptFamily(w, t, s)
    PROVE  CoverInv'
<1> USE DEF TypeInv, TypeOK, WellFormed, Row
<1> DEFINE c == cred[w]
<1>1. /\ pc[w] = "rotating" /\ UNCHANGED <<revoked, disabled>> /\ pc'[w] = "idle"
      /\ owner'[s] = c /\ \A x \in Session \ {s} : owner'[x] = owner[x]
  BY ConstantsAssumption DEF AdoptFamily, InsertTokenAndSession, Done
<1>2. \A v \in Worker \ {w} : Resting(v)
  BY OthersRest DEF Step
<1>3. c \notin disabled
  BY DEF AdoptFamily, NoRace, Adopting
<1>4. \A d : d # c => LiveSessions(d)' \subseteq LiveSessions(d)
  BY <1>1 DEF LiveSessions
<1>5. ASSUME NEW v \in Worker, MustCover(v)' PROVE LiveSessions(cred[v])' \subseteq Dying(v)'
  <2>1. v # w /\ Resting(v)
    BY <1>1, <1>2, <1>5 DEF MustCover, Closing, EndingAll
  <2>2. MustCover(v) /\ cred[v] # c
    BY <1>1, <1>3, <1>5, <2>1 DEF MustCover, Superseding, Closing, EndingAll, Resting
  <2>3. LiveSessions(cred[v]) \subseteq Dying(v)
    BY <2>2 DEF CoverInv
  <2>4. Dying(v) \subseteq Dying(v)' /\ cred'[v] = cred[v]
    BY <1>1, <2>1 DEF Resting, Dying
  <2>5. LiveSessions(cred[v])' \subseteq LiveSessions(cred[v])
    BY <1>4, <2>2, <2>4 DEF LiveSessions
  <2> QED
    BY <2>3, <2>4, <2>5
<1>6. ASSUME NEW d \in disabled', LiveSessions(d)' # {}
      PROVE  \E v \in Worker : EndingAll(v)' /\ cred'[v] = d
  <2>1. d \in disabled /\ LiveSessions(d) # {}
    BY <1>1, <1>3, <1>4, <1>6
  <2>2. PICK v \in Worker : EndingAll(v) /\ cred[v] = d
    BY <2>1 DEF CoverInv
  <2>3. v # w
    BY <1>1, <2>2 DEF EndingAll
  <2> QED
    BY <1>2, <2>2, <2>3 DEF Resting, EndingAll
<1> QED
  BY <1>5, <1>6 DEF CoverInv, Superseding

LEMMA NextCoverInv ==
    TypeInv /\ ChainInv /\ EndInv /\ NoRace /\ CoverInv /\ [RacelessNext]_vars => CoverInv'
<1> SUFFICES ASSUME TypeInv, ChainInv, EndInv, NoRace, CoverInv, [RacelessNext]_vars PROVE CoverInv'
  OBVIOUS
<1>1. NoRace'
  BY NextNoRace
<1>2. ASSUME NEW w \in Worker, Begin(w) PROVE CoverInv'
  BY <1>1, <1>2, BeginKeepsCoverInv
<1>3. ASSUME NEW w \in Worker, Step(w) PROVE CoverInv'
  BY <1>3, SignInKeepsCoverInv, StepKeepsCoverInv, NothingToAdopt, AdoptKeepsCoverInv
     DEF Step, Superseding
<1>4. ASSUME NEW w \in Worker, ~Closing(w), Crash(w) \/ DeadlockVictim(w) PROVE CoverInv'
  BY <1>4, StepKeepsCoverInv DEF Crash, DeadlockVictim
<1>5. CASE UNCHANGED <<owner, revoked, disabled, request>>
  BY <1>5 DEF CoverInv, MustCover, Closing, EndingAll, LiveSessions, Dying, Exists, request
<1>6. ASSUME NEW t \in Token, Expire(t) PROVE CoverInv'
  BY <1>5, <1>6 DEF Expire
<1>7. CASE UNCHANGED vars
  BY <1>5, <1>7 DEF vars, database
<1> QED
  BY <1>2, <1>3, <1>4, <1>6, <1>7 DEF RacelessNext

\* What the listing of sessions is for holds of every raceless behaviour.
LEMMA BothKeepsCover ==
    BothSpec => [](TypeInv /\ (raceless => CoverInv))
<1> DEFINE Covered == raceless => NoRace /\ CoverInv
<1>1. BothInit => Init /\ Covered
  BY InitNoRace, InitCoverInv DEF BothInit
<1>2. [BothNext]_bothVars => [Next]_vars
  BY BothIsRacelessOrNot
<1>3. TypeInv /\ ChainInv /\ EndInv /\ Covered /\ [BothNext]_bothVars => Covered'
  BY BothIsRacelessOrNot, NextNoRace, NextCoverInv
<1>4. Covered => (raceless => CoverInv)
  OBVIOUS
<1> QED
  BY <1>1, <1>2, <1>3, <1>4, InitTypeInv, NextTypeInv, InitChainInv, NextChainInv, InitEndInv,
     NextEndInv, PTL DEF BothSpec

\* Once no token is older than the sessions table, signing in leaves one live session
\* to the account, provided no two sign-ins of it overlap (_start_session).
THEOREM SignInSupersedes ==
    ASSUME Legacy = {}
    PROVE  BothSpec => []RacelessSignInSupersedes
<1>1. TypeInv /\ (raceless => CoverInv) => RacelessSignInSupersedes
  <2> SUFFICES ASSUME TypeInv, CoverInv, SingleSession, NEW c \in Credential
               PROVE  Cardinality(LiveSessions(c)) <= 1
    BY DEF RacelessSignInSupersedes, OneLiveSession
  <2>1. \A s, u \in LiveSessions(c) : s = u
    BY ConstantsAssumption DEF CoverInv, Superseding, LiveSessions, Exists
  <2>2. CASE LiveSessions(c) = {}
    BY <2>2, FS_EmptySet
  <2>3. ASSUME NEW s \in LiveSessions(c) PROVE Cardinality(LiveSessions(c)) = 1
    <3>1. LiveSessions(c) = {s}
      BY <2>1, <2>3
    <3> QED
      BY <3>1, FS_Singleton
  <2> QED
    BY <2>2, <2>3
<1> QED
  BY <1>1, BothKeepsCover, PTL

\* Nor does a disabled account keep a live session once its requests are over, provided
\* no sign-in of it, no adoption of a legacy family of it and no second request that
\* ends it overlaps the disable, and the disable does not die half-way
\* (disable_credential).
THEOREM DisablingSignsOut == BothSpec => []RacelessDisableSignsOut
<1>1. (raceless => CoverInv) => RacelessDisableSignsOut
  BY DEF CoverInv, DisabledIsSignedOut, RacelessDisableSignsOut
<1> QED
  BY <1>1, BothKeepsCover, PTL
=============================================================================
