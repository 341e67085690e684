---------------------------- MODULE ResetsProofs ----------------------------
(***************************************************************************)
(* Password resets, for any number of tokens and requests: a token that    *)
(* has changed a password is refused, and one that no mail server has      *)
(* taken is in the audit log.                                              *)
(***************************************************************************)
EXTENDS Resets, TLAPS

-----------------------------------------------------------------------------
\* A request under way has its token, one that has been issued.
Carries(w) == step[w] # "idle" => token[w] \in ResetToken /\ reset[token[w]] # "none"

ResetsTypeInv ==
    /\ ResetsTypeOK
    /\ \A w \in Mailer : Carries(w)

LEMMA InitResetsType == ResetsInit => ResetsTypeInv
  BY DEF ResetsInit, ResetsTypeInv, ResetsTypeOK, Carries

LEMMA NextResetsType == ResetsTypeInv /\ [ResetsNext]_resetsVars => ResetsTypeInv'
<1> SUFFICES ASSUME ResetsTypeInv, [ResetsNext]_resetsVars PROVE ResetsTypeInv'
  OBVIOUS
<1> USE DEF ResetsTypeInv, ResetsTypeOK, Carries, GoesOn, Replied, rows, past
<1>1. ASSUME NEW w \in Mailer, IssueReset(w) PROVE ResetsTypeInv'
  <2>1. PICK t \in ResetToken : /\ reset' = [reset EXCEPT ![t] = "unused"]
                                /\ token' = [token EXCEPT ![w] = t]
    BY <1>1 DEF IssueReset
  <2>2. ResetsTypeOK'
    BY <1>1, <2>1 DEF IssueReset
  <2>3. \A v \in Mailer : Carries(v)'
    BY <1>1, <2>1 DEF IssueReset
  <2> QED
    BY <2>2, <2>3
<1>2. ASSUME NEW w \in Mailer, LoadReset(w) PROVE ResetsTypeInv'
  <2>1. PICK t \in ResetToken : reset[t] = "unused" /\ token' = [token EXCEPT ![w] = t]
    BY <1>2 DEF LoadReset
  <2>2. ResetsTypeOK'
    BY <1>2, <2>1 DEF LoadReset
  <2>3. \A v \in Mailer : Carries(v)'
    BY <1>2, <2>1 DEF LoadReset
  <2> QED
    BY <2>2, <2>3
<1>3. ASSUME NEW w \in Mailer, RelayFails(w) \/ FallbackFails(w) PROVE ResetsTypeInv'
  <2>1. token[w] \in ResetToken
    BY <1>3 DEF RelayFails, FallbackFails
  <2>2. inbox' \subseteq ResetToken
    BY <1>3, <2>1 DEF RelayFails, FallbackFails
  <2> QED
    BY <1>3, <2>2 DEF RelayFails, FallbackFails
<1>4. ASSUME NEW w \in Mailer,
             RelayTakes(w) \/ FallbackTakes(w) \/ Report(w) \/ EndTheSessions(w) \/ Die(w)
      PROVE  ResetsTypeInv'
  <2>1. token[w] \in ResetToken
    BY <1>4 DEF RelayTakes, FallbackTakes, Report, EndTheSessions, Die
  <2>2. ResetsTypeOK'
    BY <1>4, <2>1 DEF RelayTakes, FallbackTakes, Report, EndTheSessions, Die
  <2>3. \A v \in Mailer : Carries(v)'
    BY <1>4 DEF RelayTakes, FallbackTakes, Report, EndTheSessions, Die
  <2> QED
    BY <2>2, <2>3
<1>5. ASSUME NEW w \in Mailer, ChangePassword(w) PROVE ResetsTypeInv'
  BY <1>5 DEF ChangePassword
<1>6. ASSUME NEW t \in ResetToken, GrowStale(t) PROVE ResetsTypeInv'
  BY <1>6 DEF GrowStale
<1>7. CASE UNCHANGED resetsVars
  BY <1>7 DEF resetsVars
<1> QED
  BY <1>1, <1>2, <1>3, <1>4, <1>5, <1>6, <1>7 DEF ResetsNext

\* The token table, the requests and the mail hold what they are declared to.
THEOREM ResetsTypeIsInvariant == ResetsSpec => []ResetsTypeOK
<1>1. ResetsTypeInv => ResetsTypeOK
  BY DEF ResetsTypeInv
<1> QED
  BY <1>1, InitResetsType, NextResetsType, PTL DEF ResetsSpec

-----------------------------------------------------------------------------
\* What has changed a password is marked used, in the same commit.
SpentInv ==
    /\ SpentTokenIsRefused
    /\ \A t \in changed : reset[t] = "used"

LEMMA InitSpent == ResetsInit => SpentInv
  BY DEF ResetsInit, SpentInv, SpentTokenIsRefused

LEMMA NextSpent == ResetsTypeInv /\ SpentInv /\ [ResetsNext]_resetsVars => SpentInv'
<1> SUFFICES ASSUME ResetsTypeInv, SpentInv, [ResetsNext]_resetsVars PROVE SpentInv'
  OBVIOUS
<1> USE DEF ResetsTypeInv, ResetsTypeOK, SpentInv, SpentTokenIsRefused, GoesOn, Replied,
            rows, past
<1>1. ASSUME NEW w \in Mailer, IssueReset(w) PROVE SpentInv'
  BY <1>1 DEF IssueReset
<1>2. ASSUME NEW w \in Mailer, LoadReset(w) PROVE SpentInv'
  <2>1. token'[w] \notin changed
    BY <1>2 DEF LoadReset
  <2> QED
    BY <1>2, <2>1 DEF LoadReset
<1>3. ASSUME NEW w \in Mailer,
             \/ RelayTakes(w) \/ RelayFails(w) \/ FallbackTakes(w) \/ FallbackFails(w)
             \/ Report(w) \/ EndTheSessions(w) \/ Die(w)
      PROVE  SpentInv'
  <2>1. UNCHANGED <<reset, changed, before>>
    BY <1>3 DEF RelayTakes, RelayFails, FallbackTakes, FallbackFails, Report, EndTheSessions, Die
  <2>2. step'[w] \notin {"confirm", "end"}
    BY <1>3 DEF RelayTakes, RelayFails, FallbackTakes, FallbackFails, Report, EndTheSessions, Die
  <2>3. \A v \in Mailer \ {w} : step'[v] = step[v] /\ token'[v] = token[v]
    BY <1>3 DEF RelayTakes, RelayFails, FallbackTakes, FallbackFails, Report, EndTheSessions, Die
  <2> QED
    BY <2>1, <2>2, <2>3
<1>4. ASSUME NEW w \in Mailer, ChangePassword(w) PROVE SpentInv'
  BY <1>4 DEF ChangePassword, Carries
<1>5. ASSUME NEW t \in ResetToken, GrowStale(t) PROVE SpentInv'
  BY <1>5 DEF GrowStale
<1>6. CASE UNCHANGED resetsVars
  BY <1>6 DEF resetsVars
<1> QED
  BY <1>1, <1>2, <1>3, <1>4, <1>5, <1>6 DEF ResetsNext

\* A confirmation begun after its token had changed a password changes nothing.
THEOREM SpentTokensAreRefused == ResetsSpec => []SpentTokenIsRefused
<1>1. SpentInv => SpentTokenIsRefused
  BY DEF SpentInv
<1> QED
  BY <1>1, InitResetsType, NextResetsType, InitSpent, NextSpent, PTL DEF ResetsSpec

\* Resets implements LookThenUse: the issue of a token, the look at it, the change of the
\* password and the death of a request in between are its steps, and the mail is none.
THEOREM UsedTokensStayOut == ResetsSpec => SpentTokensStayOut
<1>1. ResetsInit => Look!Init
  BY DEF ResetsInit, Look!Init
<1>2. ASSUME ResetsTypeInv, [ResetsNext]_resetsVars PROVE [Look!Next]_(Look!secretVars)
  <2> USE <1>2, ResetsAssumption DEF ResetsTypeInv, ResetsTypeOK, Carries, GoesOn, Replied, rows, past
  <2> DEFINE Unused == {t \in ResetToken : reset[t] = "unused"}
             Used == {t \in ResetToken : reset[t] = "used"}
             Confirming == [w \in Mailer |-> IF step[w] = "confirm" THEN token[w] ELSE NoToken]
  <2>1. ASSUME UNCHANGED <<reset, changed>>,
               \A w \in Mailer :
                  \/ step'[w] = step[w] /\ token'[w] = token[w]
                  \/ step[w] # "confirm" /\ step'[w] # "confirm"
        PROVE  UNCHANGED Look!secretVars
    BY <2>1 DEF Look!secretVars
  <2>2. ASSUME NEW w \in Mailer, IssueReset(w) PROVE Look!Next
    <3>1. PICK t \in ResetToken : reset[t] = "none" /\ reset' = [reset EXCEPT ![t] = "unused"]
      BY <2>2 DEF IssueReset
    <3>2. UNCHANGED changed /\ step[w] = "idle" /\ step'[w] = "relay"
          /\ \A v \in Mailer \ {w} : step'[v] = step[v] /\ token'[v] = token[v]
      BY <2>2 DEF IssueReset
    <3> QED
      BY <3>1, <3>2 DEF Look!Issue, Look!Next
  <2>3. ASSUME NEW w \in Mailer, LoadReset(w) PROVE Look!Next
    <3>1. PICK t \in ResetToken : reset[t] = "unused" /\ token' = [token EXCEPT ![w] = t]
      BY <2>3 DEF LoadReset
    <3>2. UNCHANGED <<reset, changed>> /\ step[w] = "idle"
          /\ step' = [step EXCEPT ![w] = "confirm"]
      BY <2>3 DEF LoadReset
    <3> QED
      BY <3>1, <3>2 DEF Look!Find, Look!Next
  <2>4. ASSUME NEW w \in Mailer, ChangePassword(w) PROVE Look!Next
    <3>1. token[w] \in ResetToken /\ reset[token[w]] # "none"
      BY <2>4 DEF ChangePassword
    <3>2. /\ Unused' = Unused \ {token[w]} /\ Used' = Used \cup {token[w]}
          /\ changed' = changed \cup {token[w]}
      BY <2>4, <3>1 DEF ChangePassword
    <3>3. Confirming[w] = token[w] /\ Confirming' = [Confirming EXCEPT ![w] = NoToken]
      BY <2>4 DEF ChangePassword
    <3> QED
      BY <3>1, <3>2, <3>3 DEF Look!Use, Look!Next
  <2>5. ASSUME NEW w \in Mailer, Die(w) PROVE [Look!Next]_(Look!secretVars)
    <3>1. CASE step[w] = "confirm"
      <4>1. token[w] \in ResetToken /\ UNCHANGED <<reset, changed>>
        BY <2>5, <3>1 DEF Die
      <4>2. Confirming[w] = token[w] /\ Confirming' = [Confirming EXCEPT ![w] = NoToken]
        BY <2>5, <3>1 DEF Die
      <4> QED
        BY <4>1, <4>2 DEF Look!Fail, Look!Next
    <3>2. CASE step[w] # "confirm"
      BY <2>1, <2>5, <3>2 DEF Die
    <3> QED
      BY <3>1, <3>2
  <2>6. ASSUME NEW w \in Mailer,
               \/ RelayTakes(w) \/ RelayFails(w) \/ FallbackTakes(w) \/ FallbackFails(w)
               \/ Report(w) \/ EndTheSessions(w)
        PROVE  UNCHANGED Look!secretVars
    BY <2>1, <2>6
       DEF RelayTakes, RelayFails, FallbackTakes, FallbackFails, Report, EndTheSessions
  <2>7. ASSUME NEW t \in ResetToken, GrowStale(t) PROVE UNCHANGED Look!secretVars
    BY <2>1, <2>7 DEF GrowStale
  <2>8. CASE UNCHANGED resetsVars
    BY <2>1, <2>8 DEF resetsVars
  <2> QED
    BY <2>2, <2>3, <2>4, <2>5, <2>6, <2>7, <2>8 DEF ResetsNext
<1> QED
  BY <1>1, <1>2, InitResetsType, NextResetsType, PTL DEF ResetsSpec, SpentTokensStayOut, Look!Spec

-----------------------------------------------------------------------------
LEMMA InitReported == ResetsInit => UndeliveredIsReported
  BY DEF ResetsInit, UndeliveredIsReported

LEMMA NextReported ==
    ResetsTypeInv /\ UndeliveredIsReported /\ [ResetsNext]_resetsVars => UndeliveredIsReported'
<1> SUFFICES ASSUME ResetsTypeInv, UndeliveredIsReported, [ResetsNext]_resetsVars,
                    NEW t \in ResetToken, reset'[t] # "none"
             PROVE  \/ t \in inbox' \cup reported' \cup dropped'
                    \/ \E w \in Mailer : Sending(w)' /\ token'[w] = t
  BY DEF UndeliveredIsReported
<1> DEFINE Settled == t \in inbox \cup reported \cup dropped
           Carried == \E w \in Mailer : Sending(w) /\ token[w] = t
<1> USE DEF ResetsTypeInv, ResetsTypeOK, Sending, GoesOn, Replied, rows, past
<1>1. reset[t] # "none" => Settled \/ Carried
  BY DEF UndeliveredIsReported
<1>2. ASSUME NEW w \in Mailer, IssueReset(w) PROVE (Settled \/ Carried)'
  <2>1. PICK u \in ResetToken : /\ reset' = [reset EXCEPT ![u] = "unused"]
                                /\ token' = [token EXCEPT ![w] = u]
    BY <1>2 DEF IssueReset
  <2>2. CASE t = u
    BY <1>2, <2>1, <2>2 DEF IssueReset
  <2>3. CASE t # u
    BY <1>1, <1>2, <2>1, <2>3 DEF IssueReset
  <2> QED
    BY <2>2, <2>3
<1>3. ASSUME NEW w \in Mailer, RelayTakes(w) \/ FallbackTakes(w) \/ Report(w)
      PROVE  (Settled \/ Carried)'
  BY <1>1, <1>3 DEF RelayTakes, FallbackTakes, Report
<1>4. ASSUME NEW w \in Mailer, RelayFails(w) \/ FallbackFails(w)
      PROVE  (Settled \/ Carried)'
  BY <1>1, <1>4 DEF RelayFails, FallbackFails
<1>5. ASSUME NEW w \in Mailer, LoadReset(w) PROVE (Settled \/ Carried)'
  BY <1>1, <1>5 DEF LoadReset
<1>6. ASSUME NEW w \in Mailer, ChangePassword(w) PROVE (Settled \/ Carried)'
  <2>1. reset[t] # "none"
    BY <1>6 DEF ChangePassword, Carries
  <2> QED
    BY <1>1, <1>6, <2>1 DEF ChangePassword
<1>7. ASSUME NEW w \in Mailer, EndTheSessions(w) \/ Die(w) PROVE (Settled \/ Carried)'
  BY <1>1, <1>7 DEF EndTheSessions, Die
<1>8. ASSUME NEW u \in ResetToken, GrowStale(u) PROVE (Settled \/ Carried)'
  BY <1>1, <1>8 DEF GrowStale
<1>9. CASE UNCHANGED resetsVars
  BY <1>1, <1>9 DEF resetsVars
<1> QED
  BY <1>2, <1>3, <1>4, <1>5, <1>6, <1>7, <1>8, <1>9 DEF ResetsNext

\* A token that no mail server has taken is in the audit log, on its way, or was
\* dropped by a request that died.
THEOREM UndeliveredAreReported == ResetsSpec => []UndeliveredIsReported
<1> QED
  BY InitResetsType, NextResetsType, InitReported, NextReported, PTL DEF ResetsSpec
=============================================================================
