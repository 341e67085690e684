---------------------------- MODULE SignInProofs ----------------------------
(***************************************************************************)
(* Proofs about SignIn, for any number of challenges and of concurrent     *)
(* requests, and any limits.                                               *)
(***************************************************************************)
EXTENDS SignInBoth, TLAPS

\* What a request remembers, and what it may count on: the counters it loaded
\* were under the limits, whatever has been committed since; the lock it loaded
\* before a success was not ahead; the challenge it works on exists; what there was
\* when it selected is selected or consumed; and consumption is for ever.
Remembers ==
    \A w \in Worker :
        /\ pc[w] \in {"rightPassword", "wrongPassword", "rightCode", "wrongCode", "resetting"} =>
              seen[w].failed < MaxFailedLogins
        /\ pc[w] \in {"mailing", "resending", "remailing", "verifying", "rightCode", "wrongCode"} =>
              ch[w] \in Challenge /\ Exists(ch[w])
        /\ pc[w] = "resending" => copy[w].sends < OtpMaxSends
        /\ old[w] \subseteq {c \in Challenge : Exists(c)}
        /\ pc[w] \in {"rightPassword", "rightCode"} => seen[w].lock # "locked"
        /\ pc[w] = "creating" =>
              \A c \in past[w] : Exists(c) /\ (c \in old[w] \/ challenge[c] = Consumed)

GrantedIsConsumed == \A c \in granted : challenge[c] = Consumed

Inv ==
    TypeOK /\ Remembers /\ CountersUnderLimits /\ GrantedIsConsumed /\ LiveChallengeIsMailed

LEMMA InitInv == Init => Inv
<1> SUFFICES ASSUME Init PROVE Inv
  OBVIOUS
<1> USE ConstantsAssumption DEF Init
<1>1. TypeOK
  <2>1. challenge \in [Challenge -> LiveRow \cup {Consumed, None}]
    OBVIOUS
  <2>2. seen \in [Worker -> [failed : Nat, lock : {"none", "locked", "lapsed"}]]
    BY DEF NoCredential
  <2>3. copy \in [Worker -> [attempts : Nat, sends : Nat]]
    BY DEF NoRow
  <2>4. guesses \in 0 .. GuessCap
    OBVIOUS
  <2> QED
    BY <2>1, <2>2, <2>3, <2>4 DEF TypeOK, Label
<1>2. Remembers
  BY DEF Remembers
<1>3. CountersUnderLimits
  BY DEF CountersUnderLimits, Unconsumed
<1> QED
  BY <1>1, <1>2, <1>3 DEF Inv, GrantedIsConsumed, LiveChallengeIsMailed, Unconsumed

\* The writes to the row of the credential keep it typed and under its limit.
LEMMA WritesToCredential ==
    ASSUME Inv, NEW w \in Worker, seen[w].failed < MaxFailedLogins,
           ClearFailures(w) \/ CountFailure(w)
    PROVE  /\ failed' \in Nat /\ failed' < MaxFailedLogins
           /\ lock' \in {"none", "locked", "lapsed"}
BY ConstantsAssumption
   DEF Inv, TypeOK, CountersUnderLimits, ClearFailures, CountFailure, LocksOut, Written

LEMMA NextInv == Inv /\ [Next]_vars => Inv'
<1> SUFFICES ASSUME Inv, [Next]_vars PROVE Inv'
  OBVIOUS
<1> USE ConstantsAssumption
    DEF Inv, TypeOK, Remembers, CountersUnderLimits, GrantedIsConsumed,
        LiveChallengeIsMailed, Unconsumed, Exists, Settle,
        LiveRow, row, request, history, Goto,
        NoCredential, NoRow
<1>1. ASSUME NEW w \in Worker, NEW right \in BOOLEAN, LoadPassword(w, right) PROVE Inv'
  BY <1>1 DEF LoadPassword, LoadCredential, Label
<1>2. ASSUME NEW w \in Worker, WrongPassword(w) PROVE Inv'
  <2>1. failed' \in Nat /\ failed' < MaxFailedLogins /\ lock' \in {"none", "locked", "lapsed"}
    BY <1>2, WritesToCredential DEF WrongPassword
  <2> QED
    BY <1>2, <2>1 DEF WrongPassword, Done, Label
<1>3. ASSUME NEW w \in Worker, RightPassword(w) PROVE Inv'
  <2>1. failed' \in Nat /\ failed' < MaxFailedLogins /\ lock' \in {"none", "locked", "lapsed"}
    BY <1>3, WritesToCredential DEF RightPassword
  <2> QED
    BY <1>3, <2>1 DEF RightPassword, Label
<1>4. ASSUME NEW w \in Worker, GoogleFirstFactor(w) PROVE Inv'
  BY <1>4 DEF GoogleFirstFactor, Label
<1>5. ASSUME NEW w \in Worker, SelectChallenges(w) PROVE Inv'
  BY <1>5 DEF SelectChallenges, Label
<1>6. ASSUME NEW w \in Worker, NEW c \in Challenge, CreateChallenge(w, c) PROVE Inv'
  BY <1>6 DEF CreateChallenge, NewChallenge, Label
<1>7. ASSUME NEW w \in Worker, MailCode(w) PROVE Inv'
  BY <1>7 DEF MailCode, Done, Label
<1>8. ASSUME NEW w \in Worker, FailFirstMail(w) PROVE Inv'
  BY <1>8 DEF FailFirstMail, Done, Label
<1>9. ASSUME NEW w \in Worker, NEW c \in Challenge, LoadResend(w, c) PROVE Inv'
  BY <1>9 DEF LoadResend, LoadChallengeRow, Label
<1>10. ASSUME NEW w \in Worker, CommitResend(w) PROVE Inv'
  <2>1. PICK r \in LiveRow \cup {Consumed} :
           /\ challenge' = [challenge EXCEPT ![ch[w]] = r]
           /\ r # Consumed => r.attempts < OtpMaxAttempts /\ r.sends <= OtpMaxSends
           /\ challenge[ch[w]] = Consumed => r = Consumed
    <3>1. CASE challenge[ch[w]] = Consumed
      BY <1>10, <3>1 DEF CommitResend
    <3>2. CASE challenge[ch[w]] # Consumed
      <4> DEFINE live == challenge[ch[w]]
                 r == Resent(w, live)
      <4>1. ch[w] \in Challenge /\ live \in LiveRow /\ ch[w] \in Unconsumed
        BY <1>10, <3>2 DEF CommitResend
      <4>2. challenge' = [challenge EXCEPT ![ch[w]] = r]
        BY <1>10, <3>2 DEF CommitResend
      <4>3. copy[w].sends \in Nat /\ copy[w].sends + 1 <= OtpMaxSends
        BY <1>10 DEF CommitResend
      <4>4. /\ Written(live.attempts, copy[w].attempts, 0) \in Nat
            /\ Written(live.attempts, copy[w].attempts, 0) < OtpMaxAttempts
        BY <4>1 DEF Written
      <4>5. r \in LiveRow /\ r.attempts < OtpMaxAttempts /\ r.sends <= OtpMaxSends
        BY <4>3, <4>4 DEF Resent
      <4> HIDE DEF r
      <4> QED
        BY <3>2, <4>2, <4>5
    <3> QED
      BY <3>1, <3>2
  <2>2. /\ copy' = [copy EXCEPT ![w] = NoRow] /\ pc' = [pc EXCEPT ![w] = "remailing"]
        /\ pc[w] = "resending"
        /\ owed' = [owed EXCEPT ![ch[w]] = w]
        /\ UNCHANGED <<failed, lock, disabled, ch, seen, old, granted, past, guesses>>
    BY <1>10 DEF CommitResend
  <2>3. ch[w] \in Challenge /\ challenge[ch[w]] # None
    BY <2>2
  <2>4. TypeOK'
    BY <2>1, <2>2, <2>3 DEF Label
  <2>5. Remembers'
    BY <2>1, <2>2, <2>3
  <2>6. CountersUnderLimits' /\ GrantedIsConsumed'
    BY <2>1, <2>2, <2>3
  <2>7. LiveChallengeIsMailed'
    BY <2>1, <2>2, <2>3
  <2> QED
    BY <2>4, <2>5, <2>6, <2>7
<1>11. ASSUME NEW w \in Worker, FailResentMail(w) PROVE Inv'
  BY <1>11 DEF FailResentMail, Done, Label
<1>12. ASSUME NEW w \in Worker, NEW c \in Challenge, LoadChallenge(w, c) PROVE Inv'
  BY <1>12 DEF LoadChallenge, LoadChallengeRow, Label
<1>13. ASSUME NEW w \in Worker, NEW right \in BOOLEAN, CheckCode(w, right) PROVE Inv'
  BY <1>13 DEF CheckCode, LoadCredential, Label
<1>14. ASSUME NEW w \in Worker, RefuseVerify(w) PROVE Inv'
  BY <1>14 DEF RefuseVerify, Done, Label
<1>15. ASSUME NEW w \in Worker, WrongCode(w) PROVE Inv'
  <2>1. failed' \in Nat /\ failed' < MaxFailedLogins /\ lock' \in {"none", "locked", "lapsed"}
    BY <1>15, WritesToCredential DEF WrongCode
  <2>2. PICK r \in LiveRow \cup {Consumed} :
           /\ challenge' = [challenge EXCEPT ![ch[w]] = r]
           /\ r # Consumed => r.attempts < OtpMaxAttempts /\ r.sends <= OtpMaxSends
           /\ challenge[ch[w]] = Consumed => r = Consumed
    <3> DEFINE attempts == copy[w].attempts + 1
               burnt == LocksOut(w) \/ attempts >= OtpMaxAttempts
               live == challenge[ch[w]]
               r == [attempts |-> attempts, sends |-> live.sends, age |-> live.age]
    <3>1. CASE burnt \/ challenge[ch[w]] = Consumed
      BY <1>15, <3>1 DEF WrongCode
    <3>2. CASE ~burnt /\ challenge[ch[w]] # Consumed
      <4>1. ch[w] \in Challenge /\ live \in LiveRow /\ ch[w] \in Unconsumed
        BY <1>15, <3>2 DEF WrongCode
      <4>2. attempts \in Nat /\ attempts < OtpMaxAttempts
        BY <3>2
      <4>3. r = [live EXCEPT !.attempts = attempts]
        BY <4>1
      <4>4. challenge' = [challenge EXCEPT ![ch[w]] = r]
        <5> HIDE DEF r
        <5> QED
          BY <1>15, <3>2, <4>3 DEF WrongCode
      <4>5. r \in LiveRow /\ r.attempts < OtpMaxAttempts /\ r.sends <= OtpMaxSends
        BY <4>1, <4>2
      <4> HIDE DEF r
      <4> QED
        BY <3>2, <4>4, <4>5
    <3> QED
      BY <3>1, <3>2
  <2>3. /\ pc' = [pc EXCEPT ![w] = "idle"] /\ ch' = [ch EXCEPT ![w] = None]
        /\ seen' = [seen EXCEPT ![w] = NoCredential] /\ copy' = [copy EXCEPT ![w] = NoRow]
        /\ old' = [old EXCEPT ![w] = {}] /\ past' = [past EXCEPT ![w] = {}]
        /\ UNCHANGED <<disabled, owed, granted>>
        /\ pc[w] = "wrongCode"
    BY <1>15 DEF WrongCode, Done
  <2>4. guesses' \in 0 .. GuessCap
    BY <1>15 DEF WrongCode
  <2>5. ch[w] \in Challenge /\ challenge[ch[w]] # None
    BY <2>3
  <2>6. TypeOK'
    BY <2>1, <2>2, <2>3, <2>4 DEF Label
  <2>7. Remembers'
    BY <2>2, <2>3, <2>5
  <2>8. CountersUnderLimits' /\ GrantedIsConsumed'
    BY <2>1, <2>2, <2>3, <2>5
  <2>9. LiveChallengeIsMailed'
    BY <2>2, <2>3, <2>5
  <2> QED
    BY <2>6, <2>7, <2>8, <2>9
<1>16. ASSUME NEW w \in Worker, RightCode(w) PROVE Inv'
  <2>1. failed' \in Nat /\ failed' < MaxFailedLogins /\ lock' \in {"none", "locked", "lapsed"}
    BY <1>16, WritesToCredential DEF RightCode
  <2> QED
    BY <1>16, <2>1 DEF RightCode, Done, Label
<1>17. ASSUME NEW w \in Worker, Crash(w) PROVE Inv'
  <2>1. CASE pc[w] \in {"mailing", "remailing"}
    <3>1. ch[w] \in Challenge
      BY <2>1
    <3>2. LiveChallengeIsMailed'
      BY <1>17, <2>1, <3>1 DEF Crash, Done
    <3>0. owed' \in [Challenge -> Worker \cup {None}]
      BY <1>17, <2>1, <3>1 DEF Crash
    <3>3. TypeOK'
      BY <1>17, <2>1, <3>0 DEF Crash, Done, Label
    <3>4. Remembers'
      BY <1>17, <2>1 DEF Crash, Done
    <3>5. CountersUnderLimits' /\ GrantedIsConsumed'
      BY <1>17, <2>1 DEF Crash, Done
    <3> QED
      BY <3>2, <3>3, <3>4, <3>5
  <2>2. CASE pc[w] \notin {"mailing", "remailing"}
    <3>1. LiveChallengeIsMailed'
      BY <1>17, <2>2 DEF Crash, Done
    <3> QED
      BY <1>17, <2>2, <3>1 DEF Crash, Done, Label
  <2> QED
    BY <2>1, <2>2
<1>18. ASSUME NEW c \in Challenge, Elapse(c) PROVE Inv'
  BY <1>18 DEF Elapse
<1>19. CASE LockLapses \/ Disable
  <2>1. CASE LockLapses
    BY <2>1 DEF LockLapses
  <2>2. CASE Disable
    BY <2>2 DEF Disable
  <2> QED
    BY <1>19, <2>1, <2>2
<1>20. ASSUME NEW w \in Worker, LoadReset(w) PROVE Inv'
  BY <1>20 DEF LoadReset, LoadCredential, Label
<1>21. ASSUME NEW w \in Worker, CommitReset(w) PROVE Inv'
  <2>1. failed' \in Nat /\ failed' < MaxFailedLogins /\ lock' \in {"none", "locked", "lapsed"}
    BY <1>21, WritesToCredential DEF CommitReset
  <2> QED
    BY <1>21, <2>1 DEF CommitReset, Done, Label
<1>22. CASE UNCHANGED vars
  BY <1>22 DEF vars
<1> HIDE DEF Inv, TypeOK, Remembers, CountersUnderLimits, GrantedIsConsumed,
        LiveChallengeIsMailed, Unconsumed, Exists, Settle,
        LiveRow, row, request, history, Goto,
        NoCredential, NoRow
<1>23. ASSUME NEW w \in Worker, FirstFactor(w) PROVE Inv'
  BY <1>1, <1>2, <1>3, <1>4, <1>23, Zenon DEF FirstFactor
<1>24. ASSUME NEW w \in Worker, Start(w) PROVE Inv'
  BY <1>5, <1>6, <1>7, <1>8, <1>24, Zenon DEF Start
<1>25. ASSUME NEW w \in Worker, Resend(w) PROVE Inv'
  BY <1>9, <1>10, <1>11, <1>25, Zenon DEF Resend
<1>26. ASSUME NEW w \in Worker, Verify(w) PROVE Inv'
  BY <1>12, <1>13, <1>14, <1>15, <1>16, <1>26, Zenon DEF Verify
<1>27. ASSUME NEW w \in Worker, Reset(w) PROVE Inv'
  BY <1>20, <1>21, <1>27, Zenon DEF Reset
<1> QED
  BY <1>17, <1>18, <1>19, <1>22, <1>23, <1>24, <1>25, <1>26, <1>27, Zenon DEF Next

\* Every variable stays in its type.
THEOREM TypeCorrect == Spec => []TypeOK
<1>1. Inv => TypeOK
  BY DEF Inv
<1> QED
  BY <1>1, InitInv, NextInv, PTL DEF Spec

\* Lost updates never carry a committed counter to its limit.
THEOREM CountersStayUnderLimits == Spec => []CountersUnderLimits
<1>1. Inv => CountersUnderLimits
  BY DEF Inv
<1> QED
  BY <1>1, InitInv, NextInv, PTL DEF Spec

\* A challenge that let somebody in is never live again.
THEOREM GrantedStaysSpent == Spec => []GrantedIsSpent
<1>1. Inv => GrantedIsSpent
  BY DEF Inv, GrantedIsConsumed, GrantedIsSpent, Unconsumed
<1> QED
  BY <1>1, InitInv, NextInv, PTL DEF Spec

\* The code in force of a live challenge has gone out, or has its request at work.
THEOREM LiveChallengeStaysMailed == Spec => []LiveChallengeIsMailed
<1>1. Inv => LiveChallengeIsMailed
  BY DEF Inv
<1> QED
  BY <1>1, InitInv, NextInv, PTL DEF Spec

\* A lockout is undone only by a success that had loaded one that was over, or by a
\* password reset.
THEOREM LocksSurvive == Spec => LockSurvives
<1>1. ASSUME Inv, [Next]_vars, lock = "locked", lock' = "none"
      PROVE  \E w \in Worker :
                /\ pc'[w] # pc[w]
                /\ \/ seen[w].lock = "lapsed"
                   \/ pc[w] = "resetting" /\ seen[w].lock = "locked"
  <2> USE <1>1
  <2>1. PICK w \in Worker : RightPassword(w) \/ RightCode(w) \/ CommitReset(w)
    <3>1. ASSUME NEW v \in Worker, CountFailure(v) PROVE FALSE
      BY <3>1 DEF CountFailure
    <3> QED
      BY <3>1 DEF Next, FirstFactor, Start, Resend, Verify, Reset, vars, row,
            LoadPassword, WrongPassword, GoogleFirstFactor, SelectChallenges,
            CreateChallenge, MailCode, FailFirstMail, LoadResend, CommitResend,
            FailResentMail, LoadChallenge, CheckCode, RefuseVerify, WrongCode, LoadReset,
            Crash, Elapse, LockLapses, Disable
  <2>2. seen[w].lock # "none"
    BY <2>1 DEF RightPassword, RightCode, CommitReset, ClearFailures, Written
  <2>3. seen[w].lock \in {"locked", "lapsed"}
    BY <2>2 DEF Inv, TypeOK
  <2>4. pc[w] \in {"rightPassword", "rightCode", "resetting"}
    BY <2>1 DEF RightPassword, RightCode, CommitReset
  <2>5. pc'[w] # pc[w]
    BY <2>1 DEF RightPassword, RightCode, CommitReset, Goto, Done, Inv, TypeOK
  <2> QED
    BY <2>3, <2>4, <2>5 DEF Inv, Remembers
<1> QED
  BY <1>1, InitInv, NextInv, PTL DEF Spec, LockSurvives

\* A new challenge retires all there were when it looked.
THEOREM NewestAlwaysWins == Spec => NewestChallengeWins
<1>1. ASSUME Inv, [Next]_vars,
             NEW w \in Worker, pc[w] = "creating", pc'[w] = "mailing"
      PROVE  past[w] \cap Unconsumed' = {}
  <2> USE <1>1
  <2>1. PICK c \in Challenge : CreateChallenge(w, c)
    <3> USE DEF Inv, TypeOK
    <3>1. ASSUME NEW v \in Worker, FirstFactor(v) PROVE FALSE
      BY <3>1 DEF FirstFactor, LoadPassword, WrongPassword, RightPassword,
                  GoogleFirstFactor, Goto, Done
    <3>2. ASSUME NEW v \in Worker, Resend(v) \/ Verify(v) PROVE FALSE
      BY <3>2 DEF Resend, Verify, LoadResend, CommitResend, FailResentMail, LoadChallenge,
                  CheckCode, RefuseVerify, WrongCode, RightCode, Goto, Done
    <3>3. ASSUME NEW v \in Worker, Reset(v) \/ Crash(v) PROVE FALSE
      BY <3>3 DEF Reset, LoadReset, CommitReset, Crash, Goto, Done
    <3>4. ASSUME NEW v \in Worker, SelectChallenges(v) \/ MailCode(v) \/ FailFirstMail(v)
          PROVE  FALSE
      BY <3>4 DEF SelectChallenges, MailCode, FailFirstMail, Goto, Done
    <3>5. ASSUME NEW v \in Worker, v # w, NEW c \in Challenge, CreateChallenge(v, c)
          PROVE  FALSE
      BY <3>5 DEF CreateChallenge, Goto
    <3>6. pc' # pc
      OBVIOUS
    <3> QED
      BY <3>1, <3>2, <3>3, <3>4, <3>5, <3>6
         DEF Next, Start, vars, request, Elapse, LockLapses, Disable
  <2>2. \A d \in past[w] : challenge'[d] = Consumed
    BY <2>1 DEF Inv, TypeOK, Remembers, CreateChallenge, Exists
  <2> QED
    BY <2>2 DEF Unconsumed
<1>2. Inv /\ [Next]_vars =>
         \A w \in Worker :
            pc[w] = "creating" /\ pc'[w] = "mailing" => past[w] \cap Unconsumed' = {}
  BY <1>1
<1> QED
  BY <1>2, InitInv, NextInv, PTL DEF Spec, NewestChallengeWins

-----------------------------------------------------------------------------
(* SignIn implements LookThenUse: a challenge is issued, found live,       *)
(* answered, used up or superseded, and whatever else is written to its    *)
(* row leaves it as live, or as consumed, as it is.                        *)

Gone == {c \in Challenge : challenge[c] = Consumed}

Answer == [w \in Worker |-> IF Answering(w) THEN ch[w] ELSE None]

\* A step that no challenge and no answer in progress notices.
Unnoticed ==
    /\ \A c \in Challenge :
          /\ challenge'[c] = None <=> challenge[c] = None
          /\ challenge'[c] = Consumed <=> challenge[c] = Consumed
    /\ \A w \in Worker :
          /\ Answering(w)' <=> Answering(w)
          /\ Answering(w) => ch'[w] = ch[w]
    /\ UNCHANGED granted

LEMMA UnnoticedIsAStutter ==
    ASSUME Unnoticed
    PROVE  UNCHANGED Look!secretVars
<1>1. Unconsumed' = Unconsumed /\ Gone' = Gone
  BY DEF Unnoticed, Unconsumed, Gone
<1>2. Answer' = Answer
  BY DEF Unnoticed, Answer
<1> QED
  BY <1>1, <1>2 DEF Unnoticed, Look!secretVars, Gone, Answer

\* A request that was answering is done with it.
Stops(w) ==
    /\ Answering(w) /\ ~Answering(w)'
    /\ \A v \in Worker \ {w} : pc'[v] = pc[v] /\ ch'[v] = ch[v]

LEMMA StoppingEmptiesAnswer ==
    ASSUME NEW w \in Worker, Stops(w)
    PROVE  Answer[w] = ch[w] /\ Answer' = [Answer EXCEPT ![w] = None]
  BY DEF Stops, Answer, Answering

LEMMA ConsumingOne ==
    ASSUME TypeOK, NEW c \in Challenge, Exists(c),
           challenge' = [challenge EXCEPT ![c] = Consumed]
    PROVE  Unconsumed' = Unconsumed \ {c} /\ Gone' = Gone \cup {c}
  BY ConstantsAssumption DEF TypeOK, Exists, Unconsumed, Gone

\* Most steps write to no challenge, and to no request that is answering.
LEMMA MostStepsAreUnnoticed ==
    ASSUME Inv, NEW w \in Worker,
           \/ FirstFactor(w) \/ SelectChallenges(w) \/ MailCode(w)
           \/ \E c \in Challenge : LoadResend(w, c)
           \/ FailResentMail(w) \/ \E right \in BOOLEAN : CheckCode(w, right)
           \/ Reset(w) \/ (Crash(w) /\ ~Answering(w))
    PROVE  Unnoticed
<1> USE DEF Inv, TypeOK
<1>1. UNCHANGED <<challenge, granted>>
  BY DEF FirstFactor, LoadPassword, WrongPassword, RightPassword, GoogleFirstFactor,
         SelectChallenges, MailCode, LoadResend, FailResentMail, CheckCode, Reset, LoadReset,
         CommitReset, Crash, history
<1>2. \A v \in Worker \ {w} : pc'[v] = pc[v] /\ ch'[v] = ch[v]
  BY DEF FirstFactor, LoadPassword, WrongPassword, RightPassword, GoogleFirstFactor,
         SelectChallenges, MailCode, LoadResend, FailResentMail, CheckCode, Reset, LoadReset,
         CommitReset, Crash, Goto, Done
<1>3. \/ ~Answering(w) /\ ~Answering(w)'
      \/ Answering(w) /\ Answering(w)' /\ ch'[w] = ch[w]
  BY DEF FirstFactor, LoadPassword, WrongPassword, RightPassword, GoogleFirstFactor,
         SelectChallenges, MailCode, LoadResend, FailResentMail, CheckCode, Reset, LoadReset,
         CommitReset, Crash, Goto, Done, Answering
<1> QED
  BY <1>1, <1>2, <1>3 DEF Unnoticed, Answering

\* Nobody gets in but by a challenge that was live when the request looked, and no
\* challenge that has been answered, used up or superseded is live again.
THEOREM ConsumedChallengesStayOut == Spec => SpentChallengesStayOut
<1>1. Init => Look!Init
  BY ConstantsAssumption DEF Init, Look!Init, Unconsumed, Answering
<1>2. ASSUME Inv, [Next]_vars PROVE [Look!Next]_(Look!secretVars)
  <2> USE <1>2, ConstantsAssumption DEF Inv, TypeOK
  <2>1. ASSUME Unnoticed PROVE [Look!Next]_(Look!secretVars)
    BY <2>1, UnnoticedIsAStutter
  <2>2. ASSUME NEW w \in Worker, NEW c \in Challenge, CreateChallenge(w, c) PROVE Look!Next
    <3>1. /\ c \notin Unconsumed \cup Gone
          /\ c \in Unconsumed' /\ Unconsumed' \subseteq Unconsumed \cup {c}
      BY <2>2 DEF CreateChallenge, NewChallenge, LiveRow, Exists, Unconsumed, Gone
    <3>2. Gone' = Gone \cup (Unconsumed \ Unconsumed')
      BY <2>2 DEF CreateChallenge, NewChallenge, LiveRow, Exists, Unconsumed, Gone, Remembers
    <3>3. Answer' = Answer /\ granted' = granted
      BY <2>2 DEF CreateChallenge, Goto, Answer, Answering
    <3> QED
      BY <3>1, <3>2, <3>3 DEF Look!Issue, Look!Next, Gone, Answer
  <2>3. ASSUME NEW w \in Worker, FailFirstMail(w) PROVE [Look!Next]_(Look!secretVars)
    <3>1. /\ ch[w] \in Challenge /\ Exists(ch[w]) /\ granted' = granted
          /\ challenge' = [challenge EXCEPT ![ch[w]] = Consumed]
      BY <2>3 DEF FailFirstMail, Remembers
    <3>2. Answer' = Answer
      BY <2>3 DEF FailFirstMail, Done, Goto, Answer, Answering
    <3>3. Unconsumed' = Unconsumed \ {ch[w]} /\ Gone' = Gone \cup {ch[w]}
      BY <3>1, ConsumingOne
    <3>4. CASE ch[w] \in Unconsumed
      BY <3>1, <3>2, <3>3, <3>4 DEF Look!Withdraw, Look!Next, Gone, Answer
    <3>5. CASE ch[w] \notin Unconsumed
      <4>1. ch[w] \in Gone
        BY <3>1, <3>5 DEF Exists, Unconsumed, Gone
      <4> QED
        BY <3>1, <3>2, <3>3, <3>5, <4>1 DEF Look!secretVars, Gone, Answer
    <3> QED
      BY <3>4, <3>5
  <2>4. ASSUME NEW w \in Worker, CommitResend(w) PROVE Unnoticed
    <3>1. /\ ch[w] \in Challenge /\ Exists(ch[w]) /\ granted' = granted
          /\ challenge' = [challenge EXCEPT ![ch[w]] =
                IF @ = Consumed THEN @ ELSE Resent(w, @)]
      BY <2>4 DEF CommitResend, Remembers
    <3>2. challenge[ch[w]] # Consumed => Resent(w, challenge[ch[w]]) \in LiveRow
      BY <3>1 DEF Resent, Written, LiveRow, Exists
    <3>3. \A v \in Worker : Answering(v)' = Answering(v) /\ ch'[v] = ch[v]
      BY <2>4 DEF CommitResend, Goto, Answering
    <3> QED
      BY <3>1, <3>2, <3>3 DEF Unnoticed, Exists
  <2>5. ASSUME NEW w \in Worker, NEW c \in Challenge, LoadChallenge(w, c) PROVE Look!Next
    <3>1. c \in Unconsumed /\ UNCHANGED <<challenge, granted>>
      BY <2>5 DEF LoadChallenge, history
    <3>2. Answer[w] = None /\ Answer' = [Answer EXCEPT ![w] = c]
      BY <2>5 DEF LoadChallenge, Goto, Answer, Answering
    <3> QED
      BY <3>1, <3>2 DEF Look!Find, Look!Next, Unconsumed, Answer
  <2>6. ASSUME NEW w \in Worker, RefuseVerify(w) \/ (Crash(w) /\ Answering(w)) PROVE Look!Next
    <3>1. Stops(w) /\ ch[w] \in Challenge /\ UNCHANGED <<challenge, granted>>
      BY <2>6 DEF RefuseVerify, Crash, Done, Goto, Stops, Answering, Remembers
    <3>2. Answer[w] = ch[w] /\ Answer' = [Answer EXCEPT ![w] = None]
      BY <3>1, StoppingEmptiesAnswer
    <3> QED
      BY <3>1, <3>2 DEF Look!Fail, Look!Next, Unconsumed, Gone, Answer
  <2>7. ASSUME NEW w \in Worker, WrongCode(w) PROVE Look!Next
    <3>1. Stops(w) /\ ch[w] \in Challenge /\ Exists(ch[w]) /\ UNCHANGED granted
      BY <2>7 DEF WrongCode, Done, Goto, Stops, Answering, Remembers
    <3>2. Answer[w] = ch[w] /\ Answer' = [Answer EXCEPT ![w] = None]
      BY <3>1, StoppingEmptiesAnswer
    <3>3. \/ Unconsumed' = Unconsumed \ {ch[w]} /\ Gone' = Gone \cup {ch[w]}
          \/ Unconsumed' = Unconsumed /\ Gone' = Gone
      <4> DEFINE attempts == copy[w].attempts + 1
                 live == challenge[ch[w]]
                 r == [live EXCEPT !.attempts = attempts]
      <4>1. CASE challenge' = [challenge EXCEPT ![ch[w]] = Consumed]
        BY <3>1, <4>1, ConsumingOne
      <4>2. CASE live # Consumed /\ challenge' = [challenge EXCEPT ![ch[w]] = r]
        <5>1. live \in LiveRow /\ attempts \in Nat
          BY <3>1, <4>2 DEF Exists
        <5>2. r \in LiveRow
          BY <5>1 DEF LiveRow
        <5> HIDE DEF r
        <5> QED
          BY <3>1, <4>2, <5>2 DEF Exists, Unconsumed, Gone
      <4> QED
        BY <2>7, <4>1, <4>2 DEF WrongCode
    <3> QED
      BY <3>1, <3>2, <3>3 DEF Look!Fail, Look!Next, Gone, Answer
  <2>8. ASSUME NEW w \in Worker, RightCode(w) PROVE Look!Next
    <3>1. /\ Stops(w) /\ ch[w] \in Challenge /\ Exists(ch[w])
          /\ granted' = granted \cup {ch[w]}
          /\ challenge' = [challenge EXCEPT ![ch[w]] = Consumed]
      BY <2>8 DEF RightCode, Done, Goto, Stops, Answering, Remembers
    <3>2. Answer[w] = ch[w] /\ Answer' = [Answer EXCEPT ![w] = None]
      BY <3>1, StoppingEmptiesAnswer
    <3>3. Unconsumed' = Unconsumed \ {ch[w]} /\ Gone' = Gone \cup {ch[w]}
      BY <3>1, ConsumingOne
    <3> QED
      BY <3>1, <3>2, <3>3 DEF Look!Use, Look!Next, Gone, Answer
  <2>9. ASSUME NEW c \in Challenge, Elapse(c) PROVE Unnoticed
    <3>1. c \in Unconsumed /\ UNCHANGED <<pc, ch, granted>>
      BY <2>9 DEF Elapse, request, history
    <3>2. challenge[c] \in LiveRow
      BY <3>1 DEF Unconsumed
    <3>3. PICK age \in {"open", "expired", "aged"} :
              challenge' = [challenge EXCEPT ![c].age = age]
      BY <2>9 DEF Elapse
    <3>4. [challenge[c] EXCEPT !.age = age] \in LiveRow
      BY <3>2 DEF LiveRow
    <3>5. \E r \in LiveRow : challenge' = [challenge EXCEPT ![c] = r]
      BY <3>3, <3>4
    <3> QED
      BY <3>1, <3>2, <3>5 DEF Unnoticed, Answering
  <2>10. ASSUME LockLapses \/ Disable \/ UNCHANGED vars PROVE Unnoticed
    BY <2>10 DEF LockLapses, Disable, vars, request, history, Unnoticed, Answering
  <2> HIDE DEF Inv, TypeOK
  <2>11. ASSUME NEW w \in Worker, Start(w) PROVE [Look!Next]_(Look!secretVars)
    BY <2>1, <2>2, <2>3, <2>11, MostStepsAreUnnoticed DEF Start
  <2>12. ASSUME NEW w \in Worker, Resend(w) PROVE [Look!Next]_(Look!secretVars)
    BY <2>1, <2>4, <2>12, MostStepsAreUnnoticed DEF Resend
  <2>13. ASSUME NEW w \in Worker, Verify(w) PROVE [Look!Next]_(Look!secretVars)
    BY <2>1, <2>5, <2>6, <2>7, <2>8, <2>13, MostStepsAreUnnoticed DEF Verify
  <2>14. ASSUME NEW w \in Worker, FirstFactor(w) \/ Reset(w) \/ Crash(w)
         PROVE [Look!Next]_(Look!secretVars)
    BY <2>1, <2>6, <2>14, MostStepsAreUnnoticed
  <2> QED
    BY <2>1, <2>9, <2>10, <2>11, <2>12, <2>13, <2>14 DEF Next
<1> QED
  BY <1>1, <1>2, InitInv, NextInv, PTL DEF Spec, SpentChallengesStayOut, Look!Spec

-----------------------------------------------------------------------------
(* The budget of guesses.  The wrong codes since the last lock, right code *)
(* or reset are among the failures the row counts, as long as no count is  *)
(* written from one that was loaded before another was committed, and none *)
(* is cleared by the password alone.                                       *)

BudgetInv ==
    /\ OneAtATime
    /\ guesses <= failed
    /\ \A w \in Worker : Loaded(w) => seen[w].failed = failed

LEMMA InitBudgetInv == Init => BudgetInv
BY DEF Init, BudgetInv, OneAtATime, Loaded

\* A step that leaves the count alone and loads it or not.
LEMMA SameCountKeepsBudgetInv ==
    ASSUME Inv, BudgetInv, OneAtATime', UNCHANGED <<failed, guesses>>,
           \A w \in Worker : Loaded(w)' =>
              seen'[w].failed = failed \/ (Loaded(w) /\ seen'[w] = seen[w])
    PROVE  BudgetInv'
BY DEF BudgetInv

\* A step that writes the count: no other request has it loaded.
LEMMA NewCountKeepsBudgetInv ==
    ASSUME Inv, BudgetInv, OneAtATime', NEW w \in Worker, Loaded(w), ~Loaded(w)',
           \A v \in Worker \ {w} : pc'[v] = pc[v],
           guesses' <= failed'
    PROVE  BudgetInv'
<1>1. ASSUME NEW v \in Worker PROVE ~Loaded(v)'
  BY <1>1 DEF BudgetInv, OneAtATime, Loaded
<1> QED
  BY <1>1 DEF BudgetInv

LEMMA NextBudgetInv == Inv /\ BudgetInv /\ [StrictNext]_vars => BudgetInv'
<1> SUFFICES ASSUME Inv, BudgetInv, [StrictNext]_vars PROVE BudgetInv'
  OBVIOUS
<1> USE ConstantsAssumption DEF Inv, TypeOK
<1>1. CASE UNCHANGED vars
  BY <1>1 DEF vars, row, request, history, BudgetInv, OneAtATime, Loaded
<1> SUFFICES ASSUME StrictNext PROVE BudgetInv'
  BY <1>1
<1>2. ASSUME NEW w \in Worker, WrongPassword(w) \/ WrongCode(w) \/ RightCode(w) \/ CommitReset(w)
      PROVE  BudgetInv'
  <2>1. /\ Loaded(w) /\ ~Loaded(w)' /\ seen[w].failed = failed
        /\ \A v \in Worker \ {w} : pc'[v] = pc[v]
    BY <1>2 DEF WrongPassword, WrongCode, RightCode, CommitReset, Done, Goto, Loaded, BudgetInv
  <2>2. guesses' <= failed'
    <3>1. CASE RightCode(w) \/ CommitReset(w)
      BY <2>1, <3>1 DEF RightCode, CommitReset, ClearFailures, Written
    <3>2. CASE WrongPassword(w) \/ WrongCode(w)
      <4>1. /\ CountFailure(w)
            /\ guesses' = 0 \/ (~LocksOut(w) /\ guesses' \in {guesses, guesses + 1})
        BY <3>2 DEF WrongPassword, WrongCode
      <4>2. CASE LocksOut(w)
        BY <2>1, <4>1, <4>2 DEF CountFailure, Written
      <4>3. CASE ~LocksOut(w)
        BY <2>1, <4>1, <4>3 DEF CountFailure, BudgetInv
      <4> QED
        BY <4>2, <4>3
    <3> QED
      BY <1>2, <3>1, <3>2
  <2> QED
    BY <2>1, <2>2, NewCountKeepsBudgetInv DEF StrictNext
<1>3. ASSUME NEW w \in Worker, RightPassword(w) PROVE BudgetInv'
  <2>1. /\ Loaded(w) /\ ~Loaded(w)' /\ \A v \in Worker \ {w} : pc'[v] = pc[v]
    BY <1>3 DEF RightPassword, Goto, Loaded
  <2>2. guesses = 0
    BY <1>3 DEF StrictNext, ClearsGuesses
  <2>3. guesses' = 0 /\ failed' = 0
    BY <1>3, <2>1, <2>2 DEF RightPassword, ClearFailures, Written, history, BudgetInv
  <2> QED
    BY <2>1, <2>3, NewCountKeepsBudgetInv DEF StrictNext
<1>4. ASSUME NEW w \in Worker,
             \/ \E right \in BOOLEAN : LoadPassword(w, right) \/ CheckCode(w, right)
             \/ LoadReset(w)
      PROVE  BudgetInv'
  <2>1. /\ UNCHANGED <<failed, guesses>> /\ seen'[w].failed = failed
        /\ \A v \in Worker \ {w} : pc'[v] = pc[v] /\ seen'[v] = seen[v]
    BY <1>4 DEF LoadPassword, CheckCode, LoadReset, LoadCredential, Goto, row, history
  <2> QED
    BY <2>1, SameCountKeepsBudgetInv DEF StrictNext, Loaded
<1>5. ASSUME NEW w \in Worker,
             \/ GoogleFirstFactor(w) \/ Start(w) \/ Resend(w)
             \/ \E c \in Challenge : LoadChallenge(w, c)
             \/ RefuseVerify(w) \/ Crash(w)
      PROVE  BudgetInv'
  <2>1. /\ UNCHANGED <<failed, guesses>> /\ ~Loaded(w)'
        /\ \A v \in Worker \ {w} : pc'[v] = pc[v] /\ seen'[v] = seen[v]
    BY <1>5
       DEF GoogleFirstFactor, Start, SelectChallenges, CreateChallenge, MailCode, FailFirstMail,
           Resend, LoadResend, CommitResend, FailResentMail, LoadChallenge, RefuseVerify, Crash,
           Done, Goto, Loaded, row, history
  <2> QED
    BY <2>1, SameCountKeepsBudgetInv DEF StrictNext, Loaded
<1>6. CASE LockLapses \/ Disable \/ \E c \in Challenge : Elapse(c)
  <2>1. UNCHANGED <<failed, guesses, pc, seen>>
    BY <1>6 DEF LockLapses, Disable, Elapse, row, request, history
  <2> QED
    BY <2>1, SameCountKeepsBudgetInv DEF StrictNext, Loaded
<1> QED
  BY <1>2, <1>3, <1>4, <1>5, <1>6 DEF StrictNext, Next, FirstFactor, Verify, Reset

\* The password and the codes mailed for it buy no more than MAX_FAILED_LOGINS wrong
\* guesses before a lockout, a right code or a reset, provided no two requests have
\* the count loaded at once and the password is not entered again in between.
THEOREM GuessesAreBudgeted == BothSpec => []StrictGuessBudget
<1> DEFINE Budgeted == strict => BudgetInv
<1>1. Inv /\ Budgeted => StrictGuessBudget
  BY ConstantsAssumption
     DEF Inv, TypeOK, CountersUnderLimits, BudgetInv, GuessBudget, StrictGuessBudget
<1>2. BothInit => Init /\ Budgeted
  BY InitBudgetInv DEF BothInit
<1>3. [BothNext]_bothVars => [Next]_vars
  BY DEF BothNext, bothVars, StrictNext
<1>4. Inv /\ Budgeted /\ [BothNext]_bothVars => Budgeted'
  <2>1. strict /\ [BothNext]_bothVars => [StrictNext]_vars
    BY DEF BothNext, bothVars
  <2>2. [BothNext]_bothVars => strict' = strict
    BY DEF BothNext, bothVars
  <2> QED
    BY <2>1, <2>2, NextBudgetInv
<1> QED
  BY <1>1, <1>2, <1>3, <1>4, InitInv, NextInv, PTL DEF BothSpec
=============================================================================
