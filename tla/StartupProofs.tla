--------------------------- MODULE StartupProofs ---------------------------
(***************************************************************************)
(* Start-up, for any settings and any number of replicas: what serves can  *)
(* deliver mail, a deployment signs with one key, and what has served      *)
(* starts again.  Past the settings a process relies on two things others  *)
(* may disturb, the judgement and the key file; the inductive invariant    *)
(* says what each still knows of them.                                     *)
(***************************************************************************)
EXTENDS Startup, TLAPS

-----------------------------------------------------------------------------
(* Types                                                                   *)

\* A process that has got past its key holds one.
HoldsKey ==
    \A p \in Process :
        phase[p] \in {"opening", "writing", "checking", "serving"} => signer[p] # NoKey

StartupTypeInv == StartupTypeOK /\ HoldsKey

LEMMA InitStartupType == StartupInit => StartupTypeInv
  BY DEF StartupInit, StartupTypeInv, StartupTypeOK, HoldsKey, AnyKey

LEMMA NextStartupType == StartupTypeInv /\ [StartupNext]_startupVars => StartupTypeInv'
<1> SUFFICES ASSUME StartupTypeInv, [StartupNext]_startupVars PROVE StartupTypeInv'
  OBVIOUS
<1> USE DEF StartupTypeInv, StartupTypeOK, HoldsKey, AnyKey, Enter
<1>1. ASSUME NEW p \in Process, ReadSettings(p) PROVE StartupTypeInv'
  BY <1>1 DEF ReadSettings
<1>2. ASSUME NEW p \in Process, LoadKey(p) PROVE StartupTypeInv'
  <2>1. conf.pem \/ (keyFile \in AnyKey \cup {Torn})
    BY <1>2 DEF LoadKey
  <2>2. CASE (IF conf.pem THEN Injected ELSE keyFile) = Torn
    BY <1>2, <2>2 DEF LoadKey
  <2>3. CASE (IF conf.pem THEN Injected ELSE keyFile) # Torn
    BY <1>2, <2>1, <2>3, StartupAssumption DEF LoadKey
  <2> QED
    BY <2>2, <2>3
<1>3. ASSUME NEW p \in Process, RefuseWithoutKey(p) PROVE StartupTypeInv'
  BY <1>3 DEF RefuseWithoutKey
<1>4. ASSUME NEW p \in Process, MakeKey(p) PROVE StartupTypeInv'
  <2>1. raced' \in BOOLEAN
    BY <1>4 DEF MakeKey
  <2> QED
    BY <1>4, <2>1, StartupAssumption DEF MakeKey
<1>5. ASSUME NEW p \in Process, OpenKeyFile(p) PROVE StartupTypeInv'
  BY <1>5 DEF OpenKeyFile
<1>6. ASSUME NEW p \in Process, WriteKeyFile(p) PROVE StartupTypeInv'
  BY <1>6 DEF WriteKeyFile
<1>7. ASSUME NEW p \in Process, CheckMail(p) PROVE StartupTypeInv'
  BY <1>7 DEF CheckMail
<1>8. ASSUME NEW p \in Process, Stop(p) PROVE StartupTypeInv'
  BY <1>8 DEF Stop
<1>9. CASE UNCHANGED startupVars
  BY <1>9 DEF startupVars
<1> QED
  BY <1>1, <1>2, <1>3, <1>4, <1>5, <1>6, <1>7, <1>8, <1>9 DEF StartupNext

\* The signer of every process and the key file hold what they are declared to.
THEOREM StartupTypeIsInvariant == StartupSpec => []StartupTypeOK
<1>1. StartupTypeInv => StartupTypeOK
  BY DEF StartupTypeInv
<1> QED
  BY <1>1, InitStartupType, NextStartupType, PTL DEF StartupSpec

-----------------------------------------------------------------------------
(* What has been judged stays judged                                       *)

Accepted == CookiePolicy /\ SecretsEnforced

MailPath == conf.relay \/ conf.fallback

JudgedInv ==
    /\ \A p \in Process :
          /\ phase[p] \in {"loading", "opening", "writing", "checking", "serving"} => Accepted
          /\ phase[p] = "serving" => MailPath
    /\ signed # {} => Accepted /\ MailPath

LEMMA InitJudged == StartupInit => JudgedInv
  BY DEF StartupInit, JudgedInv

LEMMA NextJudged ==
    StartupTypeInv /\ JudgedInv /\ [StartupNext]_startupVars => JudgedInv'
<1> SUFFICES ASSUME StartupTypeInv, JudgedInv, [StartupNext]_startupVars PROVE JudgedInv'
  OBVIOUS
<1>1. conf' = conf
  BY DEF StartupNext, ReadSettings, LoadKey, RefuseWithoutKey, MakeKey, OpenKeyFile,
         WriteKeyFile, CheckMail, Stop, startupVars
<1>2. (Accepted' <=> Accepted) /\ (MailPath' <=> MailPath)
  BY <1>1 DEF Accepted, MailPath, CookiePolicy, SecretsEnforced, Required
<1> USE DEF StartupTypeInv, StartupTypeOK, Enter
<1>3. ASSUME NEW p \in Process, ReadSettings(p) PROVE JudgedInv'
  <2>1. CASE Accepted
    BY <1>2, <1>3, <2>1 DEF ReadSettings, JudgedInv
  <2>2. CASE ~Accepted
    BY <1>2, <1>3, <2>2 DEF ReadSettings, JudgedInv, Accepted
  <2> QED
    BY <2>1, <2>2
<1>4. ASSUME NEW p \in Process, LoadKey(p) \/ RefuseWithoutKey(p) \/ MakeKey(p)
      PROVE  JudgedInv'
  BY <1>2, <1>4 DEF LoadKey, RefuseWithoutKey, MakeKey, JudgedInv
<1>5. ASSUME NEW p \in Process, OpenKeyFile(p) \/ WriteKeyFile(p) \/ Stop(p)
      PROVE  JudgedInv'
  BY <1>2, <1>5 DEF OpenKeyFile, WriteKeyFile, Stop, JudgedInv
<1>6. ASSUME NEW p \in Process, CheckMail(p) PROVE JudgedInv'
  BY <1>2, <1>6 DEF CheckMail, MailPath, JudgedInv
<1>7. CASE UNCHANGED startupVars
  BY <1>2, <1>7 DEF startupVars, JudgedInv
<1> QED
  BY <1>3, <1>4, <1>5, <1>6, <1>7 DEF StartupNext

\* Outside development a process that serves has a mail path with what it needs,
\* and the secret of its events: no way through start-up avoids the two checks.
THEOREM ServiceCanDeliver == StartupSpec => []ServingCanDeliver
<1>1. StartupTypeInv /\ JudgedInv => ServingCanDeliver
  <2> SUFFICES ASSUME JudgedInv, NEW p \in Process, phase[p] = "serving", ~conf.development
               PROVE  /\ conf.fallback \/ (conf.relay /\ conf.relaySecret # "unset")
                      /\ conf.hooks => conf.hookSecret # "unset"
    BY DEF ServingCanDeliver
  <2>1. Required \subseteq {"private"} /\ MailPath
    BY DEF JudgedInv, Accepted, SecretsEnforced
  <2>2. conf.relay => conf.relaySecret = "private"
    BY <2>1 DEF Required
  <2>3. conf.hooks => conf.hookSecret = "private"
    BY <2>1 DEF Required
  <2> QED
    BY <2>1, <2>2, <2>3 DEF MailPath
<1> QED
  BY <1>1, InitStartupType, NextStartupType, InitJudged, NextJudged, PTL DEF StartupSpec

-----------------------------------------------------------------------------
(* One key                                                                 *)

\* The key a process that starts now would find.
Found == IF conf.pem THEN Injected ELSE keyFile

MakesKey(p) == phase[p] \in {"opening", "writing"}

\* Unless two processes raced, who works with a key works with the one to be
\* found, and one process at a time is about to replace "none" by a key.
KeyInv ==
    /\ raced => conf.development
    /\ conf.pem => \A p \in Process : ~MakesKey(p)
    /\ ~raced =>
          /\ \A p \in Process :
                /\ phase[p] \in {"checking", "serving"} => signer[p] = Found
                /\ phase[p] = "opening" => keyFile = NoKey
                /\ phase[p] = "writing" => keyFile = Torn
          /\ \A p, q \in Process : MakesKey(p) /\ MakesKey(q) => p = q
          /\ \A k \in signed : k = Found

LEMMA InitKey == StartupInit => KeyInv
  BY DEF StartupInit, KeyInv, MakesKey

LEMMA NextKey ==
    StartupTypeInv /\ KeyInv /\ [StartupNext]_startupVars => KeyInv'
<1> SUFFICES ASSUME StartupTypeInv, KeyInv, [StartupNext]_startupVars PROVE KeyInv'
  OBVIOUS
<1> USE DEF StartupTypeInv, StartupTypeOK, HoldsKey, Enter, MakesKey
<1>1. \A k \in AnyKey : k # NoKey /\ k # Torn
  BY StartupAssumption DEF AnyKey
<1>2. ASSUME NEW p \in Process, ReadSettings(p) \/ RefuseWithoutKey(p) \/ Stop(p)
      PROVE  KeyInv'
  BY <1>2 DEF ReadSettings, RefuseWithoutKey, Stop, KeyInv, Found
<1>3. ASSUME NEW p \in Process, LoadKey(p) PROVE KeyInv'
  <2>1. CASE Found = Torn
    BY <1>3, <2>1 DEF LoadKey, KeyInv, Found
  <2>2. CASE Found # Torn
    BY <1>3, <2>2 DEF LoadKey, KeyInv, Found
  <2> QED
    BY <2>1, <2>2
<1>4. ASSUME NEW p \in Process, MakeKey(p) PROVE KeyInv'
  <2>1. ~conf.pem /\ conf.development /\ keyFile = NoKey /\ UNCHANGED <<conf, keyFile, signed>>
    BY <1>4 DEF MakeKey
  <2>2. phase' = [phase EXCEPT ![p] = "opening"]
    BY <1>4 DEF MakeKey
  <2>3. \A q \in Process \ {p} : signer'[q] = signer[q]
    BY <1>4 DEF MakeKey
  <2>4. ~raced' => ~raced /\ \A q \in Process : ~MakesKey(q)
    BY <1>4 DEF MakeKey
  <2> QED
    BY <2>1, <2>2, <2>3, <2>4 DEF KeyInv, Found
<1>5. ASSUME NEW p \in Process, OpenKeyFile(p) PROVE KeyInv'
  <2>1. ~conf.pem
    BY <1>5 DEF OpenKeyFile, KeyInv
  <2>2. ~raced => signed = {} /\ \A q \in Process : phase[q] \notin {"checking", "serving"}
    BY <1>1, <1>5, <2>1 DEF OpenKeyFile, KeyInv, Found
  <2> QED
    BY <1>5, <2>1, <2>2 DEF OpenKeyFile, KeyInv, Found
<1>6. ASSUME NEW p \in Process, WriteKeyFile(p) PROVE KeyInv'
  <2>1. ~conf.pem
    BY <1>6 DEF WriteKeyFile, KeyInv
  <2>2. ~raced => signed = {} /\ \A q \in Process : phase[q] \notin {"checking", "serving"}
    BY <1>1, <1>6, <2>1 DEF WriteKeyFile, KeyInv, Found
  <2> QED
    BY <1>6, <2>1, <2>2 DEF WriteKeyFile, KeyInv, Found
<1>7. ASSUME NEW p \in Process, CheckMail(p) PROVE KeyInv'
  BY <1>7 DEF CheckMail, KeyInv, Found
<1>8. CASE UNCHANGED startupVars
  BY <1>8 DEF startupVars, KeyInv, Found
<1> QED
  BY <1>2, <1>3, <1>4, <1>5, <1>6, <1>7, <1>8 DEF StartupNext

\* All that the processes of a deployment ever sign, across restarts, is signed
\* with one key, unless two made one each in development.
THEOREM DeploymentHasOneKey == StartupSpec => []OneKeyPerDeployment
<1>1. KeyInv => OneKeyPerDeployment
  BY DEF KeyInv, OneKeyPerDeployment
<1> QED
  BY <1>1, InitStartupType, NextStartupType, InitKey, NextKey, PTL DEF StartupSpec

-----------------------------------------------------------------------------
\* Once a deployment has served, a later start of it is refused in one case alone:
\* in development, on a key file that a process which raced with another over the
\* first key has truncated and not filled.
THEOREM ServiceStartsAgain == StartupSpec => ServedStartsAgain
<1> DEFINE Refused(p) == phase[p] # "refused" /\ phase'[p] = "refused"
           TornByRace == conf.development /\ raced /\ keyFile = Torn
<1>1. ASSUME StartupTypeInv, JudgedInv, KeyInv, StartupNext,
             NEW p \in Process, Refused(p), signed # {}
      PROVE  TornByRace
  <2> USE <1>1 DEF StartupTypeInv, StartupTypeOK, Enter
  <2>1. Accepted /\ MailPath
    BY DEF JudgedInv
  <2>2. ASSUME NEW q \in Process, ReadSettings(q) PROVE FALSE
    BY <2>1, <2>2 DEF ReadSettings, Accepted
  <2>3. ASSUME NEW q \in Process, LoadKey(q) PROVE TornByRace
    <3>1. Found = Torn
      BY <2>3 DEF LoadKey, Found
    <3>2. raced
      <4>1. ~raced => Found \in AnyKey
        BY DEF KeyInv
      <4> QED
        BY <3>1, <4>1, StartupAssumption DEF AnyKey
    <3>3. keyFile = Torn
      BY <3>1, StartupAssumption DEF Found
    <3> QED
      BY <3>2, <3>3 DEF KeyInv
  <2>4. ASSUME NEW q \in Process, RefuseWithoutKey(q) PROVE FALSE
    <3>1. Found = NoKey /\ ~conf.development
      BY <2>4 DEF RefuseWithoutKey, Found
    <3>2. Found \in AnyKey
      BY <3>1 DEF KeyInv
    <3> QED
      BY <3>1, <3>2, StartupAssumption DEF AnyKey
  <2>5. ASSUME NEW q \in Process, CheckMail(q) PROVE FALSE
    BY <2>1, <2>5 DEF CheckMail, MailPath
  <2>6. ASSUME NEW q \in Process,
               MakeKey(q) \/ OpenKeyFile(q) \/ WriteKeyFile(q) \/ Stop(q)
        PROVE  FALSE
    BY <2>6 DEF MakeKey, OpenKeyFile, WriteKeyFile, Stop
  <2> QED
    BY <2>2, <2>3, <2>4, <2>5, <2>6 DEF StartupNext
<1>2. StartupTypeInv /\ JudgedInv /\ KeyInv /\ [StartupNext]_startupVars
         => [\A p \in Process : Refused(p) => signed = {} \/ TornByRace]_startupVars
  BY <1>1
<1>3. StartupSpec => [][\A p \in Process : Refused(p) => signed = {} \/ TornByRace]_startupVars
  BY <1>2, InitStartupType, NextStartupType, InitJudged, NextJudged, InitKey, NextKey, PTL
     DEF StartupSpec
<1> QED
  BY <1>3 DEF ServedStartsAgain
=============================================================================
