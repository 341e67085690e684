------------------------------- MODULE Startup -------------------------------
(***************************************************************************)
(* From the environment to a process that serves (settings.py, signer.py,  *)
(* main.py): the settings are judged, the signing key is loaded, or made   *)
(* in development, and the mail paths are looked at.  A Process is a       *)
(* replica, started again after each Stop; the processes of a deployment   *)
(* share their settings and the file at PRIVATE_KEY_PATH.                  *)
(***************************************************************************)
EXTENDS Naturals

CONSTANTS
    Deployment, \* the settings a deployment may be given
    Process,
    SigningKey, \* keys that may be generated
    Injected,   \* the key of PRIVATE_KEY_PEM, or of the file mounted beforehand
    NoKey,      \* no file, or no key in memory
    Torn        \* a file that is being written, or was never finished

\* What start-up reads.  `hazards` names the switches refused outside
\* development; `pem` and `mounted` say where the key comes from.
Setting ==
    [development : BOOLEAN,
     admin : {"unset", "published", "private"},
     relay : BOOLEAN, relaySecret : {"unset", "published", "private"},
     hooks : BOOLEAN, hookSecret : {"unset", "published", "private"},
     fallback : BOOLEAN,
     hazards : SUBSET {"DEBUG_ECHO_RESET_TOKENS", "TRUSTED_HOSTS", "REFRESH_COOKIE_SECURE"},
     sameSiteNone : BOOLEAN,
     pem : BOOLEAN, mounted : BOOLEAN]

ASSUME StartupAssumption ==
    /\ Deployment \subseteq Setting
    /\ Injected \notin SigningKey
    /\ {NoKey, Torn} \cap (SigningKey \cup {Injected}) = {}
    /\ NoKey # Torn

VARIABLES
    conf,       \* the settings
    keyFile,    \* PRIVATE_KEY_PATH
    phase,      \* per process
    signer,     \* per process: the key in hand, then _signer
    signed,     \* history: keys that a serving process has published
    made,       \* history: keys generated
    raced       \* history: two processes generated before either had written

startupVars == <<conf, keyFile, phase, signer, signed, made, raced>>

AnyKey == SigningKey \cup {Injected}

\* The types of the process-wide signer and of the key file.
StartupTypeOK ==
    /\ conf \in Deployment
    /\ keyFile \in AnyKey \cup {NoKey, Torn}
    /\ phase \in [Process -> {"down", "loading", "opening", "writing", "checking",
                              "serving", "refused"}]
    /\ signer \in [Process -> AnyKey \cup {NoKey}]
    /\ signed \subseteq AnyKey
    /\ made \subseteq SigningKey
    /\ raced \in BOOLEAN

-----------------------------------------------------------------------------
(* Settings                                                                *)

CookiePolicy == conf.sameSiteNone => "REFRESH_COOKIE_SECURE" \notin conf.hazards

\* Mutant: a relay without its secret is left to the first mail.
RequiredOfAdmin == {conf.admin}

\* The secrets that must be set, and not to a placeholder of the repository.
Required ==
    {conf.admin}
        \cup (IF conf.relay THEN {conf.relaySecret} ELSE {})
        \cup (IF conf.hooks THEN {conf.hookSecret} ELSE {})

SecretsEnforced ==
    \/ conf.development
    \/ Required \subseteq {"private"} /\ conf.hazards = {}

-----------------------------------------------------------------------------
(* One process                                                             *)

Enter(p, next) == phase' = [phase EXCEPT ![p] = next]

ReadSettings(p) ==
    /\ phase[p] = "down"
    /\ Enter(p, IF CookiePolicy /\ SecretsEnforced THEN "loading" ELSE "refused")
    /\ UNCHANGED <<conf, keyFile, signer, signed, made, raced>>

\* Mutant: the file is not parsed before it is kept.
LoadKeyUnparsed(p) ==
    /\ phase[p] = "loading"
    /\ conf.pem \/ keyFile # NoKey
    /\ signer' = [signer EXCEPT ![p] = IF conf.pem THEN Injected ELSE keyFile]
    /\ Enter(p, "checking")
    /\ UNCHANGED <<conf, keyFile, signed, made, raced>>

\* PRIVATE_KEY_PEM, else the file.  A file that is not a whole key raises.
LoadKey(p) ==
    /\ phase[p] = "loading"
    /\ conf.pem \/ keyFile # NoKey
    /\ LET key == IF conf.pem THEN Injected ELSE keyFile
       IN  IF key = Torn
           THEN Enter(p, "refused") /\ UNCHANGED signer
           ELSE Enter(p, "checking") /\ signer' = [signer EXCEPT ![p] = key]
    /\ UNCHANGED <<conf, keyFile, signed, made, raced>>

RefuseWithoutKey(p) ==
    /\ phase[p] = "loading"
    /\ ~conf.pem /\ keyFile = NoKey /\ ~conf.development
    /\ Enter(p, "refused")
    /\ UNCHANGED <<conf, keyFile, signer, signed, made, raced>>

\* Mutant: the key lives in memory only.
MakeEphemeralKey(p) ==
    /\ phase[p] = "loading"
    /\ ~conf.pem /\ keyFile = NoKey
    /\ \E key \in SigningKey \ made :
          /\ signer' = [signer EXCEPT ![p] = key]
          /\ made' = made \cup {key}
    /\ Enter(p, "checking")
    /\ UNCHANGED <<conf, keyFile, signed, raced>>

\* Mutant: development is asked about before the file is.
MakeKeyAnew(p) ==
    /\ phase[p] = "loading"
    /\ ~conf.pem /\ conf.development
    /\ \E key \in SigningKey \ made :
          /\ signer' = [signer EXCEPT ![p] = key]
          /\ made' = made \cup {key}
    /\ raced' = (raced \/ \E q \in Process : phase[q] \in {"opening", "writing"})
    /\ Enter(p, "opening")
    /\ UNCHANGED <<conf, keyFile, signed>>

\* Development only.  Every generated key is a new one.
\* Bound: with none left the process goes no further, and may stop.
MakeKey(p) ==
    /\ phase[p] = "loading"
    /\ ~conf.pem /\ keyFile = NoKey /\ conf.development
    /\ \E key \in SigningKey \ made :
          /\ signer' = [signer EXCEPT ![p] = key]
          /\ made' = made \cup {key}
    /\ raced' = (raced \/ \E q \in Process : phase[q] \in {"opening", "writing"})
    /\ Enter(p, "opening")
    /\ UNCHANGED <<conf, keyFile, signed>>

\* write_text truncates the file, then fills it.
OpenKeyFile(p) ==
    /\ phase[p] = "opening"
    /\ keyFile' = Torn
    /\ Enter(p, "writing")
    /\ UNCHANGED <<conf, signer, signed, made, raced>>

WriteKeyFile(p) ==
    /\ phase[p] = "writing"
    /\ keyFile' = signer[p]
    /\ Enter(p, "checking")
    /\ UNCHANGED <<conf, signer, signed, made, raced>>

\* check_mail_configuration; then the key set is published and tokens signed.
CheckMail(p) ==
    /\ phase[p] = "checking"
    /\ IF conf.relay \/ conf.fallback
       THEN Enter(p, "serving") /\ signed' = signed \cup {signer[p]}
       ELSE Enter(p, "refused") /\ UNCHANGED signed
    /\ UNCHANGED <<conf, keyFile, signer, made, raced>>

\* The process ends, wherever it is; the next start may be of any replica.
Stop(p) ==
    /\ phase[p] # "down"
    /\ Enter(p, "down")
    /\ signer' = [signer EXCEPT ![p] = NoKey]
    /\ UNCHANGED <<conf, keyFile, signed, made, raced>>

StartupInit ==
    /\ conf \in Deployment
    /\ keyFile = IF conf.mounted THEN Injected ELSE NoKey
    /\ phase = [p \in Process |-> "down"]
    /\ signer = [p \in Process |-> NoKey]
    /\ signed = {}
    /\ made = {}
    /\ raced = FALSE

StartupNext ==
    \E p \in Process :
        \/ ReadSettings(p) \/ LoadKey(p) \/ RefuseWithoutKey(p) \/ MakeKey(p)
        \/ OpenKeyFile(p) \/ WriteKeyFile(p) \/ CheckMail(p) \/ Stop(p)

StartupSpec == StartupInit /\ [][StartupNext]_startupVars

-----------------------------------------------------------------------------
(* What must hold                                                          *)

\* "It would be different on every replica and lost on every restart": all that
\* the processes of a deployment ever sign, across restarts, is signed with one
\* key, so what one signs the key set of any other verifies.  Only in development,
\* where two processes that start together on no file each keep their own key.
OneKeyPerDeployment ==
    \/ conf.development /\ raced
    \/ \A j, k \in signed : j = k

\* "A service with no mail path starts perfectly happily and then 502s every
\* single sign-in": outside development, what the settings and the check of mail
\* let through leaves mail.send a path that does not fail for want of a setting,
\* and no event is dropped for want of a secret.
ServingCanDeliver ==
    \A p \in Process :
        phase[p] = "serving" /\ ~conf.development =>
            /\ conf.fallback \/ (conf.relay /\ conf.relaySecret # "unset")
            /\ conf.hooks => conf.hookSecret # "unset"

\* A deployment that has served starts again after a crash, wherever its processes
\* were, but for one case: in development two of them both found no key file, one
\* served with the key it wrote, and the other has truncated the file to write its
\* own.  If it dies there, every start is refused, that of the first included.
ServedStartsAgain ==
    [][\A p \in Process :
          phase[p] # "refused" /\ phase'[p] = "refused" =>
              signed = {} \/ (conf.development /\ raced /\ keyFile = Torn)]_startupVars
=============================================================================
