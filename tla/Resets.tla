------------------------------- MODULE Resets -------------------------------
(***************************************************************************)
(* Password resets and the mail they go out by (services.py 755-822,       *)
(* mail.py 122-219).  A Mailer is a request in progress; it is cut where   *)
(* it commits and where it waits for a mail server, which may be late: it  *)
(* then has the mail although the request counts a failure.                *)
(*                                                                         *)
(* The sessions that a confirmation ends are in Sessions, the lock that it *)
(* lifts is in SignIn.                                                     *)
(***************************************************************************)

CONSTANTS
    ResetToken,
    Mailer,
    NoToken

ASSUME ResetsAssumption == NoToken \notin ResetToken

VARIABLES
    paths,      \* the configured mail paths
    reset,      \* a token's row
    stale,      \* tokens past expires_at
    step,       \* what a request is about to do
    token,      \* the token it issued, or was given
    inbox,      \* tokens a mail server has taken
    reported,   \* tokens with a password_reset_send_failed row
    changed,    \* history: tokens that have changed the password
    before,     \* history: what `changed` was when the request began
    dropped     \* history: tokens whose request died before the mail was settled

resetsVars == <<paths, reset, stale, step, token, inbox, reported, changed, before, dropped>>

\* The types of the token table, the requests and the mail.
ResetsTypeOK ==
    /\ paths \in (SUBSET {"relay", "fallback"}) \ {{}}
    /\ reset \in [ResetToken -> {"none", "unused", "used"}]
    /\ stale \subseteq ResetToken
    /\ step \in [Mailer -> {"idle", "relay", "fallback", "report", "confirm", "end"}]
    /\ token \in [Mailer -> ResetToken \cup {NoToken}]
    /\ inbox \subseteq ResetToken
    /\ reported \subseteq ResetToken
    /\ changed \subseteq ResetToken
    /\ before \in [Mailer -> SUBSET ResetToken]
    /\ dropped \subseteq ResetToken

rows == <<paths, reset, stale>>
past == <<changed, before, dropped>>

GoesOn(w, next) == step' = [step EXCEPT ![w] = next]

Replied(w) ==
    /\ step' = [step EXCEPT ![w] = "idle"]
    /\ token' = [token EXCEPT ![w] = NoToken]

-----------------------------------------------------------------------------
(* request_password_reset                                                  *)

\* The address is known.  For an unknown one nothing but an audit row is written.
IssueReset(w) ==
    /\ step[w] = "idle"
    /\ \E t \in ResetToken :
          /\ reset[t] = "none"
          /\ reset' = [reset EXCEPT ![t] = "unused"]
          /\ token' = [token EXCEPT ![w] = t]
    /\ GoesOn(w, "relay")
    /\ UNCHANGED <<paths, stale, inbox, reported, past>>

\* Mutant: the status of the relay's answer is not looked at.
RelayAnswers(w) ==
    /\ step[w] = "relay"
    /\ "relay" \in paths
    /\ inbox' \in {inbox, inbox \cup {token[w]}}
    /\ Replied(w)
    /\ UNCHANGED <<rows, reported, past>>

RelayTakes(w) ==
    /\ step[w] = "relay"
    /\ "relay" \in paths
    /\ inbox' = inbox \cup {token[w]}
    /\ Replied(w)
    /\ UNCHANGED <<rows, reported, past>>

\* Mutant: the message is not handed on to the fallback.
RelayFailsAndForgets(w) ==
    /\ step[w] = "relay"
    /\ UNCHANGED inbox
    /\ token' = [token EXCEPT ![w] = NoToken]
    /\ GoesOn(w, "fallback")
    /\ UNCHANGED <<rows, reported, past>>

\* No relay, no connection, a status from 300 on, or no answer within the time.
RelayFails(w) ==
    /\ step[w] = "relay"
    /\ \/ UNCHANGED inbox
       \/ "relay" \in paths /\ inbox' = inbox \cup {token[w]}
    /\ GoesOn(w, "fallback")
    /\ UNCHANGED <<rows, token, reported, past>>

FallbackTakes(w) ==
    /\ step[w] = "fallback"
    /\ "fallback" \in paths
    /\ inbox' = inbox \cup {token[w]}
    /\ Replied(w)
    /\ UNCHANGED <<rows, reported, past>>

FallbackFails(w) ==
    /\ step[w] = "fallback"
    /\ \/ UNCHANGED inbox
       \/ "fallback" \in paths /\ inbox' = inbox \cup {token[w]}
    /\ GoesOn(w, "report")
    /\ UNCHANGED <<rows, token, reported, past>>

\* MailUndeliverable is caught: the audit row is committed, and the caller gets
\* the answer that everybody gets.
Report(w) ==
    /\ step[w] = "report"
    /\ reported' = reported \cup {token[w]}
    /\ Replied(w)
    /\ UNCHANGED <<rows, inbox, past>>

-----------------------------------------------------------------------------
(* confirm_password_reset                                                  *)

\* Anything but an unused token in its time is refused.
LoadReset(w) ==
    /\ step[w] = "idle"
    /\ \E t \in ResetToken \ stale :
          /\ reset[t] = "unused"
          /\ token' = [token EXCEPT ![w] = t]
    /\ before' = [before EXCEPT ![w] = changed]
    /\ GoesOn(w, "confirm")
    /\ UNCHANGED <<rows, inbox, reported, changed, dropped>>

\* Mutant: the row is left as it is.
ChangePasswordOnly(w) ==
    /\ step[w] = "confirm"
    /\ changed' = changed \cup {token[w]}
    /\ GoesOn(w, "end")
    /\ UNCHANGED <<rows, token, inbox, reported, before, dropped>>

\* One commit: the password, the lock and the token.
ChangePassword(w) ==
    /\ step[w] = "confirm"
    /\ reset' = [reset EXCEPT ![token[w]] = "used"]
    /\ changed' = changed \cup {token[w]}
    /\ GoesOn(w, "end")
    /\ UNCHANGED <<paths, stale, token, inbox, reported, before, dropped>>

EndTheSessions(w) ==
    /\ step[w] = "end"
    /\ Replied(w)
    /\ UNCHANGED <<rows, inbox, reported, past>>

-----------------------------------------------------------------------------
GrowStale(t) ==
    /\ reset[t] = "unused" /\ t \notin stale
    /\ stale' = stale \cup {t}
    /\ UNCHANGED <<paths, reset, step, token, inbox, reported, past>>

Sending(w) == step[w] \in {"relay", "fallback", "report"}

\* The request dies, and its transaction is rolled back.
Die(w) ==
    /\ step[w] # "idle"
    /\ dropped' = IF Sending(w) THEN dropped \cup {token[w]} ELSE dropped
    /\ Replied(w)
    /\ UNCHANGED <<rows, inbox, reported, changed, before>>

\* check_mail_configuration has seen a path.
ResetsInit ==
    /\ paths \in (SUBSET {"relay", "fallback"}) \ {{}}
    /\ reset = [t \in ResetToken |-> "none"]
    /\ stale = {}
    /\ step = [w \in Mailer |-> "idle"]
    /\ token = [w \in Mailer |-> NoToken]
    /\ inbox = {}
    /\ reported = {}
    /\ changed = {}
    /\ before = [w \in Mailer |-> {}]
    /\ dropped = {}

ResetsNext ==
    \/ \E t \in ResetToken : GrowStale(t)
    \/ \E w \in Mailer :
          \/ IssueReset(w) \/ RelayTakes(w) \/ RelayFails(w)
          \/ FallbackTakes(w) \/ FallbackFails(w) \/ Report(w)
          \/ LoadReset(w) \/ ChangePassword(w) \/ EndTheSessions(w)
          \/ Die(w)

ResetsSpec == ResetsInit /\ [][ResetsNext]_resetsVars

-----------------------------------------------------------------------------
(* What must hold                                                          *)

\* A confirmation that goes on to change the password was never begun after another
\* had changed it with the same token.  Two that overlap may both change it.
SpentTokenIsRefused ==
    \A w \in Mailer : step[w] \in {"confirm", "end"} => token[w] \notin before[w]

Look ==
    INSTANCE LookThenUse WITH
        Secret  <- ResetToken,
        Request <- Mailer,
        None    <- NoToken,
        fresh   <- {t \in ResetToken : reset[t] = "unused"},
        out     <- {t \in ResetToken : reset[t] = "used"},
        taken   <- [w \in Mailer |-> IF step[w] = "confirm" THEN token[w] ELSE NoToken],
        used    <- changed

\* "Single-use" (models.py), "can be used once" (the mail): a confirmation changes the
\* password only if its token is still unused when it does.
ResetTokensAreSingleUse ==
    [][\A w \in Mailer :
          step[w] = "confirm" /\ step'[w] = "end" => token[w] \notin changed]_resetsVars

\* Only a confirmation that found its token unused changes a password, and a token
\* that has changed one is never found so again.
SpentTokensStayOut == Look!Spec

\* Whatever the two paths do, and however their answers are read, a token that no
\* mail server has taken ends as a row of the audit log, unless its request died.
UndeliveredIsReported ==
    \A t \in ResetToken :
        reset[t] # "none" =>
            \/ t \in inbox \cup reported \cup dropped
            \/ \E w \in Mailer : Sending(w) /\ token[w] = t
=============================================================================
