------------------------------- MODULE SignIn -------------------------------
(***************************************************************************)
(* The two factors of a sign-in to one account (services.py 211-461): the  *)
(* password with its lockout, or Google, then the challenge answered with  *)
(* the Sign-in Code that was mailed.  A right code hands over to Sessions, *)
(* and so does a password reset, which clears the same counters.           *)
(*                                                                         *)
(* As in Sessions a Worker is a request with its own AsyncSession.  Here   *)
(* every operation reads, computes, and writes at the commit; what it      *)
(* computes from is what it read.  The ORM writes the columns whose value  *)
(* differs from the one loaded, and only those: Written.  Time is the      *)
(* environment's: a lock lapses, a code expires, a cooldown ends, at any   *)
(* moment.  A code is right or wrong: its digits are not modelled.         *)
(***************************************************************************)
EXTENDS Naturals, FiniteSets

CONSTANTS
    Challenge,          \* rows sign_in_challenges may come to hold
    Worker,             \* concurrent requests
    MaxFailedLogins,    \* settings.MAX_FAILED_LOGINS
    OtpMaxAttempts,     \* settings.OTP_MAX_ATTEMPTS
    OtpMaxSends,        \* settings.OTP_MAX_SENDS_PER_CHALLENGE
    GuessCap,           \* bound: where the history stops counting wrong codes
    Consumed,           \* a row with consumed = true: nothing reads the rest of it
    None

\* A row not consumed.  Its age is that of its code: under the cooldown of a
\* resend, past it, past expires_at, and past the maximum age of the challenge.  A
\* code resent late is still open when its challenge is past that age: it may be
\* verified and not resent.  Here it may be resent too.
LiveRow ==
    [attempts : Nat, sends : Nat, age : {"cooling", "open", "expired", "aged"}]

ASSUME ConstantsAssumption ==
    /\ MaxFailedLogins \in Nat \ {0}
    /\ OtpMaxAttempts \in Nat \ {0}
    /\ OtpMaxSends \in Nat \ {0}
    /\ GuessCap \in Nat
    /\ Consumed # None
    /\ None \notin Challenge \cup LiveRow /\ Consumed \notin LiveRow
    /\ None \notin Worker

VARIABLES
    \* The row of the credential.
    failed,     \* failed_attempts
    lock,       \* locked_until: "none" (NULL), "locked" (ahead), "lapsed"
    disabled,
    \* The challenges of the credential.
    challenge,
    \* The requests.
    pc,
    ch,         \* the challenge it works on
    seen,       \* columns of the credential as loaded
    copy,       \* columns of the challenge as loaded
    old,        \* challenges it is about to supersede
    \* History, read by no guard.
    owed,       \* per challenge: the request that has yet to mail the code in force
    granted,    \* challenges that have let somebody in
    past,       \* challenges that existed when w selected those to supersede
    guesses     \* wrong codes since the last lock, right code or reset

row     == <<failed, lock, disabled>>
request == <<pc, ch, seen, copy, old>>
history == <<owed, granted, past, guesses>>
vars    == <<row, challenge, request, history>>

Label == {"idle", "rightPassword", "wrongPassword", "starting", "creating", "mailing",
          "resending", "remailing", "verifying", "rightCode", "wrongCode", "resetting"}

TypeOK ==
    /\ failed \in Nat
    /\ lock \in {"none", "locked", "lapsed"}
    /\ disabled \in BOOLEAN
    /\ challenge \in [Challenge -> LiveRow \cup {Consumed, None}]
    /\ pc \in [Worker -> Label]
    /\ ch \in [Worker -> Challenge \cup {None}]
    /\ seen \in [Worker -> [failed : Nat, lock : {"none", "locked", "lapsed"}]]
    /\ copy \in [Worker -> [attempts : Nat, sends : Nat]]
    /\ old \in [Worker -> SUBSET Challenge]
    /\ granted \subseteq Challenge
    /\ owed \in [Challenge -> Worker \cup {None}]
    /\ past \in [Worker -> SUBSET Challenge]
    /\ guesses \in 0 .. GuessCap

-----------------------------------------------------------------------------
Exists(c) == challenge[c] # None

Unconsumed == {c \in Challenge : challenge[c] \notin {None, Consumed}}

\* What a column holds after an UPDATE of a row loaded with `loaded`.
Written(current, loaded, new) == IF new = loaded THEN current ELSE new

\* Mutant: a success writes both columns whatever it had loaded.
ClearAlways(w) ==
    /\ failed' = 0
    /\ lock' = "none"

\* Columns of the credential after a success, and after a failure.
ClearFailures(w) ==
    /\ failed' = Written(failed, seen[w].failed, 0)
    /\ lock' = Written(lock, seen[w].lock, "none")

\* Mutant: one failure too many.
LocksOutLate(w) == seen[w].failed + 1 > MaxFailedLogins

LocksOut(w) == seen[w].failed + 1 >= MaxFailedLogins

\* Mutant: the failure is not committed with its refusal.
CountNoFailure(w) == UNCHANGED <<failed, lock>>

CountFailure(w) ==
    IF LocksOut(w)
    THEN failed' = Written(failed, seen[w].failed, 0) /\ lock' = "locked"
    ELSE failed' = seen[w].failed + 1 /\ lock' = lock

LoadChallengeRow(w, c) ==
    copy' = [copy EXCEPT ![w] = [attempts |-> challenge[c].attempts, sends |-> challenge[c].sends]]

LoadCredential(w) == seen' = [seen EXCEPT ![w] = [failed |-> failed, lock |-> lock]]

\* Nothing loaded.
NoCredential == [failed |-> 0, lock |-> "none"]
NoRow == [attempts |-> 0, sends |-> 0]

Goto(w, label) == pc' = [pc EXCEPT ![w] = label]

Done(w) ==
    /\ Goto(w, "idle")
    /\ ch' = [ch EXCEPT ![w] = None]
    /\ seen' = [seen EXCEPT ![w] = NoCredential]
    /\ copy' = [copy EXCEPT ![w] = NoRow]
    /\ old' = [old EXCEPT ![w] = {}]
    /\ past' = [past EXCEPT ![w] = {}]

-----------------------------------------------------------------------------
(* authenticate                                                            *)

\* A locked account is not told whether the password was right, and a disabled
\* one goes no further; neither writes to the row.
LoadPassword(w, right) ==
    /\ pc[w] = "idle"
    /\ lock # "locked"
    /\ ~disabled
    /\ LoadCredential(w)
    /\ Goto(w, IF right THEN "rightPassword" ELSE "wrongPassword")
    /\ UNCHANGED <<row, challenge, ch, copy, old, history>>

WrongPassword(w) ==
    /\ pc[w] = "wrongPassword"
    /\ CountFailure(w)
    /\ guesses' = IF LocksOut(w) THEN 0 ELSE guesses
    /\ Done(w)
    /\ UNCHANGED <<disabled, challenge, owed, granted>>

RightPassword(w) ==
    /\ pc[w] = "rightPassword"
    /\ ClearFailures(w)
    /\ seen' = [seen EXCEPT ![w] = NoCredential]
    /\ Goto(w, "starting")
    /\ UNCHANGED <<disabled, challenge, ch, copy, old, history>>

\* The callback of Sign-in with Google comes here past upsert_google_credential,
\* whatever the lockout or the disabled flag.
GoogleFirstFactor(w) ==
    /\ pc[w] = "idle"
    /\ Goto(w, "starting")
    /\ UNCHANGED <<row, challenge, ch, seen, copy, old, history>>

-----------------------------------------------------------------------------
(* start_challenge                                                         *)

\* Mutant: nothing is superseded.
SelectNoChallenges(w) ==
    /\ pc[w] = "starting"
    /\ past' = [past EXCEPT ![w] = {c \in Challenge : Exists(c)}]
    /\ Goto(w, "creating")
    /\ UNCHANGED <<row, challenge, ch, seen, copy, old, owed, granted, guesses>>

\* _supersede_challenges: SELECT those not consumed.
SelectChallenges(w) ==
    /\ pc[w] = "starting"
    /\ old' = [old EXCEPT ![w] = Unconsumed]
    /\ past' = [past EXCEPT ![w] = {c \in Challenge : Exists(c)}]
    /\ Goto(w, "creating")
    /\ UNCHANGED <<row, challenge, ch, seen, copy, owed, granted, guesses>>

\* Mutant: the column without a default is left out.
NewChallengeUnsent == [attempts |-> 0, age |-> "cooling"]

NewChallenge ==
    [attempts |-> 0, sends |-> 1, age |-> "cooling"]

CreateChallenge(w, c) ==
    /\ pc[w] = "creating"
    /\ ~Exists(c)
    /\ challenge' = [d \in Challenge |->
                        IF d = c THEN NewChallenge
                        ELSE IF d \in old[w] THEN Consumed
                        ELSE challenge[d]]
    /\ ch' = [ch EXCEPT ![w] = c]
    /\ old' = [old EXCEPT ![w] = {}]
    /\ past' = [past EXCEPT ![w] = {}]
    /\ owed' = [owed EXCEPT ![c] = w]
    /\ Goto(w, "mailing")
    /\ UNCHANGED <<row, seen, copy, granted, guesses>>

\* No more is owed for the code of w; another may have come into force since.
Settle(w) == owed' = [owed EXCEPT ![ch[w]] = IF @ = w THEN None ELSE @]

\* The mail of a first or of a later code goes out, inline with the request.
MailCode(w) ==
    /\ pc[w] \in {"mailing", "remailing"}
    /\ Settle(w)
    /\ Done(w)
    /\ UNCHANGED <<row, challenge, granted, guesses>>

\* Mutant: the sign-in fails and its challenge stays.
FailFirstMailOnly(w) ==
    /\ pc[w] = "mailing"
    /\ Done(w)
    /\ UNCHANGED <<row, challenge, owed, granted, guesses>>

\* Neither the relay nor the fallback took it: the challenge is retired.
FailFirstMail(w) ==
    /\ pc[w] = "mailing"
    /\ challenge' = [challenge EXCEPT ![ch[w]] = Consumed]
    /\ Done(w)
    /\ UNCHANGED <<row, owed, granted, guesses>>

-----------------------------------------------------------------------------
(* resend_challenge                                                        *)

\* An expired challenge may be resent to; a consumed or an old one may not.
LoadResend(w, c) ==
    /\ pc[w] = "idle"
    /\ c \in Unconsumed
    /\ challenge[c].age \in {"open", "expired"}
    /\ challenge[c].sends < OtpMaxSends
    /\ ~disabled
    /\ ch' = [ch EXCEPT ![w] = c]
    /\ LoadChallengeRow(w, c)
    /\ Goto(w, "resending")
    /\ UNCHANGED <<row, challenge, seen, old, history>>

\* Mutant: the row is written whole, as it was loaded: not consumed.
CommitResendWhole(w) ==
    /\ pc[w] = "resending"
    /\ challenge' = [challenge EXCEPT ![ch[w]] =
          [attempts |-> 0, sends |-> copy[w].sends + 1, age |-> "cooling"]]
    /\ copy' = [copy EXCEPT ![w] = NoRow]
    /\ owed' = [owed EXCEPT ![ch[w]] = w]
    /\ Goto(w, "remailing")
    /\ UNCHANGED <<row, ch, seen, old, granted, past, guesses>>

\* The columns a resend writes, and no other.
Resent(w, live) ==
    [attempts |-> Written(live.attempts, copy[w].attempts, 0),
     sends    |-> copy[w].sends + 1,
     age      |-> "cooling"]

CommitResend(w) ==
    /\ pc[w] = "resending"
    /\ challenge' = [challenge EXCEPT ![ch[w]] = IF @ = Consumed THEN @ ELSE Resent(w, @)]
    /\ copy' = [copy EXCEPT ![w] = NoRow]
    /\ owed' = [owed EXCEPT ![ch[w]] = w]
    /\ Goto(w, "remailing")
    /\ UNCHANGED <<row, ch, seen, old, granted, past, guesses>>

\* The new code has replaced the old one and stays, unsent; the caller is told.
FailResentMail(w) ==
    /\ pc[w] = "remailing"
    /\ Settle(w)
    /\ Done(w)
    /\ UNCHANGED <<row, challenge, granted, guesses>>

-----------------------------------------------------------------------------
(* verify_challenge                                                        *)

LoadChallenge(w, c) ==
    /\ pc[w] = "idle"
    /\ c \in Unconsumed
    /\ challenge[c].age \in {"cooling", "open"}
    /\ ch' = [ch EXCEPT ![w] = c]
    /\ LoadChallengeRow(w, c)
    /\ Goto(w, "verifying")
    /\ UNCHANGED <<row, challenge, seen, old, history>>

\* The credential is another SELECT; then the code is compared.
CheckCode(w, right) ==
    /\ pc[w] = "verifying"
    /\ ~disabled
    /\ lock # "locked"
    /\ LoadCredential(w)
    /\ Goto(w, IF right THEN "rightCode" ELSE "wrongCode")
    /\ UNCHANGED <<row, challenge, ch, copy, old, history>>

RefuseVerify(w) ==
    /\ pc[w] = "verifying"
    /\ disabled \/ lock = "locked"
    /\ Done(w)
    /\ UNCHANGED <<row, challenge, owed, granted, guesses>>

WrongCode(w) ==
    /\ pc[w] = "wrongCode"
    /\ LET attempts == copy[w].attempts + 1
           burnt == LocksOut(w) \/ attempts >= OtpMaxAttempts
       IN  challenge' = [challenge EXCEPT ![ch[w]] =
              IF burnt \/ @ = Consumed THEN Consumed ELSE [@ EXCEPT !.attempts = attempts]]
    /\ CountFailure(w)
    /\ guesses' = IF LocksOut(w) THEN 0 ELSE IF guesses < GuessCap THEN guesses + 1 ELSE guesses
    /\ Done(w)
    /\ UNCHANGED <<disabled, owed, granted>>

\* From here the request goes on in Sessions, with BeginSignIn.
RightCode(w) ==
    /\ pc[w] = "rightCode"
    /\ challenge' = [challenge EXCEPT ![ch[w]] = Consumed]
    /\ ClearFailures(w)
    /\ granted' = granted \cup {ch[w]}
    /\ guesses' = 0
    /\ Done(w)
    /\ UNCHANGED <<disabled, owed>>

-----------------------------------------------------------------------------
(* confirm_password_reset, its token being good                            *)

\* Neither a lockout nor the disabled flag refuses it.
LoadReset(w) ==
    /\ pc[w] = "idle"
    /\ LoadCredential(w)
    /\ Goto(w, "resetting")
    /\ UNCHANGED <<row, challenge, ch, copy, old, history>>

\* From here the request goes on in Sessions, with PasswordReset.
CommitReset(w) ==
    /\ pc[w] = "resetting"
    /\ ClearFailures(w)
    /\ guesses' = 0
    /\ Done(w)
    /\ UNCHANGED <<disabled, challenge, owed, granted>>

-----------------------------------------------------------------------------
(* The environment                                                         *)

LockLapses ==
    /\ lock = "locked"
    /\ lock' = "lapsed"
    /\ UNCHANGED <<failed, disabled, challenge, request, history>>

Elapse(c) ==
    /\ c \in Unconsumed
    /\ challenge[c].age # "aged"
    /\ challenge' = [challenge EXCEPT ![c].age =
          CASE @ = "cooling" -> "open" [] @ = "open" -> "expired" [] OTHER -> "aged"]
    /\ UNCHANGED <<row, request, history>>

\* disable_credential.
Disable ==
    /\ ~disabled
    /\ disabled' = TRUE
    /\ UNCHANGED <<failed, lock, challenge, request, history>>

\* The request dies; what it had not committed is lost, a mail included.
Crash(w) ==
    /\ pc[w] # "idle"
    /\ IF pc[w] \in {"mailing", "remailing"} THEN Settle(w) ELSE UNCHANGED owed
    /\ Done(w)
    /\ UNCHANGED <<row, challenge, granted, guesses>>

-----------------------------------------------------------------------------
Init ==
    /\ failed = 0
    /\ lock = "none"
    /\ disabled = FALSE
    /\ challenge = [c \in Challenge |-> None]
    /\ pc = [w \in Worker |-> "idle"]
    /\ ch = [w \in Worker |-> None]
    /\ seen = [w \in Worker |-> NoCredential]
    /\ copy = [w \in Worker |-> NoRow]
    /\ old = [w \in Worker |-> {}]
    /\ granted = {}
    /\ owed = [c \in Challenge |-> None]
    /\ past = [w \in Worker |-> {}]
    /\ guesses = 0

FirstFactor(w) ==
    \/ \E right \in BOOLEAN : LoadPassword(w, right)
    \/ WrongPassword(w) \/ RightPassword(w) \/ GoogleFirstFactor(w)

Start(w) ==
    \/ SelectChallenges(w)
    \/ \E c \in Challenge : CreateChallenge(w, c)
    \/ MailCode(w) \/ FailFirstMail(w)

Resend(w) ==
    \/ \E c \in Challenge : LoadResend(w, c)
    \/ CommitResend(w) \/ FailResentMail(w)

Verify(w) ==
    \/ \E c \in Challenge : LoadChallenge(w, c)
    \/ \E right \in BOOLEAN : CheckCode(w, right)
    \/ RefuseVerify(w) \/ WrongCode(w) \/ RightCode(w)

Reset(w) == LoadReset(w) \/ CommitReset(w)

Next ==
    \/ \E w \in Worker : \/ FirstFactor(w) \/ Start(w) \/ Resend(w) \/ Verify(w)
                        \/ Reset(w) \/ Crash(w)
    \/ \E c \in Challenge : Elapse(c)
    \/ LockLapses \/ Disable

Spec == Init /\ [][Next]_vars

-----------------------------------------------------------------------------
(* What must hold                                                          *)

\* Concurrent failures overwrite each other's counts, and a resend sets one
\* back; still what is committed stays under the limits: no credential is left
\* at MAX_FAILED_LOGINS and unlocked, no challenge with all its guesses used
\* can be answered, and no more codes are counted than a challenge may have.
CountersUnderLimits ==
    /\ failed < MaxFailedLogins
    /\ \A c \in Unconsumed :
          challenge[c].attempts < OtpMaxAttempts /\ challenge[c].sends <= OtpMaxSends

\* "A challenge nobody can answer is worse than no challenge": whatever resends
\* overlap, the code in force of a challenge that is not consumed has been mailed,
\* or is being mailed by the request that made it, or the resend that made it has
\* failed and said so.  (That request may also have died in between.)
LiveChallengeIsMailed ==
    \A c \in Unconsumed :
        owed[c] # None => pc[owed[c]] \in {"mailing", "remailing"} /\ ch[owed[c]] = c

\* A challenge that let somebody in is never live again, although requests
\* that loaded it earlier still write to its row.
GrantedIsSpent == granted \cap Unconsumed = {}

Answering(w) == pc[w] \in {"verifying", "rightCode", "wrongCode"}

Look ==
    INSTANCE LookThenUse WITH
        Secret  <- Challenge,
        Request <- Worker,
        fresh   <- Unconsumed,
        out     <- {c \in Challenge : challenge[c] = Consumed},
        taken   <- [w \in Worker |-> IF Answering(w) THEN ch[w] ELSE None],
        used    <- granted

\* Only a request that found a challenge live gets in by it, and one that has been
\* answered, used up or superseded is never live again, although resends and other
\* answers that loaded it earlier still write to its row.  Two answers with the
\* right code that overlap both get in.
SpentChallengesStayOut == Look!Spec

\* Starting a challenge retires every challenge there was when it looked,
\* whatever became of them in the meantime.
NewestChallengeWins ==
    [][\A w \in Worker :
          pc[w] = "creating" /\ pc'[w] = "mailing" => past[w] \cap Unconsumed' = {}]_vars

\* A lockout is not undone by a request that was under way when it was set: to
\* clear one, a success must have loaded an earlier lockout, by then over, and
\* only a password reset may have loaded the lockout itself.
LockSurvives ==
    [][lock = "locked" /\ lock' = "none" =>
          \E w \in Worker :
              /\ pc'[w] # pc[w]
              /\ \/ seen[w].lock = "lapsed"
                 \/ pc[w] = "resetting" /\ seen[w].lock = "locked"]_vars

\* verify_challenge: possession of the password buys a fixed number of guesses
\* in total.
GuessBudget == guesses <= MaxFailedLogins
=============================================================================
