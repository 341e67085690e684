------------------------------- MODULE Browser -------------------------------
(***************************************************************************)
(* The refresh cookie between one browser and the service (api.py 51-89,   *)
(* 156-219): tabs that share a cookie jar, answers that arrive out of      *)
(* order or never, and the rule by which a browser decides to send it.     *)
(*                                                                         *)
(* What a request does in the database is one step here; Sessions has the  *)
(* transactions it is made of.  A refresh family is named by its first     *)
(* token.  Every token is one this browser was, or was to be, given.       *)
(***************************************************************************)
EXTENDS Naturals

LOCAL INSTANCE SequencesExt

CONSTANTS
    Tab,
    Cookie,      \* refresh tokens
    CookiePath,  \* the values REFRESH_COOKIE_PATH may have, as path segments
    NoCookie     \* no value of the cookie

ASSUME BrowserAssumption == NoCookie \notin Cookie

Operation == {"signin", "refresh", "logout", "logout-all"}

\* Where the operations are mounted.
Route ==
    [op \in Operation |->
        CASE op = "signin"     -> <<"v1", "login", "verify">>
          [] op = "refresh"    -> <<"v1", "token", "refresh">>
          [] op = "logout"     -> <<"v1", "logout">>
          [] op = "logout-all" -> <<"v1", "logout-all">>]

VARIABLES
    cookiePath, \* the cookie's path
    jar,        \* the browser's refresh cookie
    familyOf,   \* of an issued token; NoCookie: not issued
    spent,      \* tokens that a refresh has consumed
    ended,      \* families ended by sign-in, logout or from elsewhere
    burned,     \* families ended by the answer to a reuse
    exchange,   \* per tab: the request under way
    mishap,     \* history: an answer was lost, or two exchanges overlapped
    out         \* history: the person has signed out, and not in again since

browserVars == <<cookiePath, jar, familyOf, spent, ended, burned, exchange, mishap, out>>

Idle == [stage |-> "idle", op |-> "refresh", had |-> NoCookie, set |-> NoCookie]

\* The types of the jar, the tokens and the exchanges.
BrowserTypeOK ==
    /\ cookiePath \in CookiePath
    /\ jar \in Cookie \cup {NoCookie}
    /\ familyOf \in [Cookie -> Cookie \cup {NoCookie}]
    /\ spent \subseteq Cookie
    /\ ended \subseteq Cookie
    /\ burned \subseteq Cookie
    /\ exchange \in [Tab -> [stage : {"idle", "sent", "answered"}, op : Operation,
                             had : Cookie \cup {NoCookie}, set : Cookie \cup {NoCookie}]]
    /\ mishap \in BOOLEAN
    /\ out \in BOOLEAN

Issued == {c \in Cookie : familyOf[c] # NoCookie}

\* A token never issued before; one is as good as another.
Fresh == IF Issued = Cookie THEN {} ELSE {CHOOSE c \in Cookie : c \notin Issued}

Families == {familyOf[c] : c \in Issued}

-----------------------------------------------------------------------------
(* The browser                                                             *)

\* Path matching: the cookie goes to the requests below its path.
Reaches(op) == IsPrefix(cookiePath, Route[op])

\* The cookie of the request of t, which left when the jar was `had`.
Sent(t) == IF Reaches(exchange[t].op) THEN exchange[t].had ELSE NoCookie

Send(t, op) ==
    /\ exchange[t] = Idle
    /\ exchange' = [exchange EXCEPT ![t] =
          [stage |-> "sent", op |-> op, had |-> jar, set |-> NoCookie]]
    /\ mishap' = (mishap \/ exchange # [u \in Tab |-> Idle])
    /\ out' = (out /\ op # "signin")
    /\ UNCHANGED <<cookiePath, jar, familyOf, spent, ended, burned>>

SameSession(c, d) == c = d \/ (c \in Issued /\ d \in Issued /\ familyOf[c] = familyOf[d])

\* No sign-in is under way, and all that is concerns the session in the jar.
AllOfOneSession ==
    \A t \in Tab : exchange[t] # Idle =>
        exchange[t].op # "signin" /\ SameSession(exchange[t].had, jar)

\* The answer arrives; what it sets replaces the cookie of the same name, path
\* and domain.
Receive(t) ==
    /\ exchange[t].stage = "answered"
    /\ jar' = IF exchange[t].set = NoCookie THEN jar ELSE exchange[t].set
    /\ exchange' = [exchange EXCEPT ![t] = Idle]
    /\ out' = IF exchange[t].op \in {"logout", "logout-all"} THEN AllOfOneSession ELSE out
    /\ UNCHANGED <<cookiePath, familyOf, spent, ended, burned, mishap>>

\* The request, or its answer, does not arrive.
Lose(t) ==
    /\ exchange[t] # Idle
    /\ exchange' = [exchange EXCEPT ![t] = Idle]
    /\ mishap' = TRUE
    /\ UNCHANGED <<cookiePath, jar, familyOf, spent, ended, burned, out>>

-----------------------------------------------------------------------------
(* The service                                                             *)

\* Mutant: the answer to a refresh does not set the cookie again.
SetCookieAtSignIn(t, c) ==
    exchange' = [exchange EXCEPT ![t] =
        [stage |-> "answered", op |-> @.op, had |-> @.had,
         set |-> IF @.op = "signin" THEN c ELSE NoCookie]]

SetCookie(t, c) ==
    exchange' = [exchange EXCEPT ![t] =
        [stage |-> "answered", op |-> @.op, had |-> @.had, set |-> c]]

\* An answer that leaves the cookie alone: an error, and also a logout.  What
\* _clear_refresh_cookie writes goes to the injected response, and FastAPI does
\* not send that one's headers when the handler returns a Response of its own.
KeepCookie(t) == SetCookie(t, NoCookie)

Asked(t, op) == exchange[t].stage = "sent" /\ exchange[t].op = op

\* The right code: a new family, and the account's other sessions end.
SignInServed(t) ==
    /\ Asked(t, "signin")
    /\ \E c \in Fresh :
          /\ familyOf' = [familyOf EXCEPT ![c] = c]
          /\ SetCookie(t, c)
    /\ ended' = ended \cup Families
    /\ UNCHANGED <<cookiePath, jar, spent, burned, mishap, out>>

RefreshServed(t) ==
    LET c == Sent(t) IN
    /\ Asked(t, "refresh")
    /\ c # NoCookie
    /\ c \notin spent /\ familyOf[c] \notin ended \cup burned
    /\ spent' = spent \cup {c}
    /\ \E d \in Fresh :
          /\ familyOf' = [familyOf EXCEPT ![d] = familyOf[c]]
          /\ SetCookie(t, d)
    /\ UNCHANGED <<cookiePath, jar, ended, burned, mishap, out>>

\* A token rotated or revoked already: its family burns.
ReuseServed(t) ==
    LET c == Sent(t) IN
    /\ Asked(t, "refresh")
    /\ c # NoCookie
    /\ c \in spent \/ familyOf[c] \in ended \cup burned
    /\ burned' = burned \cup {familyOf[c]}
    /\ KeepCookie(t)
    /\ UNCHANGED <<cookiePath, jar, familyOf, spent, ended, mishap, out>>

MissingServed(t) ==
    /\ Asked(t, "refresh")
    /\ Sent(t) = NoCookie
    /\ KeepCookie(t)
    /\ UNCHANGED <<cookiePath, jar, familyOf, spent, ended, burned, mishap, out>>

\* Mutant: only a token that has not been rotated ends its family.
LogoutServedIfUnspent(t) ==
    /\ Asked(t, "logout")
    /\ ended' = IF Sent(t) \in Issued \ spent
                THEN ended \cup {familyOf[Sent(t)]} ELSE ended
    /\ KeepCookie(t)
    /\ UNCHANGED <<cookiePath, jar, familyOf, spent, burned, mishap, out>>

LogoutServed(t) ==
    /\ Asked(t, "logout")
    /\ ended' = IF Sent(t) \in Issued
                THEN ended \cup {familyOf[Sent(t)]} ELSE ended
    /\ KeepCookie(t)
    /\ UNCHANGED <<cookiePath, jar, familyOf, spent, burned, mishap, out>>

\* Mutant: a request without the cookie is not told apart.
LogoutAllServedAnonymous(t) ==
    /\ Asked(t, "logout-all")
    /\ ended' = ended \cup {Sent(t)} \cup Families
    /\ KeepCookie(t)
    /\ UNCHANGED <<cookiePath, jar, familyOf, spent, burned, mishap, out>>

LogoutAllServed(t) ==
    /\ Asked(t, "logout-all")
    /\ ended' = IF Sent(t) = NoCookie THEN ended ELSE ended \cup Families
    /\ KeepCookie(t)
    /\ UNCHANGED <<cookiePath, jar, familyOf, spent, burned, mishap, out>>

\* A sign-in on another device, a password reset, or the account disabled.
EndElsewhere ==
    /\ ended # Families
    /\ ended' = Families
    /\ UNCHANGED <<cookiePath, jar, familyOf, spent, burned, exchange, mishap, out>>

BrowserInit ==
    /\ cookiePath \in CookiePath
    /\ jar = NoCookie
    /\ familyOf = [c \in Cookie |-> NoCookie]
    /\ spent = {}
    /\ ended = {}
    /\ burned = {}
    /\ exchange = [t \in Tab |-> Idle]
    /\ mishap = FALSE
    /\ out = FALSE

BrowserNext ==
    \/ EndElsewhere
    \/ \E t \in Tab :
          \/ \E op \in Operation : Send(t, op)
          \/ SignInServed(t) \/ RefreshServed(t) \/ ReuseServed(t) \/ MissingServed(t)
          \/ LogoutServed(t) \/ LogoutAllServed(t)
          \/ Receive(t) \/ Lose(t)

BrowserSpec == BrowserInit /\ [][BrowserNext]_browserVars

-----------------------------------------------------------------------------
(* What must hold                                                          *)

\* Who uses one tab at a time, and gets every answer, is never taken for a thief:
\* a refresh is answered with a burnt family only where the session had ended.
HonestBrowserIsNotBurned == ~mishap => burned \subseteq ended

SignedOut == out /\ jar # NoCookie => familyOf[jar] \in ended \cup burned

\* "A session ends ... on logout, on logout-all": once the answer is there, and
\* whatever refresh it overtook, nothing left in the browser opens a session.
LogoutEndsSession == SignedOut

\* The same, where the cookie's path lets the browser send it to the logout.
LogoutEndsWhereItReaches ==
    Reaches("logout") /\ Reaches("logout-all") => SignedOut
=============================================================================
