------------------------------ MODULE Sessions ------------------------------
(***************************************************************************)
(* Sessions and refresh tokens of the authentication service               *)
(* (services.py 465-751): sign-in, refresh with rotation and reuse         *)
(* detection, logout, and the operations that end every session of an      *)
(* account.                                                                *)
(*                                                                         *)
(* A Worker is a request in progress with its own AsyncSession, that is    *)
(* one PostgreSQL transaction at a time under READ COMMITTED.  Its life is *)
(* cut at the statements other requests can interleave with.  The unit of  *)
(* work of the ORM is explicit:                                            *)
(*   dirty[w]  rows marked revoked in memory and not yet written,          *)
(*   held[w]   rows written by the open transaction: locked, and           *)
(*             invisible to the others until the commit.                   *)
(* Every SELECT flushes `dirty` first (autoflush), and a flush waits for   *)
(* the rows another transaction holds.  A commit flushes what is left and  *)
(* publishes it.                                                           *)
(*                                                                         *)
(* A refresh family is named by the first token issued in it.              *)
(***************************************************************************)
EXTENDS Naturals, FiniteSets

CONSTANTS
    Credential,     \* accounts
    Session,        \* rows the sessions table may come to hold
    Token,          \* rows the refresh_tokens table may come to hold
    Worker,         \* concurrent requests
    Legacy,         \* tokens issued before the sessions table existed
    Expiring,       \* bound: tokens that may grow older than their lifetime
    SingleSession,  \* settings.SINGLE_SESSION_PER_CREDENTIAL
    None            \* SQL NULL, or no value

ASSUME ConstantsAssumption ==
    /\ Legacy \subseteq Token
    /\ Expiring \subseteq Token
    /\ SingleSession \in BOOLEAN
    /\ Token \cap Session = {}
    /\ None \notin Token \cup Session \cup Credential

Row == Token \cup Session

VARIABLES
    \* The committed database.
    owner,      \* credential_id of a row; None: the row does not exist
    family,     \* family_id of a row
    rotated,    \* tokens with rotated = true
    revoked,    \* rows with revoked = true
    expired,    \* tokens past expires_at
    disabled,   \* credentials with disabled = true
    \* The requests.
    pc,         \* what request w is about to do
    cred,       \* the credential it loaded
    tok,        \* the refresh token presented to it
    sess,       \* the session its refresh goes on with
    todo,       \* live sessions it selected and has yet to revoke
    dirty,
    held,
    \* History, read by no guard.
    known,      \* families that existed when w was asked to end them
    ended,      \* families whose end has been committed
    burned,     \* families in which a reuse has been answered
    lost        \* families whose rotation died between its two commits

database == <<owner, family, rotated, revoked, expired, disabled>>
request  == <<pc, cred, tok, sess, todo, dirty, held>>
history  == <<known, ended, burned, lost>>
vars     == <<database, request, history>>

Label == {"idle", "signin", "superseding", "claimed", "checked", "rotating",
          "burning", "logout", "leaving", "endTokens", "endSessions", "ending"}

TypeOK ==
    /\ owner \in [Row -> Credential \cup {None}]
    /\ family \in [Row -> Token \cup {None}]
    /\ rotated \subseteq Token
    /\ revoked \subseteq Row
    /\ expired \subseteq Token
    /\ disabled \subseteq Credential
    /\ pc \in [Worker -> Label]
    /\ cred \in [Worker -> Credential \cup {None}]
    /\ tok \in [Worker -> Token \cup {None}]
    /\ sess \in [Worker -> Session \cup {None}]
    /\ todo \in [Worker -> SUBSET Session]
    /\ dirty \in [Worker -> SUBSET Row]
    /\ held \in [Worker -> SUBSET Row]
    /\ known \in [Worker -> SUBSET Token]
    /\ ended \subseteq Token
    /\ burned \subseteq Token
    /\ lost \subseteq Token

-----------------------------------------------------------------------------
(* Queries                                                                 *)

Exists(r) == owner[r] # None

FamilyTokens(f) == {t \in Token : family[t] = f}

FamilySessions(f) == {s \in Session : family[s] = f}

LiveSessions(c) == {s \in Session : owner[s] = c /\ s \notin revoked}

FamiliesOf(c, kind) == {family[r] : r \in {x \in kind : owner[x] = c}}

\* Marking rows revoked makes dirty only those whose loaded value was false.
Marked(w, rows) == rows \ (revoked \cup held[w])

\* The row locks of the other transactions let w write these rows.
Unlocked(w, rows) == \A v \in Worker \ {w} : held[v] \cap rows = {}

-----------------------------------------------------------------------------
(* Steps shared by the operations                                          *)

\* An autoflush of w that writes `rows`.
Flush(w, rows) ==
    /\ Unlocked(w, rows)
    /\ held' = [held EXCEPT ![w] = @ \cup rows]

\* The request is answered, or its transaction rolled back.
Done(w) ==
    /\ pc' = [pc EXCEPT ![w] = "idle"]
    /\ cred' = [cred EXCEPT ![w] = None]
    /\ tok' = [tok EXCEPT ![w] = None]
    /\ sess' = [sess EXCEPT ![w] = None]
    /\ todo' = [todo EXCEPT ![w] = {}]
    /\ dirty' = [dirty EXCEPT ![w] = {}]
    /\ held' = [held EXCEPT ![w] = {}]
    /\ known' = [known EXCEPT ![w] = {}]

\* The commit of the revocations of w.
CommitRevocations(w) ==
    /\ Unlocked(w, dirty[w])
    /\ revoked' = revoked \cup held[w] \cup dirty[w]
    /\ ended' = ended \cup known[w]

\* Bound: a request that will insert rows starts only while the rows left
\* suffice for it and for the requests under way.
InsertsToken == {v \in Worker : pc[v] \in {"signin", "superseding", "claimed", "checked", "rotating"}}

InsertsSession ==
    {v \in InsertsToken : tok[v] = None \/ FamilySessions(family[tok[v]]) = {}}

RoomForToken == Cardinality({t \in Token : ~Exists(t)}) > Cardinality(InsertsToken)

RoomForSession == Cardinality({s \in Session : ~Exists(s)}) > Cardinality(InsertsSession)

\* Mutant: the two foreign keys swapped.
InsertTokenAndSessionSwapped(t, s, c, f) ==
    /\ ~Exists(t)
    /\ ~Exists(s)
    /\ owner' = [owner EXCEPT ![t] = f, ![s] = f]
    /\ family' = [family EXCEPT ![t] = c, ![s] = c]

InsertToken(t, c, f) ==
    /\ ~Exists(t)
    /\ owner' = [owner EXCEPT ![t] = c]
    /\ family' = [family EXCEPT ![t] = f]

InsertTokenAndSession(t, s, c, f) ==
    /\ ~Exists(t)
    /\ ~Exists(s)
    /\ owner' = [owner EXCEPT ![t] = c, ![s] = c]
    /\ family' = [family EXCEPT ![t] = f, ![s] = f]

-----------------------------------------------------------------------------
(* Sign-in: the tail of verify_challenge, then issue_tokens                *)

\* The code was right: the challenge is consumed and that commit is over.
\* The families with a session are those this sign-in is to supersede.
BeginSignIn(w, c) ==
    /\ pc[w] = "idle"
    /\ c \notin disabled
    /\ RoomForToken /\ RoomForSession
    /\ pc' = [pc EXCEPT ![w] = "signin"]
    /\ cred' = [cred EXCEPT ![w] = c]
    /\ known' = [known EXCEPT ![w] = IF SingleSession THEN FamiliesOf(c, Session) ELSE {}]
    /\ UNCHANGED <<database, tok, sess, todo, dirty, held, ended, burned, lost>>

\* Mutant: the sessions of the credential are left alone.
SelectNoneSuperseded(w) ==
    /\ pc[w] = "signin"
    /\ pc' = [pc EXCEPT ![w] = "superseding"]
    /\ UNCHANGED <<database, cred, tok, sess, todo, dirty, held, history>>

\* revoke_sessions_for_credential: SELECT the live sessions.
SelectSuperseded(w) ==
    /\ pc[w] = "signin"
    /\ todo' = [todo EXCEPT ![w] = IF SingleSession THEN LiveSessions(cred[w]) ELSE {}]
    /\ pc' = [pc EXCEPT ![w] = "superseding"]
    /\ UNCHANGED <<database, cred, tok, sess, dirty, held, history>>

\* One turn of its loop: the session is marked, and the SELECT of the family
\* writes it together with the marks of the turn before.
RevokeSession(w, s) ==
    /\ pc[w] \in {"superseding", "ending"}
    /\ s \in todo[w]
    /\ Flush(w, dirty[w] \cup {s})
    /\ todo' = [todo EXCEPT ![w] = @ \ {s}]
    /\ dirty' = [dirty EXCEPT ![w] = Marked(w, FamilyTokens(family[s]))]
    /\ UNCHANGED <<database, pc, cred, tok, sess, history>>

\* The session, its first token and the evictions: one commit.
CommitSignIn(w, t, s) ==
    /\ pc[w] = "superseding"
    /\ todo[w] = {}
    /\ CommitRevocations(w)
    /\ InsertTokenAndSession(t, s, cred[w], t)
    /\ Done(w)
    /\ UNCHANGED <<rotated, expired, disabled, burned, lost>>

-----------------------------------------------------------------------------
(* Refresh: rotate_refresh                                                 *)

\* Mutant: the token is read, then written, without waiting for its row.
ClaimTokenUnlocked(w, t) ==
    /\ pc[w] = "idle"
    /\ Exists(t)
    /\ t \notin rotated \cup revoked
    /\ held' = [held EXCEPT ![w] = @ \cup {t}]
    /\ pc' = [pc EXCEPT ![w] = "claimed"]
    /\ tok' = [tok EXCEPT ![w] = t]
    /\ UNCHANGED <<database, cred, sess, todo, dirty, history>>

\* The conditional UPDATE matched: it waits for the row lock, then owns it.
ClaimToken(w, t) ==
    /\ pc[w] = "idle"
    /\ Exists(t)
    /\ t \notin rotated \cup revoked
    /\ RoomForToken /\ (FamilySessions(family[t]) = {} => RoomForSession)
    /\ Flush(w, {t})
    /\ pc' = [pc EXCEPT ![w] = "claimed"]
    /\ tok' = [tok EXCEPT ![w] = t]
    /\ UNCHANGED <<database, cred, sess, todo, dirty, history>>

\* Mutant: a refusal leaves the transaction, and its row lock, open.
RefuseRefreshOpen(w) ==
    /\ pc[w] = "claimed"
    /\ \/ tok[w] \in expired
       \/ owner[tok[w]] \in disabled
       \/ \E s \in FamilySessions(family[tok[w]]) : s \in revoked
    /\ pc' = [pc EXCEPT ![w] = "idle"]
    /\ UNCHANGED <<database, cred, tok, sess, todo, dirty, held, history>>

\* The refusals after the claim roll it back.
RefuseRefresh(w) ==
    /\ pc[w] = "claimed"
    /\ \/ tok[w] \in expired
       \/ owner[tok[w]] \in disabled
       \/ \E s \in FamilySessions(family[tok[w]]) : s \in revoked
    /\ Done(w)
    /\ UNCHANGED <<database, ended, burned, lost>>

\* Mutant: an evicted device is not refused.
AcceptRefreshOfEnded(w) ==
    /\ pc[w] = "claimed"
    /\ tok[w] \notin expired
    /\ owner[tok[w]] \notin disabled
    /\ \E s \in FamilySessions(family[tok[w]]) : sess' = [sess EXCEPT ![w] = s]
    /\ cred' = [cred EXCEPT ![w] = owner[tok[w]]]
    /\ pc' = [pc EXCEPT ![w] = "checked"]
    /\ UNCHANGED <<database, tok, todo, dirty, held, history>>

\* The first session of the family, if there is one, is live.
AcceptRefresh(w) ==
    /\ pc[w] = "claimed"
    /\ tok[w] \notin expired
    /\ owner[tok[w]] \notin disabled
    /\ LET f == family[tok[w]]
       IN  \/ /\ FamilySessions(f) = {}
              /\ sess' = [sess EXCEPT ![w] = None]
           \/ \E s \in FamilySessions(f) \ revoked : sess' = [sess EXCEPT ![w] = s]
    /\ cred' = [cred EXCEPT ![w] = owner[tok[w]]]
    /\ pc' = [pc EXCEPT ![w] = "checked"]
    /\ UNCHANGED <<database, tok, todo, dirty, held, history>>

\* Mutant: the claim is not persisted.
CommitClaimUnspent(w) ==
    /\ pc[w] = "checked"
    /\ held' = [held EXCEPT ![w] = {}]
    /\ pc' = [pc EXCEPT ![w] = "rotating"]
    /\ UNCHANGED <<database, cred, tok, sess, todo, dirty, history>>

CommitClaim(w) ==
    /\ pc[w] = "checked"
    /\ rotated' = rotated \cup {tok[w]}
    /\ held' = [held EXCEPT ![w] = {}]
    /\ pc' = [pc EXCEPT ![w] = "rotating"]
    /\ UNCHANGED <<owner, family, revoked, expired, disabled,
                   cred, tok, sess, todo, dirty, history>>

\* issue_tokens with the session read before the claim was committed: it is
\* not looked at again, only its last_seen_at is written.
IssueSuccessor(w, t) ==
    /\ pc[w] = "rotating"
    /\ sess[w] # None
    /\ Unlocked(w, {sess[w]})
    /\ InsertToken(t, cred[w], family[tok[w]])
    /\ Done(w)
    /\ UNCHANGED <<rotated, revoked, expired, disabled, ended, burned, lost>>

\* A family older than the sessions table is given a session, evicting nobody.
AdoptFamily(w, t, s) ==
    /\ pc[w] = "rotating"
    /\ sess[w] = None
    /\ InsertTokenAndSession(t, s, cred[w], family[tok[w]])
    /\ Done(w)
    /\ UNCHANGED <<rotated, revoked, expired, disabled, ended, burned, lost>>

\* Mutant: only the token presented is revoked.
DetectReuseOfOne(w, t) ==
    /\ pc[w] = "idle"
    /\ Exists(t)
    /\ t \in rotated \cup revoked
    /\ pc' = [pc EXCEPT ![w] = "burning"]
    /\ tok' = [tok EXCEPT ![w] = t]
    /\ dirty' = [dirty EXCEPT ![w] = Marked(w, {t})]
    /\ UNCHANGED <<database, cred, sess, todo, held, history>>

\* The UPDATE matched nothing: the token was spent or revoked before.
DetectReuse(w, t) ==
    /\ pc[w] = "idle"
    /\ Exists(t)
    /\ t \in rotated \cup revoked
    /\ pc' = [pc EXCEPT ![w] = "burning"]
    /\ tok' = [tok EXCEPT ![w] = t]
    /\ dirty' = [dirty EXCEPT ![w] = Marked(w, FamilyTokens(family[t]))]
    /\ UNCHANGED <<database, cred, sess, todo, held, history>>

BurnFamily(w) ==
    /\ pc[w] = "burning"
    /\ CommitRevocations(w)
    /\ burned' = burned \cup {family[tok[w]]}
    /\ Done(w)
    /\ UNCHANGED <<owner, family, rotated, expired, disabled, lost>>

-----------------------------------------------------------------------------
(* Logout: revoke_by_raw                                                   *)

\* Whatever the state of the token presented, its family is revoked.
BeginLogout(w, t) ==
    /\ pc[w] = "idle"
    /\ Exists(t)
    /\ pc' = [pc EXCEPT ![w] = "logout"]
    /\ tok' = [tok EXCEPT ![w] = t]
    /\ dirty' = [dirty EXCEPT ![w] = Marked(w, FamilyTokens(family[t]))]
    /\ known' = [known EXCEPT ![w] = {family[t]}]
    /\ UNCHANGED <<database, cred, sess, todo, held, ended, burned, lost>>

\* Mutant: logout ends the refresh family and forgets the session.
LogoutFamilyOnly(w) ==
    /\ pc[w] = "logout"
    /\ Flush(w, dirty[w])
    /\ dirty' = [dirty EXCEPT ![w] = {}]
    /\ pc' = [pc EXCEPT ![w] = "leaving"]
    /\ UNCHANGED <<database, cred, tok, sess, todo, history>>

\* SELECT the first session of the family, and mark it.
LogoutSession(w) ==
    /\ pc[w] = "logout"
    /\ Flush(w, dirty[w])
    /\ LET found == FamilySessions(family[tok[w]])
       IN  \/ /\ found = {}
              /\ dirty' = [dirty EXCEPT ![w] = {}]
           \/ \E s \in found : dirty' = [dirty EXCEPT ![w] = Marked(w, {s})]
    /\ pc' = [pc EXCEPT ![w] = "leaving"]
    /\ UNCHANGED <<database, cred, tok, sess, todo, history>>

CommitLogout(w) ==
    /\ pc[w] = "leaving"
    /\ CommitRevocations(w)
    /\ Done(w)
    /\ UNCHANGED <<owner, family, rotated, expired, disabled, burned, lost>>

-----------------------------------------------------------------------------
(* Ending everything: revoke_all_for_credential and its three callers      *)

BeginEndAll(w, c) ==
    /\ pc[w] = "idle"
    /\ pc' = [pc EXCEPT ![w] = "endTokens"]
    /\ cred' = [cred EXCEPT ![w] = c]
    /\ known' = [known EXCEPT ![w] = FamiliesOf(c, Token)]
    /\ UNCHANGED <<owner, family, rotated, revoked, expired,
                   tok, sess, todo, dirty, held, ended, burned, lost>>

\* revoke_all_by_raw: the token presented names the credential, spent or not.
LogoutAll(w, t) ==
    /\ Exists(t)
    /\ BeginEndAll(w, owner[t])
    /\ UNCHANGED disabled

\* confirm_password_reset, past the commit of the new password.
PasswordReset(w, c) ==
    /\ BeginEndAll(w, c)
    /\ UNCHANGED disabled

\* disable_credential, up to the commit of the flag.
Disable(w, c) ==
    /\ BeginEndAll(w, c)
    /\ disabled' = disabled \cup {c}

SelectTokens(w) ==
    /\ pc[w] = "endTokens"
    /\ dirty' = [dirty EXCEPT ![w] = Marked(w, {t \in Token : owner[t] = cred[w]})]
    /\ pc' = [pc EXCEPT ![w] = "endSessions"]
    /\ UNCHANGED <<database, cred, tok, sess, todo, held, history>>

\* Mutant: the refresh families are ended without the sessions.
SelectNoSessions(w) ==
    /\ pc[w] = "endSessions"
    /\ Flush(w, dirty[w])
    /\ dirty' = [dirty EXCEPT ![w] = {}]
    /\ pc' = [pc EXCEPT ![w] = "ending"]
    /\ UNCHANGED <<database, cred, tok, sess, todo, history>>

\* SELECT the live sessions; the marked tokens are written first.
SelectSessions(w) ==
    /\ pc[w] = "endSessions"
    /\ Flush(w, dirty[w])
    /\ dirty' = [dirty EXCEPT ![w] = {}]
    /\ todo' = [todo EXCEPT ![w] = LiveSessions(cred[w])]
    /\ pc' = [pc EXCEPT ![w] = "ending"]
    /\ UNCHANGED <<database, cred, tok, sess, history>>

CommitEndAll(w) ==
    /\ pc[w] = "ending"
    /\ todo[w] = {}
    /\ CommitRevocations(w)
    /\ Done(w)
    /\ UNCHANGED <<owner, family, rotated, expired, disabled, burned, lost>>

-----------------------------------------------------------------------------
(* The environment                                                         *)

\* A token that is spent or revoked is refused before its age is looked at.
Expire(t) ==
    /\ t \in Expiring
    /\ Exists(t)
    /\ t \notin rotated \cup revoked \cup expired
    /\ expired' = expired \cup {t}
    /\ UNCHANGED <<owner, family, rotated, revoked, disabled, request, history>>

\* The request dies: its open transaction is rolled back, its earlier commits
\* stay.
Abandon(w) ==
    /\ lost' = IF pc[w] = "rotating" THEN lost \cup {family[tok[w]]} ELSE lost
    /\ Done(w)
    /\ UNCHANGED <<database, ended, burned>>

\* The process or its connection fails, or the client goes away.
Crash(w) ==
    /\ pc[w] # "idle"
    /\ Abandon(w)

\* Rows the next flush of w writes.
Wanted(w) ==
    CASE pc[w] \in {"logout", "leaving", "burning", "endSessions"} -> dirty[w]
      [] pc[w] \in {"superseding", "ending"} -> dirty[w] \cup todo[w]
      [] pc[w] = "rotating" -> {sess[w]}
      [] OTHER -> {}

WaitsFor(w, v) == v # w /\ Wanted(w) \cap held[v] # {}

\* PostgreSQL breaks a cycle of waiting transactions by aborting one of them.
DeadlockVictim(w) ==
    /\ \E cycle \in SUBSET Worker :
          /\ w \in cycle
          /\ \A v \in cycle : /\ \E u \in cycle : WaitsFor(v, u)
                              /\ \E u \in cycle : WaitsFor(u, v)
    /\ Abandon(w)

-----------------------------------------------------------------------------
(* The specification                                                       *)

NoRequest ==
    /\ pc = [w \in Worker |-> "idle"]
    /\ cred = [w \in Worker |-> None]
    /\ tok = [w \in Worker |-> None]
    /\ sess = [w \in Worker |-> None]
    /\ todo = [w \in Worker |-> {}]
    /\ dirty = [w \in Worker |-> {}]
    /\ held = [w \in Worker |-> {}]
    /\ known = [w \in Worker |-> {}]

\* No session yet; each legacy token alone in its family.
Init ==
    /\ \E holder \in [Legacy -> Credential] :
          owner = [r \in Row |-> IF r \in Legacy THEN holder[r] ELSE None]
    /\ family = [r \in Row |-> IF r \in Legacy THEN r ELSE None]
    /\ rotated = {}
    /\ revoked = {}
    /\ expired = {}
    /\ disabled = {}
    /\ NoRequest
    /\ ended = {}
    /\ burned = {}
    /\ lost = {}

Begin(w) ==
    \/ \E c \in Credential : BeginSignIn(w, c) \/ PasswordReset(w, c) \/ Disable(w, c)
    \/ \E t \in Token : \/ ClaimToken(w, t) \/ DetectReuse(w, t)
                        \/ BeginLogout(w, t) \/ LogoutAll(w, t)

Step(w) ==
    \/ SelectSuperseded(w)
    \/ \E s \in Session : RevokeSession(w, s)
    \/ \E t \in Token, s \in Session : CommitSignIn(w, t, s) \/ AdoptFamily(w, t, s)
    \/ RefuseRefresh(w) \/ AcceptRefresh(w) \/ CommitClaim(w)
    \/ \E t \in Token : IssueSuccessor(w, t)
    \/ BurnFamily(w)
    \/ LogoutSession(w) \/ CommitLogout(w)
    \/ SelectTokens(w) \/ SelectSessions(w) \/ CommitEndAll(w)

Next ==
    \/ \E w \in Worker : Begin(w) \/ Step(w) \/ Crash(w) \/ DeadlockVictim(w)
    \/ \E t \in Token : Expire(t)

Spec == Init /\ [][Next]_vars

\* The event loop runs every request to its end, a row lock is granted to its
\* waiters in turn, and the deadlock detector runs.  Nothing makes a new
\* request, a crash or an expiry happen.
Fairness == \A w \in Worker : SF_vars(Step(w)) /\ WF_vars(DeadlockVictim(w))

FairSpec == Spec /\ Fairness

-----------------------------------------------------------------------------
(* What must hold                                                          *)

\* A request between the two commits of a rotation.
Rotating(w) == pc[w] = "rotating"

RotatingFamily(w) == family[tok[w]]

Unspent(f) == FamilyTokens(f) \ rotated

\* Rotation keeps a family a chain: rotate_refresh commits the claim and the
\* successor apart, and still a family never has two unspent tokens, nor one
\* besides a rotation in flight, nor two rotations in flight.
RotationIsLinear ==
    /\ \A t, u \in Token : Exists(t) /\ u \in Unspent(family[t]) /\ t \notin rotated => t = u
    /\ \A w \in Worker : Rotating(w) => Unspent(RotatingFamily(w)) = {}
    /\ \A v, w \in Worker :
          Rotating(v) /\ Rotating(w) /\ RotatingFamily(v) = RotatingFamily(w) => v = w

Chain ==
    INSTANCE RefreshChain WITH chain <- [t \in Token |-> family[t]], spent <- rotated

\* The rotation of one family, whatever requests, crashes and deadlocks it meets,
\* looks like one request at a time spending the last token and adding the next.
IsRefreshChain == Chain!Spec

\* _get_session_by_family takes the first row it finds: a family never has a
\* second session, although the adoption of a legacy family inserts one after
\* a check made in an earlier transaction, and both belong to one account.
OneSessionPerFamily ==
    \A s \in Session : Exists(s) =>
        /\ FamilySessions(family[s]) = {s}
        /\ \A t \in FamilyTokens(family[s]) : owner[t] = owner[s]

\* What logout, logout-all, reset, disable and supersession were asked to end
\* is not live for introspection once they have committed, whatever was being
\* refreshed meanwhile.  (A legacy family may be adopted afterwards.)
EndedSessionsAreDead ==
    \A s \in Session : family[s] \in ended \ Legacy => s \in revoked

\* "An ended session cannot be refreshed back to life": rotate_refresh accepts
\* no token of an ended family, not even one inserted after its tokens were
\* selected for revocation.
EndedStaysEnded ==
    [][\A w \in Worker :
          pc[w] = "claimed" /\ pc'[w] = "checked" => family[tok[w]] \notin ended \ Legacy]_vars

\* No session is left signed in with nothing to refresh it: unless a reuse was
\* answered in its family or a rotation died half-way, a live session has a
\* token that is neither spent nor revoked, or one is about to be inserted.
LiveSessionKeepsToken ==
    \A s \in Session : Exists(s) /\ s \notin revoked /\ family[s] \notin burned \cup lost =>
        \/ Unspent(family[s]) \ revoked # {}
        \/ \E w \in Worker : Rotating(w) /\ RotatingFamily(w) = family[s]

\* README: refresh reuse revokes the whole token family.
BurnedFamilyIsRevoked ==
    \A t \in Token : Exists(t) /\ family[t] \in burned => t \in rotated \cup revoked

\* README: signing in ends every other session of the credential.
OneLiveSession ==
    SingleSession => \A c \in Credential : Cardinality(LiveSessions(c)) <= 1

\* README: a session ends when the account is disabled.  Once no request of
\* the account is under way, a disabled account has no live session.
DisabledIsSignedOut ==
    \A c \in disabled :
        (\A w \in Worker : cred[w] # c) => LiveSessions(c) = {}

\* Row-lock cycles between sign-in and logout notwithstanding, every request
\* comes to its end.
EveryRequestEnds ==
    \A w \in Worker : (pc[w] # "idle") ~> (pc[w] = "idle")
=============================================================================
