# A verification project for the MXTNG Auth Service

TLA+ models of the authentication service in `src/`, checked with TLC on small
instances and, for the theorems listed below, proved with TLAPS for every value
of the constants. Line numbers are those of `src/src/mxtng_auth/services.py`
unless another file is named.

## The system

The service is a FastAPI application over a PostgreSQL database (SQLite in
development). Every HTTP request runs one operation of `services.py` with an
`AsyncSession` of its own (`db.py` 24-26). Requests share nothing but the
database, the in-process rate limiter and the signing key; several requests, in
one process or in several, run at once, and every `await` is a point where
another may run. The hard behaviour is therefore what two operations on one
account do to each other through the rows of `credentials`,
`sign_in_challenges`, `refresh_tokens` and `sessions`.

| Component | State | Operations | Correct when | Modelled |
| --- | --- | --- | --- | --- |
| Sessions and refresh tokens (465-751) | `sessions`, `refresh_tokens` | sign-in, refresh with rotation and reuse detection, logout, logout-all; the tail of reset and of disable | a family is a chain with one usable token and one session; what was ended stays ended; a live session can be refreshed; requests end | `Sessions` |
| Password, lockout, sign-in challenge (211-461) | `failed_attempts`, `locked_until`, `disabled`; `sign_in_challenges` | `authenticate`, `start_challenge`, `resend_challenge`, `verify_challenge` | counters stay under their limits, a lockout is not lost, a used challenge stays used, a new one retires the old | `SignIn` |
| Registration and identity changes (158-207, 874-916) | `credentials` | `create_credential`, `upsert_google_credential`, `change_email` | a retried sign-up returns the same id; a Google identity keeps its account | `Accounts` |
| Password reset (755-822) | `password_reset_tokens` | request, confirm | a token that was used is spent; a request without a mail is on record; a reset ends all sessions | `Resets`; its effect on the lockout and on sessions in `SignIn` and `Sessions` |
| Google handshake (826-870, `google.py`) | `oauth_states` | start, callback | a state is consumed once | `Accounts`; as a first factor, in `SignIn` |
| Rate limiter (`ratelimit.py`) | windows per bucket and address | `hit`, `_sweep` | each bucket and address is judged by its own window, and the dict forgets | `RateLimiter`, which implements `FixedWindow` |
| Mail (`mail.py`) | none | relay, then fallback | what no server has taken is known to have failed; a service that starts has a path | both paths in `Resets`; success or failure in `SignIn`; the check at start in `Startup` |
| Identity events (`events.py`) | none here; what receivers know | up to three attempts per receiver, after the commit | a receiver learns the last state, or there is a failure to blame | `Events` |
| Signing key, start-up, configuration (`signer.py`, `main.py`, `settings.py`) | process-wide signer, key file | judge the settings, load or generate a key, check the mail | replicas and restarts sign with one key; a service that starts can do its work | `Startup` |
| HTTP surface (`api.py`, `schemas.py`) | refresh cookie in the browser | routing, cookies | logout reaches the service with the cookie; an honest browser is not taken for a thief | `Browser` |
| Migrations | schema | upgrade | the schema of the models | not modelled: a linear chain, run before the service starts |

Components interact by direct calls inside one request (`verify_challenge` ends
in `issue_tokens`; `confirm_password_reset` and `disable_credential` end in
`revoke_all_for_credential`), and otherwise only through committed rows. Mail
and events are sent inside the request, after the commit they belong to.

`PROJECT.json` lists every hazard found in the code at its line, with the
properties that cover it or the reason why none does yet.

## Sessions

`Sessions.tla` models the tables `sessions` and `refresh_tokens` and the
requests that work on them. A `Worker` is a request in progress.

*The database* is `owner`, `family`, `rotated`, `revoked`, `expired`,
`disabled`: one function or set per column that a decision depends on. A refresh
family is named by the first token issued in it. Rows are never deleted by the
code.

*The transaction* is what makes the difference between this service and its
sequential reading, so SQLAlchemy's unit of work and PostgreSQL's READ COMMITTED
are explicit. `dirty[w]` holds the rows the request has marked revoked in memory.
The next SELECT writes them first (autoflush): they move to `held[w]`, which
takes their row locks, and the step waits while another request holds one of
them. The commit writes what is left, publishes everything and drops the locks. Only
attributes whose value differs from the one loaded are written (`Marked`). A
crash, or a deadlock victim, loses `dirty` and `held` and keeps earlier commits.
Each operation is cut exactly at the statements where another request can
interleave:

| Operation | Actions |
| --- | --- |
| `verify_challenge` from its commit, `issue_tokens`, `_start_session` | `BeginSignIn`, `SelectSuperseded`, `RevokeSession` for each turn of the loop, `CommitSignIn` |
| `rotate_refresh` | `ClaimToken` (the conditional UPDATE matched) or `DetectReuse` (it did not); `RefuseRefresh` or `AcceptRefresh`; `CommitClaim`; `IssueSuccessor`, or `AdoptFamily` for a family older than the sessions table; `BurnFamily` |
| `revoke_by_raw` | `BeginLogout`, `LogoutSession`, `CommitLogout` |
| `revoke_all_for_credential` | `LogoutAll`, `PasswordReset` or `Disable`, then `SelectTokens`, `SelectSessions`, `RevokeSession`, `CommitEndAll` |
| the environment | `Expire`, `Crash`, `DeadlockVictim` |

`known`, `ended`, `burned` and `lost` are history: no guard reads them. An
unknown token changes nothing and has no action. `last_seen_at`, labels and the
audit log are left out, except that writing `last_seen_at` waits for the
session's row.

What is checked:

- `RotationIsLinear`: a family never has two unspent tokens, nor one besides a
  rotation in flight, nor two rotations in flight. The claim and the successor
  are two commits (680, 623), and a refusal after the claim rolls it back.
- `OneSessionPerFamily`: the adoption of a legacy family (676-690) inserts a
  session after a check made in an earlier transaction; still no family gets two.
- `EndedSessionsAreDead` and `EndedStaysEnded`: a session that logout,
  logout-all, reset, disable or supersession was asked to end is dead for
  introspection after the commit, and no token of its family is accepted again,
  not even one inserted after the tokens had been selected. Legacy families are
  excluded: a logout between the two commits of their adoption does not reach
  the session that is then inserted.
- `LiveSessionKeepsToken`: no session is left signed in with nothing to refresh
  it, unless a reuse was answered in its family or a rotation died half-way.
- `EveryRequestEnds`: sign-in locks sessions before tokens and logout the other
  way round; requests end all the same.
- `IsRefreshChain`: what all this promises of refresh tokens is `RefreshChain`,
  an abstract specification of three actions: a token starts a family, is spent,
  or succeeds to a family whose tokens are all spent. `Sessions` implements it
  with `chain` the column `family` and `spent` the column `rotated`: claims that
  are refused or crash, successors in flight, adoptions and burnt families are
  all stutters or one of the three.

Three sentences of the documentation do not hold and have a run each whose
counterexample has no crash and no failure in it: `BurnedFamilyIsRevoked`,
`OneLiveSession`, `DisabledIsSignedOut` (see the findings below). `SessionsBoth`
says how far they do hold. Its `BothSpec` is `Spec` where the variable `raceless`,
which never changes, is FALSE; where it is TRUE, `NoRace` rules out two
overlapping sign-ins of one account, a session inserted by a sign-in, or by the
adoption of a legacy family, that the account's disabling has overtaken, a
refresh of a family in which a reuse is being answered, and two requests at once
that end the sessions of a disabled account; and `RacelessNext` lets no request
die between the two commits of a disable. Everything else overlaps, dies and
expires as in `Spec`, and there `RacelessReuseBurns`, `RacelessSignInSupersedes`
and `RacelessDisableSignsOut` are the three sentences.

## SignIn

`SignIn.tla` models one account: `failed`, `lock` and `disabled` are the columns
of its credential, `challenge` its rows of `sign_in_challenges`. Each operation
loads rows, awaits, computes from what it loaded, and writes at its commit; what
is loaded is in `seen` and `copy`. `Written` is again the rule that an unchanged
attribute is not written, on which `LockSurvives` rests: a success sets
`locked_until = None`, but a request that had loaded NULL writes nothing.

| Operation | Actions |
| --- | --- |
| `authenticate` | `LoadPassword`, `WrongPassword` or `RightPassword` |
| the Google callback | `GoogleFirstFactor` |
| `start_challenge` | `SelectChallenges`, `CreateChallenge`, `MailCode` or `FailFirstMail` |
| `resend_challenge` | `LoadResend`, `CommitResend`, `MailCode` or `FailResentMail` |
| `verify_challenge` | `LoadChallenge`, `RefuseVerify` or `CheckCode`, `WrongCode` or `RightCode` |
| `confirm_password_reset`, first commit | `LoadReset`, `CommitReset` |
| the environment | `LockLapses`, `Elapse`, `Disable`, `Crash` |

After `RightCode` the request goes on as `BeginSignIn` of `Sessions`, after
`CommitReset` as `PasswordReset`, after the commit of the flag in
`disable_credential` as `Disable`. Time is a choice of the environment: a lock
lapses and a code ages at any moment, from under the resend cooldown to open,
expired, and too old to resend. Digits, hashes and addresses are left out: a
password or a code is right or wrong.

What is checked:

- `CountersUnderLimits`: `failed_attempts` is read, incremented and written
  across awaits (246, 432), so counts are lost; but none is ever committed at its
  limit without the lock, or a challenge with its guesses used up left open.
- `LiveChallengeIsMailed`: whatever resends overlap, the code in force of a
  challenge that is not consumed has been mailed, or is being mailed by the
  request that made it, or its resend has failed and said so to its caller, or
  that request died. `owed` is the history: per challenge, the request that has
  yet to deal with its code (`Settle`).
- `GrantedIsSpent`: a challenge that let somebody in is never live again,
  although a resend or a verify that loaded it earlier still writes to its row.
  `SpentChallengesStayOut` says more, of every challenge that is consumed for whatever
  reason: `SignIn` implements `LookThenUse` (see Resets), a challenge being fresh while
  it is not consumed and taken by an answer in progress. It is a theorem; TLC
  agrees on the instance of `sign_in`, but takes more time over it than a run has.
  Neither is single use: two requests with the right code that overlap both get in.
- `NewestChallengeWins`: starting a challenge retires every challenge there was
  when it looked, whatever became of them meanwhile.
- `LockSurvives`: a lockout is not undone by a request under way when it was set.

`GuessBudget`, from the docstring of `verify_challenge`, does not hold. It does
in `SignInBoth` where `strict` is TRUE: no right password clears a count that has
wrong codes in it (`ClearsGuesses`) and no two requests have the count loaded at
once (`OneAtATime`): the budget is a matter of these two and of nothing else, however
challenges, resends, lockouts and resets mix.

## Accounts

`Accounts.tla` models the table `credentials` as identities see it (`credential`:
address, Google identity, idempotency key) and `oauth_states` (`oauth`). A
request asks for a row (`want`), looks for others in one query after another,
and inserts or updates; what it has loaded is in `found` and `copy`. Between two
queries anything may be committed. The unique indexes on the address and on the
Google identity are the only second look (`Admits`), and the error they raise is
handled by nothing (`IndexRefuses`); the index on the key is not unique. Each
operation commits right after its one statement that writes, and no two of them
can wait for each other, so statement and commit are one step.

| Operation | Actions |
| --- | --- |
| `create_credential` | `BeginSignUp`, `Replay` or `NoReplay`, `NoCollision`, `AddressIsFree`, `Insert`; `Refuse` |
| `issue_oauth_state` | `IssueState` |
| `consume_oauth_state` and `exchange_code` | `Callback`; what is refused changes nothing |
| `upsert_google_credential` | `KnownIdentity` or `NewIdentity`; `KnownAddress`, `Link`, or `NewAddress`, `Insert` |
| `change_email` | `BeginChange`, `AddressIsFree`, `Rename`; `Refuse` |
| the environment | `ExpireState`, `Crash` (also Google failing, or not having verified the address) |

Addresses are normalised ones. Which addresses Google has verified for an
identity is the constant `Addresses`; two identities may share one, at different
times. `answers`, `led`, `displaced`, `renamed` and `passed` are history.

What is checked:

- `OneAnswerPerKey`: a sign-up retried with its key is never answered with a
  second account, whatever overlaps. It may be refused or fail: a retry that
  overlaps with the first attempt is told of a collision that is its own.
- `IdentityKeepsAccount`: a Google identity is led to one account for life, until
  another identity with the account's address is linked in its place. The look-up
  by address is stale when `Link` or `Insert` writes; both indexes are needed.
- `StatePassesOnce`: the conditional UPDATE of `consume_oauth_state`.

`KeyNamesOneAccount`, from a comment in `create_credential`, does not hold. It
does in `AccountsBoth` where `inTurn` is TRUE: two sign-ups under one key do not overlap
(`OneSignUpPerKey`) and all else may: the missing index is all there is to it.

## RateLimiter

The limiter is a dict of windows, one per bucket and address, under a lock. The
dependency that calls `hit` (`ratelimit.py` 99-106) awaits nothing, so a call is
one action: `OpenWindow` or `CountRequest`, each with the sweep it begins with
(`Swept`, `LastSweep`). `Tick` is the clock: times are kept as ages, the age of
the last sweep (`sinceSweep`) included, and stop growing where nothing tells
them apart. `sinceAdmit` is history: for each slot, how long ago the last
`2 * Ceiling + 1` requests were let through. Limits are read at each request and modelled
as constants; the length of the window is positive.

`FixedWindow` is what callers are promised: every slot has a window of its own
and there is no sweep at all. `ImplementsFixedWindow` shows the limiter to be
that, with `meter` the windows that are not finished (`OpenWindows`). The sweep
is run by whichever request finds it due, for every slot at once, so what it
could break is the count of somebody else's slot. `AtMostTwiceTheCeiling` is the
price of a fixed window: of any `2 * Ceiling + 1` requests let through in a row
the first is at least a window older than the last. `NothingLingers`
is `_sweep`'s "so an IP-keyed dict cannot grow unbounded": after a request no
entry is as old as two windows.

## Resets

`Resets.tla` follows reset tokens (`reset`, the rows of
`password_reset_tokens`; `stale`, those past `expires_at`) from their issue to
their use, with the mail in between. A `Mailer` is a request in progress, cut
where it commits and where it waits for a mail server. A server may be late: it
then has the mail (`inbox`) although the request counts a failure and goes on to
the other path. `paths` are the mail paths of the settings.

| Operation | Actions |
| --- | --- |
| `request_password_reset` | `IssueReset`, then the mail, then `Report` (the audit row of `MailUndeliverable`) |
| `mail.send` | `RelayTakes` or `RelayFails`, then `FallbackTakes` or `FallbackFails` |
| `confirm_password_reset` | `LoadReset`, `ChangePassword`, `EndTheSessions` |
| the environment | `GrowStale`, `Die` |

What is checked:

- `ResetTokensAreSingleUse`, which the model of the table, the docstring and the
  mail promise, does not hold: 808 reads the token and 813-819 write it later, so of
  two confirmations that overlap both change the password. See the findings.
- `SpentTokensStayOut` is what holds instead: `Resets` implements `LookThenUse`. A
  secret is `fresh` until it is used or withdrawn and `out` for ever after, and a
  request gets through only by one that it has found fresh (`taken`). This is less
  than single use, as several requests may have found it fresh. The mail, the age of
  a token and the end of the sessions are stutters. `changed`, and `before` for the
  theorem `SpentTokensAreRefused`, are history; that theorem is of confirmations
  which begin after the token has changed a password.
- `UndeliveredIsReported`: a token that no server has taken ends as an audit row,
  unless its request died (`dropped`). The caller is told nothing either way, so
  the row is all there is to see. A code that is sent twice, once by a relay
  that was late, is allowed.

`LoadReset` and `CommitReset` of `SignIn` are the same confirmation as it meets
the lockout, `PasswordReset` of `Sessions` as it ends the sessions.

## Events

`Events.tla` models `events.emit` under its two callers, for one account:
`address` and `off` are its row, `heard` and `told` what each receiver knows of
it. An admin request posts to one receiver after the other (`at`), up to
`Attempts` times (`tries`); a receiver may have heard an attempt that the service
counts as failed. It hears at the moment of the attempt: a receiver that works off a
post which timed out only after a later event is not modelled, and such a delay could
undo the later one. `alone` and `excused` are history.

| Operation | Actions |
| --- | --- |
| `change_email` | `BeginChange`, `RefuseAddress` or `PassAddress`, `CommitAddress` |
| `disable_credential` | `DisableCredential`, `EndAllSessions` |
| `emit` | `Accept` or `Fail` for each attempt, `FinishEmit` |
| the environment | `Perish` |

`RefuseAddress` is the collision with the account's own address, the one this
module can see; other accounts are in `Accounts`.

What is checked:

- `ReceiversKeepUp`: what a receiver does not know of the account is on its way
  to it, or was lost by the receiver's own failure, a crash, or two changes of
  address that overlapped, whose events may arrive in the order opposite to
  their commits. The failure of one receiver is no excuse for another, and each
  excuse ends with the next event that arrives undisturbed.
- `EveryEmitEnds`: an admin request is answered in the end.

## Startup

`Startup.tla` takes each replica (`Process`) from the environment to serving, and
back by `Stop` from wherever it is. `conf` is the settings, one record in which a
secret is unset, published (a placeholder of the repository) or private, and the
switches refused outside development are a set; `keyFile` is the file at
`PRIVATE_KEY_PATH`, shared by the replicas; `signer` the key a process has in
hand. `signed`, `made` and `raced` are history.

| Code | Actions |
| --- | --- |
| the validators of `Settings` | `ReadSettings` |
| `from_settings` | `LoadKey`, `RefuseWithoutKey`, or `MakeKey`, `OpenKeyFile`, `WriteKeyFile` (`write_text` truncates, then fills) |
| `check_mail_configuration`, and the key set published | `CheckMail` |
| the environment | `Stop` |

What is checked:

- `OneKeyPerDeployment`: everything the replicas of a deployment ever sign,
  restarts included, is signed with one key, so any of them verifies it. Only two
  development processes that start together on no file each keep a key of their
  own (`raced`).
- `ServingCanDeliver`: what settings and mail check let through to serve outside
  development has a mail path with its secret, and the secret of its events,
  without which `emit` drops them.
- `ServedStartsAgain`: a deployment that has served is not refused at a later start,
  but for one case, which the formula names: in development two processes have both
  found no file (`raced`), one serves with the key it wrote, and the other is killed
  in `write_text`, which has truncated that key. The file is then torn, and every
  start on it is refused, that of the first process included. Anywhere else, and
  wherever a process is killed, the next one starts.

`init_models` (`main.py` 82-83), which creates missing tables in development, is left
out: it neither reads nor writes anything of the above.

## Browser

`Browser.tla` models one browser and the refresh cookie: tabs that share the jar
(`jar`), each with at most one request under way (`exchange`), answered out of
order or never; and the rule by which a cookie with a path goes to a route
(`Reaches`). What a request does to the database is one step here (`familyOf`,
`spent`, `ended`, `burned`); `Sessions` has the transactions it is made of. One
session per account, the default of the settings, is assumed (`SignInServed`).

| Code | Actions |
| --- | --- |
| the browser | `Send`, `Receive`, `Lose` |
| `login_verify` and `_set_refresh_cookie` | `SignInServed` |
| `refresh` | `RefreshServed`, `ReuseServed`, `MissingServed` |
| `logout`, `logout_all` | `LogoutServed`, `LogoutAllServed` |
| other devices, resets, disabling | `EndElsewhere` |

`KeepCookie` is the answer that sets nothing. It is also that of a logout:
`_clear_refresh_cookie` writes to the injected response, and FastAPI does not
send that one's headers when the handler returns a `Response` of its own.

What is checked, with `mishap` and `out` as history:

- `HonestBrowserIsNotBurned`: reuse detection does not fire on a browser that uses
  one tab at a time and loses no answer. Two tabs that refresh at once, or a
  lost answer, do set it off.
- `LogoutEndsWhereItReaches`: with a cookie path that reaches the logout routes,
  nothing left in the jar after the answer opens a session, whatever refresh the
  logout overtook. The logout does not clear the cookie; ending the session is
  all it does.

With the default path, `LogoutEndsSession` does not hold: see the findings.

## MCEdges and MCProgress: several components in one run

`Accounts`, `RateLimiter`, `Startup`, `Browser` and `Resets` share no state with
each other. `MCEdges` EXTENDS all five and checks them in one run: the variable
`picked` names the one that moves, and the other four stay at an initial state.
So the states of the run are those of each component one after the other, and
every property is checked on all the states of its own component; in the states of
another it is asked of an initial state only. A stuttering component falsifies no
action property. `MCProgress` does the same with `Sessions` and `Events`, the two
that have fairness; the liveness property of the one that rests is met, because its
requests stay idle. `Rest` is the step of a component that has no rows or keys left
and no request under way; `Accounts` and `Sessions` do not have it, so there a
deadlock would be reported.

## Runs

All runs finish within four minutes with two workers. The bounds were
grown until they stopped revealing new behaviours or reached that time.

| Run | Instance | Shows |
| --- | --- | --- |
| `sessions` | 1 account, 2 sessions, 4 tokens, 2 requests, with the races and without | the safety properties above, and the three sentences without the races. Two requests are what every race of this code takes; two sessions give an old and a new one, four tokens let a family rotate twice beside another |
| `sessions_legacy` | 1 account, 2 sessions, 3 tokens, one of them legacy and expiring, no supersession | the rollout of the sessions table, concurrent devices allowed: `OneSessionPerFamily`, which needs an adoption to fail, and `IsRefreshChain`, of which `RotationIsLinear` is the part that can be seen in one state |
| `progress` | `Sessions` with 1 account, 2 sessions, 2 tokens, 2 requests; `Events` with 2 addresses, 2 admin requests, 2 receivers, 2 attempts; no symmetry | `EveryRequestEnds`: two sessions with their tokens are what the lock cycle takes; `EveryEmitEnds` and `ReceiversKeepUp` |
| `sign_in` | 2 challenges, 2 requests, limits 2, with the loopholes and without | the properties of `SignIn`, and the budget of guesses with its loopholes closed; with limits of two every counter can be below, at and, with a fault, over its limit |
| `edges` | the five components of `MCEdges`, below | the refinements of `FixedWindow` and `LookThenUse`, one account per key when sign-ups take turns, and the other properties of the five modules |
| `reuse_race`, `overlapping_sign_ins`, `disable_race` | 1 account, 2 requests, no crash and no expiry (`NothingFails`) | a violation each |
| `key_race` | `Accounts` as in `edges`, 1 state | a violation with two overlapping sign-ups and nothing else |
| `guess_budget` | 1 request at a time, 2 challenges, limits 3 | a violation with no concurrency at all |
| `logout_path` | 1 tab, 2 tokens, the default cookie path | a violation with one tab and no answer lost |
| `single_use` | `Resets` as in `edges`, no crash, no expiry and no failed mail (`NothingFails`) | a violation with two overlapping confirmations and nothing else |

`MCSessionsBoth`, `MCSignInBoth` and, for `Accounts`, `MCEdges` check the specification of
the code and its restriction in one run: the properties of the component are
asked of all behaviours, those of the restriction where its flag is TRUE. In `sign_in` a
VIEW leaves the history counter of wrong codes out of the states of the first,
where nothing reads it; in `edges` one leaves the history of `Accounts` out where
sign-ups are in turn, since those behaviours are among the others, whose history is
checked. No token expires in `sessions`: an expired token is
refused as one of a disabled account is, the legacy run has one that expires, and
the theorems have any.

The instances of `edges`:

- `Accounts`: 2 accounts, 2 addresses, 1 key, 2 Google identities that may share an
  address, 3 states, 2 requests, with overlapping sign-ups under a key and without.
  Two addresses let an account leave one and another take it, three states let an
  identity come, be displaced and come back. The CONSTRAINT `Callbacks` is a bound:
  the third state is issued only where sign-ups may overlap and none with a key has
  been answered yet; everything with two states is explored.
- `RateLimiter`: 2 slots, one with ceiling 2 and one with 0, window of 3 ticks. Three
  ticks let a window open before, at and after a sweep and close on either side
  of the next.
- `Startup`: 2 replicas, 2 keys to generate, 896 configurations: all that the
  settings can tell apart, less those that differ only in a part already refused
  or never read. Two replicas are one that races and one that restarts.
- `Browser`: 2 tabs, 3 tokens, the default cookie path and a wider one. Three tokens
  are a rotation and one more sign-in.
- `Resets`: 2 tokens, 2 requests, each choice of mail paths. Two requests are two
  confirmations that overlap, or one beside the mail of another token.

In `progress`, `Events` has 2 attempts where the code has 3: a first and a last one.
The theorems have any number.

Bounds: `Token`, `Session` and `Challenge` are the rows there may be; a request
that will insert starts only while rows are left for it (`RoomForToken`,
`RoomForSession`), so no request blocks on the bound. `Expiring` names the tokens
that may expire: expiry acts only through `RefuseRefresh`, which `disabled` and
ended sessions also reach, so one legacy token is enough. `GuessCap` stops the
history counter of wrong codes just past the promised budget. In `Accounts` a request with no row left to insert can only
crash. Rows and requests are interchangeable, hence the symmetry;
`progress`, the run with liveness, uses none. `single_use` disables the deadlock
check, since without failures its requests may run out of tokens; no other run does.

### Fairness

`EveryRequestEnds` assumes strong fairness of each request's next step and weak
fairness of `DeadlockVictim`. The event loop resumes every coroutine whose await
is over; PostgreSQL grants a row lock to its waiters in turn, so a request whose
lock becomes free again and again gets it (the strong part); and its deadlock
detector always runs after a second. No fairness is assumed of new requests,
crashes or expiry.

`EveryEmitEnds` assumes weak fairness of each admin request's next step
(`EventsFairness`): every post to a receiver has a timeout of five seconds (`events.py`
73), after which the next attempt or receiver follows. That a receiver ever answers
is not assumed. That a query does is: `db.py` sets no timeout for one.

### What the documentation says and the code does not do

For the first five a passing run and a theorem show what they fail by: without
it, and with everything else left in, they hold.

- `reuse_race`: between the commit of the claim (680) and the insertion of the
  successor (623), another presentation of the token is answered as reuse and
  revokes the family as it then is. The successor is inserted afterwards and is
  not revoked. `README.md` 25: "Refresh reuse revokes the whole token family."
  True of a family in which no refresh is under way at the time
  (`RacelessReuseBurns`).
- `overlapping_sign_ins`: `_start_session` selects the sessions to end without
  locking the account (538), so two sign-ins that overlap leave two live
  sessions. `README.md` 84: "Signing in ends every other session for that
  credential". True of sign-ins that do not overlap
  (`RacelessSignInSupersedes`).
- `disable_race`: `verify_challenge` does not read `disabled` again after its
  commit (454), so a sign-in may open a session after a disable ended them all.
  `README.md` 102-103: "A session ends [...] when the account is disabled."
  True when no sign-in, no adoption of a legacy family and no second disable is
  under way and the disable does not die half-way (`RacelessDisableSignsOut`).
- `key_race`: `create_credential` looks for the key (187) and inserts the row in
  different statements, and no unique index is on the key
  (`d78048847fb2_initial_schema.py` 55), so two sign-ups that overlap get two
  accounts under one key. Lines 185-186: "a genuine collision, not a replay.
  Saying so beats silently minting a second row under one key."
  True of sign-ups that do not overlap (`InTurnKeyNamesOneAccount`).
- `guess_budget`: a right password sets the count of failures to zero (254), and
  each new challenge its own, so the guesses add up from challenge to challenge.
  Lines 415-417: "possession of the password buys a fixed number of guesses in
  total"; `tests/test_sign_in_challenge.py` 86-87: "guessing cannot be reset by
  re-challenging". True as long as no right password clears the count, and
  no count is lost to overlapping requests (`StrictGuessBudget`).
- `single_use`: `confirm_password_reset` reads the token (808) and marks it used at a
  commit with no condition on it (818-820), so two confirmations that overlap both
  change the password. `models.py` 94: "Single-use, short-TTL password reset token";
  756: "Create a single-use reset token and email it."; the mail (`mail.py` 104): "can
  be used once". True of confirmations that do not overlap: `SpentTokensAreRefused`,
  a theorem, refuses whoever begins after the change.
- `logout_path`: the refresh cookie has the path `/v1/token` (`settings.py` 63), so
  a browser does not send it to `/v1/logout` or `/v1/logout-all`. The handlers
  (`api.py` 204-219) find no cookie, end nothing and answer 204, and their
  clearing header is dropped: the cookie stays and refreshes the session.
  `README.md` 102-103: "A session ends [...] on logout, on `logout-all`".
  `tests/test_single_session.py` passes the cookie to the logout by hand.

Other sentences were found not to hold while reading, without a run:

- 263-264, "At most one challenge is live per credential": two sign-ins that start
  together each retire what they saw and leave two live challenges, as two requests
  of the run `sign_in` do. What holds is `NewestChallengeWins`.
- `tests/test_sign_in_challenge.py` 74, `test_code_is_single_use`, tries one answer
  after the other. Two right codes that overlap both get in: `verify_challenge` marks
  the challenge consumed (446) without a condition, as a reset does its token.
- `events.py` "Never raises": `httpx.InvalidURL`, of a malformed endpoint, is no
  `httpx.HTTPError` and is not caught.
- `README.md` 24 speaks of 15-minute access tokens; `settings.py` sets five.
- `README.md` lists `REQUIRE_OTP` and an error that is logged for a default
  `MAIL_RELAY_SECRET`; there is no such setting, and start-up refuses.

## Proofs

Eight modules hold theorems, one per component, named after it (`SessionsProofs`
for `Sessions`, and so on). They prove, from the named assumptions on the
constants alone and for any number of rows, accounts, requests, replicas, tabs
and receivers and any limits:

- `Sessions`: `TypeCorrect`, `RotationStaysLinear`, `SessionsStaySingle`,
  `RotationIsAChain`, `EndedIsDead`, `EndedIsForGood` and `LiveIsRefreshable`.
  The properties are not inductive, and `ChainInv` adds what
  they rest on: every family leads to its first token, which exists and has the
  same owner (`Rooted`); a row is held by one transaction at a time
  (`LocksExclusive`); a request that has claimed a token holds its row, and the
  token is unspent (`ClaimsHold`); and a family of which a refresh has read no
  session has none until that refresh inserts it (`Single`). `LocksStayExclusive`
  carries the row locks over a step by itself, since the others need it before
  and after; then one lemma per kind of action (no insertion, new family, claim,
  commit of a claim, successor) carries the rest. The refinement of
  `RefreshChain` is a step-by-step use of `ChainInv`; `ChainIsElsewhereUntouched`
  covers the actions that write neither `family` nor `rotated`.

  `EndInv` carries the two theorems about ended families. A family that is not
  legacy has a session from its first commit on (`Housed`); a request knows what
  it was asked to end, of which account (`Asked`); and once it has listed the
  sessions (`Listed`), each of those families has its session revoked, written,
  marked or still on the list (`Dying`). With `Single`, that is the only one.
  `LiveInv` carries the third: what a request is about to revoke exists, and a
  token that nobody has spent is only on its way to be revoked together with its
  session, or in a family that burns (`Revokes`); a session inserted in a legacy
  family meets no such token, because the refresh that inserts it has spent them
  all (`Crowns`). `StepKeepsEndInv` and `OthersStillRevoke` say what a step owes to
  the requests that rest.

  `ReuseBurnsTheFamily`, `SignInSupersedes` and `DisablingSignsOut` are theorems of
  the `BothSpec` of `SessionsBoth`, on top of all these (`BothIsRacelessOrNot`).
  `BurnInv`: an answer to a reuse has in hand or revoked every token of its family,
  and no refresh works on a burnt one. `CoverInv`: a request that has listed the
  sessions of an account has every live one dead or dying, whatever refreshes and
  logouts do to them meanwhile; and a disabled account with a live session has a
  request that is ending it. `SignInSupersedes` assumes `Legacy = {}`, which is the
  database once every refresh token from before the sessions table has expired: a
  refresh in an older family inserts a session and supersedes none (676-690). The
  other two hold for any legacy tokens; `AdoptKeepsCoverInv` is the case of that
  session.
- `SignIn`: `TypeCorrect`, `CountersStayUnderLimits`, `GrantedStaysSpent`,
  `LiveChallengeStaysMailed`, `LocksSurvive`, `NewestAlwaysWins` and
  `ConsumedChallengesStayOut`. `Remembers` is
  the strengthening: what a request loaded was under the limits, whatever has
  been committed since, and the row it loaded exists; `GrantedIsConsumed` is
  `GrantedIsSpent` with the row's exact value. For `NewestAlwaysWins` a challenge
  that was there when a request looked is consumed or on its list, and stays so.
  For `ConsumedChallengesStayOut`, the refinement of `LookThenUse`, `ConsumingOne` is the
  commit that retires a challenge, and `Unnoticed` every step that leaves live
  challenges live and consumed ones consumed, resends and ageing codes included.
  `GuessesAreBudgeted` is a theorem of the `BothSpec` of `SignInBoth`. `BudgetInv`: the wrong codes
  since the last lockout, right code or reset are among the failures of the row,
  and what a request has loaded of them is up to date; `CountersUnderLimits` does
  the rest.
- `Accounts`: `TypeCorrect`, `RetriesAgree`, `IdentitiesStay` and
  `StatesPassOnce`. The strengthening relates each history to the rows:
  `IndexesHold` is what the indexes give, `AnswersStand` and `LedStands` say that
  an account once answered with still has the address, or was renamed, and still
  has the identity, or lost it to another; `PassedIsConsumed` ties a state to the
  callback it let through. `KeysInTurnNameOneAccount` is a theorem of
  the `BothSpec` of `AccountsBoth`; `KeyInv`: from a sign-up's look for its key to its insertion no
  account has the key.
- `RateLimiter`: `TypeCorrect`, `DictForgets`, `Refinement` and
  `BurstsAreBounded`. `SweptYoung` is the strengthening for `DictForgets`: until a
  sweep is due again, every entry is younger than a window plus the time since the
  last one. The refinement needs no invariant but
  the types: `SweptDict` says that a sweep leaves the same windows open.
  `AdmitInv` is for `BurstsAreBounded`: with `c` the ceiling and `n` the requests a window has
  let through, the request before those is older than the window, and the one
  `c` further back is past (`Spaced`).
- `Startup`: `StartupTypeIsInvariant`, `ServiceCanDeliver`, `DeploymentHasOneKey` and
  `ServiceStartsAgain`. `JudgedInv`: past `ReadSettings` the settings are ones it
  lets through. `KeyInv`: unless two processes raced, the key of a process past
  loading is the one a process that starts now would find (`Found`), which is
  also all that was ever signed with, and at most one process is about to write
  the file. `ServiceStartsAgain` is `ServedStartsAgain` with the one case it names. `HoldsKey` keeps the types: a process past loading has a key.
- `Browser`: `BrowserTypeIsInvariant`, `HonestBrowserIsSafe` and `LogoutIsFinal`.
  `IssuedInv` and `SetInv` say that the jar and every exchange hold issued tokens;
  `HonestInv`, that without a mishap at most one exchange is under way, its
  request carries what is in the jar, and the jar's token is spent only while an
  answer brings its successor;
  `LogoutInv`, that what is under way after a logout can only bring back its own
  dead family.
- `Resets`: `ResetsTypeIsInvariant`, `SpentTokensAreRefused`, `UsedTokensStayOut`
  and `UndeliveredAreReported`. `SpentInv`: a token that has changed a password is
  used, and a request carries a token that exists (`Carries`).
- `Events`: `EventsTypeIsInvariant` and `ReceiversAreKeptUp`. `Placed` says where a
  request in each phase stands; `ChangeInv`, that a change nothing has overlapped
  is the only one, and tells what is in the row; `KeepUpInv` is the property, one
  receiver and one kind of event at a time.

Only model-checked: `EveryRequestEnds` and `EveryEmitEnds`, since liveness under
fairness is out of the prover's reach. Every other property of a passing run is
a theorem. In the three `Both` modules a restricted step is a step of
the component: every theorem of `Spec` holds of `BothSpec` too, and the proofs
about `BothSpec` use it so.

## Assumptions and omissions

- The database is PostgreSQL under READ COMMITTED, as deployed; SQLite, used in
  development and by the tests, serialises writers and shows fewer behaviours.
- The audit log is written in the same transactions and read by nothing.
- Access tokens are verified offline and live until they expire; the model
  speaks of the session behind them, which is what introspection answers.
- A password reset leaves other unused reset tokens, and a pending challenge of a
  sign-in made with the old password, as they are. The models do the same
  (`ChangePassword`, `CommitReset`); nothing in the repository promises otherwise.
- `email_verified_at` is written and read by nothing; `change_email` keeps it.
- `purge_expired_oauth_states` has no caller; `RateLimiter.reset` and `set_signer`
  are called by the tests only.
- Validity of input, hashing and signing are library calls over pure data.

## Plan

What is left:

1. `Resets` composed with `SignIn`, so that a confirmation runs over a challenge
   that is pending, with a property for what a reset should leave behind, once
   the documentation promises one.
2. `Browser` with `SINGLE_SESSION_PER_CREDENTIAL` off, and with a second browser on
   the account in place of `EndElsewhere`.
