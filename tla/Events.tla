------------------------------- MODULE Events -------------------------------
(***************************************************************************)
(* Identity events (events.py 57-82) and the two admin operations that     *)
(* send them after their commit (services.py 908-924, api.py 350-382), for *)
(* one account.  A receiver is a place in WEBHOOK_ENDPOINTS; it may be     *)
(* late: it has heard an attempt that the service counts as failed.        *)
(*                                                                         *)
(* That an address may be another account's is in Accounts; the sessions   *)
(* that disable_credential ends are in Sessions.                           *)
(***************************************************************************)
EXTENDS Naturals

CONSTANTS
    Address,
    Admin,      \* admin requests in progress
    Endpoints,  \* the number of webhook endpoints
    Attempts,   \* posts to one of them, at the most
    NoAddress   \* no value

ASSUME EventsAssumption ==
    /\ Endpoints \in Nat
    /\ Attempts \in Nat \ {0}
    /\ NoAddress \notin Address

Receiver == 1 .. Endpoints

Kind == {"email.changed", "account.disabled"}

VARIABLES
    address,    \* the account's row
    off,        \* its disabled flag
    act,        \* what a request is about to do
    kind,       \* the event it is about
    loaded,     \* the address its credential was loaded with
    new,        \* the address it is to write
    at,         \* the receiver it posts to
    tries,      \* attempts at it so far
    heard,      \* the address a receiver knows
    told,       \* receivers that know that the account is disabled
    alone,      \* history: changes of address that nothing has overlapped
    excused     \* history: what a receiver missed by its own failure, a crash or an overlap

eventsVars ==
    <<address, off, act, kind, loaded, new, at, tries, heard, told, alone, excused>>

\* The types of the row, the requests and the receivers.
EventsTypeOK ==
    /\ address \in Address
    /\ off \in BOOLEAN
    /\ act \in [Admin -> {"idle", "check", "commit", "end", "emit"}]
    /\ kind \in [Admin -> Kind]
    /\ loaded \in [Admin -> Address \cup {NoAddress}]
    /\ new \in [Admin -> Address \cup {NoAddress}]
    /\ at \in [Admin -> 1 .. Endpoints + 1]
    /\ tries \in [Admin -> 0 .. Attempts - 1]
    /\ heard \in [Receiver -> Address]
    /\ told \subseteq Receiver
    /\ alone \subseteq Admin
    /\ excused \subseteq Receiver \X Kind

row == <<address, off>>
adminRequest == <<kind, loaded, new>>
post == <<at, tries, heard, told>>

Turn(a, next) == act' = [act EXCEPT ![a] = next]

\* What is left of a request that has been answered, or has died.
Over(a) ==
    /\ Turn(a, "idle")
    /\ kind' = [kind EXCEPT ![a] = "email.changed"]
    /\ loaded' = [loaded EXCEPT ![a] = NoAddress]
    /\ new' = [new EXCEPT ![a] = NoAddress]
    /\ at' = [at EXCEPT ![a] = 1]
    /\ tries' = [tries EXCEPT ![a] = 0]
    /\ alone' = alone \ {a}
    /\ UNCHANGED <<row, heard, told>>

-----------------------------------------------------------------------------
(* change_email and disable_credential                                     *)

Changing == {a \in Admin : act[a] # "idle" /\ kind[a] = "email.changed"}

BeginChange(a, e) ==
    /\ act[a] = "idle"
    /\ kind' = [kind EXCEPT ![a] = "email.changed"]
    /\ loaded' = [loaded EXCEPT ![a] = address]
    /\ new' = [new EXCEPT ![a] = e]
    /\ Turn(a, "check")
    /\ IF Changing = {}
       THEN alone' = alone \cup {a} /\ UNCHANGED excused
       ELSE alone' = {} /\ excused' = excused \cup (Receiver \X {"email.changed"})
    /\ UNCHANGED <<row, post>>

\* _get_by_email: the account's own address is taken too.
RefuseAddress(a) ==
    /\ act[a] = "check"
    /\ new[a] = address
    /\ Over(a)
    /\ UNCHANGED excused

PassAddress(a) ==
    /\ act[a] = "check"
    /\ new[a] # address
    /\ Turn(a, "commit")
    /\ UNCHANGED <<row, adminRequest, post, alone, excused>>

\* An attribute set to the value it was loaded with is not written.
CommitAddress(a) ==
    /\ act[a] = "commit"
    /\ address' = IF new[a] = loaded[a] THEN address ELSE new[a]
    /\ Turn(a, "emit")
    /\ UNCHANGED <<off, adminRequest, post, alone, excused>>

DisableCredential(a) ==
    /\ act[a] = "idle"
    /\ kind' = [kind EXCEPT ![a] = "account.disabled"]
    /\ off' = TRUE
    /\ Turn(a, "end")
    /\ UNCHANGED <<address, loaded, new, post, alone, excused>>

\* revoke_all_for_credential.
EndAllSessions(a) ==
    /\ act[a] = "end"
    /\ Turn(a, "emit")
    /\ UNCHANGED <<row, adminRequest, post, alone, excused>>

-----------------------------------------------------------------------------
(* emit                                                                    *)

Posting(a) == act[a] = "emit" /\ at[a] \in Receiver

\* The receiver at its turn learns what the request has to say.  Bound: it does so
\* while the attempt is under way or never; one that works off a post long after it
\* has timed out, and after a later event, is not modelled.
Hears(a) ==
    /\ heard' = IF kind[a] = "email.changed" THEN [heard EXCEPT ![at[a]] = new[a]] ELSE heard
    /\ told' = IF kind[a] = "account.disabled" THEN told \cup {at[a]} ELSE told

NextReceiver(a) ==
    /\ at' = [at EXCEPT ![a] = @ + 1]
    /\ tries' = [tries EXCEPT ![a] = 0]

\* Mutant: the first receiver that takes the event ends the fan-out.
AcceptAndReturn(a) ==
    /\ Posting(a)
    /\ Hears(a)
    /\ at' = [at EXCEPT ![a] = Endpoints + 1]
    /\ tries' = [tries EXCEPT ![a] = 0]
    /\ excused' = IF a \in alone \/ kind[a] = "account.disabled"
                  THEN excused \ {<<at[a], kind[a]>>} ELSE excused
    /\ UNCHANGED <<row, act, adminRequest, alone>>

\* A status under 300.
Accept(a) ==
    /\ Posting(a)
    /\ Hears(a)
    /\ NextReceiver(a)
    /\ excused' = IF a \in alone \/ kind[a] = "account.disabled"
                  THEN excused \ {<<at[a], kind[a]>>} ELSE excused
    /\ UNCHANGED <<row, act, adminRequest, alone>>

\* Mutant: an attempt that times out is not counted.
FailUncounted(a) ==
    /\ Posting(a)
    /\ Hears(a) \/ UNCHANGED <<heard, told>>
    /\ UNCHANGED <<row, act, adminRequest, at, tries, alone, excused>>

\* Mutant: one attempt too many.
FailOnceMore(a) ==
    /\ Posting(a)
    /\ Hears(a) \/ UNCHANGED <<heard, told>>
    /\ IF tries[a] < Attempts
       THEN tries' = [tries EXCEPT ![a] = @ + 1] /\ UNCHANGED <<at, excused>>
       ELSE NextReceiver(a) /\ excused' = excused \cup {<<at[a], kind[a]>>}
    /\ UNCHANGED <<row, act, adminRequest, alone>>

\* Another status, no connection, or no answer in five seconds.
Fail(a) ==
    /\ Posting(a)
    /\ Hears(a) \/ UNCHANGED <<heard, told>>
    /\ IF tries[a] + 1 < Attempts
       THEN tries' = [tries EXCEPT ![a] = @ + 1] /\ UNCHANGED <<at, excused>>
       ELSE NextReceiver(a) /\ excused' = excused \cup {<<at[a], kind[a]>>}
    /\ UNCHANGED <<row, act, adminRequest, alone>>

FinishEmit(a) ==
    /\ act[a] = "emit" /\ at[a] \notin Receiver
    /\ Over(a)
    /\ UNCHANGED excused

-----------------------------------------------------------------------------
\* Receivers to whom the request still owes what it has committed.
Owed(a) ==
    IF act[a] = "end" THEN Receiver
    ELSE IF act[a] = "emit" THEN {r \in Receiver : r >= at[a]} ELSE {}

\* The request dies; nobody takes its event up.
Perish(a) ==
    /\ act[a] # "idle"
    /\ excused' = excused \cup (Owed(a) \X {kind[a]})
    /\ Over(a)

EventsInit ==
    /\ address \in Address
    /\ off = FALSE
    /\ act = [a \in Admin |-> "idle"]
    /\ kind = [a \in Admin |-> "email.changed"]
    /\ loaded = [a \in Admin |-> NoAddress]
    /\ new = [a \in Admin |-> NoAddress]
    /\ at = [a \in Admin |-> 1]
    /\ tries = [a \in Admin |-> 0]
    /\ heard = [r \in Receiver |-> address]
    /\ told = {}
    /\ alone = {}
    /\ excused = {}

Continue(a) ==
    \/ RefuseAddress(a) \/ PassAddress(a) \/ CommitAddress(a) \/ EndAllSessions(a)
    \/ Accept(a) \/ Fail(a) \/ FinishEmit(a)

EventsNext ==
    \E a \in Admin :
        \/ \E e \in Address : BeginChange(a, e)
        \/ DisableCredential(a)
        \/ Continue(a)
        \/ Perish(a)

\* A post ends after five seconds.  db.py sets no timeout for queries: that one comes
\* back, with an error if need be, is assumed.
EventsFairness == \A a \in Admin : WF_eventsVars(Continue(a))

EventsSpec == EventsInit /\ [][EventsNext]_eventsVars /\ EventsFairness

-----------------------------------------------------------------------------
(* What must hold                                                          *)

OnItsWay(r, k) == \E a \in Admin : kind[a] = k /\ r \in Owed(a)

\* "Auth->product identity changes are delivered as best-effort": a receiver that
\* does not know the account's address, or that it is disabled, is about to be
\* told, or failed three times itself, or the change met a crash or another
\* change.  One receiver's failure is never another's excuse, and a retried event
\* never undoes a later one.
ReceiversKeepUp ==
    \A r \in Receiver :
        /\ \/ heard[r] = address
           \/ <<r, "email.changed">> \in excused
           \/ OnItsWay(r, "email.changed")
        /\ off => \/ r \in told
                  \/ <<r, "account.disabled">> \in excused
                  \/ OnItsWay(r, "account.disabled")

\* However the receivers fail, an admin request is answered in the end.
EveryEmitEnds == \A a \in Admin : []<>(act[a] = "idle")
=============================================================================
