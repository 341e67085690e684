------------------------------ MODULE Accounts ------------------------------
(***************************************************************************)
(* The table of credentials and everything that writes an identity to it:  *)
(* sign-up with its idempotency key, the Google callback with its single-  *)
(* use state, and the administrator's change of an address.                *)
(*                                                                         *)
(* A request looks, awaits, and writes; what it found may be gone by then. *)
(* Only the unique indexes on the address and on the Google identity look  *)
(* again.  An operation commits right after the one statement that writes, *)
(* so the two are one step.                                                *)
(***************************************************************************)
EXTENDS Naturals

CONSTANTS
    Account,    \* the rows there may be
    Email,
    Identity,   \* Google's `sub`
    Key,        \* Idempotency-Key headers
    State,      \* OAuth states there may be
    Worker,     \* concurrent requests
    Addresses,  \* the addresses Google may have verified for an identity
    None

ASSUME ConstantsAssumption ==
    /\ Addresses \in [Identity -> SUBSET Email]
    /\ None \notin Account \cup Email \cup Identity \cup Key
    /\ None \notin [email : Email, sub : Identity \cup {None}, key : Key \cup {None}]

VARIABLES
    credential, \* the rows
    oauth,      \* the rows of oauth_states
    pc,         \* per request: what it awaits
    want,       \* per request: the row it asks for
    found,      \* per request: the account it has loaded
    copy,       \* per request: that account as it was loaded
    answers,    \* history: the account that a sign-up with a key was answered with
    led,        \* history: the accounts an identity has been led to
    displaced,  \* history: the accounts an identity has lost to another one
    renamed,    \* history: the accounts whose address was changed
    passed      \* history: the callbacks a state has let through

request == <<pc, want, found, copy>>
history == <<answers, led, displaced, renamed, passed>>
vars == <<credential, oauth, request, history>>

Row == [email : Email, sub : Identity \cup {None}, key : Key \cup {None}]

Label == {"idle", "replay", "collision", "address", "byIdentity", "byAddress",
          "newAddress", "inserting", "linking", "renaming"}

Exists(a) == credential[a] # None

\* Every row and request has its type, and a request that is to write to an
\* account has loaded it, whatever became of the account since.
TypeOK ==
    /\ credential \in [Account -> Row \cup {None}]
    /\ oauth \in [State -> {"none", "fresh", "expired", "consumed"}]
    /\ pc \in [Worker -> Label]
    /\ want \in [Worker -> Row \cup {None}]
    /\ \A w \in Worker : pc[w] = "idle" <=> want[w] = None
    /\ found \in [Worker -> Account \cup {None}]
    /\ copy \in [Worker -> Row \cup {None}]
    /\ \A w \in Worker : pc[w] \in {"newAddress", "linking", "renaming"} =>
          found[w] # None /\ copy[w] # None /\ Exists(found[w])
    /\ answers \subseteq [key : Key, email : Email, account : Account]
    /\ led \subseteq Identity \X Account
    /\ displaced \subseteq Identity \X Account
    /\ renamed \subseteq Account
    /\ passed \in [State -> Nat]

-----------------------------------------------------------------------------
(* Looking and writing                                                     *)

Goto(w, label) == pc' = [pc EXCEPT ![w] = label]

Finish(w) ==
    /\ Goto(w, "idle")
    /\ want' = [want EXCEPT ![w] = None]
    /\ found' = [found EXCEPT ![w] = None]
    /\ copy' = [copy EXCEPT ![w] = None]

\* The queries.
WithEmail(e) == {a \in Account : Exists(a) /\ credential[a].email = e}
WithKey(k) == {a \in Account : Exists(a) /\ credential[a].key = k}
WithIdentity(i) == {a \in Account : Exists(a) /\ credential[a].sub = i}

\* Mutant: nothing is loaded.
LoadNothing(w, a) == UNCHANGED <<found, copy>>

Load(w, a) ==
    /\ found' = [found EXCEPT ![w] = a]
    /\ copy' = [copy EXCEPT ![w] = credential[a]]

\* Mutant: there is no index on the address, as there is none on the key.
AdmitsAddressTwice(a, r) ==
    \A b \in Account \ {a} : Exists(b) => (r.sub # None => credential[b].sub # r.sub)

\* Mutant: there is no index on the Google identity.
AdmitsIdentityTwice(a, r) ==
    \A b \in Account \ {a} : Exists(b) => credential[b].email # r.email

\* The unique indexes admit the row r as account a.
Admits(a, r) ==
    \A b \in Account \ {a} : Exists(b) =>
        /\ credential[b].email # r.email
        /\ r.sub # None => credential[b].sub # r.sub

\* The row that a write of the request leaves.  An attribute that is as it was
\* loaded is not written.
Written(w) ==
    LET now == credential[found[w]]
    IN  CASE pc[w] = "linking" /\ copy[w].sub # want[w].sub ->
                [email |-> now.email, sub |-> want[w].sub, key |-> now.key]
          [] pc[w] = "renaming" /\ copy[w].email # want[w].email ->
                [email |-> want[w].email, sub |-> now.sub, key |-> now.key]
          [] OTHER -> now

\* A write that an index refuses raises an error nothing handles.
IndexRefuses(w) ==
    /\ \/ pc[w] = "inserting" /\ \E a \in Account : ~Exists(a) /\ ~Admits(a, want[w])
       \/ pc[w] \in {"linking", "renaming"} /\ ~Admits(found[w], Written(w))
    /\ Finish(w)
    /\ UNCHANGED <<credential, oauth, history>>

-----------------------------------------------------------------------------
(* create_credential                                                       *)

BeginSignUp(w) ==
    /\ pc[w] = "idle"
    /\ \E e \in Email, k \in Key \cup {None} :
          /\ want' = [want EXCEPT ![w] = [email |-> e, sub |-> None, key |-> k]]
          /\ Goto(w, IF k = None THEN "address" ELSE "replay")
    /\ UNCHANGED <<credential, oauth, found, copy, history>>

Answered(w, a) ==
    IF want[w].key = None THEN answers
    ELSE answers \cup {[key |-> want[w].key, email |-> want[w].email, account |-> a]}

Replay(w) ==
    /\ pc[w] = "replay"
    /\ \E a \in WithKey(want[w].key) \cap WithEmail(want[w].email) :
          answers' = Answered(w, a)
    /\ Finish(w)
    /\ UNCHANGED <<credential, oauth, led, displaced, renamed, passed>>

NoReplay(w) ==
    /\ pc[w] = "replay"
    /\ WithKey(want[w].key) \cap WithEmail(want[w].email) = {}
    /\ Goto(w, "collision")
    /\ UNCHANGED <<credential, oauth, want, found, copy, history>>

\* Mutant: a key is compared only together with its address.
NoCollisionAtAddress(w) ==
    /\ pc[w] = "collision"
    /\ WithKey(want[w].key) \cap WithEmail(want[w].email) = {}
    /\ Goto(w, "address")
    /\ UNCHANGED <<credential, oauth, want, found, copy, history>>

NoCollision(w) ==
    /\ pc[w] = "collision"
    /\ WithKey(want[w].key) = {}
    /\ Goto(w, "address")
    /\ UNCHANGED <<credential, oauth, want, found, copy, history>>

\* IdempotencyKeyConflict and EmailAlreadyRegistered.
Refuse(w) ==
    /\ \/ pc[w] = "collision" /\ WithKey(want[w].key) # {}
       \/ pc[w] \in {"address", "newAddress"} /\ WithEmail(want[w].email) # {}
    /\ Finish(w)
    /\ UNCHANGED <<credential, oauth, history>>

AddressIsFree(w) ==
    /\ pc[w] \in {"address", "newAddress"}
    /\ WithEmail(want[w].email) = {}
    /\ Goto(w, IF pc[w] = "address" THEN "inserting" ELSE "renaming")
    /\ UNCHANGED <<credential, oauth, want, found, copy, history>>

\* The end of a sign-up and of the callback of a new identity.
\* Bound: with no row left the request goes no further, and may crash.
Insert(w) ==
    /\ pc[w] = "inserting"
    /\ \E a \in Account :
          /\ ~Exists(a)
          /\ Admits(a, want[w])
          /\ credential' = [credential EXCEPT ![a] = want[w]]
          /\ answers' = Answered(w, a)
          /\ led' = IF want[w].sub = None THEN led ELSE led \cup {<<want[w].sub, a>>}
    /\ Finish(w)
    /\ UNCHANGED <<oauth, displaced, renamed, passed>>

-----------------------------------------------------------------------------
(* The handshake with Google                                               *)

IssueState ==
    /\ \E s \in State : oauth[s] = "none" /\ oauth' = [oauth EXCEPT ![s] = "fresh"]
    /\ UNCHANGED <<credential, request, history>>

ExpireState ==
    /\ \E s \in State : oauth[s] = "fresh" /\ oauth' = [oauth EXCEPT ![s] = "expired"]
    /\ UNCHANGED <<credential, request, history>>

\* The row asked for by the identity i, whose address e Google has verified.
Profile(i, e) == [email |-> e, sub |-> i, key |-> None]

\* Mutant: the claim does not ask whether the state is consumed.
ClaimableTwice(s) == oauth[s] \in {"fresh", "consumed"}

Claimable(s) == oauth[s] = "fresh"

\* consume_oauth_state and exchange_code: the code a callback brings decides
\* which identity it is of.  A callback whose state is refused changes nothing.
Callback(w) ==
    /\ pc[w] = "idle"
    /\ \E s \in State, i \in Identity : \E e \in Addresses[i] :
          /\ Claimable(s)
          /\ oauth' = [oauth EXCEPT ![s] = "consumed"]
          /\ passed' = [passed EXCEPT ![s] = @ + 1]
          /\ want' = [want EXCEPT ![w] = Profile(i, e)]
    /\ Goto(w, "byIdentity")
    /\ UNCHANGED <<credential, found, copy, answers, led, displaced, renamed>>

KnownIdentity(w) ==
    /\ pc[w] = "byIdentity"
    /\ \E a \in WithIdentity(want[w].sub) : led' = led \cup {<<want[w].sub, a>>}
    /\ Finish(w)
    /\ UNCHANGED <<credential, oauth, answers, displaced, renamed, passed>>

NewIdentity(w) ==
    /\ pc[w] = "byIdentity"
    /\ WithIdentity(want[w].sub) = {}
    /\ Goto(w, "byAddress")
    /\ UNCHANGED <<credential, oauth, want, found, copy, history>>

KnownAddress(w) ==
    /\ pc[w] = "byAddress"
    /\ \E a \in WithEmail(want[w].email) : Load(w, a)
    /\ Goto(w, "linking")
    /\ UNCHANGED <<credential, oauth, want, history>>

NewAddress(w) ==
    /\ pc[w] = "byAddress"
    /\ WithEmail(want[w].email) = {}
    /\ Goto(w, "inserting")
    /\ UNCHANGED <<credential, oauth, want, found, copy, history>>

\* An account may have been another identity's: the last one to come keeps it.
Link(w) ==
    /\ pc[w] = "linking"
    /\ LET a == found[w]
           before == credential[a].sub
       IN  /\ Admits(a, Written(w))
           /\ credential' = [credential EXCEPT ![a] = Written(w)]
           /\ led' = led \cup {<<want[w].sub, a>>}
           /\ displaced' = displaced \cup
                 {<<i, a>> : i \in {want[w].sub, before} \ {None, Written(w).sub}}
    /\ Finish(w)
    /\ UNCHANGED <<oauth, answers, renamed, passed>>

-----------------------------------------------------------------------------
(* change_email                                                            *)

BeginChange(w) ==
    /\ pc[w] = "idle"
    /\ \E a \in Account, e \in Email :
          /\ Exists(a)
          /\ Load(w, a)
          /\ want' = [want EXCEPT ![w] = [email |-> e, sub |-> None, key |-> None]]
    /\ Goto(w, "newAddress")
    /\ UNCHANGED <<credential, oauth, history>>

Rename(w) ==
    /\ pc[w] = "renaming"
    /\ Admits(found[w], Written(w))
    /\ credential' = [credential EXCEPT ![found[w]] = Written(w)]
    /\ renamed' = renamed \cup {found[w]}
    /\ Finish(w)
    /\ UNCHANGED <<oauth, answers, led, displaced, passed>>

-----------------------------------------------------------------------------
\* The process dies, or Google cannot be reached or has not verified the address.
Crash(w) ==
    /\ pc[w] # "idle"
    /\ Finish(w)
    /\ UNCHANGED <<credential, oauth, history>>

Init ==
    /\ credential = [a \in Account |-> None]
    /\ oauth = [s \in State |-> "none"]
    /\ pc = [w \in Worker |-> "idle"]
    /\ want = [w \in Worker |-> None]
    /\ found = [w \in Worker |-> None]
    /\ copy = [w \in Worker |-> None]
    /\ answers = {}
    /\ led = {}
    /\ displaced = {}
    /\ renamed = {}
    /\ passed = [s \in State |-> 0]

SignUp(w) ==
    \/ BeginSignUp(w) \/ Replay(w) \/ NoReplay(w) \/ NoCollision(w)
    \/ Refuse(w) \/ AddressIsFree(w) \/ Insert(w)

Google(w) ==
    \/ Callback(w) \/ KnownIdentity(w) \/ NewIdentity(w)
    \/ KnownAddress(w) \/ NewAddress(w) \/ Link(w)

ChangeEmail(w) == BeginChange(w) \/ Rename(w)

Next ==
    \/ IssueState \/ ExpireState
    \/ \E w \in Worker :
          SignUp(w) \/ Google(w) \/ ChangeEmail(w) \/ IndexRefuses(w) \/ Crash(w)

Spec == Init /\ [][Next]_vars

-----------------------------------------------------------------------------
(* What must hold                                                          *)

\* "A retry with the same key returns the same row" (create_credential): two
\* sign-ups with one key and one address are never answered with two accounts,
\* however they overlap, unless one of the accounts has moved to or from the
\* address.
OneAnswerPerKey ==
    \A x, y \in answers :
        x.key = y.key /\ x.email = y.email /\ x.account # y.account =>
            {x.account, y.account} \cap renamed # {}

\* A Google identity is led to one account for life, however sign-ups, callbacks
\* and changes of address overlap, unless another identity with the account's
\* address has taken its place there.
IdentityKeepsAccount ==
    \A i \in Identity, a, b \in Account :
        <<i, a>> \in led /\ <<i, b>> \in led /\ a # b =>
            <<i, a>> \in displaced \/ <<i, b>> \in displaced

\* "Two callbacks racing on one state cannot both succeed" (consume_oauth_state).
StatePassesOnce == \A s \in State : passed[s] <= 1

\* "A genuine collision ... beats silently minting a second row under one key":
\* what create_credential says of its check of the key.
KeyNamesOneAccount ==
    \A a, b \in Account :
        a # b /\ Exists(a) /\ Exists(b) /\ credential[a].key # None =>
            credential[a].key # credential[b].key
=============================================================================
