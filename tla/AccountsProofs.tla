--------------------------- MODULE AccountsProofs ---------------------------
(***************************************************************************)
(* Proofs about Accounts, for any number of rows, addresses, identities,   *)
(* keys and states, and of requests that overlap.                          *)
(***************************************************************************)
EXTENDS AccountsBoth, TLAPS

\* What the unique indexes give.
IndexesHold ==
    \A a, b \in Account : a # b /\ Exists(a) /\ Exists(b) =>
        /\ credential[a].email # credential[b].email
        /\ credential[a].sub # None => credential[a].sub # credential[b].sub

AnswersStand ==
    \A x \in answers :
        Exists(x.account) /\ (credential[x.account].email = x.email \/ x.account \in renamed)

LedStands ==
    \A i \in Identity, a \in Account :
        <<i, a>> \in led =>
            Exists(a) /\ (credential[a].sub = i \/ <<i, a>> \in displaced)

PassedIsConsumed ==
    \A s \in State :
        passed[s] <= 1 /\ (oauth[s] # "consumed" => passed[s] = 0)

\* A callback knows which identity it is of.
IdentityWanted ==
    \A w \in Worker :
        pc[w] \in {"byIdentity", "byAddress", "linking"} => want[w].sub \in Identity

Inv == TypeOK /\ IdentityWanted /\ IndexesHold /\ AnswersStand /\ LedStands /\ PassedIsConsumed

LEMMA InitInv == Init => Inv
<1> SUFFICES ASSUME Init PROVE Inv
  OBVIOUS
<1> USE DEF Init
<1>1. TypeOK
  BY DEF TypeOK, Label
<1>2. IdentityWanted /\ IndexesHold /\ AnswersStand /\ LedStands /\ PassedIsConsumed
  BY DEF IdentityWanted, IndexesHold, AnswersStand, LedStands, PassedIsConsumed, Exists
<1> QED
  BY <1>1, <1>2 DEF Inv

LEMMA NoneIsNoRow == None \notin Row
BY ConstantsAssumption DEF Row

\* A row that is admitted leaves the indexes as strict as they were.
LEMMA AdmittedRow ==
    ASSUME IndexesHold, credential \in [Account -> Row \cup {None}],
           NEW a \in Account, NEW r \in Row, Admits(a, r),
           credential' = [credential EXCEPT ![a] = r]
    PROVE  IndexesHold'
BY DEF IndexesHold, Admits, Exists, Row

\* A request that ends keeps what it worked with typed.
LEMMA FinishTyped ==
    ASSUME TypeOK, NEW w \in Worker, Finish(w)
    PROVE  /\ pc' \in [Worker -> Label]
           /\ want' \in [Worker -> Row \cup {None}]
           /\ found' \in [Worker -> Account \cup {None}]
           /\ copy' \in [Worker -> Row \cup {None}]
           /\ \A v \in Worker : pc'[v] = "idle" <=> want'[v] = None
           /\ \A v \in Worker : pc'[v] \in {"newAddress", "linking", "renaming"} =>
                 v # w /\ pc'[v] = pc[v] /\ found'[v] = found[v] /\ copy'[v] = copy[v]
BY DEF TypeOK, Finish, Goto, Label

\* What a request writes to the account it has loaded.
LEMMA WrittenRow ==
    ASSUME TypeOK, NEW w \in Worker, pc[w] \in {"linking", "renaming"}
    PROVE  /\ found[w] \in Account /\ Exists(found[w]) /\ credential[found[w]] \in Row
           /\ pc[w] = "linking" => Written(w).email = credential[found[w]].email
           /\ pc[w] = "renaming" => Written(w).sub = credential[found[w]].sub
<1>1. found[w] \in Account /\ Exists(found[w]) /\ credential[found[w]] \in Row
  BY DEF TypeOK, Exists
<1> QED
  BY <1>1 DEF Written, Row

LEMMA WrittenTyped ==
    ASSUME TypeOK, NEW w \in Worker,
           \/ pc[w] = "linking" /\ want[w].sub \in Identity
           \/ pc[w] = "renaming"
    PROVE  Written(w) \in Row
BY WrittenRow, ConstantsAssumption DEF Written, Row, TypeOK, Exists

-----------------------------------------------------------------------------
\* A request that only looks changes nothing but itself.
LEMMA LookingInv ==
    ASSUME Inv, NEW w \in Worker, UNCHANGED <<credential, oauth, history>>,
           \/ BeginSignUp(w) \/ NoReplay(w) \/ NoCollision(w) \/ AddressIsFree(w)
           \/ NewIdentity(w) \/ KnownAddress(w) \/ NewAddress(w) \/ BeginChange(w)
           \/ Finish(w)
    PROVE  Inv'
<1> USE ConstantsAssumption DEF Inv, history
<1>1. IndexesHold' /\ AnswersStand' /\ LedStands' /\ PassedIsConsumed'
  BY DEF IndexesHold, AnswersStand, LedStands, PassedIsConsumed, Exists
<1>2. CASE Finish(w)
  <2>1. TypeOK'
    BY <1>2, FinishTyped DEF TypeOK, Exists
  <2>2. IdentityWanted'
    BY <1>2 DEF Finish, Goto, IdentityWanted, TypeOK
  <2> QED
    BY <1>1, <2>1, <2>2
<1>3. CASE BeginSignUp(w)
  <2>1. TypeOK'
    BY <1>3 DEF BeginSignUp, Goto, TypeOK, Label, Row, Exists
  <2>2. IdentityWanted'
    BY <1>3 DEF BeginSignUp, Goto, IdentityWanted, TypeOK
  <2> QED
    BY <1>1, <2>1, <2>2
<1>4. CASE NoReplay(w) \/ NoCollision(w) \/ NewIdentity(w) \/ NewAddress(w)
  <2>1. TypeOK'
    BY <1>4 DEF NoReplay, NoCollision, NewIdentity, NewAddress, Goto, TypeOK, Label, Exists
  <2>2. IdentityWanted'
    BY <1>4 DEF NoReplay, NoCollision, NewIdentity, NewAddress, Goto, IdentityWanted, TypeOK
  <2> QED
    BY <1>1, <2>1, <2>2
<1>5. CASE AddressIsFree(w)
  <2>1. TypeOK'
    BY <1>5 DEF AddressIsFree, Goto, TypeOK, Label, Exists
  <2>2. IdentityWanted'
    BY <1>5 DEF AddressIsFree, Goto, IdentityWanted, TypeOK
  <2> QED
    BY <1>1, <2>1, <2>2
<1>6. CASE KnownAddress(w)
  <2>1. PICK a \in WithEmail(want[w].email) : Load(w, a)
    BY <1>6 DEF KnownAddress
  <2>2. a \in Account /\ credential[a] \in Row /\ Exists(a)
    BY <2>1 DEF WithEmail, Exists, TypeOK
  <2>3. TypeOK'
    BY <1>6, <2>1, <2>2 DEF KnownAddress, Load, Goto, TypeOK, Label, Exists, Row
  <2>4. IdentityWanted'
    BY <1>6 DEF KnownAddress, Goto, IdentityWanted, TypeOK
  <2> QED
    BY <1>1, <2>3, <2>4
<1>7. CASE BeginChange(w)
  <2>1. PICK a \in Account, e \in Email :
            /\ Exists(a)
            /\ Load(w, a)
            /\ want' = [want EXCEPT ![w] = [email |-> e, sub |-> None, key |-> None]]
    BY <1>7 DEF BeginChange
  <2>2. credential[a] \in Row
    BY <2>1 DEF Exists, TypeOK
  <2>3. TypeOK'
    BY <1>7, <2>1, <2>2 DEF BeginChange, Load, Goto, TypeOK, Label, Exists, Row
  <2>4. IdentityWanted'
    BY <1>7, <2>1 DEF BeginChange, Goto, IdentityWanted, TypeOK
  <2> QED
    BY <1>1, <2>3, <2>4
<1> QED
  BY <1>2, <1>3, <1>4, <1>5, <1>6, <1>7

\* A request that is answered with an account it found.
LEMMA FoundInv ==
    ASSUME Inv, NEW w \in Worker, Replay(w) \/ KnownIdentity(w)
    PROVE  Inv'
<1> USE ConstantsAssumption DEF Inv
<1>1. Finish(w) /\ UNCHANGED <<credential, oauth, displaced, renamed, passed>>
  BY DEF Replay, KnownIdentity
<1>2. IndexesHold' /\ PassedIsConsumed'
  BY <1>1 DEF IndexesHold, PassedIsConsumed, Exists
<1>3. IdentityWanted'
  BY <1>1 DEF Finish, Goto, IdentityWanted, TypeOK
<1>4. CASE Replay(w)
  <2>1. PICK a \in WithKey(want[w].key) \cap WithEmail(want[w].email) :
            answers' = Answered(w, a)
    BY <1>4 DEF Replay
  <2>2. /\ a \in Account /\ Exists(a) /\ credential[a].email = want[w].email
        /\ led' = led
        /\ want[w] \in Row
    BY <1>4, <2>1 DEF Replay, WithKey, WithEmail, TypeOK
  <2>3. TypeOK'
    BY <1>1, <2>1, <2>2, FinishTyped DEF TypeOK, Exists, Answered, Row
  <2>4. AnswersStand' /\ LedStands'
    BY <1>1, <2>1, <2>2 DEF AnswersStand, LedStands, Answered, Exists
  <2> QED
    BY <1>2, <1>3, <2>3, <2>4
<1>5. CASE KnownIdentity(w)
  <2>1. PICK a \in WithIdentity(want[w].sub) : led' = led \cup {<<want[w].sub, a>>}
    BY <1>5 DEF KnownIdentity
  <2>2. /\ a \in Account /\ Exists(a) /\ credential[a].sub = want[w].sub
        /\ answers' = answers
        /\ want[w].sub \in Identity
    BY <1>5, <2>1 DEF KnownIdentity, WithIdentity, IdentityWanted
  <2>3. TypeOK'
    BY <1>1, <2>1, <2>2, FinishTyped DEF TypeOK, Exists
  <2>4. AnswersStand' /\ LedStands'
    BY <1>1, <2>1, <2>2 DEF AnswersStand, LedStands, Exists
  <2> QED
    BY <1>2, <1>3, <2>3, <2>4
<1> QED
  BY <1>4, <1>5

\* The states of the handshake, and the callbacks they let through.
LEMMA StateInv ==
    ASSUME Inv, IssueState \/ ExpireState \/ \E w \in Worker : Callback(w)
    PROVE  Inv'
<1> USE ConstantsAssumption DEF Inv
<1>1. CASE IssueState \/ ExpireState
  <2>1. TypeOK' /\ PassedIsConsumed'
    BY <1>1 DEF IssueState, ExpireState, request, history, TypeOK, PassedIsConsumed, Exists
  <2>2. IdentityWanted' /\ IndexesHold' /\ AnswersStand' /\ LedStands'
    BY <1>1 DEF IssueState, ExpireState, request, history,
                IdentityWanted, IndexesHold, AnswersStand, LedStands, Exists
  <2> QED
    BY <2>1, <2>2
<1>2. ASSUME NEW w \in Worker, Callback(w) PROVE Inv'
  <2>1. PICK s \in State, i \in Identity : \E e \in Addresses[i] :
            /\ Claimable(s)
            /\ oauth' = [oauth EXCEPT ![s] = "consumed"]
            /\ passed' = [passed EXCEPT ![s] = @ + 1]
            /\ want' = [want EXCEPT ![w] = [email |-> e, sub |-> i, key |-> None]]
    BY <1>2 DEF Callback, Profile
  <2>2. PICK e \in Email :
            want' = [want EXCEPT ![w] = [email |-> e, sub |-> i, key |-> None]]
    BY <2>1
  <2>3. TypeOK'
    BY <1>2, <2>1, <2>2 DEF Callback, Goto, TypeOK, Label, Row, Exists
  <2>4. PassedIsConsumed'
    BY <2>1 DEF Claimable, PassedIsConsumed, TypeOK
  <2>5. IdentityWanted'
    BY <1>2, <2>1, <2>2 DEF Callback, Goto, IdentityWanted, TypeOK
  <2>6. IndexesHold' /\ AnswersStand' /\ LedStands'
    BY <1>2 DEF Callback, IndexesHold, AnswersStand, LedStands, Exists
  <2> QED
    BY <2>3, <2>4, <2>5, <2>6
<1> QED
  BY <1>1, <1>2

-----------------------------------------------------------------------------
\* The three writes to the table, each of which an index has admitted.
LEMMA InsertInv ==
    ASSUME Inv, NEW w \in Worker, Insert(w)
    PROVE  Inv'
<1> USE ConstantsAssumption DEF Inv
<1>1. PICK a \in Account :
          /\ ~Exists(a)
          /\ Admits(a, want[w])
          /\ credential' = [credential EXCEPT ![a] = want[w]]
          /\ answers' = Answered(w, a)
          /\ led' = IF want[w].sub = None THEN led ELSE led \cup {<<want[w].sub, a>>}
  BY DEF Insert
<1>2. Finish(w) /\ UNCHANGED <<oauth, displaced, renamed, passed>>
  BY DEF Insert
<1>3. want[w] \in Row /\ want[w] # None
  BY DEF Insert, TypeOK
<1>4. credential' \in [Account -> Row \cup {None}] /\ \A b \in Account : Exists(b) => Exists(b)'
  BY <1>1, <1>3 DEF TypeOK, Exists
<1>5. TypeOK'
  BY <1>1, <1>2, <1>3, <1>4, FinishTyped DEF TypeOK, Answered, Row
<1>6. IndexesHold'
  BY <1>1, <1>3, AdmittedRow DEF TypeOK
<1>7. AnswersStand'
  <2>1. \A x \in answers : x.account # a
    BY <1>1 DEF AnswersStand
  <2>2. answers \subseteq [key : Key, email : Email, account : Account]
    BY DEF TypeOK
  <2> QED
    BY <1>1, <1>2, <1>3, <2>1, <2>2 DEF AnswersStand, Answered, Exists, TypeOK
<1>8. LedStands'
  BY <1>1, <1>2, <1>3 DEF LedStands, Exists, TypeOK
<1>9. IdentityWanted' /\ PassedIsConsumed'
  BY <1>2 DEF Finish, Goto, IdentityWanted, PassedIsConsumed, TypeOK
<1> QED
  BY <1>5, <1>6, <1>7, <1>8, <1>9

LEMMA LinkInv ==
    ASSUME Inv, NEW w \in Worker, Link(w)
    PROVE  Inv'
<1> DEFINE a == found[w]
           r == Written(w)
           before == credential[a].sub
<1> USE ConstantsAssumption DEF Inv
<1>1. /\ Admits(a, r)
      /\ credential' = [credential EXCEPT ![a] = r]
      /\ led' = led \cup {<<want[w].sub, a>>}
      /\ displaced' = displaced \cup
            {<<i, a>> : i \in {want[w].sub, before} \ {None, r.sub}}
      /\ Finish(w)
      /\ UNCHANGED <<oauth, answers, renamed, passed>>
  BY DEF Link
<1>2. pc[w] = "linking" /\ want[w].sub \in Identity
  BY DEF Link, IdentityWanted
<1>3. /\ a \in Account /\ Exists(a) /\ credential[a] \in Row
      /\ r \in Row /\ r.email = credential[a].email
  BY <1>2, WrittenRow, WrittenTyped
<1> HIDE DEF a, r, before
<1>4. before \in Identity \cup {None} /\ before = credential[a].sub
  BY <1>3 DEF Row, before
<1>5. /\ credential' \in [Account -> Row \cup {None}]
      /\ \A b \in Account : Exists(b) => Exists(b)'
  BY <1>1, <1>3, NoneIsNoRow DEF TypeOK, Exists
<1>6. TypeOK'
  <2>1. led' \subseteq Identity \X Account /\ displaced' \subseteq Identity \X Account
    BY <1>1, <1>2, <1>3, <1>4 DEF TypeOK
  <2> QED
    BY <1>1, <1>5, <2>1, FinishTyped DEF TypeOK
<1>7. IndexesHold'
  BY <1>1, <1>3, AdmittedRow DEF TypeOK
<1>8. AnswersStand'
  BY <1>1, <1>3, <1>5 DEF AnswersStand, TypeOK
<1>9. LedStands'
  <2> SUFFICES ASSUME NEW i \in Identity, NEW b \in Account, <<i, b>> \in led'
               PROVE  Exists(b)' /\ (credential'[b].sub = i \/ <<i, b>> \in displaced')
    BY DEF LedStands
  <2>1. CASE b # a
    BY <1>1, <1>5, <2>1 DEF LedStands, TypeOK, Exists
  <2>2. CASE b = a
    <3>1. credential'[b].sub = r.sub /\ Exists(b)'
      BY <1>1, <1>3, <1>5, <2>2 DEF TypeOK
    <3>2. i \in {want[w].sub, before} \/ <<i, b>> \in displaced
      BY <1>1, <1>4, <2>2 DEF LedStands
    <3>3. CASE i = r.sub \/ <<i, b>> \in displaced
      BY <1>1, <3>1, <3>3
    <3>4. CASE i # r.sub /\ i \in {want[w].sub, before}
      <4>1. i \in {want[w].sub, before} \ {None, r.sub}
        BY <3>4
      <4> QED
        BY <1>1, <2>2, <3>1, <4>1
    <3> QED
      BY <3>2, <3>3, <3>4
  <2> QED
    BY <2>1, <2>2
<1>10. IdentityWanted' /\ PassedIsConsumed'
  BY <1>1 DEF Finish, Goto, IdentityWanted, PassedIsConsumed, TypeOK
<1> QED
  BY <1>6, <1>7, <1>8, <1>9, <1>10

LEMMA RenameInv ==
    ASSUME Inv, NEW w \in Worker, Rename(w)
    PROVE  Inv'
<1> DEFINE a == found[w]
           r == Written(w)
<1> USE ConstantsAssumption DEF Inv
<1>1. /\ Admits(a, r)
      /\ credential' = [credential EXCEPT ![a] = r]
      /\ renamed' = renamed \cup {a}
      /\ Finish(w)
      /\ UNCHANGED <<oauth, answers, led, displaced, passed>>
  BY DEF Rename
<1>2. /\ a \in Account /\ Exists(a) /\ credential[a] \in Row
      /\ r \in Row /\ r.sub = credential[a].sub
  BY WrittenRow, WrittenTyped DEF Rename
<1> HIDE DEF a, r
<1>3. /\ credential' \in [Account -> Row \cup {None}]
      /\ \A b \in Account : Exists(b) => Exists(b)'
  BY <1>1, <1>2, NoneIsNoRow DEF TypeOK, Exists
<1>4. TypeOK'
  BY <1>1, <1>2, <1>3, FinishTyped DEF TypeOK
<1>5. IndexesHold'
  BY <1>1, <1>2, AdmittedRow DEF TypeOK
<1>6. AnswersStand' /\ LedStands'
  BY <1>1, <1>2, <1>3 DEF AnswersStand, LedStands, TypeOK
<1>7. IdentityWanted' /\ PassedIsConsumed'
  BY <1>1 DEF Finish, Goto, IdentityWanted, PassedIsConsumed, TypeOK
<1> QED
  BY <1>4, <1>5, <1>6, <1>7

-----------------------------------------------------------------------------
LEMMA NextInv == Inv /\ [Next]_vars => Inv'
<1> SUFFICES ASSUME Inv, [Next]_vars PROVE Inv'
  OBVIOUS
<1>1. CASE IssueState \/ ExpireState
  BY <1>1, StateInv
<1>2. ASSUME NEW w \in Worker, SignUp(w) PROVE Inv'
  <2>1. CASE Replay(w)
    BY <2>1, FoundInv
  <2>2. CASE Insert(w)
    BY <2>2, InsertInv
  <2>3. CASE BeginSignUp(w) \/ NoReplay(w) \/ NoCollision(w) \/ Refuse(w) \/ AddressIsFree(w)
    BY <2>3, LookingInv DEF BeginSignUp, NoReplay, NoCollision, Refuse, AddressIsFree
  <2> QED
    BY <1>2, <2>1, <2>2, <2>3 DEF SignUp
<1>3. ASSUME NEW w \in Worker, Google(w) PROVE Inv'
  <2>1. CASE Callback(w)
    BY <2>1, StateInv
  <2>2. CASE KnownIdentity(w)
    BY <2>2, FoundInv
  <2>3. CASE Link(w)
    BY <2>3, LinkInv
  <2>4. CASE NewIdentity(w) \/ KnownAddress(w) \/ NewAddress(w)
    BY <2>4, LookingInv DEF NewIdentity, KnownAddress, NewAddress
  <2> QED
    BY <1>3, <2>1, <2>2, <2>3, <2>4 DEF Google
<1>4. ASSUME NEW w \in Worker, ChangeEmail(w) PROVE Inv'
  <2>1. CASE BeginChange(w)
    BY <2>1, LookingInv DEF BeginChange
  <2>2. CASE Rename(w)
    BY <2>2, RenameInv
  <2> QED
    BY <1>4, <2>1, <2>2 DEF ChangeEmail
<1>5. ASSUME NEW w \in Worker, IndexRefuses(w) \/ Crash(w) PROVE Inv'
  BY <1>5, LookingInv DEF IndexRefuses, Crash
<1>6. CASE UNCHANGED vars
  BY <1>6 DEF vars, request, history, Inv, TypeOK, IdentityWanted, IndexesHold,
              AnswersStand, LedStands, PassedIsConsumed, Exists
<1> QED
  BY <1>1, <1>2, <1>3, <1>4, <1>5, <1>6 DEF Next

LEMMA InvHolds == Spec => []Inv
BY InitInv, NextInv, PTL DEF Spec

\* The table of credentials, the states and the requests keep their types, and a
\* request that writes to an account has loaded it.
THEOREM TypeCorrect == Spec => []TypeOK
<1>1. Inv => TypeOK
  BY DEF Inv
<1> QED
  BY <1>1, InvHolds, PTL

\* A sign-up that is retried with its key is not answered with a second account
\* (create_credential).
THEOREM RetriesAgree == Spec => []OneAnswerPerKey
<1>1. Inv => OneAnswerPerKey
  BY DEF Inv, TypeOK, IndexesHold, AnswersStand, OneAnswerPerKey
<1> QED
  BY <1>1, InvHolds, PTL

\* A Google identity keeps its account (upsert_google_credential).
THEOREM IdentitiesStay == Spec => []IdentityKeepsAccount
<1>1. Inv => IdentityKeepsAccount
  BY ConstantsAssumption DEF Inv, IndexesHold, LedStands, IdentityKeepsAccount
<1> QED
  BY <1>1, InvHolds, PTL

\* A state lets one callback through (consume_oauth_state).
THEOREM StatesPassOnce == Spec => []StatePassesOnce
<1>1. Inv => StatePassesOnce
  BY DEF Inv, PassedIsConsumed, StatePassesOnce
<1> QED
  BY <1>1, InvHolds, PTL

-----------------------------------------------------------------------------
(* The key has no index.  What stands in for one is the look of a sign-up  *)
(* that nobody with its key overlaps: from its check on, no account has    *)
(* the key.                                                                *)

KeyInv ==
    /\ KeyNamesOneAccount
    /\ OneSignUpPerKey
    /\ \A w \in Worker :
          pc[w] \notin {"idle", "replay", "collision"} /\ want[w].key # None =>
              WithKey(want[w].key) = {}

LEMMA InitKeyInv == Init => KeyInv
BY DEF Init, KeyInv, KeyNamesOneAccount, OneSignUpPerKey, Exists

\* A step that gives no account another key.
LEMMA SameKeysKeepKeyInv ==
    ASSUME KeyInv, OneSignUpPerKey', NEW w \in Worker,
           \A a \in Account :
              /\ Exists(a)' <=> Exists(a)
              /\ Exists(a) => credential'[a].key = credential[a].key,
           \A v \in Worker \ {w} : pc'[v] = pc[v] /\ want'[v] = want[v],
           \/ pc'[w] \in {"idle", "replay", "collision"}
           \/ want'[w].key = None
           \/ want'[w] = want[w] /\ WithKey(want[w].key) = {}
    PROVE  KeyInv'
<1>1. KeyNamesOneAccount'
  BY DEF KeyInv, KeyNamesOneAccount
<1>2. \A k : WithKey(k)' = WithKey(k)
  BY DEF WithKey
<1>3. ASSUME NEW v \in Worker, pc'[v] \notin {"idle", "replay", "collision"}, want'[v].key # None
      PROVE  WithKey(want[v].key)' = {}
  <2>1. CASE v = w
    BY <1>2, <1>3, <2>1 DEF WithKey
  <2>2. CASE v # w
    BY <1>2, <1>3, <2>2 DEF KeyInv, WithKey
  <2> QED
    BY <2>1, <2>2
<1> QED
  BY <1>1, <1>3 DEF KeyInv

LEMMA WritesKeepKeys ==
    ASSUME Inv, NEW w \in Worker, Link(w) \/ Rename(w)
    PROVE  \A a \in Account :
              /\ Exists(a)' <=> Exists(a)
              /\ Exists(a) => credential'[a].key = credential[a].key
<1>1. /\ credential' = [credential EXCEPT ![found[w]] = Written(w)]
      /\ pc[w] \in {"linking", "renaming"}
      /\ pc[w] = "linking" => want[w].sub \in Identity
  BY DEF Link, Rename, Inv, IdentityWanted
<1>2. Written(w) \in Row /\ found[w] \in Account /\ Exists(found[w])
  BY <1>1, WrittenRow, WrittenTyped DEF Inv
<1>3. Written(w).key = credential[found[w]].key
  BY <1>1 DEF Written
<1> QED
  BY <1>1, <1>2, <1>3, NoneIsNoRow DEF Exists, Inv, TypeOK

\* The one step that gives an account a key.
LEMMA InsertKeepsKeyInv ==
    ASSUME Inv, KeyInv, OneSignUpPerKey', NEW w \in Worker, Insert(w)
    PROVE  KeyInv'
<1>1. PICK a \in Account : ~Exists(a) /\ credential' = [credential EXCEPT ![a] = want[w]]
  BY DEF Insert
<1>2. /\ pc[w] = "inserting" /\ pc'[w] = "idle" /\ want[w] \in Row /\ want[w] # None
      /\ \A v \in Worker \ {w} : pc'[v] = pc[v] /\ want'[v] = want[v]
  BY DEF Insert, Finish, Goto, Inv, TypeOK
<1>3. /\ credential'[a] = want[w] /\ Exists(a)'
      /\ \A b \in Account \ {a} : credential'[b] = credential[b] /\ (Exists(b)' <=> Exists(b))
  BY <1>1, <1>2 DEF Exists, Inv, TypeOK
<1>4. want[w].key # None => WithKey(want[w].key) = {}
  BY <1>2 DEF KeyInv
<1>5. KeyNamesOneAccount'
  BY <1>1, <1>3, <1>4 DEF KeyInv, KeyNamesOneAccount, WithKey
<1>6. ASSUME NEW v \in Worker, pc'[v] \notin {"idle", "replay", "collision"}, want'[v].key # None
      PROVE  WithKey(want[v].key)' = {}
  <2>1. v # w /\ pc[v] = pc'[v] /\ want'[v] = want[v] /\ WithKey(want[v].key) = {}
    BY <1>2, <1>6 DEF KeyInv
  <2>2. want[v].key # want[w].key
    BY <1>2, <1>6, <2>1 DEF KeyInv, OneSignUpPerKey
  <2> QED
    BY <1>3, <2>1, <2>2 DEF WithKey
<1> QED
  BY <1>5, <1>6 DEF KeyInv

LEMMA NextKeyInv ==
    Inv /\ KeyInv /\ [InTurnNext]_vars => KeyInv'
<1> SUFFICES ASSUME Inv, KeyInv, [InTurnNext]_vars PROVE KeyInv'
  OBVIOUS
<1>1. CASE UNCHANGED <<credential, request>>
  BY <1>1 DEF request, KeyInv, KeyNamesOneAccount, OneSignUpPerKey, WithKey, Exists
<1>2. CASE UNCHANGED vars
  BY <1>1, <1>2 DEF vars
<1> SUFFICES ASSUME Next, OneSignUpPerKey' PROVE KeyInv'
  BY <1>2 DEF InTurnNext
<1>3. CASE IssueState \/ ExpireState
  BY <1>1, <1>3 DEF IssueState, ExpireState
<1>4. ASSUME NEW w \in Worker,
             \/ SignUp(w) /\ ~Insert(w)
             \/ Google(w) \/ ChangeEmail(w) \/ IndexRefuses(w) \/ Crash(w)
      PROVE  KeyInv'
  <2> USE DEF Inv, TypeOK
  <2>1. \A a \in Account :
           /\ Exists(a)' <=> Exists(a)
           /\ Exists(a) => credential'[a].key = credential[a].key
    <3>1. CASE Link(w) \/ Rename(w)
      BY <3>1, WritesKeepKeys
    <3>2. CASE UNCHANGED credential
      BY <3>2 DEF Exists
    <3> QED
      BY <1>4, <3>1, <3>2
         DEF SignUp, Google, ChangeEmail, BeginSignUp, Replay, NoReplay, NoCollision, Refuse,
             AddressIsFree, Callback, KnownIdentity, NewIdentity, KnownAddress, NewAddress,
             BeginChange, IndexRefuses, Crash
  <2>2. \A v \in Worker \ {w} : pc'[v] = pc[v] /\ want'[v] = want[v]
    BY <1>4
       DEF SignUp, Google, ChangeEmail, BeginSignUp, Replay, NoReplay, NoCollision, Refuse,
           AddressIsFree, Callback, KnownIdentity, NewIdentity, KnownAddress, NewAddress, Link,
           BeginChange, Rename, IndexRefuses, Crash, Finish, Goto
  <2>3. \/ pc'[w] \in {"idle", "replay", "collision"}
        \/ want'[w].key = None
        \/ want'[w] = want[w] /\ WithKey(want[w].key) = {}
    <3>1. CASE SignUp(w) /\ ~Insert(w)
      <4>1. CASE BeginSignUp(w)
        BY <4>1 DEF BeginSignUp, Goto
      <4>2. CASE Replay(w) \/ NoReplay(w) \/ Refuse(w)
        BY <4>2 DEF Replay, NoReplay, Refuse, Finish, Goto
      <4>3. CASE NoCollision(w) \/ AddressIsFree(w)
        BY <4>3 DEF NoCollision, AddressIsFree, KeyInv
      <4> QED
        BY <3>1, <4>1, <4>2, <4>3 DEF SignUp
    <3>2. CASE Google(w)
      <4>1. CASE Callback(w)
        BY <4>1 DEF Callback, Profile
      <4>2. CASE KnownIdentity(w) \/ NewIdentity(w) \/ KnownAddress(w)
        BY <4>2 DEF KnownIdentity, NewIdentity, KnownAddress, Finish, Goto, KeyInv
      <4>3. CASE NewAddress(w) \/ Link(w)
        BY <4>3 DEF NewAddress, Link, Finish, Goto, KeyInv
      <4> QED
        BY <3>2, <4>1, <4>2, <4>3 DEF Google
    <3>3. CASE ChangeEmail(w) \/ IndexRefuses(w) \/ Crash(w)
      BY <3>3 DEF ChangeEmail, BeginChange, Rename, IndexRefuses, Crash, Finish, Goto
    <3> QED
      BY <1>4, <3>1, <3>2, <3>3
  <2> QED
    BY <2>1, <2>2, <2>3, SameKeysKeepKeyInv
<1> QED
  BY <1>3, <1>4, InsertKeepsKeyInv DEF Next

\* An idempotency key never names two accounts, provided no two sign-ups under it
\* overlap: then the check of create_credential is as good as an index.
THEOREM KeysInTurnNameOneAccount == BothSpec => []InTurnKeyNamesOneAccount
<1> DEFINE KeysAreSound == inTurn => KeyInv
<1>1. KeysAreSound => InTurnKeyNamesOneAccount
  BY DEF KeyInv, InTurnKeyNamesOneAccount
<1>2. BothInit => Init /\ KeysAreSound
  BY InitKeyInv DEF BothInit
<1>3. [BothNext]_bothVars => [Next]_vars
  BY DEF BothNext, bothVars, InTurnNext
<1>4. Inv /\ KeysAreSound /\ [BothNext]_bothVars => KeysAreSound'
  <2>1. inTurn /\ [BothNext]_bothVars => [InTurnNext]_vars
    BY DEF BothNext, bothVars
  <2>2. [BothNext]_bothVars => inTurn' = inTurn
    BY DEF BothNext, bothVars
  <2> QED
    BY <2>1, <2>2, NextKeyInv
<1> QED
  BY <1>1, <1>2, <1>3, <1>4, InitInv, NextInv, PTL DEF BothSpec
=============================================================================
