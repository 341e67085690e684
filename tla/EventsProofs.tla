---------------------------- MODULE EventsProofs ----------------------------
(***************************************************************************)
(* Identity events, for any number of receivers, requests and attempts:    *)
(* what a receiver does not know of the account is explained.              *)
(***************************************************************************)
EXTENDS Events, TLAPS

-----------------------------------------------------------------------------
(* Types, and where a request is                                           *)

\* A request posts from the first receiver on, and says what it has written.
Placed(a) ==
    /\ act[a] # "emit" => at[a] = 1 /\ tries[a] = 0
    /\ act[a] \in {"idle", "check", "commit"} => kind[a] = "email.changed"
    /\ act[a] = "end" => kind[a] = "account.disabled"
    /\ act[a] # "idle" /\ kind[a] = "email.changed" => new[a] \in Address

EventsTypeInv == EventsTypeOK /\ \A a \in Admin : Placed(a)

LEMMA InitEventsType == EventsInit => EventsTypeInv
<1> SUFFICES ASSUME EventsInit PROVE EventsTypeInv
  OBVIOUS
<1>1. 1 \in 1 .. Endpoints + 1 /\ 0 \in 0 .. Attempts - 1
  BY EventsAssumption
<1>2. EventsTypeOK
  BY <1>1 DEF EventsInit, EventsTypeOK, Kind
<1>3. \A a \in Admin : Placed(a)
  BY DEF EventsInit, Placed
<1> QED
  BY <1>2, <1>3 DEF EventsTypeInv

LEMMA OverKeepsType ==
    ASSUME EventsTypeInv, NEW a \in Admin, Over(a), excused' \subseteq Receiver \X Kind
    PROVE  EventsTypeInv'
<1> USE DEF EventsTypeInv, EventsTypeOK, Over, Turn, row
<1>1. EventsTypeOK'
  BY EventsAssumption DEF Kind
<1>2. \A b \in Admin : Placed(b)'
  BY DEF Placed
<1> QED
  BY <1>1, <1>2

LEMMA NextEventsType == EventsTypeInv /\ [EventsNext]_eventsVars => EventsTypeInv'
<1> SUFFICES ASSUME EventsTypeInv, [EventsNext]_eventsVars PROVE EventsTypeInv'
  OBVIOUS
<1> USE DEF EventsTypeInv, EventsTypeOK, Turn, row, adminRequest, post
<1>1. ASSUME NEW a \in Admin, NEW e \in Address, BeginChange(a, e) PROVE EventsTypeInv'
  <2>1. alone' \subseteq Admin /\ excused' \subseteq Receiver \X Kind
    BY <1>1 DEF BeginChange, Kind
  <2>2. EventsTypeOK'
    BY <1>1, <2>1 DEF BeginChange, Kind
  <2>3. \A b \in Admin : Placed(b)'
    BY <1>1 DEF BeginChange, Placed
  <2> QED
    BY <2>2, <2>3
<1>2. ASSUME NEW a \in Admin, RefuseAddress(a) \/ FinishEmit(a) PROVE EventsTypeInv'
  BY <1>2, OverKeepsType DEF RefuseAddress, FinishEmit
<1>3. ASSUME NEW a \in Admin, PassAddress(a) \/ EndAllSessions(a) PROVE EventsTypeInv'
  BY <1>3 DEF PassAddress, EndAllSessions, Placed
<1>4. ASSUME NEW a \in Admin, CommitAddress(a) PROVE EventsTypeInv'
  <2>1. address' \in Address
    BY <1>4 DEF CommitAddress, Placed
  <2> QED
    BY <1>4, <2>1 DEF CommitAddress, Placed
<1>5. ASSUME NEW a \in Admin, DisableCredential(a) PROVE EventsTypeInv'
  BY <1>5 DEF DisableCredential, Placed, Kind
<1>6. ASSUME NEW a \in Admin, Accept(a) \/ Fail(a) PROVE EventsTypeInv'
  <2>1. act[a] = "emit" /\ at[a] \in Receiver /\ kind[a] \in Kind
    BY <1>6 DEF Accept, Fail, Posting
  <2>2. heard' \in [Receiver -> Address] /\ told' \subseteq Receiver
    BY <1>6, <2>1 DEF Accept, Fail, Hears, Placed
  <2>3. excused' \subseteq Receiver \X Kind
    BY <1>6, <2>1 DEF Accept, Fail
  <2>4. at' \in [Admin -> 1 .. Endpoints + 1] /\ tries' \in [Admin -> 0 .. Attempts - 1]
    <3>1. CASE NextReceiver(a)
      BY <2>1, <3>1, EventsAssumption DEF NextReceiver, Receiver
    <3>2. CASE at' = at /\ tries[a] + 1 < Attempts /\ tries' = [tries EXCEPT ![a] = @ + 1]
      BY <3>2, EventsAssumption
    <3> QED
      BY <1>6, <3>1, <3>2 DEF Accept, Fail
  <2>5. \A b \in Admin \ {a} : at'[b] = at[b] /\ tries'[b] = tries[b]
    BY <1>6 DEF Accept, Fail, NextReceiver
  <2>6. UNCHANGED <<address, off, act, kind, loaded, new, alone>>
    BY <1>6 DEF Accept, Fail
  <2>7. EventsTypeOK'
    BY <2>2, <2>3, <2>4, <2>6
  <2>8. \A b \in Admin : Placed(b)'
    BY <2>1, <2>5, <2>6 DEF Placed
  <2> QED
    BY <2>7, <2>8
<1>7. ASSUME NEW a \in Admin, Perish(a) PROVE EventsTypeInv'
  <2>1. excused' \subseteq Receiver \X Kind
    BY <1>7 DEF Perish, Owed
  <2> QED
    BY <1>7, <2>1, OverKeepsType DEF Perish
<1>8. CASE UNCHANGED eventsVars
  BY <1>8 DEF eventsVars, Placed
<1> QED
  BY <1>1, <1>2, <1>3, <1>4, <1>5, <1>6, <1>7, <1>8 DEF EventsNext, Continue

\* The account, the requests and the receivers hold what they are declared to.
THEOREM EventsTypeIsInvariant == EventsSpec => []EventsTypeOK
<1>1. EventsTypeInv => EventsTypeOK
  BY DEF EventsTypeInv
<1> QED
  BY <1>1, InitEventsType, NextEventsType, PTL DEF EventsSpec

-----------------------------------------------------------------------------
(* Changes of address                                                      *)

Every(k) == Receiver \X {k}

\* A change that nothing overlaps announces the address of the account; as long as
\* one that something overlapped is under way, every receiver is excused.
ChangeInv ==
    /\ \A a \in alone :
          /\ Changing = {a}
          /\ act[a] \in {"check", "commit"} => loaded[a] = address
          /\ act[a] = "emit" => new[a] = address
    /\ \A a \in Changing \ alone : Every("email.changed") \subseteq excused

LEMMA InitChange == EventsInit => ChangeInv
  BY DEF EventsInit, ChangeInv, Changing

LEMMA OverKeepsChange ==
    ASSUME EventsTypeInv, ChangeInv, NEW a \in Admin, Over(a), excused \subseteq excused'
    PROVE  ChangeInv'
<1> USE DEF EventsTypeInv, EventsTypeOK, Over, Turn, row
<1>1. Changing' = Changing \ {a}
  BY DEF Changing
<1>2. \A b \in Admin \ {a} : /\ act'[b] = act[b] /\ loaded'[b] = loaded[b]
                             /\ new'[b] = new[b]
  OBVIOUS
<1>3. address' = address /\ alone' = alone \ {a}
  OBVIOUS
<1> QED
  BY <1>1, <1>2, <1>3 DEF ChangeInv, Every

LEMMA NextChange ==
    EventsTypeInv /\ ChangeInv /\ [EventsNext]_eventsVars => ChangeInv'
<1> SUFFICES ASSUME EventsTypeInv, ChangeInv, [EventsNext]_eventsVars PROVE ChangeInv'
  OBVIOUS
<1> USE DEF EventsTypeInv, EventsTypeOK, Turn, row, adminRequest, post
<1>1. ASSUME NEW a \in Admin, NEW e \in Address, BeginChange(a, e) PROVE ChangeInv'
  <2>1. Changing' = Changing \cup {a} /\ a \notin Changing /\ address' = address
    BY <1>1 DEF BeginChange, Changing
  <2>2. CASE Changing = {}
    <3>1. alone' = {a}
      BY <1>1, <2>2 DEF BeginChange, ChangeInv
    <3> QED
      BY <1>1, <2>1, <2>2, <3>1 DEF BeginChange, ChangeInv
  <2>3. CASE Changing # {}
    BY <1>1, <2>3 DEF BeginChange, ChangeInv, Every
  <2> QED
    BY <2>2, <2>3
<1>2. ASSUME NEW a \in Admin, RefuseAddress(a) \/ FinishEmit(a) PROVE ChangeInv'
  BY <1>2, OverKeepsChange DEF RefuseAddress, FinishEmit
<1>3. ASSUME NEW a \in Admin, Perish(a) PROVE ChangeInv'
  BY <1>3, OverKeepsChange DEF Perish
<1>4. ASSUME NEW a \in Admin, PassAddress(a) \/ EndAllSessions(a) PROVE ChangeInv'
  <2>1. Changing' = Changing
    BY <1>4 DEF PassAddress, EndAllSessions, Changing
  <2>2. EndAllSessions(a) => a \notin Changing
    BY <1>4 DEF EndAllSessions, Changing, Placed
  <2> QED
    BY <1>4, <2>1, <2>2 DEF PassAddress, EndAllSessions, ChangeInv, Every
<1>5. ASSUME NEW a \in Admin, CommitAddress(a) PROVE ChangeInv'
  <2>1. Changing' = Changing /\ a \in Changing
    BY <1>5 DEF CommitAddress, Changing, Placed
  <2>2. a \in alone => address' = new[a]
    BY <1>5 DEF CommitAddress, ChangeInv
  <2> QED
    BY <1>5, <2>1, <2>2 DEF CommitAddress, ChangeInv, Every
<1>6. ASSUME NEW a \in Admin, DisableCredential(a) PROVE ChangeInv'
  <2>1. Changing' = Changing /\ a \notin Changing
    BY <1>6 DEF DisableCredential, Changing
  <2> QED
    BY <1>6, <2>1 DEF DisableCredential, ChangeInv, Every
<1>7. ASSUME NEW a \in Admin, Accept(a) \/ Fail(a) PROVE ChangeInv'
  <2>1. UNCHANGED <<address, act, kind, loaded, new, alone>>
    BY <1>7 DEF Accept, Fail
  <2>2. Changing' = Changing
    BY <2>1 DEF Changing
  <2>3. ASSUME NEW b \in Changing \ alone PROVE Every("email.changed") \subseteq excused'
    <3>1. Every("email.changed") \subseteq excused /\ a \notin alone
      BY <2>3 DEF ChangeInv
    <3> QED
      BY <1>7, <3>1 DEF Accept, Fail, Every
  <2> QED
    BY <2>1, <2>2, <2>3 DEF ChangeInv, Every
<1>8. CASE UNCHANGED eventsVars
  BY <1>8 DEF eventsVars, ChangeInv, Changing, Every
<1> QED
  BY <1>1, <1>2, <1>3, <1>4, <1>5, <1>6, <1>7, <1>8 DEF EventsNext, Continue

-----------------------------------------------------------------------------
(* What the receivers know                                                 *)

\* What receiver r should know of a change of kind k, were nothing to go wrong.
Heard(r, k) == IF k = "email.changed" THEN heard[r] = address ELSE off => r \in told

Explained(r, k) == Heard(r, k) \/ <<r, k>> \in excused \/ OnItsWay(r, k)

KeepUpInv == \A r \in Receiver, k \in Kind : Explained(r, k)

LEMMA InitKeepUp == EventsInit => KeepUpInv
  BY DEF EventsInit, KeepUpInv, Explained, Heard

\* A request that ends explains to no one what it owed to no one.
LEMMA OverKeepsExplained ==
    ASSUME EventsTypeInv, KeepUpInv, NEW a \in Admin, Over(a),
           excused \cup (Owed(a) \X {kind[a]}) \subseteq excused'
    PROVE  KeepUpInv'
<1> SUFFICES ASSUME NEW r \in Receiver, NEW k \in Kind PROVE Explained(r, k)'
  BY DEF KeepUpInv, Receiver
<1> USE DEF EventsTypeInv, EventsTypeOK, Over, Turn, row
<1>1. Heard(r, k)' <=> Heard(r, k)
  BY DEF Heard
<1>2. \A b \in Admin \ {a} : Owed(b)' = Owed(b) /\ kind'[b] = kind[b]
  BY DEF Owed
<1>3. OnItsWay(r, k) => OnItsWay(r, k)' \/ <<r, k>> \in excused'
  BY <1>2 DEF OnItsWay
<1> QED
  BY <1>1, <1>3 DEF KeepUpInv, Explained

LEMMA NextKeepUp ==
    EventsTypeInv /\ ChangeInv /\ KeepUpInv /\ [EventsNext]_eventsVars => KeepUpInv'
<1> SUFFICES ASSUME EventsTypeInv, ChangeInv, KeepUpInv, [EventsNext]_eventsVars
             PROVE  KeepUpInv'
  OBVIOUS
<1> USE DEF EventsTypeInv, EventsTypeOK, Turn, row, adminRequest, post
<1>1. ASSUME NEW a \in Admin, RefuseAddress(a) \/ FinishEmit(a) PROVE KeepUpInv'
  <2>1. Owed(a) = {}
    BY <1>1, EventsAssumption DEF RefuseAddress, FinishEmit, Owed, Receiver
  <2> QED
    BY <1>1, <2>1, OverKeepsExplained DEF RefuseAddress, FinishEmit
<1>2. ASSUME NEW a \in Admin, Perish(a) PROVE KeepUpInv'
  BY <1>2, OverKeepsExplained DEF Perish
<1> SUFFICES ASSUME NEW r \in Receiver, NEW k \in Kind,
                    \A a \in Admin : ~RefuseAddress(a) /\ ~FinishEmit(a) /\ ~Perish(a)
             PROVE  Explained(r, k)'
  BY <1>1, <1>2 DEF KeepUpInv, Receiver
<1>3. Explained(r, k)
  BY DEF KeepUpInv
<1>4. ASSUME NEW a \in Admin, NEW e \in Address, BeginChange(a, e) PROVE Explained(r, k)'
  <2>1. Heard(r, k)' <=> Heard(r, k)
    BY <1>4 DEF BeginChange, Heard
  <2>2. Owed(a) = {} /\ \A b \in Admin \ {a} : Owed(b)' = Owed(b) /\ kind'[b] = kind[b]
    BY <1>4 DEF BeginChange, Owed
  <2>3. OnItsWay(r, k) => OnItsWay(r, k)'
    BY <2>2 DEF OnItsWay
  <2>4. excused \subseteq excused'
    BY <1>4 DEF BeginChange
  <2> QED
    BY <1>3, <2>1, <2>3, <2>4 DEF Explained
<1>5. ASSUME NEW a \in Admin, PassAddress(a) PROVE Explained(r, k)'
  <2>1. Heard(r, k)' <=> Heard(r, k)
    BY <1>5 DEF PassAddress, Heard
  <2>2. \A b \in Admin : Owed(b)' = Owed(b) /\ kind'[b] = kind[b]
    BY <1>5 DEF PassAddress, Owed
  <2>3. OnItsWay(r, k) => OnItsWay(r, k)'
    BY <2>2 DEF OnItsWay
  <2> QED
    BY <1>3, <1>5, <2>1, <2>3 DEF PassAddress, Explained
<1>6. ASSUME NEW a \in Admin, CommitAddress(a) \/ DisableCredential(a) \/ EndAllSessions(a)
      PROVE  Explained(r, k)'
  <2>1. at'[a] = 1 /\ act'[a] \in {"end", "emit"}
    BY <1>6 DEF CommitAddress, DisableCredential, EndAllSessions, Placed
  <2>2. r \in Owed(a)'
    BY <2>1 DEF Owed, Receiver
  <2>3. CASE k = kind'[a]
    BY <2>2, <2>3 DEF Explained, OnItsWay
  <2>4. CASE k # kind'[a]
    <3>1. Heard(r, k) => Heard(r, k)'
      BY <1>6, <2>4 DEF CommitAddress, DisableCredential, EndAllSessions, Heard, Placed, Kind
    <3>2. Owed(a) = {} \/ kind'[a] = kind[a]
      BY <1>6 DEF CommitAddress, DisableCredential, EndAllSessions, Owed
    <3>3. \A b \in Admin \ {a} : Owed(b)' = Owed(b) /\ kind'[b] = kind[b]
      BY <1>6 DEF CommitAddress, DisableCredential, EndAllSessions, Owed
    <3>4. OnItsWay(r, k) => OnItsWay(r, k)'
      BY <2>4, <3>2, <3>3 DEF OnItsWay
    <3> QED
      BY <1>3, <1>6, <3>1, <3>4 DEF CommitAddress, DisableCredential, EndAllSessions, Explained
  <2> QED
    BY <2>3, <2>4
<1>7. ASSUME NEW a \in Admin, Accept(a) \/ Fail(a) PROVE Explained(r, k)'
  <2>1. /\ act[a] = "emit" /\ at[a] \in Receiver
        /\ UNCHANGED <<address, off, act, kind, loaded, new, alone>>
    BY <1>7 DEF Accept, Fail, Posting
  <2>2. \A b \in Admin \ {a} : Owed(b)' = Owed(b)
    BY <1>7, <2>1 DEF Accept, Fail, NextReceiver, Owed
  <2>3. kind[a] = "email.changed" => a \in Changing
    BY <2>1 DEF Changing
  <2>4. a \in alone /\ kind[a] = "email.changed" => new[a] = address
    BY <2>1 DEF ChangeInv
  <2>5. a \notin alone /\ kind[a] = "email.changed" => Every("email.changed") \subseteq excused
    BY <2>3 DEF ChangeInv
  <2>6. CASE r = at[a] /\ k = kind[a]
    <3>1. CASE Accept(a)
      <4>1. Heard(r, k)' \/ <<r, k>> \in excused'
        BY <2>1, <2>4, <2>5, <2>6, <3>1 DEF Accept, Hears, Heard, Every, Kind
      <4> QED
        BY <4>1 DEF Explained
    <3>2. CASE Fail(a) /\ tries[a] + 1 < Attempts
      <4>1. r \in Owed(a)'
        BY <2>1, <2>6, <3>2, EventsAssumption DEF Fail, Owed, Receiver
      <4> QED
        BY <2>1, <2>6, <4>1 DEF Explained, OnItsWay
    <3>3. CASE Fail(a) /\ ~(tries[a] + 1 < Attempts)
      BY <2>6, <3>3 DEF Fail, Explained
    <3> QED
      BY <1>7, <3>1, <3>2, <3>3
  <2>7. CASE ~(r = at[a] /\ k = kind[a])
    <3>1. Heard(r, k) => Heard(r, k)' \/ <<r, k>> \in excused'
      <4>1. CASE Accept(a)
        BY <2>1, <2>4, <2>5, <2>7, <4>1 DEF Accept, Hears, Heard
      <4>2. CASE Fail(a)
        BY <2>1, <2>4, <2>5, <2>7, <4>2 DEF Fail, Hears, Heard
      <4> QED
        BY <1>7, <4>1, <4>2
    <3>2. <<r, k>> \in excused => <<r, k>> \in excused'
      BY <1>7, <2>7 DEF Accept, Fail
    <3>3. k = kind[a] /\ r \in Owed(a) => r \in Owed(a)'
      BY <1>7, <2>1, <2>7, EventsAssumption DEF Accept, Fail, NextReceiver, Owed, Receiver
    <3>4. OnItsWay(r, k) => OnItsWay(r, k)'
      BY <2>1, <2>2, <3>3 DEF OnItsWay
    <3> QED
      BY <1>3, <3>1, <3>2, <3>4 DEF Explained
  <2> QED
    BY <2>6, <2>7
<1>8. CASE UNCHANGED eventsVars
  BY <1>3, <1>8 DEF eventsVars, Explained, Heard, OnItsWay, Owed
<1> QED
  BY <1>4, <1>5, <1>6, <1>7, <1>8 DEF EventsNext, Continue

\* A receiver that does not know the address, or that the account is disabled, is
\* about to be told, has failed itself, or met a crash or another change.
THEOREM ReceiversAreKeptUp == EventsSpec => []ReceiversKeepUp
<1>1. KeepUpInv => ReceiversKeepUp
  BY DEF KeepUpInv, ReceiversKeepUp, Explained, Heard, Kind
<1> QED
  BY <1>1, InitEventsType, NextEventsType, InitChange, NextChange, InitKeepUp, NextKeepUp, PTL
     DEF EventsSpec
=============================================================================
