--------------------------- MODULE BrowserProofs ---------------------------
(***************************************************************************)
(* The refresh cookie, for any number of tabs and tokens: an honest        *)
(* browser is never burned, and a logout that the cookie reaches leaves    *)
(* nothing live behind, whatever the other tabs were doing.                *)
(***************************************************************************)
EXTENDS Browser, TLAPS

-----------------------------------------------------------------------------
(* Types, and what is issued                                               *)

Known(c) == c = NoCookie \/ c \in Issued

\* Only what has been issued travels, is spent or is ended.
IssuedInv ==
    /\ Known(jar)
    /\ \A t \in Tab : Known(exchange[t].had) /\ Known(exchange[t].set)
    /\ spent \subseteq Issued
    /\ ended \subseteq Families
    /\ burned \subseteq Families

BrowserInv == BrowserTypeOK /\ IssuedInv

LEMMA FreshIsNew == ASSUME NEW c \in Fresh PROVE c \in Cookie /\ c \notin Issued
<1>1. Issued \subseteq Cookie
  BY DEF Issued
<1>2. Issued # Cookie /\ c = CHOOSE d \in Cookie : d \notin Issued
  BY DEF Fresh
<1> QED
  BY <1>1, <1>2

\* Issuing a token adds its family and disturbs no other token.
LEMMA Issuing ==
    ASSUME BrowserTypeOK, NEW c \in Fresh, NEW f \in Cookie, familyOf' = [familyOf EXCEPT ![c] = f]
    PROVE  /\ Issued' = Issued \cup {c}
           /\ Families' = Families \cup {f}
           /\ \A d \in Issued : familyOf'[d] = familyOf[d]
           /\ familyOf'[c] = f
<1>1. c \in Cookie /\ c \notin Issued
  BY FreshIsNew
<1>2. Issued' = Issued \cup {c}
  BY <1>1, BrowserAssumption DEF Issued, BrowserTypeOK
<1>3. \A d \in Issued : familyOf'[d] = familyOf[d]
  BY <1>1 DEF Issued, BrowserTypeOK
<1>4. familyOf'[c] = f
  BY <1>1 DEF BrowserTypeOK
<1> QED
  BY <1>2, <1>3, <1>4 DEF Families

Exchange ==
    [stage : {"idle", "sent", "answered"}, op : Operation,
     had : Cookie \cup {NoCookie}, set : Cookie \cup {NoCookie}]

LEMMA IdleIsExchange == Idle \in Exchange
  BY DEF Idle, Exchange, Operation

LEMMA InitBrowser == BrowserInit => BrowserInv
<1> SUFFICES ASSUME BrowserInit PROVE BrowserInv
  OBVIOUS
<1>1. exchange \in [Tab -> Exchange]
  BY IdleIsExchange DEF BrowserInit
<1>2. BrowserTypeOK
  BY <1>1 DEF BrowserInit, BrowserTypeOK, Exchange
<1>3. IssuedInv
  BY DEF BrowserInit, IssuedInv, Known, Idle
<1> QED
  BY <1>2, <1>3 DEF BrowserInv

LEMMA NextBrowser == BrowserInv /\ [BrowserNext]_browserVars => BrowserInv'
<1> SUFFICES ASSUME BrowserInv, [BrowserNext]_browserVars PROVE BrowserInv'
  OBVIOUS
<1> USE DEF BrowserInv, BrowserTypeOK
<1>1. \A c \in Issued : familyOf[c] \in Cookie /\ familyOf[c] \in Families
  BY DEF Issued, Families
<1>2. familyOf' = familyOf => Issued' = Issued /\ Families' = Families
  BY DEF Issued, Families
<1>3. ASSUME NEW t \in Tab, Sent(t) # NoCookie PROVE Sent(t) \in Issued
  BY <1>3 DEF IssuedInv, Known, Sent
<1>4. ASSUME NEW t \in Tab, NEW op \in Operation, Send(t, op) PROVE BrowserInv'
  BY <1>2, <1>4 DEF Send, IssuedInv, Known
<1>5. ASSUME NEW t \in Tab, Receive(t) \/ Lose(t) PROVE BrowserInv'
  <2>1. jar' \in Cookie \cup {NoCookie} /\ exchange' \in [Tab -> Exchange]
    BY <1>5, IdleIsExchange DEF Receive, Lose, Exchange
  <2>2. out' \in BOOLEAN /\ mishap' \in BOOLEAN
    <3>1. CASE Receive(t)
      <4>1. mishap' = mishap /\ (out' = out \/ out' = AllOfOneSession)
        BY <3>1 DEF Receive
      <4>2. AllOfOneSession \in BOOLEAN
        BY DEF AllOfOneSession
      <4> QED
        BY <4>1, <4>2
    <3>2. CASE Lose(t)
      BY <3>2 DEF Lose
    <3> QED
      BY <1>5, <3>1, <3>2
  <2>3. BrowserTypeOK'
    BY <1>5, <2>1, <2>2 DEF Receive, Lose, Exchange
  <2>4. IssuedInv'
    BY <1>2, <1>5 DEF Receive, Lose, Idle, IssuedInv, Known
  <2> QED
    BY <2>3, <2>4
<1>6. ASSUME NEW t \in Tab, SignInServed(t) PROVE BrowserInv'
  <2>1. PICK c \in Fresh : familyOf' = [familyOf EXCEPT ![c] = c] /\ SetCookie(t, c)
    BY <1>6 DEF SignInServed
  <2>2. c \in Cookie
    BY FreshIsNew
  <2>3. Issued' = Issued \cup {c} /\ Families' = Families \cup {c}
    BY <2>1, <2>2, Issuing
  <2>4. Families \subseteq Cookie
    BY <1>1 DEF Families
  <2>5. BrowserTypeOK'
    BY <1>6, <2>1, <2>2, <2>4 DEF SignInServed, SetCookie
  <2>6. IssuedInv'
    BY <1>6, <2>1, <2>3 DEF SignInServed, SetCookie, IssuedInv, Known
  <2> QED
    BY <2>5, <2>6
<1>7. ASSUME NEW t \in Tab, RefreshServed(t) PROVE BrowserInv'
  <2> DEFINE c == Sent(t)
  <2>1. c \in Issued
    BY <1>3, <1>7 DEF RefreshServed
  <2>2. PICK d \in Fresh : familyOf' = [familyOf EXCEPT ![d] = familyOf[c]] /\ SetCookie(t, d)
    BY <1>7 DEF RefreshServed
  <2>3. d \in Cookie /\ c \in Cookie
    BY <2>1, FreshIsNew DEF Issued
  <2>4. Issued' = Issued \cup {d} /\ Families' = Families \cup {familyOf[c]}
    BY <1>1, <2>1, <2>2, Issuing
  <2>5. BrowserTypeOK'
    BY <1>1, <1>7, <2>1, <2>2, <2>3 DEF RefreshServed, SetCookie
  <2>6. IssuedInv'
    BY <1>7, <2>1, <2>2, <2>4 DEF RefreshServed, SetCookie, IssuedInv, Known
  <2> QED
    BY <2>5, <2>6
<1>8. ASSUME NEW t \in Tab, ReuseServed(t) \/ MissingServed(t) PROVE BrowserInv'
  <2>1. ReuseServed(t) => Sent(t) \in Issued
    BY <1>3 DEF ReuseServed
  <2>2. BrowserTypeOK'
    BY <1>1, <1>8, <2>1 DEF ReuseServed, MissingServed, KeepCookie, SetCookie
  <2>3. IssuedInv'
    BY <1>1, <1>2, <1>8, <2>1
       DEF ReuseServed, MissingServed, KeepCookie, SetCookie, IssuedInv, Known
  <2> QED
    BY <2>2, <2>3
<1>9. ASSUME NEW t \in Tab, LogoutServed(t) \/ LogoutAllServed(t) PROVE BrowserInv'
  <2>1. Families \subseteq Cookie
    BY <1>1 DEF Families
  <2>2. ended' \subseteq Families /\ ended' \subseteq Cookie
    BY <1>1, <1>9, <2>1 DEF LogoutServed, LogoutAllServed, IssuedInv
  <2>3. BrowserTypeOK'
    BY <1>9, <2>2 DEF LogoutServed, LogoutAllServed, KeepCookie, SetCookie
  <2>4. IssuedInv'
    BY <1>2, <1>9, <2>2
       DEF LogoutServed, LogoutAllServed, KeepCookie, SetCookie, IssuedInv, Known
  <2> QED
    BY <2>3, <2>4
<1>10. CASE EndElsewhere
  <2>1. Families \subseteq Cookie
    BY <1>1 DEF Families
  <2> QED
    BY <1>2, <1>10, <2>1 DEF EndElsewhere, IssuedInv, Known
<1>11. CASE UNCHANGED browserVars
  BY <1>2, <1>11 DEF browserVars, IssuedInv, Known
<1> QED
  BY <1>4, <1>5, <1>6, <1>7, <1>8, <1>9, <1>10, <1>11 DEF BrowserNext

\* The jar, the tokens and the exchanges of every tab hold what they are declared to.
THEOREM BrowserTypeIsInvariant == BrowserSpec => []BrowserTypeOK
<1>1. BrowserInv => BrowserTypeOK
  BY DEF BrowserInv
<1> QED
  BY <1>1, InitBrowser, NextBrowser, PTL DEF BrowserSpec

-----------------------------------------------------------------------------
(* An honest browser                                                       *)

\* While nothing has gone wrong there is one exchange, made with the cookie in
\* the jar, and what is in the jar, or on its way to it, has not been spent.
HonestInv ==
    ~mishap =>
        /\ \A t, u \in Tab : exchange[t] # Idle /\ exchange[u] # Idle => t = u
        /\ \A t \in Tab :
              /\ exchange[t].stage = "sent" => exchange[t].had = jar
              /\ exchange[t].set \notin spent
        /\ jar \in spent => \E t \in Tab : exchange[t].set # NoCookie
        /\ burned \subseteq ended

\* Only an answer sets the cookie.
SetInv ==
    \A t \in Tab :
        /\ exchange[t].stage = "idle" <=> exchange[t] = Idle
        /\ exchange[t].set # NoCookie =>
              /\ exchange[t].stage = "answered"
              /\ exchange[t].op \in {"signin", "refresh"}
              /\ exchange[t].op = "refresh" =>
                    /\ exchange[t].had # NoCookie
                    /\ familyOf[exchange[t].set] = familyOf[exchange[t].had]

LEMMA InitSet == BrowserInit => SetInv
  BY DEF BrowserInit, SetInv, Idle

LEMMA NextSet == BrowserInv /\ SetInv /\ [BrowserNext]_browserVars => SetInv'
<1> SUFFICES ASSUME BrowserInv, SetInv, [BrowserNext]_browserVars PROVE SetInv'
  OBVIOUS
<1> USE DEF BrowserInv, BrowserTypeOK
<1>1. \A x : exchange[x] = Idle => exchange[x].stage = "idle" /\ exchange[x].set = NoCookie
  BY DEF Idle
<1>2. ASSUME NEW t \in Tab, NEW op \in Operation, Send(t, op) PROVE SetInv'
  BY <1>2 DEF Send, SetInv, Idle
<1>3. ASSUME NEW t \in Tab, Receive(t) \/ Lose(t) PROVE SetInv'
  BY <1>3 DEF Receive, Lose, SetInv, Idle
<1>4. ASSUME NEW t \in Tab, SignInServed(t) PROVE SetInv'
  <2>1. PICK c \in Fresh : familyOf' = [familyOf EXCEPT ![c] = c] /\ SetCookie(t, c)
    BY <1>4 DEF SignInServed
  <2>2. \A d \in Issued : familyOf'[d] = familyOf[d]
    BY <2>1, FreshIsNew, Issuing
  <2> QED
    BY <1>4, <2>1, <2>2 DEF SignInServed, Asked, SetCookie, SetInv, IssuedInv, Known, Idle
<1>5. ASSUME NEW t \in Tab, RefreshServed(t) PROVE SetInv'
  <2> DEFINE c == Sent(t)
  <2>1. c = exchange[t].had /\ c \in Issued /\ familyOf[c] \in Cookie
    BY <1>5 DEF RefreshServed, Sent, IssuedInv, Known, Issued
  <2>2. PICK d \in Fresh : familyOf' = [familyOf EXCEPT ![d] = familyOf[c]] /\ SetCookie(t, d)
    BY <1>5 DEF RefreshServed
  <2>3. familyOf'[d] = familyOf[c] /\ \A e \in Issued : familyOf'[e] = familyOf[e]
    BY <2>1, <2>2, Issuing
  <2> QED
    BY <1>5, <2>1, <2>2, <2>3, BrowserAssumption
       DEF RefreshServed, Asked, SetCookie, SetInv, IssuedInv, Known, Idle, Issued
<1>6. ASSUME NEW t \in Tab,
             ReuseServed(t) \/ MissingServed(t) \/ LogoutServed(t) \/ LogoutAllServed(t)
      PROVE  SetInv'
  <2>1. Asked(t, exchange[t].op) /\ KeepCookie(t) /\ familyOf' = familyOf
    BY <1>6 DEF ReuseServed, MissingServed, LogoutServed, LogoutAllServed, Asked
  <2> QED
    BY <2>1 DEF Asked, KeepCookie, SetCookie, SetInv, Idle
<1>7. CASE EndElsewhere \/ UNCHANGED browserVars
  BY <1>7 DEF EndElsewhere, browserVars, SetInv
<1> QED
  BY <1>2, <1>3, <1>4, <1>5, <1>6, <1>7 DEF BrowserNext

LEMMA InitHonest == BrowserInit => HonestInv
  BY DEF BrowserInit, HonestInv, Idle

LEMMA NextHonest ==
    BrowserInv /\ SetInv /\ HonestInv /\ [BrowserNext]_browserVars => HonestInv'
<1> SUFFICES ASSUME BrowserInv, SetInv, HonestInv, [BrowserNext]_browserVars, ~mishap'
             PROVE  HonestInv'
  BY DEF HonestInv
<1> USE DEF BrowserInv, BrowserTypeOK
<1>1. ~mishap
  BY DEF BrowserNext, Send, Receive, Lose, SignInServed, RefreshServed, ReuseServed,
         MissingServed, LogoutServed, LogoutAllServed, EndElsewhere, browserVars
<1>2. ASSUME NEW t \in Tab, NEW op \in Operation, Send(t, op) PROVE HonestInv'
  <2>1. \A u \in Tab : exchange[u] = Idle
    BY <1>2 DEF Send
  <2> QED
    BY <1>1, <1>2, <2>1 DEF Send, HonestInv, IssuedInv, Known, Issued, Idle
<1>3. ASSUME NEW t \in Tab, Receive(t) PROVE HonestInv'
  <2>1. \A u \in Tab : exchange'[u] = Idle
    BY <1>1, <1>3 DEF Receive, HonestInv, SetInv, Idle
  <2>2. jar' \notin spent
    BY <1>1, <1>3 DEF Receive, HonestInv, SetInv, Idle
  <2> QED
    BY <1>1, <1>3, <2>1, <2>2, BrowserAssumption DEF Receive, HonestInv, Idle
<1>4. ASSUME NEW t \in Tab, Lose(t) PROVE FALSE
  BY <1>4 DEF Lose
<1>5. ASSUME NEW t \in Tab, exchange[t].stage = "sent"
      PROVE  /\ exchange[t].had = jar /\ jar \notin spent
             /\ \A u \in Tab \ {t} : exchange[u] = Idle
  BY <1>1, <1>5 DEF HonestInv, SetInv, Idle
<1>6. ASSUME NEW t \in Tab, SignInServed(t) PROVE HonestInv'
  <2>1. PICK c \in Fresh : SetCookie(t, c)
    BY <1>6 DEF SignInServed
  <2>2. c \notin spent
    BY FreshIsNew DEF IssuedInv
  <2>3. \A u \in Tab \ {t} : exchange[u] = Idle /\ exchange'[u] = Idle
    BY <1>5, <1>6, <2>1 DEF SignInServed, Asked, SetCookie
  <2>4. exchange'[t].stage = "answered" /\ exchange'[t].set = c
    BY <2>1 DEF SetCookie
  <2>5. burned' \subseteq ended' /\ jar' = jar /\ spent' = spent /\ jar \notin spent
    BY <1>1, <1>5, <1>6 DEF SignInServed, Asked, HonestInv
  <2> QED
    BY <2>2, <2>3, <2>4, <2>5, BrowserAssumption DEF HonestInv, Idle
<1>7. ASSUME NEW t \in Tab, RefreshServed(t) PROVE HonestInv'
  <2> DEFINE c == Sent(t)
  <2>1. PICK d \in Fresh : SetCookie(t, d)
    BY <1>7 DEF RefreshServed
  <2>2. c = exchange[t].had /\ c \in Issued /\ spent' = spent \cup {c}
    BY <1>7 DEF RefreshServed, Sent, IssuedInv, Known
  <2>3. d \notin spent' /\ d \in Cookie
    BY <2>2, FreshIsNew DEF IssuedInv
  <2>4. \A u \in Tab \ {t} : exchange[u] = Idle /\ exchange'[u] = Idle
    BY <1>5, <1>7, <2>1 DEF RefreshServed, Asked, SetCookie
  <2>5. exchange'[t].stage = "answered" /\ exchange'[t].set = d
    BY <2>1 DEF SetCookie
  <2>6. burned' \subseteq ended' /\ jar' = jar /\ NoCookie \notin spent'
    BY <1>1, <1>7, <2>2, BrowserAssumption DEF RefreshServed, HonestInv, IssuedInv, Issued
  <2> QED
    BY <2>3, <2>4, <2>5, <2>6, BrowserAssumption DEF HonestInv, Idle
<1>8. ASSUME NEW t \in Tab,
             ReuseServed(t) \/ MissingServed(t) \/ LogoutServed(t) \/ LogoutAllServed(t)
      PROVE  HonestInv'
  <2>1. exchange[t].stage = "sent" /\ SetCookie(t, NoCookie) /\ jar' = jar /\ spent' = spent
    BY <1>8 DEF ReuseServed, MissingServed, LogoutServed, LogoutAllServed, Asked, KeepCookie
  <2>2. burned' \subseteq ended'
    <3>1. CASE ReuseServed(t)
      <4>1. Sent(t) = jar /\ Sent(t) # NoCookie
        BY <1>5, <2>1, <3>1 DEF ReuseServed, Sent
      <4>2. familyOf[jar] \in ended
        BY <1>1, <1>5, <2>1, <3>1, <4>1 DEF ReuseServed, HonestInv
      <4> QED
        BY <1>1, <3>1, <4>1, <4>2 DEF ReuseServed, HonestInv
    <3>2. CASE MissingServed(t)
      BY <1>1, <3>2 DEF MissingServed, HonestInv
    <3>3. CASE LogoutServed(t) \/ LogoutAllServed(t)
      BY <1>1, <3>3 DEF LogoutServed, LogoutAllServed, HonestInv
    <3> QED
      BY <1>8, <3>1, <3>2, <3>3
  <2>3. NoCookie \notin spent
    BY BrowserAssumption
  <2>4. \A u \in Tab \ {t} : exchange[u] = Idle /\ exchange'[u] = Idle
    BY <1>5, <2>1 DEF SetCookie
  <2>5. exchange'[t].stage = "answered" /\ exchange'[t].set = NoCookie
    BY <2>1 DEF SetCookie
  <2> QED
    BY <1>5, <2>1, <2>2, <2>3, <2>4, <2>5 DEF HonestInv, Idle
<1>9. CASE EndElsewhere
  BY <1>1, <1>9 DEF EndElsewhere, HonestInv, IssuedInv
<1>10. CASE UNCHANGED browserVars
  BY <1>1, <1>10 DEF browserVars, HonestInv
<1> QED
  BY <1>2, <1>3, <1>4, <1>6, <1>7, <1>8, <1>9, <1>10 DEF BrowserNext

\* Whoever uses one tab at a time and gets every answer is never taken for a
\* thief: no refresh of theirs burns a family that had not ended.
THEOREM HonestBrowserIsSafe == BrowserSpec => []HonestBrowserIsNotBurned
<1>1. HonestInv => HonestBrowserIsNotBurned
  BY DEF HonestInv, HonestBrowserIsNotBurned
<1> QED
  BY <1>1, InitBrowser, NextBrowser, InitSet, NextSet, InitHonest, NextHonest, PTL
     DEF BrowserSpec

-----------------------------------------------------------------------------
(* Logout                                                                  *)

Dead(c) == c # NoCookie => familyOf[c] \in ended \cup burned

Leaving == {"logout", "logout-all"}

\* A logout that has been served has ended the session it was sent with; and
\* after the person has signed out, neither the jar nor a request under way nor
\* its answer holds a live token.
LogoutInv ==
    Reaches("logout") /\ Reaches("logout-all") =>
        /\ \A t \in Tab :
              exchange[t].stage = "answered" /\ exchange[t].op \in Leaving => Dead(exchange[t].had)
        /\ out => /\ Dead(jar)
                  /\ \A t \in Tab : exchange[t] # Idle =>
                        exchange[t].op # "signin" /\ Dead(exchange[t].had)

LEMMA InitLogout == BrowserInit => LogoutInv
  BY DEF BrowserInit, LogoutInv, Idle

LEMMA PathIsFixed ==
    ASSUME [BrowserNext]_browserVars, NEW op
    PROVE  Reaches(op)' <=> Reaches(op)
<1>1. cookiePath' = cookiePath
  BY DEF BrowserNext, Send, Receive, Lose, SignInServed, RefreshServed, ReuseServed,
         MissingServed, LogoutServed, LogoutAllServed, EndElsewhere, browserVars
<1> QED
  BY <1>1 DEF Reaches

LEMMA NextLogout ==
    BrowserInv /\ SetInv /\ LogoutInv /\ [BrowserNext]_browserVars => LogoutInv'
<1> SUFFICES ASSUME BrowserInv, SetInv, LogoutInv, [BrowserNext]_browserVars,
                    Reaches("logout"), Reaches("logout-all")
             PROVE  LogoutInv'
  BY PathIsFixed DEF LogoutInv
<1> USE DEF BrowserInv, BrowserTypeOK
<1>1. \A c : Known(c) /\ Dead(c) => Dead(c)'
  <2>1. ASSUME NEW c \in Issued PROVE familyOf'[c] = familyOf[c]
    <3>1. ASSUME NEW t \in Tab, SignInServed(t) PROVE familyOf'[c] = familyOf[c]
      BY <3>1, FreshIsNew, Issuing DEF SignInServed
    <3>2. ASSUME NEW t \in Tab, RefreshServed(t) PROVE familyOf'[c] = familyOf[c]
      BY <3>2, FreshIsNew DEF RefreshServed, Issued
    <3> QED
      BY <3>1, <3>2 DEF BrowserNext, Send, Receive, Lose, ReuseServed, MissingServed,
                        LogoutServed, LogoutAllServed, EndElsewhere, browserVars
  <2>2. ended \subseteq ended' /\ burned \subseteq burned'
    BY DEF BrowserNext, Send, Receive, Lose, SignInServed, RefreshServed, ReuseServed,
           MissingServed, LogoutServed, LogoutAllServed, EndElsewhere, browserVars, IssuedInv
  <2> QED
    BY <2>1, <2>2 DEF Known, Dead
<1>2. Known(jar) /\ \A t \in Tab : Known(exchange[t].had) /\ Known(exchange[t].set)
  BY DEF IssuedInv
<1>3. Idle.stage = "idle" /\ Idle.had = NoCookie /\ Idle.set = NoCookie
  BY DEF Idle
<1>4. ASSUME NEW t \in Tab, NEW op \in Operation, Send(t, op) PROVE LogoutInv'
  <2>1. out' => out /\ op # "signin"
    BY <1>4 DEF Send
  <2>2. exchange'[t].stage = "sent" /\ exchange'[t].op = op /\ exchange'[t].had = jar
    BY <1>4 DEF Send
  <2>3. jar' = jar /\ \A u \in Tab \ {t} : exchange'[u] = exchange[u]
    BY <1>4 DEF Send
  <2> QED
    BY <1>1, <1>2, <1>3, <2>1, <2>2, <2>3 DEF LogoutInv
<1>5. ASSUME NEW t \in Tab, Lose(t) PROVE LogoutInv'
  <2>1. exchange'[t] = Idle /\ out' = out /\ jar' = jar
    BY <1>5 DEF Lose
  <2>2. \A u \in Tab \ {t} : exchange'[u] = exchange[u]
    BY <1>5 DEF Lose
  <2> QED
    BY <1>1, <1>2, <1>3, <2>1, <2>2 DEF LogoutInv
<1>6. ASSUME NEW t \in Tab, Receive(t) PROVE LogoutInv'
  <2>1. /\ exchange'[t] = Idle /\ exchange[t] # Idle /\ exchange[t].stage = "answered"
        /\ \A u \in Tab \ {t} : exchange'[u] = exchange[u]
        /\ jar' = IF exchange[t].set = NoCookie THEN jar ELSE exchange[t].set
    BY <1>3, <1>6 DEF Receive
  <2>2. CASE exchange[t].op \in Leaving
    <3>1. jar' = jar /\ Dead(exchange[t].had)
      BY <2>1, <2>2 DEF SetInv, LogoutInv, Leaving
    <3>2. (out' <=> AllOfOneSession)
      BY <1>6, <2>2 DEF Receive, Leaving
    <3>3. ASSUME AllOfOneSession, NEW u \in Tab, exchange[u] # Idle
          PROVE  exchange[u].op # "signin" /\ Dead(exchange[u].had) /\ Dead(jar)
      <4>1. SameSession(exchange[t].had, jar) /\ SameSession(exchange[u].had, jar)
        BY <2>1, <3>3 DEF AllOfOneSession
      <4>2. \A c \in Issued : c # NoCookie
        BY BrowserAssumption DEF Issued
      <4>3. Dead(jar)
        BY <3>1, <4>1, <4>2 DEF SameSession, Dead
      <4> QED
        BY <3>3, <4>1, <4>2, <4>3 DEF AllOfOneSession, SameSession, Dead
    <3> QED
      BY <1>1, <1>2, <1>3, <2>1, <3>1, <3>2, <3>3 DEF LogoutInv
  <2>3. CASE exchange[t].op \notin Leaving
    <3>1. out' = out
      BY <1>6, <2>3 DEF Receive, Leaving
    <3>2. out => Dead(IF exchange[t].set = NoCookie THEN jar ELSE exchange[t].set)
      BY <2>1 DEF LogoutInv, SetInv, Dead
    <3> QED
      BY <1>1, <1>2, <1>3, <2>1, <3>1, <3>2 DEF LogoutInv
  <2> QED
    BY <2>2, <2>3
<1>7. ASSUME NEW t \in Tab, NEW c, SetCookie(t, c), exchange[t].stage = "sent",
             jar' = jar, out' = out,
             exchange[t].op \in Leaving => Dead(exchange[t].had)'
      PROVE  LogoutInv'
  <2>1. /\ exchange'[t].stage = "answered" /\ exchange'[t].op = exchange[t].op
        /\ exchange'[t].had = exchange[t].had
        /\ \A u \in Tab \ {t} : exchange'[u] = exchange[u]
    BY <1>7 DEF SetCookie
  <2>2. exchange[t] # Idle
    BY <1>3, <1>7
  <2> QED
    BY <1>1, <1>2, <1>3, <1>7, <2>1, <2>2 DEF LogoutInv, Dead
<1>8. ASSUME NEW t \in Tab, SignInServed(t) \/ RefreshServed(t) PROVE LogoutInv'
  <2>1. \E c : SetCookie(t, c)
    BY <1>8 DEF SignInServed, RefreshServed
  <2> QED
    BY <1>7, <1>8, <2>1 DEF SignInServed, RefreshServed, Asked, Leaving
<1>9. ASSUME NEW t \in Tab, ReuseServed(t) \/ MissingServed(t) PROVE LogoutInv'
  BY <1>7, <1>9 DEF ReuseServed, MissingServed, Asked, KeepCookie, Leaving
<1>10. ASSUME NEW t \in Tab, LogoutServed(t) \/ LogoutAllServed(t) PROVE LogoutInv'
  <2>1. Sent(t) = exchange[t].had
    BY <1>10 DEF LogoutServed, LogoutAllServed, Asked, Sent
  <2>2. exchange[t].had # NoCookie => familyOf[exchange[t].had] \in ended'
    BY <1>2, <1>10, <2>1 DEF LogoutServed, LogoutAllServed, Known, Families
  <2>3. familyOf' = familyOf /\ jar' = jar /\ out' = out
        /\ SetCookie(t, NoCookie) /\ exchange[t].stage = "sent"
    BY <1>10 DEF LogoutServed, LogoutAllServed, KeepCookie, Asked
  <2>4. Dead(exchange[t].had)'
    BY <2>2, <2>3 DEF Dead, SetCookie
  <2> QED
    BY <1>7, <2>3, <2>4
<1>11. CASE EndElsewhere \/ UNCHANGED browserVars
  <2>1. exchange' = exchange /\ jar' = jar /\ out' = out
    BY <1>11 DEF EndElsewhere, browserVars
  <2> QED
    BY <1>1, <1>2, <2>1 DEF LogoutInv
<1> QED
  BY <1>4, <1>5, <1>6, <1>8, <1>9, <1>10, <1>11 DEF BrowserNext

\* Where the cookie reaches the logout, nothing left in the browser opens a
\* session once the answer is there, whatever refresh the logout overtook.
THEOREM LogoutIsFinal == BrowserSpec => []LogoutEndsWhereItReaches
<1>1. LogoutInv => LogoutEndsWhereItReaches
  BY DEF LogoutInv, LogoutEndsWhereItReaches, SignedOut, Dead
<1> QED
  BY <1>1, InitBrowser, NextBrowser, InitSet, NextSet, InitLogout, NextLogout, PTL
     DEF BrowserSpec
=============================================================================
