------------------------- MODULE RateLimiterProofs -------------------------
(***************************************************************************)
(* Proofs about RateLimiter, for any slots, any ceilings and any length of *)
(* window: its types, that it implements FixedWindow, that its dict        *)
(* forgets what is old, and what it lets through where two windows meet.   *)
(***************************************************************************)
EXTENDS RateLimiter, TLAPS

\* What the last sweep left was then younger than a window.
SweptYoung ==
    \A s \in Slot :
        windows[s] # Absent /\ ~SweepDue => windows[s].age < Window + sinceSweep

Inv == LimiterTypeOK /\ SweptYoung

LEMMA CeilingIsPositive == ASSUME NEW s \in Slot PROVE Ceiling(s) \in Nat \ {0}
BY LimiterAssumption DEF Ceiling

HistoryOK ==
    /\ DOMAIN sinceAdmit = Slot
    /\ \A s \in Slot : sinceAdmit[s] \in [Remembered(s) -> 0 .. Window]

\* A request that is let through moves the others one place back.
LEMMA AdmitShifts ==
    ASSUME HistoryOK, NEW s \in Slot, Admit(s)
    PROVE  /\ HistoryOK'
           /\ sinceAdmit'[s][1] = 0
           /\ \A i \in Remembered(s) \ {1} : sinceAdmit'[s][i] = sinceAdmit[s][i - 1]
           /\ \A t \in Slot \ {s} : sinceAdmit'[t] = sinceAdmit[t]
<1> DEFINE shifted == [i \in Remembered(s) |-> IF i = 1 THEN 0 ELSE sinceAdmit[s][i - 1]]
<1>1. Ceiling(s) \in Nat \ {0} /\ Window \in Nat \ {0}
  BY CeilingIsPositive, LimiterAssumption
<1>2. \A i \in Remembered(s) \ {1} : i - 1 \in Remembered(s)
  BY <1>1 DEF Remembered
<1>3. shifted \in [Remembered(s) -> 0 .. Window]
  BY <1>1, <1>2 DEF HistoryOK
<1>4. sinceAdmit' = [sinceAdmit EXCEPT ![s] = shifted]
  BY DEF Admit
<1>5. 1 \in Remembered(s)
  BY <1>1 DEF Remembered
<1>6. shifted[1] = 0 /\ \A i \in Remembered(s) \ {1} : shifted[i] = sinceAdmit[s][i - 1]
  BY <1>5
<1> HIDE DEF shifted
<1>7. sinceAdmit'[s] = shifted /\ \A t \in Slot \ {s} : sinceAdmit'[t] = sinceAdmit[t]
  BY <1>4 DEF HistoryOK
<1> QED
  BY <1>3, <1>4, <1>6, <1>7 DEF HistoryOK

\* With the clock every request grows older, up to the age of a window.
LEMMA TickAges ==
    ASSUME HistoryOK, Tick
    PROVE  /\ HistoryOK'
           /\ \A s \in Slot : \A i \in Remembered(s) :
                 sinceAdmit'[s][i] =
                     IF sinceAdmit[s][i] < Window THEN sinceAdmit[s][i] + 1 ELSE Window
<1>1. sinceAdmit' = [s \in Slot |-> [i \in Remembered(s) |->
          IF sinceAdmit[s][i] < Window THEN sinceAdmit[s][i] + 1 ELSE Window]]
  BY DEF Tick
<1>2. \A s \in Slot : \A i \in Remembered(s) : sinceAdmit[s][i] \in 0 .. Window
  BY DEF HistoryOK
<1> QED
  BY <1>1, <1>2, LimiterAssumption DEF HistoryOK

\* A sweep leaves a dict of windows, no more than before it.
LEMMA SweptDict ==
    ASSUME LimiterTypeOK
    PROVE  /\ Swept \in [Slot -> [age : Nat, count : Nat] \cup {Absent}]
           /\ LastSweep \in 0 .. Window
           /\ \A s \in Slot : Finished(Swept[s]) <=> Finished(windows[s])
           /\ \A s \in Slot : ~Finished(windows[s]) => Swept[s] = windows[s]
BY LimiterAssumption DEF LimiterTypeOK, Swept, LastSweep, SweepDue, Finished

\* An entry stays one as it grows older.
LEMMA OlderEntry ==
    ASSUME NEW entry \in [age : Nat, count : Nat]
    PROVE  /\ Older(entry) \in [age : Nat, count : Nat]
           /\ Finished(Older(entry)) <=> ~(entry.age + 1 < Window)
           /\ entry.age < 2 * Window =>
                 Older(entry) = [age |-> entry.age + 1, count |-> entry.count]
           /\ Older(entry).age <= entry.age + 1
<1>1. entry # Absent /\ entry.age \in Nat /\ entry.count \in Nat
  BY LimiterAssumption
<1>2. CASE entry.age < 2 * Window
  <2>1. Older(entry) = [age |-> entry.age + 1, count |-> entry.count]
    BY <1>1, <1>2 DEF Older
  <2> QED
    BY <1>1, <1>2, <2>1, LimiterAssumption DEF Finished
<1>3. CASE ~(entry.age < 2 * Window)
  <2>1. Older(entry) = [age |-> entry.age, count |-> entry.count]
    BY <1>1, <1>3 DEF Older
  <2> QED
    BY <1>1, <1>3, <2>1, LimiterAssumption DEF Finished
<1> QED
  BY <1>2, <1>3

LEMMA InitInv == LimiterInit => Inv
BY LimiterAssumption DEF LimiterInit, Inv, LimiterTypeOK, SweptYoung, Remembered

LEMMA NextInv == Inv /\ [LimiterNext]_limiterVars => Inv'
<1> SUFFICES ASSUME Inv, [LimiterNext]_limiterVars PROVE Inv'
  OBVIOUS
<1> USE LimiterAssumption DEF Inv
<1>1. CASE Tick
  <2>1. windows' \in [Slot -> [age : Nat, count : Nat] \cup {Absent}]
    BY <1>1 DEF Tick, LimiterTypeOK, Older
  <2>2. HistoryOK'
    BY <1>1, TickAges DEF LimiterTypeOK, HistoryOK
  <2>3. sinceSweep' \in 0 .. Window /\ answer' \in BOOLEAN
    BY <1>1 DEF Tick, LimiterTypeOK, SweepDue
  <2>4. SweptYoung'
    BY <1>1 DEF Tick, LimiterTypeOK, Older, SweptYoung, SweepDue
  <2> QED
    BY <2>1, <2>2, <2>3, <2>4 DEF LimiterTypeOK, HistoryOK
<1>2. ASSUME NEW s \in Slot, OpenWindow(s) \/ CountRequest(s) PROVE Inv'
  <2>1. windows' \in [Slot -> [age : Nat, count : Nat] \cup {Absent}]
    <3>1. CASE OpenWindow(s)
      BY <3>1, SweptDict DEF OpenWindow
    <3>2. CASE CountRequest(s)
      BY <3>2, SweptDict DEF CountRequest, Within, Finished
    <3> QED
      BY <1>2, <3>1, <3>2
  <2>2. HistoryOK'
    <3>1. Admit(s) \/ UNCHANGED sinceAdmit
      BY <1>2 DEF OpenWindow, CountRequest
    <3>2. CASE Admit(s)
      BY <3>2, AdmitShifts DEF LimiterTypeOK, HistoryOK
    <3> QED
      BY <3>1, <3>2 DEF LimiterTypeOK, HistoryOK
  <2>3. sinceSweep' \in 0 .. Window /\ answer' \in BOOLEAN
    <3>1. answer' = TRUE \/ answer' = (Swept[s].count < Limit[s])
      BY <1>2, Zenon DEF OpenWindow, CountRequest, Within
    <3>2. answer' \in BOOLEAN
      <4>1. (Swept[s].count < Limit[s]) \in BOOLEAN
        BY SMT
      <4> QED
        BY <3>1, <4>1, Zenon
    <3>3. sinceSweep' = LastSweep
      BY <1>2 DEF OpenWindow, CountRequest
    <3> QED
      BY <3>2, <3>3, SweptDict
  <2>4. sinceSweep' = LastSweep
    BY <1>2 DEF OpenWindow, CountRequest
  <2>5. \A t \in Slot :
            windows'[t] # Absent =>
                \/ windows'[t].age = 0
                \/ Swept[t] # Absent /\ windows'[t].age = Swept[t].age
    BY <1>2, SweptDict DEF OpenWindow, CountRequest, Finished
  <2>6. SweptYoung'
    BY <2>3, <2>4, <2>5 DEF SweptYoung, LimiterTypeOK, Swept, LastSweep, SweepDue, Finished
  <2> QED
    BY <2>1, <2>2, <2>3, <2>6 DEF LimiterTypeOK, HistoryOK
<1>3. CASE UNCHANGED limiterVars
  BY <1>3 DEF limiterVars, LimiterTypeOK, SweptYoung, SweepDue
<1> QED
  BY <1>1, <1>2, <1>3 DEF LimiterNext

-----------------------------------------------------------------------------
\* The limiter's state always has its type, for all of _Limiter's operations.
THEOREM TypeCorrect == LimiterSpec => []LimiterTypeOK
<1>1. Inv => LimiterTypeOK
  BY DEF Inv
<1> QED
  BY <1>1, InitInv, NextInv, PTL DEF LimiterSpec

\* After a request no entry of the dict is as old as two windows, whichever
\* slots the traffic came for: what _sweep's docstring claims.
THEOREM DictForgets == LimiterSpec => NothingLingers
<1>1. ASSUME Inv, [LimiterNext]_limiterVars
      PROVE  (\E s \in Slot : OpenWindow(s) \/ CountRequest(s)) =>
                \A s \in Slot : windows'[s] # Absent => windows'[s].age < 2 * Window
  <2>1. Inv'
    BY <1>1, NextInv
  <2>2. ASSUME NEW s \in Slot, OpenWindow(s) \/ CountRequest(s)
        PROVE  sinceSweep' < Window
    BY <1>1, <2>2, LimiterAssumption
       DEF Inv, LimiterTypeOK, OpenWindow, CountRequest, LastSweep, SweepDue
  <2> QED
    BY <2>1, <2>2, LimiterAssumption DEF Inv, LimiterTypeOK, SweptYoung, SweepDue
<1> QED
  BY <1>1, InitInv, NextInv, PTL DEF LimiterSpec, NothingLingers

-----------------------------------------------------------------------------
\* Sweeping is invisible: every behaviour of hit and _sweep is one of slots that
\* each keep their own window and never forget it early.
THEOREM Refinement == LimiterSpec => ImplementsFixedWindow
<1> USE LimiterAssumption
<1>1. LimiterInit => Promise!Init
  BY DEF LimiterInit, Promise!Init, OpenWindows, Finished
<1>2. ASSUME Inv, [LimiterNext]_limiterVars PROVE [Promise!Next]_(Promise!vars)
  <2> USE <1>2 DEF Inv
  <2>1. CASE Tick
    <3>1. ASSUME NEW s \in Slot
          PROVE  /\ Finished(Older(windows[s])) <=>
                       (Finished(windows[s]) \/ ~(windows[s].age + 1 < Window))
                 /\ ~Finished(windows[s]) =>
                       Older(windows[s]) =
                           [age |-> windows[s].age + 1, count |-> windows[s].count]
      <4>1. CASE windows[s] = Absent
        BY <4>1 DEF Finished, Older
      <4>2. CASE windows[s] \in [age : Nat, count : Nat]
        <5>1. windows[s] # Absent /\ windows[s].age \in Nat
          BY <4>2
        <5>2. Finished(windows[s]) <=> windows[s].age >= Window
          BY <5>1 DEF Finished
        <5> QED
          BY <4>2, <5>1, <5>2, OlderEntry
      <4> QED
        BY <4>1, <4>2 DEF LimiterTypeOK
    <3>2. Promise!Tick
      BY <2>1, <3>1 DEF Tick, Promise!Tick, LimiterTypeOK, OpenWindows, Finished
    <3> QED
      BY <3>2 DEF Promise!Next
  <2>2. ASSUME NEW s \in Slot, OpenWindow(s) PROVE Promise!Next
    <3>1. OpenWindows[s] = Absent /\ answer' = TRUE
      BY <2>2, SweptDict DEF OpenWindow, OpenWindows
    <3>2. ~Finished([age |-> 0, count |-> 1])
      <4>1. [age |-> 0, count |-> 1] # Absent
        OBVIOUS
      <4> QED
        BY <4>1 DEF Finished
    <3>3. OpenWindows' = [OpenWindows EXCEPT ![s] = [age |-> 0, count |-> 1]]
      BY <2>2, <3>2, SweptDict DEF OpenWindow, OpenWindows
    <3> QED
      BY <3>1, <3>3 DEF Promise!Open, Promise!Next
  <2>3. ASSUME NEW s \in Slot, CountRequest(s) PROVE Promise!Next
    <3> DEFINE within == windows[s].count < Limit[s]
               counted == [age |-> windows[s].age,
                           count |-> IF within THEN windows[s].count + 1
                                     ELSE windows[s].count]
    <3>1. ~Finished(windows[s]) /\ Swept[s] = windows[s]
      BY <2>3, SweptDict DEF CountRequest
    <3>2. windows[s] \in [age : Nat, count : Nat] /\ windows[s].age < Window
      BY <3>1 DEF LimiterTypeOK, Finished
    <3>3. OpenWindows[s] = windows[s]
      BY <3>1 DEF OpenWindows
    <3>4. counted \in [age : Nat, count : Nat] /\ counted # Absent /\ counted.age < Window
      BY <3>2
    <3>5. windows' = [Swept EXCEPT ![s] = counted] /\ answer' = within
      BY <2>3, <3>1 DEF CountRequest, Within
    <3>6. ~Finished(counted)
      BY <3>4 DEF Finished
    <3>7. OpenWindows' = [OpenWindows EXCEPT ![s] = counted]
      <4> HIDE DEF counted
      <4> QED
        BY <3>5, <3>6, SweptDict DEF OpenWindows
    <3> QED
      BY <3>2, <3>3, <3>5, <3>7 DEF Promise!Count, Promise!Next
  <2>4. CASE UNCHANGED limiterVars
    BY <2>4 DEF limiterVars, Promise!vars, OpenWindows, Finished
  <2> QED
    BY <2>1, <2>2, <2>3, <2>4 DEF LimiterNext
<1> QED
  BY <1>1, <1>2, InitInv, NextInv, PTL DEF LimiterSpec, ImplementsFixedWindow, Promise!Spec

-----------------------------------------------------------------------------
(* What a slot lets through.  With c the ceiling and n the requests that   *)
(* the open window has let through: the n + 1st last request is older than *)
(* the window, and c more back it is a whole window older; with no window  *)
(* open the same holds of n = 0, and of a window that ends now.            *)

Ordered ==
    \A s \in Slot : \A i, j \in Remembered(s) :
        i <= j => sinceAdmit[s][i] <= sinceAdmit[s][j]

Spaced(s) ==
    LET c == Ceiling(s)
        n == windows[s].count
    IN  IF Finished(windows[s])
        THEN sinceAdmit[s][1] >= 1 /\ sinceAdmit[s][c + 1] >= Window
        ELSE /\ n \in 1 .. c
             /\ sinceAdmit[s][n + 1] > windows[s].age
             /\ sinceAdmit[s][n + c + 1] >= Window

AdmitInv == Ordered /\ \A s \in Slot : Spaced(s)

LEMMA InitAdmitInv == LimiterInit => AdmitInv
<1> SUFFICES ASSUME LimiterInit PROVE AdmitInv
  OBVIOUS
<1>1. \A s \in Slot : \A i \in Remembered(s) : sinceAdmit[s][i] = Window
  BY DEF LimiterInit
<1>2. ASSUME NEW s \in Slot
      PROVE  1 \in Remembered(s) /\ Ceiling(s) + 1 \in Remembered(s)
  <2>1. Ceiling(s) \in Nat \ {0}
    BY CeilingIsPositive
  <2> QED
    BY <2>1 DEF Remembered
<1>3. \A s \in Slot : Finished(windows[s])
  BY DEF LimiterInit, Finished
<1> QED
  BY <1>1, <1>2, <1>3, LimiterAssumption DEF AdmitInv, Ordered, Spaced

\* A slot whose window and history have not changed, but for a sweep.
LEMMA SweptStaysSpaced ==
    ASSUME LimiterTypeOK, NEW s \in Slot, Spaced(s),
           windows'[s] = Swept[s], sinceAdmit'[s] = sinceAdmit[s]
    PROVE  Spaced(s)'
<1>1. Finished(windows[s])' <=> Finished(windows[s])
  BY SweptDict DEF Finished
<1>2. ~Finished(windows[s]) => windows'[s] = windows[s]
  BY SweptDict
<1> QED
  BY <1>1, <1>2 DEF Spaced

\* The request that opens a window, and one that is counted within its ceiling.
LEMMA AdmitKeepsAdmitInv ==
    ASSUME Inv, AdmitInv, NEW s \in Slot, OpenWindow(s) \/ (CountRequest(s) /\ Within(s))
    PROVE  AdmitInv'
<1> DEFINE c == Ceiling(s)
<1>1. HistoryOK /\ Window \in Nat \ {0} /\ c \in Nat \ {0}
  BY CeilingIsPositive, LimiterAssumption DEF Inv, LimiterTypeOK, HistoryOK
<1>2. /\ sinceAdmit'[s][1] = 0
      /\ \A i \in Remembered(s) \ {1} : sinceAdmit'[s][i] = sinceAdmit[s][i - 1]
      /\ \A t \in Slot \ {s} : sinceAdmit'[t] = sinceAdmit[t]
  <2>1. Admit(s)
    BY DEF OpenWindow, CountRequest
  <2> QED
    BY <1>1, <2>1, AdmitShifts
<1>3. \A i \in Remembered(s) : sinceAdmit[s][i] \in 0 .. Window
  BY <1>1 DEF HistoryOK
<1>4. \A t \in Slot \ {s} : windows'[t] = Swept[t]
  BY SweptDict DEF Inv, OpenWindow, CountRequest
<1>5. Ordered'
  <2> SUFFICES ASSUME NEW t \in Slot, NEW i \in Remembered(t), NEW j \in Remembered(t), i <= j
               PROVE  sinceAdmit'[t][i] <= sinceAdmit'[t][j]
    BY DEF Ordered, Remembered
  <2>1. CASE t # s
    BY <1>2, <2>1 DEF AdmitInv, Ordered
  <2>2. CASE t = s
    <3>1. \A k \in Remembered(s) \ {1} : k - 1 \in Remembered(s)
      BY <1>1 DEF Remembered
    <3>2. CASE i = 1
      BY <1>1, <1>2, <1>3, <2>2, <3>1, <3>2 DEF Remembered
    <3>3. CASE i # 1
      <4>1. i - 1 \in Remembered(s) /\ j - 1 \in Remembered(s) /\ i - 1 <= j - 1 /\ j # 1
        BY <1>1, <2>2, <3>3 DEF Remembered
      <4> QED
        BY <1>2, <2>2, <3>3, <4>1 DEF AdmitInv, Ordered
    <3> QED
      BY <3>2, <3>3
  <2> QED
    BY <2>1, <2>2
<1>6. ASSUME NEW t \in Slot \ {s} PROVE Spaced(t)'
  BY <1>2, <1>4, <1>6, SweptStaysSpaced DEF Inv, AdmitInv
<1>7. Spaced(s)'
  <2>1. CASE OpenWindow(s)
    <3>1. windows'[s] = [age |-> 0, count |-> 1] /\ Finished(windows[s])
      BY <2>1, SweptDict DEF Inv, OpenWindow
    <3>2. ~Finished(windows[s])'
      BY <1>1, <3>1, LimiterAssumption DEF Finished
    <3>3. sinceAdmit[s][1] >= 1 /\ sinceAdmit[s][c + 1] >= Window
      BY <3>1 DEF AdmitInv, Spaced
    <3>4. sinceAdmit'[s][2] >= 1 /\ sinceAdmit'[s][c + 2] >= Window
      BY <1>1, <1>2, <3>3 DEF Remembered
    <3>5. /\ windows'[s].count \in 1 .. c
          /\ sinceAdmit'[s][windows'[s].count + 1] > windows'[s].age
          /\ sinceAdmit'[s][windows'[s].count + c + 1] >= Window
      <4>1. windows'[s].count = 1 /\ windows'[s].age = 0 /\ 1 + 1 = 2 /\ 1 + c + 1 = c + 2
        BY <1>1, <3>1
      <4>2. 2 \in Remembered(s)
        BY <1>1 DEF Remembered
      <4>3. sinceAdmit'[s][2] \in Nat
        BY <1>1, <1>2, <1>3, <4>2 DEF Remembered
      <4> QED
        BY <1>1, <3>4, <4>1, <4>3
    <3> QED
      BY <3>2, <3>5 DEF Spaced
  <2>2. CASE CountRequest(s) /\ Within(s)
    <3> DEFINE n == windows[s].count
    <3>1. ~Finished(windows[s]) /\ Swept[s] = windows[s]
      BY <2>2, SweptDict DEF Inv, CountRequest
    <3>2. /\ n \in 1 .. c
          /\ sinceAdmit[s][n + 1] > windows[s].age
          /\ sinceAdmit[s][n + c + 1] >= Window
      BY <3>1 DEF AdmitInv, Spaced
    <3>3. windows[s] \in [age : Nat, count : Nat] /\ windows[s].age < Window
      BY <1>1, <3>1 DEF Inv, LimiterTypeOK, Finished
    <3>4. n < c /\ n \in Nat
      BY <2>2, <3>1, <3>2, <3>3, LimiterAssumption DEF Within, Ceiling
    <3>5. windows'[s] = [age |-> windows[s].age, count |-> n + 1]
      BY <2>2, <3>1, SweptDict DEF CountRequest, Inv
    <3>6. ~Finished(windows[s])'
      BY <1>1, <3>3, <3>4, <3>5, LimiterAssumption DEF Finished
    <3>7. sinceAdmit'[s][n + 2] > windows[s].age /\ sinceAdmit'[s][n + c + 2] >= Window
      BY <1>1, <1>2, <3>2, <3>4 DEF Remembered
    <3> QED
      BY <1>1, <3>3, <3>4, <3>5, <3>6, <3>7 DEF Spaced
  <2> QED
    BY <2>1, <2>2
<1> QED
  BY <1>5, <1>6, <1>7 DEF AdmitInv

\* The clock turns an open window into a finished one when it is a window old.
LEMMA TickKeepsAdmitInv == ASSUME Inv, AdmitInv, Tick PROVE AdmitInv'
<1>1. HistoryOK /\ Window \in Nat \ {0}
  BY LimiterAssumption DEF Inv, LimiterTypeOK, HistoryOK
<1>2. \A s \in Slot : \A i \in Remembered(s) :
          /\ sinceAdmit[s][i] \in 0 .. Window
          /\ sinceAdmit'[s][i] =
                 IF sinceAdmit[s][i] < Window THEN sinceAdmit[s][i] + 1 ELSE Window
  BY <1>1, TickAges DEF HistoryOK
<1>3. Ordered'
  BY <1>1, <1>2 DEF AdmitInv, Ordered, Remembered
<1>4. ASSUME NEW s \in Slot PROVE Spaced(s)'
  <2> DEFINE c == Ceiling(s)
             n == windows[s].count
  <2>1. c \in Nat \ {0} /\ Spaced(s)
    BY CeilingIsPositive DEF AdmitInv
  <2>2. windows'[s] = Older(windows[s])
    BY DEF Tick
  <2>3. 1 \in Remembered(s) /\ c + 1 \in Remembered(s)
    BY <2>1 DEF Remembered
  <2>4. CASE windows[s] = Absent
    <3>1. windows'[s] = Absent
      BY <2>2, <2>4 DEF Older
    <3> QED
      BY <1>1, <1>2, <2>1, <2>3, <2>4, <3>1 DEF Spaced, Finished
  <2>5. CASE windows[s] # Absent
    <3>1. windows[s] \in [age : Nat, count : Nat]
      BY <2>5 DEF Inv, LimiterTypeOK
    <3>2. /\ windows'[s] \in [age : Nat, count : Nat]
          /\ Finished(windows[s])' <=> ~(windows[s].age + 1 < Window)
      BY <2>2, <3>1, OlderEntry DEF Finished
    <3>3. CASE Finished(windows[s])
      <4>1. Finished(windows[s])'
        BY <1>1, <2>5, <3>1, <3>2, <3>3 DEF Finished
      <4> QED
        BY <1>1, <1>2, <2>1, <2>3, <3>3, <4>1 DEF Spaced
    <3>4. CASE ~Finished(windows[s])
      <4>1. /\ n \in 1 .. c /\ windows[s].age \in Nat
            /\ sinceAdmit[s][n + 1] > windows[s].age
            /\ sinceAdmit[s][n + c + 1] >= Window
            /\ windows[s].age < Window
        BY <1>1, <2>1, <3>1, <3>4 DEF Spaced, Finished
      <4>2. n + 1 \in Remembered(s) /\ n + c + 1 \in Remembered(s) /\ n + 1 <= c + 1
        BY <2>1, <4>1 DEF Remembered
      <4>3. CASE Finished(windows[s])'
        <5>1. sinceAdmit'[s][n + 1] >= Window /\ sinceAdmit'[s][1] >= 1
          BY <1>1, <1>2, <2>3, <3>2, <4>1, <4>2, <4>3
        <5>2. sinceAdmit'[s][n + 1] <= sinceAdmit'[s][c + 1]
          BY <1>3, <2>3, <4>2 DEF Ordered, Remembered
        <5> QED
          BY <1>1, <1>2, <2>3, <4>2, <4>3, <5>1, <5>2 DEF Spaced
      <4>4. CASE ~Finished(windows[s])'
        <5>1. windows'[s] = [age |-> windows[s].age + 1, count |-> n]
          BY <1>1, <2>2, <3>1, <4>1, OlderEntry
        <5>2. sinceAdmit'[s][n + 1] > windows[s].age + 1 /\ sinceAdmit'[s][n + c + 1] >= Window
          BY <1>1, <1>2, <3>2, <4>1, <4>2, <4>4
        <5> QED
          BY <4>1, <4>4, <5>1, <5>2 DEF Spaced
      <4> QED
        BY <4>3, <4>4
    <3> QED
      BY <3>3, <3>4
  <2> QED
    BY <2>4, <2>5
<1> QED
  BY <1>3, <1>4 DEF AdmitInv

LEMMA NextAdmitInv == Inv /\ AdmitInv /\ [LimiterNext]_limiterVars => AdmitInv'
<1> SUFFICES ASSUME Inv, AdmitInv, [LimiterNext]_limiterVars PROVE AdmitInv'
  OBVIOUS
<1>1. ASSUME NEW s \in Slot, CountRequest(s), ~Within(s) PROVE AdmitInv'
  <2>1. UNCHANGED sinceAdmit /\ ~Finished(windows[s]) /\ Swept[s] = windows[s]
    BY <1>1, SweptDict DEF Inv, CountRequest
  <2>2. /\ \A t \in Slot \ {s} : windows'[t] = Swept[t]
        /\ windows'[s] = [age |-> windows[s].age, count |-> windows[s].count]
    BY <1>1, <2>1, SweptDict DEF Inv, CountRequest
  <2>3. windows[s] \in [age : Nat, count : Nat]
    BY <2>1 DEF Inv, LimiterTypeOK, Finished
  <2>4. \A t \in Slot : windows'[t] = Swept[t]
    BY <2>1, <2>2, <2>3
  <2> QED
    BY <2>1, <2>4, SweptStaysSpaced DEF Inv, AdmitInv, Ordered, Remembered
<1>2. CASE UNCHANGED limiterVars
  BY <1>2 DEF limiterVars, AdmitInv, Ordered, Spaced, Finished, Remembered
<1> QED
  BY <1>1, <1>2, AdmitKeepsAdmitInv, TickKeepsAdmitInv DEF LimiterNext

\* However a caller times its requests, and whenever a sweep comes, no more than
\* twice its ceiling gets through within one window's time: the price of a fixed
\* window (_Limiter.hit).
THEOREM BurstsAreBounded == LimiterSpec => []AtMostTwiceTheCeiling
<1>1. Inv /\ AdmitInv => AtMostTwiceTheCeiling
  <2> SUFFICES ASSUME Inv, AdmitInv, NEW s \in Slot
               PROVE  sinceAdmit[s][2 * Ceiling(s) + 1] >= Window
    BY DEF AtMostTwiceTheCeiling
  <2> DEFINE c == Ceiling(s)
             back == IF Finished(windows[s]) THEN c + 1 ELSE windows[s].count + c + 1
  <2>1. c \in Nat \ {0} /\ Spaced(s)
    BY CeilingIsPositive DEF AdmitInv
  <2>2. back \in Remembered(s) /\ sinceAdmit[s][back] >= Window
    BY <2>1 DEF Spaced, Remembered
  <2>3. 2 * c + 1 \in Remembered(s) /\ back <= 2 * c + 1
    BY <2>1, <2>2 DEF Remembered
  <2>4. sinceAdmit[s][back] <= sinceAdmit[s][2 * c + 1]
    BY <2>2, <2>3 DEF AdmitInv, Ordered
  <2> QED
    BY <2>2, <2>3, <2>4, LimiterAssumption DEF Inv, LimiterTypeOK
<1> QED
  BY <1>1, InitInv, NextInv, InitAdmitInv, NextAdmitInv, PTL DEF LimiterSpec
=============================================================================
