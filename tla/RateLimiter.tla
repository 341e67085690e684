---------------------------- MODULE RateLimiter ----------------------------
(***************************************************************************)
(* The in-process limiter of ratelimit.py: a dict of windows under a lock, *)
(* swept at most once a window by whichever request comes first.           *)
(*                                                                         *)
(* hit is one action: it runs under its lock, and the dependency that      *)
(* calls it awaits nothing.  Times are kept as ages, in ticks.             *)
(***************************************************************************)
EXTENDS Naturals

CONSTANTS
    Slot,       \* a bucket and a caller's address
    Window,     \* settings.RATE_LIMIT_WINDOW_SECONDS, in ticks
    Limit,      \* the ceiling of the slot's bucket
    Absent      \* no entry in the dict

ASSUME LimiterAssumption ==
    /\ Window \in Nat \ {0}
    /\ Limit \in [Slot -> Nat]
    /\ Absent \notin [age : Nat, count : Nat]

VARIABLES
    windows,    \* _windows
    sinceSweep, \* ticks since _last_sweep
    answer,     \* what the last hit returned
    sinceAdmit  \* history: ticks since the i-th last request of s was let through

limiterVars == <<windows, sinceSweep, answer, sinceAdmit>>

\* The request that opens a window is let through, whatever the ceiling.
Ceiling(s) == IF Limit[s] = 0 THEN 1 ELSE Limit[s]

\* Bound: the history goes one request further back than a slot may have within
\* one window's time.
Remembered(s) == 1 .. 2 * Ceiling(s) + 1

\* The types of the dict, the age of its last sweep and the history.
LimiterTypeOK ==
    /\ windows \in [Slot -> [age : Nat, count : Nat] \cup {Absent}]
    /\ sinceSweep \in 0 .. Window
    /\ answer \in BOOLEAN
    /\ DOMAIN sinceAdmit = Slot
    /\ \A s \in Slot : sinceAdmit[s] \in [Remembered(s) -> 0 .. Window]

-----------------------------------------------------------------------------
Finished(entry) == entry # Absent => entry.age >= Window

\* Mutant: the sweep comes one tick late.
SweepLate == sinceSweep > Window

SweepDue == sinceSweep >= Window

\* Mutant: a sweep drops every window.
SweptClean == [s \in Slot |-> IF SweepDue THEN Absent ELSE windows[s]]

\* The dict as _sweep leaves it.
Swept == [s \in Slot |-> IF SweepDue /\ Finished(windows[s]) THEN Absent ELSE windows[s]]

\* Mutant: _last_sweep is set by every request.
LastSweepAlways == 0

LastSweep == IF SweepDue THEN 0 ELSE sinceSweep

Admit(s) ==
    sinceAdmit' = [sinceAdmit EXCEPT ![s] =
        [i \in Remembered(s) |-> IF i = 1 THEN 0 ELSE sinceAdmit[s][i - 1]]]

\* Mutant: the count is compared before the request is added to it.
WithinLate(s) == Swept[s].count <= Limit[s]

Within(s) == Swept[s].count < Limit[s]

\* The two ends of hit.
OpenWindow(s) ==
    /\ Finished(Swept[s])
    /\ windows' = [Swept EXCEPT ![s] = [age |-> 0, count |-> 1]]
    /\ sinceSweep' = LastSweep
    /\ answer' = TRUE
    /\ Admit(s)

\* Bound: a count past the ceiling stays at the ceiling.
CountRequest(s) ==
    /\ ~Finished(Swept[s])
    /\ windows' = [Swept EXCEPT ![s] =
          [age |-> Swept[s].age,
           count |-> IF Within(s) THEN Swept[s].count + 1 ELSE Swept[s].count]]
    /\ answer' = Within(s)
    /\ IF Within(s) THEN Admit(s) ELSE UNCHANGED sinceAdmit
    /\ sinceSweep' = LastSweep

\* Bound: nothing tells ages from 2 * Window on, a later sweep, or a request let
\* through a window ago or earlier, apart.
Older(entry) ==
    IF entry = Absent THEN Absent
    ELSE [age |-> IF entry.age < 2 * Window THEN entry.age + 1 ELSE entry.age,
          count |-> entry.count]

Tick ==
    /\ windows' = [s \in Slot |-> Older(windows[s])]
    /\ sinceSweep' = IF SweepDue THEN sinceSweep ELSE sinceSweep + 1
    /\ sinceAdmit' = [s \in Slot |-> [i \in Remembered(s) |->
          IF sinceAdmit[s][i] < Window THEN sinceAdmit[s][i] + 1 ELSE Window]]
    /\ UNCHANGED answer

\* _last_sweep starts at 0, on a clock that may be anywhere.
LimiterInit ==
    /\ windows = [s \in Slot |-> Absent]
    /\ sinceSweep \in 0 .. Window
    /\ answer = TRUE
    /\ sinceAdmit = [s \in Slot |-> [i \in Remembered(s) |-> Window]]

LimiterNext == Tick \/ \E s \in Slot : OpenWindow(s) \/ CountRequest(s)

LimiterSpec == LimiterInit /\ [][LimiterNext]_limiterVars

-----------------------------------------------------------------------------
(* What must hold                                                          *)

\* The windows that a request may still find open.
OpenWindows == [s \in Slot |-> IF Finished(windows[s]) THEN Absent ELSE windows[s]]

Promise ==
    INSTANCE FixedWindow WITH Closed <- Absent, meter <- OpenWindows

\* A slot is judged by its own open window alone: the sweep, done on behalf of
\* another slot and at times of no slot's choosing, neither forgives a request
\* nor keeps one counted.
ImplementsFixedWindow == Promise!Spec

\* "So an IP-keyed dict cannot grow unbounded": after a request, whatever slots
\* the traffic came for, nothing in the dict is as old as two windows.
NothingLingers ==
    [][(\E s \in Slot : OpenWindow(s) \/ CountRequest(s)) =>
          \A s \in Slot : windows'[s] # Absent => windows'[s].age < 2 * Window]_limiterVars

\* Where two windows meet a caller gets twice the ceiling through within one
\* window's time, and never more: the last request but that many is a window old.
AtMostTwiceTheCeiling ==
    \A s \in Slot : sinceAdmit[s][2 * Ceiling(s) + 1] >= Window
=============================================================================
