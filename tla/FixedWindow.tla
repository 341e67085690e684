---------------------------- MODULE FixedWindow ----------------------------
(***************************************************************************)
(* What the rate limiter promises: every slot has a window of its own,     *)
(* opened by a request, that counts requests until it closes.  No slot     *)
(* feels the others, and nothing is ever swept.                            *)
(***************************************************************************)
EXTENDS Naturals

CONSTANTS
    Slot,       \* a bucket and a caller's address
    Window,     \* settings.RATE_LIMIT_WINDOW_SECONDS, in ticks
    Limit,      \* the ceiling of the slot's bucket
    Closed

VARIABLES
    meter,      \* the open window of a slot: its age and its requests so far
    answer      \* whether the last request was let through

vars == <<meter, answer>>

Init ==
    /\ meter = [s \in Slot |-> Closed]
    /\ answer = TRUE

\* The request that opens a window is let through, whatever the ceiling.
Open(s) ==
    /\ meter[s] = Closed
    /\ meter' = [meter EXCEPT ![s] = [age |-> 0, count |-> 1]]
    /\ answer' = TRUE

\* Beyond the ceiling it no longer matters how many there were.
Count(s) ==
    /\ meter[s] # Closed
    /\ LET within == meter[s].count < Limit[s]
       IN  /\ answer' = within
           /\ meter' = [meter EXCEPT ![s] =
                 [age |-> meter[s].age,
                  count |-> IF within THEN meter[s].count + 1 ELSE meter[s].count]]

Tick ==
    /\ meter' = [s \in Slot |->
          IF meter[s] # Closed /\ meter[s].age + 1 < Window
          THEN [age |-> meter[s].age + 1, count |-> meter[s].count]
          ELSE Closed]
    /\ UNCHANGED answer

Next == Tick \/ \E s \in Slot : Open(s) \/ Count(s)

Spec == Init /\ [][Next]_vars
=============================================================================
