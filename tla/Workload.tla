------------------------------- MODULE Workload -------------------------------
(***************************************************************************)
(* A scenario as the run around it sees it: counters that only grow, never *)
(* more failures than attempts, one return after which nothing is counted, *)
(* and a return once it is stopped. Runner relies on this; Scenario        *)
(* implements it.                                                          *)
(***************************************************************************)
EXTENDS Naturals

CONSTANT Counters   \* those looked at, "attempts" and "failures" among them

VARIABLES
    stopped,    \* the receiver the scenario was given is true
    metrics,    \* Metrics, at least the Counters
    returned    \* run_fixed_positions_with_lifecycle has returned

vars == <<stopped, metrics, returned>>

Plausible == metrics.failures <= metrics.attempts

Init ==
    /\ stopped \in BOOLEAN
    /\ \A c \in Counters : metrics[c] = 0
    /\ ~returned

\* (slip: one failed connection is counted by the dial and by the disconnect)
RunCountsTwice ==
    /\ ~returned /\ returned' = FALSE
    /\ \A c \in Counters : metrics'[c] >= metrics[c]
    /\ UNCHANGED stopped

\* Some tasks go on, and count what they did.
Run ==
    /\ ~returned /\ returned' = FALSE
    /\ \A c \in Counters : metrics'[c] >= metrics[c]
    /\ Plausible'
    /\ UNCHANGED stopped

Return ==
    /\ ~returned /\ returned' = TRUE
    /\ UNCHANGED <<metrics, stopped>>

Stop ==
    /\ ~stopped /\ stopped' = TRUE
    /\ UNCHANGED <<metrics, returned>>

Next == Run \/ Return \/ Stop

Safety == Init /\ [][Next]_vars

\* A workload that is stopped returns, however its tasks stand.
Reacts == stopped ~> returned

Spec == Safety /\ Reacts
===============================================================================
