--------------------------- MODULE SessionContract ---------------------------
(***************************************************************************)
(* What one participant's traffic looks like from run_participant: after   *)
(* it opens it may fail at any time, it ends well only because the run was *)
(* interrupted or the configuration lets a client quit, and when the run   *)
(* is interrupted it ends. Scenario relies on this; Session implements it. *)
(***************************************************************************)
CONSTANTS
    Failures    \* categories a session may fail with

VARIABLES
    mayQuit,        \* scenario.abrupt_disconnect lets a sender leave; never changes
    open,           \* the session carries traffic
    interrupted,    \* the run was stopped, or its deadline has passed
    outcome         \* "none", "ok" or the failure of the last session

vars == <<mayQuit, open, interrupted, outcome>>

Init ==
    /\ mayQuit \in BOOLEAN
    /\ open \in BOOLEAN
    /\ interrupted \in BOOLEAN
    /\ outcome = "none"

Open ==
    /\ ~open /\ open' = TRUE
    /\ outcome' = "none"
    /\ UNCHANGED interrupted

\* Between sessions the participant does what this contract leaves open.
Elsewhere ==
    /\ ~open /\ open' = FALSE
    /\ UNCHANGED interrupted

Interrupt ==
    /\ ~interrupted /\ interrupted' = TRUE
    /\ UNCHANGED <<open, outcome>>

End ==
    /\ open /\ open' = FALSE
    /\ outcome' \in Failures \cup IF interrupted \/ mayQuit THEN {"ok"} ELSE {}
    /\ UNCHANGED interrupted

Next == (Open \/ Elsewhere \/ Interrupt \/ End) /\ UNCHANGED mayQuit

Safety == Init /\ [][Next]_vars

Spec == Safety /\ WF_vars(interrupted /\ End /\ UNCHANGED mayQuit)
===============================================================================
