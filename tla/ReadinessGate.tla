---------------------------- MODULE ReadinessGate ----------------------------
(***************************************************************************)
(* What the readiness barrier of a scenario promises to the tasks that     *)
(* wait at it, with no locks, notifications or wake-ups: an answer "Ready" *)
(* only after every required alias has arrived, "Stopped" only after the   *)
(* workload was cancelled, "TimedOut" only after the synchronization       *)
(* timeout elapsed, and, once one of the last two happened, some answer.   *)
(*                                                                         *)
(* It does NOT promise that a waiter is let through as soon as every alias *)
(* has arrived: ReadinessBarrier, which implements this specification, can *)
(* miss that moment.                                                       *)
(***************************************************************************)
CONSTANTS
    Aliases,    \* participant aliases that may report ready
    Required,   \* synchronization.wait_for_ready
    Waiters     \* tasks that wait at the gate

VARIABLES
    arrived,    \* the aliases that have reported ready
    stopped,    \* the workload was cancelled
    elapsed,    \* the synchronization timeout has passed
    answer      \* what each waiter has been told

vars == <<arrived, stopped, elapsed, answer>>

Verdicts == {"Ready", "TimedOut", "Stopped"}

TypeOK ==
    /\ arrived \subseteq Aliases
    /\ stopped \in BOOLEAN
    /\ elapsed \in BOOLEAN
    /\ answer \in [Waiters -> {"outside", "waiting"} \cup Verdicts]

Init ==
    /\ arrived = {}
    /\ stopped = FALSE
    /\ elapsed = FALSE
    /\ answer = [w \in Waiters |-> "outside"]

Arrive(a) ==
    /\ arrived' = arrived \cup {a}
    /\ UNCHANGED <<stopped, elapsed, answer>>

Stop ==
    /\ stopped' = TRUE
    /\ UNCHANGED <<arrived, elapsed, answer>>

Elapse ==
    /\ elapsed' = TRUE
    /\ UNCHANGED <<arrived, stopped, answer>>

Move(w, from, to) ==
    /\ answer[w] \in from
    /\ answer' = [answer EXCEPT ![w] = to]
    /\ UNCHANGED <<arrived, stopped, elapsed>>

\* A waiter may come back, with its next connection.
Enter(w) == Move(w, {"outside"} \cup Verdicts, "waiting")

LetThrough(w) == Required \subseteq arrived /\ Move(w, {"waiting"}, "Ready")

GiveUp(w) ==
    \/ stopped /\ Move(w, {"waiting"}, "Stopped")
    \/ elapsed /\ Move(w, {"waiting"}, "TimedOut")

Next ==
    \/ \E a \in Aliases : Arrive(a)
    \/ Stop
    \/ Elapse
    \/ \E w \in Waiters : Enter(w) \/ LetThrough(w) \/ GiveUp(w)

\* Once it may give up, a waiter is answered.
Fairness == \A w \in Waiters : WF_vars(GiveUp(w))

Safety == Init /\ [][Next]_vars

Spec == Safety /\ Fairness
==============================================================================
