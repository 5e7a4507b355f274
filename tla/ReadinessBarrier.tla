--------------------------- MODULE ReadinessBarrier ---------------------------
(***************************************************************************)
(* The sender barrier of scenarios.rs (struct ReadinessBarrier): a set of  *)
(* ready aliases behind a mutex, a tokio Notify, and a deadline.           *)
(*                                                                         *)
(* mark_ready inserts under the lock and calls notify_waiters after        *)
(* releasing it; notify_waiters wakes only the Notified futures that exist *)
(* at that moment and stores no permit. wait checks the set under the lock *)
(* and creates its Notified future in the select! that follows, so its     *)
(* check and its registration are two steps between which a mark_ready of  *)
(* another task may run whole.                                             *)
(***************************************************************************)
CONSTANTS
    Aliases,    \* participant aliases
    Required,   \* config.synchronization.wait_for_ready
    Waiters     \* tasks that call wait

ASSUME RequiredAreAliases == Required \subseteq Aliases

VARIABLES
    ready,      \* ReadinessBarrier.ready
    notifying,  \* aliases inside mark_ready, inserted and not yet notified
    gate,       \* where each waiter is in wait, or what wait returned to it
    stop,       \* the value of the watch channel given to wait
    expired     \* ReadinessBarrier.deadline has passed

vars == <<ready, notifying, gate, stop, expired>>

Verdicts == {"Ready", "TimedOut", "Stopped"}        \* enum BarrierResult
\* entering: about to take the lock; unarmed: checked, no Notified future yet;
\* armed: suspended in select!; notified: the Notified future has completed.
Inside == {"entering", "unarmed", "armed", "notified"}

TypeOK ==
    /\ ready \subseteq Required
    /\ notifying \subseteq ready
    /\ gate \in [Waiters -> {"outside"} \cup Inside \cup Verdicts]
    /\ stop \in BOOLEAN
    /\ expired \in BOOLEAN

Init ==
    /\ ready = {}
    /\ notifying = {}
    /\ gate = [w \in Waiters |-> "outside"]
    /\ stop = FALSE
    /\ expired = FALSE

-----------------------------------------------------------------------------
\* (slip: any alias is inserted, listed in wait_for_ready or not)
InsertUnlisted(a) ==
    /\ a \notin notifying
    /\ ready' = ready \cup {a}
    /\ notifying' = notifying \cup {a}
    /\ UNCHANGED <<gate, stop, expired>>

\* mark_ready, first half: insert under the lock.
Insert(a) ==
    /\ a \in Required \ notifying
    /\ ready' = ready \cup {a}
    /\ notifying' = notifying \cup {a}
    /\ UNCHANGED <<gate, stop, expired>>

\* mark_ready, second half: every future that exists now completes.
NotifyWaiters(a) ==
    /\ a \in notifying
    /\ notifying' = notifying \ {a}
    /\ gate' = [w \in Waiters |->
                    IF gate[w] = "armed" THEN "notified" ELSE gate[w]]
    /\ UNCHANGED <<ready, stop, expired>>

-----------------------------------------------------------------------------
Move(w, from, to) ==
    /\ gate[w] \in from
    /\ gate' = [gate EXCEPT ![w] = to]
    /\ UNCHANGED <<ready, notifying, stop, expired>>

\* A call of wait. gate keeps the answer of the previous call until then.
Enter(w) == Move(w, {"outside"} \cup Verdicts, "entering")

\* The subset test, atomic under the lock.
Check(w) == Move(w, {"entering"}, IF Required \subseteq ready THEN "Ready" ELSE "unarmed")

\* select! builds its futures: Notify::notified() is created here.
Arm(w) == Move(w, {"unarmed"}, "armed")

\* (slips: a woken task does not test the set again; no stop branch)
WokenMeansReady(w) == Move(w, {"notified"}, "Ready")
StopIgnored(w) == FALSE

\* The branches of select!; of those that are ready it polls one at random.
Woken(w)      == Move(w, {"notified"}, "entering")
SeeStop(w)    == stop /\ Move(w, {"armed", "notified"}, "Stopped")
SeeTimeout(w) == expired /\ Move(w, {"armed", "notified"}, "TimedOut")

-----------------------------------------------------------------------------
\* The caller's side: cancellation, and the passing of time.
Stop ==
    /\ ~stop
    /\ stop' = TRUE
    /\ UNCHANGED <<ready, notifying, gate, expired>>

Expire ==
    /\ ~expired
    /\ expired' = TRUE
    /\ UNCHANGED <<ready, notifying, gate, stop>>

MarkReady(a) == Insert(a) \/ NotifyWaiters(a)

Wait(w) == Check(w) \/ Arm(w) \/ Woken(w) \/ SeeStop(w) \/ SeeTimeout(w)

Next ==
    \/ \E a \in Aliases : MarkReady(a)
    \/ \E w \in Waiters : Enter(w) \/ Wait(w)
    \/ Stop
    \/ Expire

(***************************************************************************)
(* A task that can run is scheduled. Strong fairness of the two exits: a   *)
(* waiter that is woken again and again still meets them, since select!    *)
(* picks among the branches that are ready at random. Nothing forces an    *)
(* alias to become ready, a cancellation, or the deadline.                 *)
(***************************************************************************)
Fairness ==
    /\ \A a \in Aliases : WF_vars(NotifyWaiters(a))
    /\ \A w \in Waiters :
        /\ WF_vars(Check(w) \/ Arm(w) \/ Woken(w))
        /\ SF_vars(SeeStop(w))
        /\ SF_vars(SeeTimeout(w))

Safety == Init /\ [][Next]_vars

Spec == Safety /\ Fairness

-----------------------------------------------------------------------------
\* Senders are held: wait answers Ready to nobody before every alias of
\* wait_for_ready has completed its connection, however waits, marks and
\* wake-ups interleave.
OpensOnlyWhenReady ==
    \A w \in Waiters : gate[w] = "Ready" => Required \subseteq ready

\* The barrier keeps every promise of ReadinessGate: what a waiter is told is
\* justified, and a waiter does not sleep through cancellation or the timeout.
Gate == INSTANCE ReadinessGate WITH
            arrived <- ready,
            stopped <- stop,
            elapsed <- expired,
            answer  <- [w \in Waiters |->
                            IF gate[w] \in Inside THEN "waiting" ELSE gate[w]]

ImplementsGate == Gate!Spec

===============================================================================
