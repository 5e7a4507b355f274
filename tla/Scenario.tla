------------------------------- MODULE Scenario -------------------------------
(***************************************************************************)
(* scenarios.rs: run_fixed_positions_with_lifecycle and the participant    *)
(* tasks it spawns. One task per participant ramps up, connects, reports   *)
(* ready, runs its session (held at the readiness barrier if it sends),    *)
(* and reconnects with backoff; the main task waits at the same barrier,   *)
(* cancels the workload when that times out, and joins every participant;  *)
(* a third task forwards an external stop into the cancellation channel.   *)
(*                                                                         *)
(* A session's traffic is abstracted to how it can end; Session models it. *)
(***************************************************************************)
EXTENDS Naturals, FiniteSets

CONSTANTS
    Participants,       \* config.participants (aliases are unique)
    Main,               \* the task running run_fixed_positions
    Role,               \* participant -> "send_only", "receive_only", "send_receive"
    Required,           \* synchronization.wait_for_ready
    SlowConnect,        \* scenario.slow_connect.enabled
    AbruptDisconnect,   \* scenario.abrupt_disconnect.enabled
    ReconnectEnabled,   \* reconnect.enabled
    MaxAttempts,        \* reconnect.max_attempts
    ConnectErrors,      \* categories a failed connect may have
    TlsErrors,          \* those for which ConnectError::is_tls
    ReadErrors,         \* categories read_events may fail with
    SendErrors          \* categories send_positions may fail with

Errors == ConnectErrors \cup ReadErrors \cup SendErrors \cup {"reconnect_exhausted"}

ASSUME ScenarioAssumption ==
    /\ IsFiniteSet(Participants)
    /\ Main \notin Participants
    /\ Role \in [Participants -> {"send_only", "receive_only", "send_receive"}]
    /\ Required \subseteq Participants
    /\ {SlowConnect, AbruptDisconnect, ReconnectEnabled} \subseteq BOOLEAN
    /\ MaxAttempts \in Nat
    /\ TlsErrors \subseteq ConnectErrors
    /\ Errors \cap {"none", "ok", "readiness_timeout"} = {}
    /\ "reconnect_exhausted" \notin ConnectErrors \cup ReadErrors \cup SendErrors

VARIABLES
    pc,             \* where each participant task is
    attempt,        \* run_participant's attempt
    result,         \* last failure, result of the session, then of the task
    reader,         \* the participant's read_events, in its own task or not
    ready,          \* ReadinessBarrier.ready
    gate,           \* where each task is in ReadinessBarrier::wait
    expired,        \* the barrier's deadline has passed
    deadline,       \* the run's deadline has passed
    external,       \* the caller's stop is true, or its sender is gone
    bornStopped,    \* stop was true already when the channel was made
    signalled,      \* cancel_tx.send(true) has been called
    metrics,        \* the connection counters of Metrics
    main,           \* where the main task is
    joined,         \* participants returned by join_next
    failures        \* ScenarioOutcome.participant_failures

taskVars  == <<pc, attempt, result, reader>>
gateVars  == <<ready, gate>>
clockVars == <<expired, deadline>>
stopVars  == <<external, bornStopped, signalled>>
mainVars  == <<main, joined, failures>>
vars == <<taskVars, gateVars, clockVars, stopVars, metrics, mainVars>>

-----------------------------------------------------------------------------
Sends(p) == Role[p] # "receive_only"

\* *stop.borrow() on the receivers cloned from cancel
Cancelled == bornStopped \/ signalled

\* (slips: a wait that looks at the stop alone, or at the deadline alone)
InterruptedByStop == Cancelled
InterruptedByDeadline == deadline

\* wait_for_delay returns false, select! takes the stop or the deadline branch
Interrupted == Cancelled \/ deadline

\* mark_ready between its insert and its notify_waiters
Notifying == {p \in Participants : pc[p] = "notifying"}

Barrier == INSTANCE ReadinessBarrier WITH
                Aliases   <- Participants,
                Waiters   <- Participants \cup {Main},
                notifying <- Notifying,
                stop      <- signalled

\* From a connect that succeeded to the end of its session.
LiveStages == {"connected", "notifying", "ready", "slow", "gate", "streaming", "closing"}

\* Participants that hold a connection, and those that hold or are opening one.
Live == {p \in Participants : pc[p] \in LiveStages}
Busy == {p \in Participants : pc[p] \in LiveStages \cup {"connecting"}}

Stages == {"ramp", "dial", "connecting", "backoff", "done"} \cup LiveStages

Counters == {"attempts", "successes", "failures", "tls", "reconnects", "reconnectFailures", "active"}

Count(counters) ==
    metrics' = [c \in Counters |-> IF c \in counters THEN metrics[c] + 1 ELSE metrics[c]]

Init ==
    /\ pc = [p \in Participants |-> "ramp"]
    /\ attempt = [p \in Participants |-> 0]
    /\ result = [p \in Participants |-> "none"]
    /\ reader = [p \in Participants |-> "none"]
    /\ ready = {}
    /\ gate = [w \in Participants \cup {Main} |-> "outside"]
    /\ expired = FALSE
    /\ deadline = FALSE
    /\ external \in BOOLEAN
    /\ bornStopped \in {FALSE, external}
    /\ signalled = FALSE
    /\ metrics = [c \in Counters |-> 0]
    /\ main = IF Required # {} THEN "gate" ELSE "joining"
    /\ joined = {}
    /\ failures = {}

-----------------------------------------------------------------------------
(* The life of a participant task. *)

Goto(p, from, to) == pc[p] = from /\ pc' = [pc EXCEPT ![p] = to]

Finish(p, outcome) ==
    /\ pc' = [pc EXCEPT ![p] = "done"]
    /\ result' = [result EXCEPT ![p] = outcome]

\* wait_for_delay of the ramp; if it is cut short the task ends without dialing.
RampElapsed(p) ==
    /\ Goto(p, "ramp", "dial")
    /\ UNCHANGED <<attempt, result, reader, gateVars, clockVars, stopVars, metrics, mainVars>>

RampInterrupted(p) ==
    /\ pc[p] = "ramp" /\ Interrupted
    /\ Finish(p, "ok")
    /\ UNCHANGED <<attempt, reader, gateVars, clockVars, stopVars, metrics, mainVars>>

\* (slip: only the first connection of a participant is counted)
DialUncounted(p) ==
    /\ ~Interrupted
    /\ Goto(p, "dial", "connecting")
    /\ Count(IF attempt[p] = 0 THEN {"attempts"} ELSE {})
    /\ UNCHANGED <<attempt, result, reader, gateVars, clockVars, stopVars, mainVars>>

\* The top of run_participant's loop.
Dial(p) ==
    /\ ~Interrupted
    /\ Goto(p, "dial", "connecting")
    /\ Count({"attempts"})
    /\ UNCHANGED <<attempt, result, reader, gateVars, clockVars, stopVars, mainVars>>

\* The stop and deadline checks of the loop top, and of the select! around connect.
DialInterrupted(p) ==
    /\ pc[p] \in {"dial", "connecting"} /\ Interrupted
    /\ Finish(p, "ok")
    /\ UNCHANGED <<attempt, reader, gateVars, clockVars, stopVars, metrics, mainVars>>

\* Connected and Ready are emitted here, before mark_ready.
ConnectSucceeds(p) ==
    /\ Goto(p, "connecting", IF p \in Required THEN "connected" ELSE "ready")
    /\ result' = [result EXCEPT ![p] = "none"]
    /\ Count({"successes", "active"} \cup IF attempt[p] > 0 THEN {"reconnects"} ELSE {})
    /\ UNCHANGED <<attempt, reader, gateVars, clockVars, stopVars, mainVars>>

\* (slips: the attempt budget is not looked at, or given up one attempt early)
RetryUnchecked(p, failure) ==
    /\ attempt' = [attempt EXCEPT ![p] = @ + 1]
    /\ pc' = [pc EXCEPT ![p] = "backoff"]
    /\ result' = [result EXCEPT ![p] = failure]

RetryTooFew(p, failure) ==
    IF attempt[p] + 1 >= MaxAttempts
    THEN Finish(p, "reconnect_exhausted") /\ UNCHANGED attempt
    ELSE RetryUnchecked(p, failure)

\* Lines after the match: the attempt budget, and the entry of the backoff,
\* whose wait_for_delay looks at stop and deadline before it sleeps.
Retry(p, failure) ==
    IF attempt[p] >= MaxAttempts
    THEN Finish(p, "reconnect_exhausted") /\ UNCHANGED attempt
    ELSE /\ attempt' = [attempt EXCEPT ![p] = @ + 1]
         /\ IF Interrupted
            THEN Finish(p, IF Cancelled THEN "ok" ELSE failure)
            ELSE /\ pc' = [pc EXCEPT ![p] = "backoff"]
                 /\ result' = [result EXCEPT ![p] = failure]

ConnectFails(p) ==
    /\ pc[p] = "connecting"
    /\ \E e \in ConnectErrors :
        /\ Count({"failures"} \cup (IF e \in TlsErrors THEN {"tls"} ELSE {})
                    \cup (IF ReconnectEnabled THEN {"reconnectFailures"} ELSE {}))
        /\ IF ReconnectEnabled
           THEN Retry(p, e)
           ELSE Finish(p, e) /\ UNCHANGED attempt
    /\ UNCHANGED <<reader, gateVars, clockVars, stopVars, mainVars>>

\* readiness.mark_ready(id).await, in its two halves.
MarkReady(p) ==
    /\ Goto(p, "connected", "notifying")
    /\ Barrier!Insert(p)
    /\ UNCHANGED <<attempt, result, reader, deadline, external, bornStopped, metrics, mainVars>>

\* (slip: nobody is notified)
NotifyForgotten(p) ==
    /\ Goto(p, "notifying", "ready")
    /\ UNCHANGED <<attempt, result, reader, gateVars, clockVars, stopVars, metrics, mainVars>>

NotifyReady(p) ==
    /\ Goto(p, "notifying", "ready")
    /\ Barrier!NotifyWaiters(p)
    /\ UNCHANGED <<attempt, result, reader, deadline, external, bornStopped, metrics, mainVars>>

-----------------------------------------------------------------------------
(* run_connected. *)

SpawnReader(p) ==
    reader' = IF Role[p] = "send_receive" THEN [reader EXCEPT ![p] = "running"] ELSE reader

\* A receiver reads at once, a slow sender delays, another sender waits at the
\* barrier with, if it also receives, its reader running.
BeginSession(p) ==
    /\ pc[p] = "ready"
    /\ \/ /\ ~Sends(p)
          /\ pc' = [pc EXCEPT ![p] = "streaming"]
          /\ UNCHANGED <<result, reader, gateVars>>
       \/ /\ Sends(p) /\ SlowConnect
          /\ IF Interrupted
             THEN /\ pc' = [pc EXCEPT ![p] = "closing"]
                  /\ result' = [result EXCEPT ![p] = "ok"]
             ELSE pc' = [pc EXCEPT ![p] = "slow"] /\ UNCHANGED result
          /\ UNCHANGED <<reader, gateVars>>
       \/ /\ Sends(p) /\ ~SlowConnect
          /\ pc' = [pc EXCEPT ![p] = "gate"]
          /\ Barrier!Enter(p)
          /\ SpawnReader(p)
          /\ UNCHANGED result
    /\ UNCHANGED <<attempt, clockVars, stopVars, metrics, mainVars>>

SlowElapsed(p) ==
    /\ Goto(p, "slow", "gate")
    /\ Barrier!Enter(p)
    /\ SpawnReader(p)
    /\ UNCHANGED <<attempt, result, deadline, external, bornStopped, metrics, mainVars>>

\* (slip: the reader task is not aborted)
CloseLeaky(p, outcome) ==
    /\ pc' = [pc EXCEPT ![p] = "closing"]
    /\ result' = [result EXCEPT ![p] = outcome]
    /\ UNCHANGED reader

\* run_connected returns; a reader task that still runs is aborted and awaited.
Close(p, outcome) ==
    /\ pc' = [pc EXCEPT ![p] = "closing"]
    /\ result' = [result EXCEPT ![p] = outcome]
    /\ reader' = [reader EXCEPT ![p] = "none"]

SlowInterrupted(p) ==
    /\ pc[p] = "slow" /\ Interrupted
    /\ Close(p, "ok")
    /\ UNCHANGED <<attempt, gateVars, clockVars, stopVars, metrics, mainVars>>

\* One step of the task inside ReadinessBarrier::wait.
AtGate(w) ==
    /\ UNCHANGED <<taskVars, deadline, external, bornStopped, metrics, mainVars>>
    /\ Barrier!Wait(w)

\* (slip: a sender goes on when the barrier timed out)
GateOpensLate(p) ==
    /\ gate[p] \in {"Ready", "TimedOut"}
    /\ Goto(p, "gate", "streaming")
    /\ UNCHANGED <<attempt, result, reader, gateVars, clockVars, stopVars, metrics, mainVars>>

GateOpens(p) ==
    /\ gate[p] = "Ready"
    /\ Goto(p, "gate", "streaming")
    /\ UNCHANGED <<attempt, result, reader, gateVars, clockVars, stopVars, metrics, mainVars>>

\* Any other answer ends the session with Ok(()), whatever the reader has found.
GateRefuses(p) ==
    /\ pc[p] = "gate"
    /\ gate[p] \in {"TimedOut", "Stopped"}
    /\ Close(p, "ok")
    /\ UNCHANGED <<attempt, gateVars, clockVars, stopVars, metrics, mainVars>>

\* (slip: the end of the stream is a good end)
EofIsFine == ReadErrors \cup {"ok"}

\* How read_events and send_positions may return.
ReadResults == ReadErrors \cup IF Interrupted THEN {"ok"} ELSE {}
SendResults == SendErrors \cup IF Interrupted \/ AbruptDisconnect THEN {"ok"} ELSE {}

\* The spawned reader of a send_receive participant finishes.
ReaderEnds(p) ==
    /\ reader[p] = "running"
    /\ \E r \in ReadResults : reader' = [reader EXCEPT ![p] = r]
    /\ UNCHANGED <<pc, attempt, result, gateVars, clockVars, stopVars, metrics, mainVars>>

\* The receiver's read_events or the sender's send_positions returns, or the
\* select! of a send_receive participant takes the reader's result.
SessionEnds(p) ==
    /\ pc[p] = "streaming"
    /\ \/ ~Sends(p) /\ \E r \in ReadResults : Close(p, r)
       \/ Sends(p) /\ \E r \in SendResults : Close(p, r)
       \/ reader[p] \in ReadErrors \cup {"ok"} /\ Close(p, reader[p])
    /\ UNCHANGED <<attempt, gateVars, clockVars, stopVars, metrics, mainVars>>

\* (slip: the gauge goes down only when the session went well)
DisconnectLeaky(p) ==
    /\ pc[p] = "closing"
    /\ IF result[p] = "ok"
       THEN Count({}) /\ Finish(p, "ok") /\ UNCHANGED attempt
       ELSE Retry(p, result[p]) /\ Count({"failures"})
    /\ UNCHANGED <<reader, gateVars, clockVars, stopVars, mainVars>>

\* Back in run_participant: the gauge, the counters, and whether to retry.
Disconnect(p) ==
    /\ pc[p] = "closing"
    /\ metrics' = [metrics EXCEPT
            !.active = @ - 1,
            !.failures = IF result[p] # "ok" THEN @ + 1 ELSE @,
            !.reconnectFailures = IF result[p] # "ok" /\ attempt[p] > 0 THEN @ + 1 ELSE @]
    /\ IF result[p] = "ok" \/ ~ReconnectEnabled \/ deadline
       THEN Finish(p, result[p]) /\ UNCHANGED attempt
       ELSE Retry(p, result[p])
    /\ UNCHANGED <<reader, gateVars, clockVars, stopVars, mainVars>>

BackoffElapsed(p) ==
    /\ Goto(p, "backoff", "dial")
    /\ UNCHANGED <<attempt, result, reader, gateVars, clockVars, stopVars, metrics, mainVars>>

\* A stop makes the failure before it an Ok(()), the deadline does not.
BackoffInterrupted(p) ==
    /\ pc[p] = "backoff" /\ Interrupted
    /\ Finish(p, IF Cancelled THEN "ok" ELSE result[p])
    /\ UNCHANGED <<attempt, reader, gateVars, clockVars, stopVars, metrics, mainVars>>

-----------------------------------------------------------------------------
(* The main task and the forwarder. *)

\* With no barrier configured main starts at "joining".
MainWaits ==
    /\ main = "gate" /\ gate[Main] = "outside"
    /\ UNCHANGED <<taskVars, deadline, external, bornStopped, metrics, mainVars>>
    /\ Barrier!Enter(Main)

\* The barrier let the main task go on, or the workload was stopped meanwhile.
MainProceeds ==
    /\ main = "gate" /\ gate[Main] \in {"Ready", "Stopped"}
    /\ main' = "joining"
    /\ UNCHANGED <<taskVars, gateVars, clockVars, stopVars, metrics, joined, failures>>

\* missing() is read after wait returned, then everything is cancelled.
MainTimesOut ==
    /\ main = "gate" /\ gate[Main] = "TimedOut"
    /\ main' = "joining"
    /\ failures' = failures \cup [participant : Required \ ready, category : {"readiness_timeout"}]
    /\ signalled' = TRUE
    /\ UNCHANGED <<taskVars, gateVars, clockVars, external, bornStopped, metrics, joined>>

\* (slip: the failure of a task that was joined after a stop is dropped)
JoinQuietly(p) ==
    /\ main = "joining" /\ pc[p] = "done" /\ p \notin joined
    /\ joined' = joined \cup {p}
    /\ failures' = IF result[p] = "ok" \/ Cancelled THEN failures
                   ELSE failures \cup {[participant |-> p, category |-> result[p]]}
    /\ UNCHANGED <<taskVars, gateVars, clockVars, stopVars, metrics, main>>

\* tasks.join_next() yields the task of p.
Join(p) ==
    /\ main = "joining" /\ pc[p] = "done" /\ p \notin joined
    /\ joined' = joined \cup {p}
    /\ failures' = IF result[p] = "ok" THEN failures
                   ELSE failures \cup {[participant |-> p, category |-> result[p]]}
    /\ UNCHANGED <<taskVars, gateVars, clockVars, stopVars, metrics, main>>

\* (slip: the first failure ends the join loop)
ReturnEarly ==
    /\ main = "joining" /\ (joined = Participants \/ failures # {})
    /\ main' = "returned"
    /\ UNCHANGED <<taskVars, gateVars, clockVars, stopVars, metrics, joined, failures>>

Return ==
    /\ main = "joining" /\ joined = Participants
    /\ main' = "returned"
    /\ UNCHANGED <<taskVars, gateVars, clockVars, stopVars, metrics, joined, failures>>

\* forward_stop; it is aborted when the main task returns.
ForwardStop ==
    /\ external /\ ~signalled /\ main # "returned"
    /\ signalled' = TRUE
    /\ UNCHANGED <<taskVars, gateVars, clockVars, external, bornStopped, metrics, mainVars>>

-----------------------------------------------------------------------------
(* The environment: the caller's stop, and time. *)

StopRequested ==
    /\ ~external /\ external' = TRUE
    /\ UNCHANGED <<taskVars, gateVars, clockVars, bornStopped, signalled, metrics, mainVars>>

Deadline ==
    /\ ~deadline /\ deadline' = TRUE
    /\ UNCHANGED <<taskVars, gateVars, expired, stopVars, metrics, mainVars>>

BarrierDeadline ==
    /\ ~expired /\ expired' = TRUE
    /\ UNCHANGED <<taskVars, gateVars, deadline, stopVars, metrics, mainVars>>

Terminated == main = "returned" /\ UNCHANGED vars

Participant(p) ==
    \/ RampElapsed(p) \/ RampInterrupted(p)
    \/ Dial(p) \/ DialInterrupted(p) \/ ConnectSucceeds(p) \/ ConnectFails(p)
    \/ MarkReady(p) \/ NotifyReady(p)
    \/ BeginSession(p) \/ SlowElapsed(p) \/ SlowInterrupted(p)
    \/ GateOpens(p) \/ GateRefuses(p)
    \/ ReaderEnds(p) \/ SessionEnds(p)
    \/ Disconnect(p) \/ BackoffElapsed(p) \/ BackoffInterrupted(p)

MainTask ==
    \/ MainWaits \/ MainProceeds \/ MainTimesOut
    \/ \E p \in Participants : Join(p)
    \/ Return

Environment == StopRequested \/ Deadline \/ BarrierDeadline

Next ==
    \/ \E p \in Participants : Participant(p)
    \/ \E w \in Participants \cup {Main} : AtGate(w)
    \/ MainTask
    \/ ForwardStop
    \/ Environment
    \/ Terminated

(***************************************************************************)
(* Every task that can go on is scheduled, and a select! meets its stop    *)
(* and deadline branches. No delay, connect or session is assumed to end   *)
(* by itself, no stop to be requested, and time need not pass: what holds  *)
(* under this fairness holds by reaction to the stop or the deadlines.     *)
(***************************************************************************)
Fairness ==
    /\ \A p \in Participants :
        /\ WF_vars(RampInterrupted(p))
        /\ WF_vars(Dial(p) \/ DialInterrupted(p))
        /\ WF_vars(MarkReady(p))
        /\ WF_vars(NotifyReady(p))
        /\ WF_vars(BeginSession(p) \/ SlowInterrupted(p))
        /\ WF_vars(GateOpens(p) \/ GateRefuses(p))
        /\ WF_vars(Interrupted /\ SessionEnds(p))
        /\ WF_vars(Disconnect(p) \/ BackoffInterrupted(p))
    /\ \A w \in Participants \cup {Main} :
        /\ WF_vars(AtGate(w) /\ gate'[w] \notin {"Stopped", "TimedOut"})
        /\ SF_vars(AtGate(w) /\ gate'[w] = "Stopped")
        /\ SF_vars(AtGate(w) /\ gate'[w] = "TimedOut")
    /\ WF_vars(MainTask)
    /\ WF_vars(ForwardStop)

Safety == Init /\ [][Next]_vars

Spec == Safety /\ Fairness

-----------------------------------------------------------------------------
(* Safety *)

TypeOK ==
    /\ pc \in [Participants -> Stages]
    /\ attempt \in [Participants -> 0..MaxAttempts]
    /\ result \in [Participants -> {"none", "ok"} \cup Errors]
    /\ reader \in [Participants -> {"none", "running", "ok"} \cup ReadErrors]
    /\ ready \subseteq Required
    /\ gate \in [Participants \cup {Main} -> {"outside"} \cup Barrier!Inside \cup Barrier!Verdicts]
    /\ expired \in BOOLEAN /\ deadline \in BOOLEAN
    /\ external \in BOOLEAN /\ bornStopped \in BOOLEAN /\ signalled \in BOOLEAN
    /\ metrics \in [Counters -> Nat]
    /\ main \in {"gate", "joining", "returned"}
    /\ joined \subseteq Participants
    /\ failures \subseteq [participant : Participants, category : Errors \cup {"readiness_timeout"}]

\* No participant sends before every alias of wait_for_ready has completed its
\* connection: the point of the sender barrier.
SendersGated ==
    \A p \in Participants : pc[p] = "streaming" /\ Sends(p) => Required \subseteq ready

\* metrics.active_connections is the number of participants that hold a
\* connection, whichever of run_participant's exits the others took.
GaugeExact == metrics.active = Cardinality(Live)

\* An attempt in flight or alive has not failed yet, and one that was counted as
\* failed is not counted again when its session ends: the connection error rate
\* that the abort threshold computes from these counters never exceeds 1.
ErrorRateBounded ==
    metrics.failures + Cardinality(Busy) <= metrics.attempts

\* reconnect.max_attempts bounds the connections a run opens, however sessions,
\* failed connects and backoffs follow each other.
AttemptsWithinBudget ==
    metrics.attempts <= Cardinality(Participants) * (IF ReconnectEnabled THEN MaxAttempts + 1 ELSE 1)

\* A participant gives up with reconnect_exhausted only when its budget is spent.
ExhaustedMeansSpent ==
    \A p \in Participants :
        result[p] = "reconnect_exhausted" => ReconnectEnabled /\ attempt[p] = MaxAttempts

\* The attempt budget is kept and used up: neither more connections than it allows,
\* nor a participant that gives up before it is spent.
BudgetExact == AttemptsWithinBudget /\ ExhaustedMeansSpent

\* A spawned read_events never outlives the session it reads for: every path out
\* of run_connected joins it.
NoOrphanReader ==
    \A p \in Participants : reader[p] # "none" => pc[p] \in {"gate", "streaming"}

\* The report holds exactly the failures of the participants joined, beside the
\* readiness timeouts, and those only after the main task timed out.
FailuresFaithful ==
    LET timeouts == {f \in failures : f.category = "readiness_timeout"} IN
    /\ failures \ timeouts =
            {[participant |-> p, category |-> result[p]] :
                p \in {q \in joined : result[q] # "ok"}}
    /\ timeouts # {} => gate[Main] = "TimedOut" /\ signalled

\* When the scenario returns nothing of it is left running or counted as open.
QuietAtReturn ==
    main = "returned" =>
        /\ \A p \in Participants : pc[p] = "done"
        /\ \A w \in Participants \cup {Main} : gate[w] \notin Barrier!Inside
        /\ metrics.active = 0

-----------------------------------------------------------------------------
(* Liveness and refinement *)

\* A stop, forwarded to every task, ends the run wherever its participants are.
StopTerminates == external ~> main = "returned"

\* So do the two deadlines. The run's deadline alone does not: the barrier does
\* not look at it.
DeadlinesTerminate == deadline /\ expired ~> main = "returned"

\* The tasks of a scenario use the barrier the way ReadinessBarrier has it.
ImplementsBarrier == Barrier!Safety

\* The runner sees of all this a Workload: counters that only grow, failures that
\* stay below the attempts, a return after which nothing is counted, and one that
\* comes when the caller stops the run.
Work == INSTANCE Workload WITH
            Counters <- Counters \ {"active"},
            stopped  <- external,
            returned <- main = "returned"

ImplementsWorkload == Work!Spec

\* run_participant treats each session the way SessionContract allows, so that a
\* Session, which implements that contract, may stand where SessionEnds does.
Contract(p) == INSTANCE SessionContract WITH
                    open        <- pc[p] = "streaming",
                    interrupted <- Interrupted,
                    outcome     <- result[p],
                    Failures    <- ReadErrors \cup SendErrors,
                    mayQuit     <- AbruptDisconnect

KeepsContract ==
    [][\A p \in Participants : [Contract(p)!Next]_(Contract(p)!vars)]_vars

-----------------------------------------------------------------------------
(* What the repository says and the code does not do *)

\* docs/scenarios.md:7: a timeout of the barrier produces a readiness_timeout failure,
\* also that of a sender, in a run nobody stopped.
SenderTimeoutReported ==
    main = "returned" /\ ~external /\ (\E p \in Participants : gate[p] = "TimedOut") =>
        \E f \in failures : f.category = "readiness_timeout"

\* docs/safety.md:9: "A participant failure cancels and joins the remaining workload":
\* once a failed task was joined, no other participant opens a connection.
FailureCancels ==
    [][\A p \in Participants :
            (\E q \in joined : result[q] # "ok") => ~ (pc[p] = "dial" /\ pc'[p] = "connecting")]_vars

===============================================================================
