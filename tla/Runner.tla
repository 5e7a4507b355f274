-------------------------------- MODULE Runner --------------------------------
(***************************************************************************)
(* runner.rs: execute_with_lifecycle, and the command that calls it        *)
(* (main.rs: run). A workload runs under one stop channel with two         *)
(* writers: the forwarder of the caller's stop, and the monitor, which     *)
(* reads the metrics every second, counter after counter while the tasks   *)
(* go on, and stops the run when a threshold is exceeded. When the         *)
(* workload returns, both are aborted but not awaited, and the status is   *)
(* decided by the reason the monitor has, or has not yet, stored.          *)
(*                                                                         *)
(* The counters are atomics of their own, increased and loaded with        *)
(* Ordering::Relaxed: each has one order of its values, in which no load   *)
(* goes back, and nothing orders two of them. A load may thus return any   *)
(* value that its counter has had since the last load of it.               *)
(*                                                                         *)
(* The workload is what Workload says of it, which Scenario implements.    *)
(***************************************************************************)
EXTENDS Thresholds, Sequences

CONSTANTS
    MaxWork,        \* bound on what the workload counts in all
    Latencies       \* values the percentiles of delivery latency take, from 1

ASSUME RunnerAssumption ==
    /\ MaxWork \in Nat
    /\ Latencies \subseteq Nat \ {0}

VARIABLES
    external,       \* the caller's stop: Ctrl-C, or the library's caller
    channel,        \* threshold_tx: the workload's stop
    forwarder,      \* forward_stop: "watching" or "gone"
    monitor,        \* where the monitor task is
    loads,          \* how many counters its snapshot has loaded
    seen,           \* what its loads have returned last, or can no more fall short of
    reason,         \* threshold_reason, "none" while empty
    metrics,        \* what evaluate looks at, as it is
    returned,       \* the workload has returned
    outcome,        \* what it returned: none of Troubles if all went well
    obeyed,         \* channel was true when it did
    main,           \* where execute_with_lifecycle and its caller are
    report,         \* status and stop reason of the RunReport, once there is one
    exit            \* how the process exits: "none" yet, "success" or "failure"

monitorVars  == <<monitor, loads, seen, reason>>
workloadVars == <<metrics, returned, outcome, obeyed>>
stopVars     == <<external, channel, forwarder>>
mainVars     == <<main, report, exit>>
vars == <<stopVars, monitorVars, workloadVars, mainVars>>

W == INSTANCE Workload WITH stopped <- channel

\* ScenarioOutcome: an Err (a step schedule that start_delays rejects), failed
\* participants, failed assertions.
Troubles == {"error", "participants", "assertions"}

\* sleeping: at the ticker; loading: in snapshot, or before evaluate when all counters
\* are loaded; storing: at the lock of the reason; stored: before send.
MonitorStages == {"sleeping", "loading", "storing", "stored", "gone"}

NoReport == [status |-> "none", stopReason |-> "none"]

Init ==
    /\ external \in BOOLEAN
    /\ channel = external
    /\ forwarder = "watching"
    /\ monitor = "sleeping"
    /\ loads = 0
    /\ metrics = [c \in Counters \cup Percentiles |-> 0]
    /\ seen = metrics
    /\ reason = "none"
    /\ returned = FALSE
    /\ outcome = {}
    /\ obeyed = FALSE
    /\ main = "validating"
    /\ report = NoReport
    /\ exit = "none"

Started == main # "validating" /\ exit = "none"

-----------------------------------------------------------------------------
(* The monitor. *)

\* What the counters' increases have reached the monitor by, the percentiles as they
\* are: the lock of their histogram orders the accesses to it.
Shown(counters) == [x \in DOMAIN metrics |-> IF x \in Percentiles THEN metrics[x] ELSE counters[x]]

\* The next tick; the first comes at once. The histograms are locked before the
\* counters are read and stay so until all of them are. All that was counted may have
\* become visible to this thread by now, or not yet.
Tick ==
    /\ Started /\ monitor = "sleeping"
    /\ monitor' = "loading"
    /\ loads' = 0
    /\ seen' \in {Shown(seen), Shown(metrics)}
    /\ UNCHANGED <<stopVars, workloadVars, mainVars, reason>>

\* snapshot loads one counter; the workload may go on before the next.
Load ==
    /\ monitor = "loading" /\ loads < Len(LoadOrder)
    /\ loads' = loads + 1
    /\ LET c == LoadOrder[loads + 1]
       IN  \E v \in seen[c]..metrics[c] : seen' = [seen EXCEPT ![c] = v]
    /\ UNCHANGED <<stopVars, workloadVars, mainVars, monitor, reason>>

Loaded == monitor = "loading" /\ loads = Len(LoadOrder)

\* (slip: the monitor looks once)
DecideOnce ==
    /\ Loaded
    /\ monitor' = IF Evaluate(seen) = "none" THEN "gone" ELSE "storing"
    /\ UNCHANGED <<stopVars, workloadVars, mainVars, loads, seen, reason>>

\* (slip: the run is stopped before the reason is stored)
DecideAndSend ==
    /\ Loaded
    /\ monitor' = IF Evaluate(seen) = "none" THEN "sleeping" ELSE "storing"
    /\ channel' = (channel \/ Evaluate(seen) # "none")
    /\ UNCHANGED <<external, forwarder, workloadVars, mainVars, loads, seen, reason>>

Decide ==
    /\ Loaded
    /\ monitor' = IF Evaluate(seen) = "none" THEN "sleeping" ELSE "storing"
    /\ UNCHANGED <<stopVars, workloadVars, mainVars, loads, seen, reason>>

Store ==
    /\ monitor = "storing"
    /\ monitor' = "stored"
    /\ reason' = Evaluate(seen)
    /\ UNCHANGED <<stopVars, workloadVars, mainVars, loads, seen>>

SendStop ==
    /\ monitor = "stored"
    /\ monitor' = "gone"
    /\ channel' = TRUE
    /\ UNCHANGED <<external, forwarder, workloadVars, mainVars, loads, seen, reason>>

\* monitor.abort() takes effect where the task is suspended, at the ticker or at a
\* lock; a task that is running goes on to its next await.
MonitorDies ==
    /\ main \in {"deciding", "reported", "exited"}
    /\ monitor \in {"sleeping", "storing"}
    /\ monitor' = "gone"
    /\ UNCHANGED <<stopVars, workloadVars, mainVars, loads, seen, reason>>

-----------------------------------------------------------------------------
(* The forwarder and the caller. *)

\* (slip: the forwarder sees the stop and ends without passing it on)
ForwardChange ==
    /\ Started /\ forwarder = "watching" /\ external
    /\ forwarder' = "gone"
    /\ UNCHANGED <<external, channel, monitorVars, workloadVars, mainVars>>

Forward ==
    /\ Started /\ forwarder = "watching" /\ external
    /\ forwarder' = "gone"
    /\ channel' = TRUE
    /\ UNCHANGED <<external, monitorVars, workloadVars, mainVars>>

StopRequested ==
    /\ ~external /\ external' = TRUE
    /\ UNCHANGED <<channel, forwarder, monitorVars, workloadVars, mainVars>>

-----------------------------------------------------------------------------
(* The workload. *)

\* What one step of its tasks may count. A failed batch is dropped, and timed
\* out too if that was the reason; a silent read is a timeout by itself.
Grow(m, c, n) == [m EXCEPT ![c] = @ + n]

Counted ==
    {Grow(metrics, c, 1) : c \in {"attempts", "failures", "sent", "timeouts"}}
        \cup {Grow(metrics, "dropped", n) : n \in 1..2}
        \cup {Grow(Grow(metrics, "dropped", n), "timeouts", n) : n \in 1..2}

Total(m) == m.attempts + m.failures + m.sent + m.dropped + m.timeouts

Work ==
    /\ main = "running"
    /\ metrics' \in {m \in Counted : Total(m) <= MaxWork}
    /\ W!Run
    /\ UNCHANGED <<stopVars, monitorVars, mainVars, outcome, obeyed>>

\* record_delivery needs the histogram, which a snapshot in progress holds.
Deliver ==
    /\ main = "running"
    /\ monitor # "loading" /\ metrics.sent > 0
    /\ \E p95, p99 \in Latencies :
        /\ p95 <= p99
        /\ metrics' = [metrics EXCEPT !["p95"] = p95, !["p99"] = p99]
    /\ W!Run
    /\ UNCHANGED <<stopVars, monitorVars, mainVars, outcome, obeyed>>

\* The scenario returns, by itself or because it was stopped.
WorkloadReturns ==
    /\ main = "running" /\ W!Return
    /\ outcome' \in (SUBSET {"participants", "assertions"})
                        \cup IF Total(metrics) = 0 THEN {{"error"}} ELSE {}
    /\ obeyed' = channel
    /\ UNCHANGED <<forwarder, external, monitorVars, mainVars>>

-----------------------------------------------------------------------------
(* execute_with_lifecycle, and run after it. *)

\* The configuration is refused, and run ends without a report.
Refuse ==
    /\ main = "validating"
    /\ main' = "exited" /\ exit' = "failure"
    /\ UNCHANGED <<stopVars, monitorVars, workloadVars, report>>

Start ==
    /\ main = "validating"
    /\ main' = "running"
    /\ UNCHANGED <<stopVars, monitorVars, workloadVars, report, exit>>

\* monitor.abort() and forward_stop.abort()
AbortTasks ==
    /\ main = "running" /\ returned
    /\ main' = "deciding"
    /\ forwarder' = "gone"
    /\ UNCHANGED <<external, channel, monitorVars, workloadVars, report, exit>>

StopReason ==
    IF reason # "none" THEN reason
    ELSE IF outcome = {} THEN "completed"
    ELSE IF "assertions" \in outcome THEN "routing_assertion_failed"
    ELSE "scenario_error"

Status ==
    IF reason # "none" THEN "Aborted" ELSE IF outcome = {} THEN "Passed" ELSE "Failed"

\* The reason is read, the status decided, and RunCompleted emitted.
Decided ==
    /\ main = "deciding"
    /\ main' = "reported"
    /\ report' = [status |-> Status, stopReason |-> StopReason]
    /\ UNCHANGED <<stopVars, monitorVars, workloadVars, exit>>

\* RunExecution.failure: of the outcome only, an abort is none.
Failure == outcome # {}

\* into_result decides the exit status, unless the report cannot be written.
Exit ==
    /\ main = "reported"
    /\ main' = "exited"
    /\ exit' \in {"failure", IF Failure THEN "failure" ELSE "success"}
    /\ UNCHANGED <<stopVars, monitorVars, workloadVars, report>>

Terminated == main = "exited" /\ UNCHANGED vars

Monitor == Tick \/ Load \/ Decide \/ Store \/ SendStop \/ MonitorDies

Main == Refuse \/ Start \/ AbortTasks \/ Decided \/ Exit

Next ==
    \/ Monitor
    \/ Forward \/ StopRequested
    \/ Work \/ Deliver \/ WorkloadReturns
    \/ Main
    \/ Terminated

(***************************************************************************)
(* The monitor's clock ticks, and every task that can run does. What was    *)
(* counted becomes visible in time: by one of the ticks to come, if there  *)
(* is no end of them. The workload owes nothing but Workload!Reacts, that   *)
(* it returns when stopped.                                                *)
(***************************************************************************)
Fairness ==
    /\ WF_vars(Tick \/ Load \/ Decide \/ Store \/ SendStop)
    /\ SF_vars(Tick /\ seen' = metrics)
    /\ WF_vars(Forward)
    /\ WF_vars(channel /\ WorkloadReturns)
    /\ WF_vars(Main)

Safety == Init /\ [][Next]_vars

Spec == Safety /\ Fairness

-----------------------------------------------------------------------------
TypeOK ==
    /\ {external, channel, returned, obeyed} \subseteq BOOLEAN
    /\ forwarder \in {"watching", "gone"}
    /\ monitor \in MonitorStages
    /\ loads \in 0..Len(LoadOrder)
    /\ seen \in [Counters \cup Percentiles -> Nat]
    /\ reason \in Criteria \cup {"none"}
    /\ metrics \in [Counters \cup Percentiles -> Nat] /\ metrics.failures <= metrics.attempts
    /\ outcome \subseteq Troubles
    /\ main \in {"validating", "running", "deciding", "reported", "exited"}
    /\ report.status \in {"none", "Passed", "Failed", "Aborted"}
    /\ exit \in {"none", "success", "failure"}

\* Though the counters move while they are read, and one may be seen before another
\* that was increased first, a run is not aborted for what did not happen: the samples
\* and the drops that the reason rests on are counted, and the errors of a rate as well.
\* The rate itself may be one the run never had, of more errors than the connections or
\* messages that were visible so far.
AbortGrounded ==
    reason # "none" =>
        /\ EnoughSamples(metrics)
        /\ reason = "DroppedMessages" => TooManyDropped(metrics)
        /\ reason = "ConnectionErrorRate" =>
               \E n \in 0..metrics.attempts : ConnectionsFail([metrics EXCEPT !.attempts = n])
        /\ reason = "MessageErrorRate" =>
               \E n \in 0..metrics.sent : MessagesFail([metrics EXCEPT !.sent = n])

\* A run that ended because the monitor stopped it says so: the reason is stored
\* before the channel is written, and read after the workload has seen the channel.
StopExplained ==
    report # NoReport /\ obeyed /\ ~external =>
        report.status = "Aborted" /\ report.stopReason \in Criteria

\* Once more events were dropped than max_dropped_messages allows, the monitor ends
\* the run, however the reading of the counters and the tasks interleave.
ThresholdEndsRun ==
    EnoughSamples(metrics) /\ TooManyDropped(metrics) ~> main = "exited"

\* A stop that came before the run, or at any time during it, ends it.
StopEndsRun == external ~> main = "exited"

===============================================================================
