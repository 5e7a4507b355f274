----------------------------- MODULE RunnerProofs -----------------------------
(***************************************************************************)
(* Runner, for every workload, latency and threshold: however late and in  *)
(* whatever order the counters become visible, no run is aborted for what  *)
(* did not happen, and a run that the monitor ended says so.               *)
(***************************************************************************)
EXTENDS Runner, TLAPS

LEMMA CounterNames ==
  /\ Len(LoadOrder) = 5
  /\ \A i \in 1..5 : LoadOrder[i] \in Counters
  /\ Counters = {"attempts", "failures", "sent", "dropped", "timeouts"}
  /\ Counters \cap Percentiles = {}
<1>1. DOMAIN LoadOrder = {1, 2, 3, 4, 5} /\ Len(LoadOrder) = 5
  BY DEF LoadOrder
<1>2. /\ LoadOrder[1] = "attempts" /\ LoadOrder[2] = "failures" /\ LoadOrder[3] = "sent"
      /\ LoadOrder[4] = "dropped" /\ LoadOrder[5] = "timeouts"
  BY DEF LoadOrder
<1>3. Counters = {"attempts", "failures", "sent", "dropped", "timeouts"}
  BY <1>1, <1>2 DEF Counters
<1> QED BY <1>1, <1>2, <1>3 DEF Percentiles

LEMMA EvaluateNames == \A s : Evaluate(s) \in Criteria \cup {"none"}
BY DEF Evaluate, Criteria

\* More errors of the same total exceed the same limit.
LEMMA RateGrows ==
  ASSUME NEW e \in Nat, NEW f \in Nat, NEW t \in Nat, e <= f,
         NEW limit \in {NotSet} \cup (Int \X (Nat \ {0})), RateExceeds(e, t, limit)
  PROVE  RateExceeds(f, t, limit)
<1> USE ThresholdsAssumption DEF RateExceeds
<1>1. limit # NotSet /\ limit[1] \in Int /\ limit[2] \in Nat
  OBVIOUS
<1>2. CASE t = 0
  BY <1>2
<1>3. CASE t # 0
  <2> DEFINE x == Clamped(e) * limit[2]
             y == Clamped(f) * limit[2]
             z == limit[1] * Clamped(t)
  <2>1. /\ Clamped(e) \in Nat /\ Clamped(f) \in Nat /\ Clamped(t) \in Nat
        /\ Clamped(e) <= Clamped(f)
    BY DEF Clamped
  <2>2. \A a, b, d \in Nat : a <= b => a * d <= b * d
    OBVIOUS
  <2>3. \A a, b \in Int : a * b \in Int
    OBVIOUS
  <2>4. x <= y /\ x \in Int /\ y \in Int /\ z \in Int
    BY <1>1, <2>1, <2>2, <2>3
  <2>5. x > z
    BY <1>3
  <2> HIDE DEF x, y, z
  <2>6. y > z
    BY <2>4, <2>5
  <2> QED BY <1>1, <1>3, <2>6 DEF y, z
<1> QED BY <1>2, <1>3

\* The workload adds to the counters, and keeps its failures below its attempts.
LEMMA WorkGrows ==
  ASSUME TypeOK, Work \/ Deliver
  PROVE  /\ metrics' \in [Counters \cup Percentiles -> Nat] /\ metrics'.failures <= metrics'.attempts
         /\ \A c \in Counters : metrics'[c] >= metrics[c]
         /\ returned' = FALSE
         /\ UNCHANGED <<stopVars, monitorVars, mainVars, outcome, obeyed>>
<1>1. metrics \in [Counters \cup Percentiles -> Nat]
  BY DEF TypeOK
<1>2. metrics' \in [Counters \cup Percentiles -> Nat]
  <2>1. CASE Work
    <3>1. metrics' \in Counted
      BY <2>1 DEF Work
    <3>2. \A m \in [Counters \cup Percentiles -> Nat], c \in Counters, n \in 1..2 :
              Grow(m, c, n) \in [Counters \cup Percentiles -> Nat]
      BY DEF Grow
    <3>3. {"attempts", "failures", "sent", "timeouts", "dropped"} \subseteq Counters
      BY CounterNames
    <3> QED BY <1>1, <3>1, <3>2, <3>3 DEF Counted
  <2>2. CASE Deliver
    BY <1>1, <2>2, RunnerAssumption DEF Deliver
  <2> QED BY <2>1, <2>2
<1> QED BY <1>2 DEF Work, Deliver, W!Run, W!Plausible

-----------------------------------------------------------------------------
(***************************************************************************)
(* Nothing is visible that was not counted, and what was counted stays.    *)
(***************************************************************************)
SnapshotInv ==
    /\ TypeOK
    /\ \A c \in Counters : seen[c] <= metrics[c]

LEMMA InitSnapshot == Init => SnapshotInv
<1> SUFFICES ASSUME Init PROVE SnapshotInv
  OBVIOUS
<1>1. metrics.failures <= metrics.attempts /\ \A c \in Counters : seen[c] <= metrics[c]
  BY CounterNames DEF Init
<1>2. loads \in 0..Len(LoadOrder)
  BY CounterNames DEF Init
<1>3. metrics \in [Counters \cup Percentiles -> Nat] /\ seen \in [Counters \cup Percentiles -> Nat]
  BY DEF Init
<1> QED BY <1>1, <1>2, <1>3 DEF Init, SnapshotInv, TypeOK, MonitorStages, NoReport

LEMMA NextSnapshot == SnapshotInv /\ [Next]_vars => SnapshotInv'
<1> SUFFICES ASSUME SnapshotInv, [Next]_vars PROVE SnapshotInv'
  OBVIOUS
<1> USE DEF stopVars, monitorVars, workloadVars, mainVars
<1>1. CASE Tick
  <2>1. DOMAIN metrics = Counters \cup Percentiles
    BY DEF SnapshotInv, TypeOK
  <2>2. seen' = Shown(seen) \/ seen' = Shown(metrics)
    BY <1>1 DEF Tick
  <2>3. /\ seen' \in [Counters \cup Percentiles -> Nat]
        /\ \A c \in Counters : seen'[c] <= metrics[c]
    BY <2>1, <2>2, CounterNames DEF Shown, SnapshotInv, TypeOK
  <2> QED BY <1>1, <2>3, CounterNames DEF Tick, SnapshotInv, TypeOK, MonitorStages
<1>2. CASE Load
  <2>1. loads \in 0..5 /\ loads < 5 /\ loads' = loads + 1
    BY <1>2, CounterNames DEF Load, SnapshotInv, TypeOK
  <2> DEFINE c == LoadOrder[loads + 1]
  <2>2. c \in Counters
    BY <2>1, CounterNames
  <2>3. PICK v \in seen[c]..metrics[c] : seen' = [seen EXCEPT ![c] = v]
    BY <1>2 DEF Load
  <2> HIDE DEF c
  <2>4. seen[c] \in Nat /\ metrics[c] \in Nat /\ metrics' = metrics
    BY <1>2, <2>2 DEF Load, SnapshotInv, TypeOK
  <2>5. v \in Nat /\ v <= metrics[c]
    BY <2>3, <2>4
  <2>6. /\ seen' \in [Counters \cup Percentiles -> Nat]
        /\ \A d \in Counters : seen'[d] <= metrics'[d]
    BY <2>2, <2>3, <2>4, <2>5 DEF SnapshotInv, TypeOK
  <2> QED BY <1>2, <2>1, <2>6, CounterNames DEF Load, SnapshotInv, TypeOK
<1>3. CASE Work \/ Deliver
  <2>1. /\ metrics' \in [Counters \cup Percentiles -> Nat] /\ metrics'.failures <= metrics'.attempts
        /\ \A c \in Counters : metrics'[c] >= metrics[c]
        /\ returned' = FALSE
        /\ UNCHANGED <<stopVars, monitorVars, mainVars, outcome, obeyed>>
    BY <1>3, WorkGrows DEF SnapshotInv
  <2>2. \A c \in Counters : seen'[c] <= metrics'[c]
    <3>1. \A c \in Counters : seen[c] \in Nat /\ metrics[c] \in Nat /\ metrics'[c] \in Nat
      BY <2>1 DEF SnapshotInv, TypeOK
    <3> QED BY <2>1, <3>1 DEF SnapshotInv
  <2> QED BY <2>1, <2>2 DEF SnapshotInv, TypeOK
<1>4. ASSUME UNCHANGED <<seen, metrics>>, TypeOK' PROVE SnapshotInv'
  BY <1>4 DEF SnapshotInv
<1> USE DEF SnapshotInv, TypeOK, MonitorStages
<1>5. CASE Decide
  BY <1>4, <1>5 DEF Decide
<1>6. CASE Store
  <2>1. reason' \in Criteria \cup {"none"}
    BY <1>6, EvaluateNames DEF Store
  <2> QED BY <1>4, <1>6, <2>1 DEF Store
<1>7. CASE SendStop \/ MonitorDies
  BY <1>4, <1>7 DEF SendStop, MonitorDies
<1>8. CASE Forward \/ StopRequested
  BY <1>4, <1>8 DEF Forward, StopRequested
<1>9. CASE WorkloadReturns
  <2>1. outcome' \in SUBSET {"participants", "assertions"} \/ outcome' = {"error"}
    BY <1>9 DEF WorkloadReturns
  <2>2. outcome' \subseteq Troubles
    BY <2>1 DEF Troubles
  <2> QED BY <1>4, <1>9, <2>2 DEF WorkloadReturns, W!Return
<1>10. CASE Main
  <2>1. CASE Decided
    BY <1>4, <2>1 DEF Decided, Status
  <2> QED BY <1>4, <1>10, <2>1 DEF Main, Refuse, Start, AbortTasks, Exit
<1>11. CASE UNCHANGED vars
  BY <1>4, <1>11 DEF vars
<1> QED BY <1>1, <1>2, <1>3, <1>5, <1>6, <1>7, <1>8, <1>9, <1>10, <1>11 DEF Next, Monitor, Terminated

\* Types of the run, its monitor and its report (runner.rs:60-141), for every workload.
THEOREM RunnerTyping == Safety => []TypeOK
<1>1. SnapshotInv => TypeOK
  BY DEF SnapshotInv
<1> QED BY <1>1, InitSnapshot, NextSnapshot, PTL DEF Safety

-----------------------------------------------------------------------------
(***************************************************************************)
(* A reason found in what is visible of m is grounded in m, and stays so   *)
(* while m grows.                                                          *)
(***************************************************************************)
Grounded(r, m) ==
    /\ EnoughSamples(m)
    /\ r = "DroppedMessages" => TooManyDropped(m)
    /\ r = "ConnectionErrorRate" =>
           \E n \in 0..m.attempts : RateExceeds(m.failures, n, Limits.connectionErrorRate)
    /\ r = "MessageErrorRate" =>
           \E n \in 0..m.sent : RateExceeds(m.timeouts + m.dropped, n, Limits.messageErrorRate)

Readings == [Counters \cup Percentiles -> Nat]

LEMMA CounterFields ==
  ASSUME NEW m \in Readings
  PROVE  m.attempts \in Nat /\ m.failures \in Nat /\ m.sent \in Nat /\ m.dropped \in Nat /\ m.timeouts \in Nat
BY CounterNames DEF Readings

\* A rate depends on its own counters only.
LEMMA RateOf ==
  ASSUME NEW m \in Readings, NEW n
  PROVE  /\ ConnectionsFail([m EXCEPT !.attempts = n])
                <=> RateExceeds(m.failures, n, Limits.connectionErrorRate)
         /\ MessagesFail([m EXCEPT !.sent = n])
                <=> RateExceeds(m.timeouts + m.dropped, n, Limits.messageErrorRate)
BY CounterNames DEF Readings, ConnectionsFail, MessagesFail

\* Samples, drops and errors are what there are at least as many of.
LEMMA MoreIsEnough ==
  ASSUME NEW s \in Readings, NEW m \in Readings, \A c \in Counters : s[c] <= m[c]
  PROVE  /\ EnoughSamples(s) => EnoughSamples(m)
         /\ TooManyDropped(s) => TooManyDropped(m)
         /\ \A n \in Nat : RateExceeds(s.failures, n, Limits.connectionErrorRate)
                              => RateExceeds(m.failures, n, Limits.connectionErrorRate)
         /\ \A n \in Nat : RateExceeds(s.timeouts + s.dropped, n, Limits.messageErrorRate)
                              => RateExceeds(m.timeouts + m.dropped, n, Limits.messageErrorRate)
<1>1. /\ s.attempts <= m.attempts /\ s.failures <= m.failures /\ s.sent <= m.sent
      /\ s.dropped <= m.dropped /\ s.timeouts <= m.timeouts
  BY CounterNames
<1>2. /\ s.attempts \in Nat /\ s.failures \in Nat /\ s.sent \in Nat /\ s.dropped \in Nat /\ s.timeouts \in Nat
      /\ m.attempts \in Nat /\ m.failures \in Nat /\ m.sent \in Nat /\ m.dropped \in Nat /\ m.timeouts \in Nat
  BY CounterFields
<1>3. EnoughSamples(s) => EnoughSamples(m)
  <2>1. Larger(s.attempts, s.sent) <= Larger(m.attempts, m.sent)
    BY <1>1, <1>2 DEF Larger
  <2>2. Larger(s.attempts, s.sent) \in Nat /\ Larger(m.attempts, m.sent) \in Nat
    BY <1>2 DEF Larger
  <2>3. (IF Limits.minSamples = NotSet THEN 1 ELSE Limits.minSamples) \in Nat
    BY ThresholdsAssumption
  <2> QED BY <2>1, <2>2, <2>3 DEF EnoughSamples
<1>4. TooManyDropped(s) => TooManyDropped(m)
  BY <1>1, <1>2, ThresholdsAssumption DEF TooManyDropped
<1>5. ASSUME NEW n \in Nat, RateExceeds(s.failures, n, Limits.connectionErrorRate)
      PROVE  RateExceeds(m.failures, n, Limits.connectionErrorRate)
  BY <1>1, <1>2, <1>5, RateGrows, ThresholdsAssumption
<1>6. ASSUME NEW n \in Nat, RateExceeds(s.timeouts + s.dropped, n, Limits.messageErrorRate)
      PROVE  RateExceeds(m.timeouts + m.dropped, n, Limits.messageErrorRate)
  <2>1. /\ s.timeouts + s.dropped \in Nat /\ m.timeouts + m.dropped \in Nat
        /\ s.timeouts + s.dropped <= m.timeouts + m.dropped
    BY <1>1, <1>2
  <2> QED BY <1>6, <2>1, RateGrows, ThresholdsAssumption
<1> QED BY <1>3, <1>4, <1>5, <1>6

LEMMA EvaluateGrounds ==
  ASSUME NEW s \in Readings, NEW m \in Readings, \A c \in Counters : s[c] <= m[c],
         Evaluate(s) # "none"
  PROVE  Grounded(Evaluate(s), m)
<1>1. EnoughSamples(m)
  <2>1. EnoughSamples(s)
    BY DEF Evaluate
  <2> QED BY <2>1, MoreIsEnough
<1>2. /\ s.attempts \in 0..m.attempts
      /\ s.sent \in 0..m.sent
  BY CounterNames, CounterFields
<1>3. ASSUME Evaluate(s) = "DroppedMessages" PROVE TooManyDropped(m)
  <2>1. TooManyDropped(s)
    BY <1>3 DEF Evaluate
  <2> QED BY <2>1, MoreIsEnough
<1>4. ASSUME Evaluate(s) = "ConnectionErrorRate"
      PROVE  \E n \in 0..m.attempts : RateExceeds(m.failures, n, Limits.connectionErrorRate)
  <2>1. RateExceeds(s.failures, s.attempts, Limits.connectionErrorRate)
    BY <1>4 DEF Evaluate, ConnectionsFail
  <2> QED BY <1>2, <2>1, MoreIsEnough
<1>5. ASSUME Evaluate(s) = "MessageErrorRate"
      PROVE  \E n \in 0..m.sent : RateExceeds(m.timeouts + m.dropped, n, Limits.messageErrorRate)
  <2>1. RateExceeds(s.timeouts + s.dropped, s.sent, Limits.messageErrorRate)
    BY <1>5 DEF Evaluate, MessagesFail
  <2> QED BY <1>2, <2>1, MoreIsEnough
<1> QED BY <1>1, <1>3, <1>4, <1>5 DEF Grounded

LEMMA GrowthGrounds ==
  ASSUME NEW m \in Readings, NEW k \in Readings, \A c \in Counters : m[c] <= k[c],
         NEW r, Grounded(r, m)
  PROVE  Grounded(r, k)
<1>1. \A n : (n \in 0..m.attempts => n \in 0..k.attempts) /\ (n \in 0..m.sent => n \in 0..k.sent)
  BY CounterNames, CounterFields
<1> QED BY <1>1, MoreIsEnough DEF Grounded

LEMMA NextGrounded == SnapshotInv /\ AbortGrounded /\ [Next]_vars => AbortGrounded'
<1> SUFFICES ASSUME SnapshotInv, AbortGrounded, [Next]_vars PROVE AbortGrounded'
  OBVIOUS
<1> USE DEF stopVars, monitorVars, workloadVars, mainVars
<1>1. SnapshotInv'
  BY NextSnapshot
<1>2. /\ metrics \in Readings /\ seen \in Readings /\ metrics' \in Readings
      /\ \A c \in Counters : seen[c] <= metrics[c]
  BY <1>1 DEF SnapshotInv, TypeOK, Readings
<1>3. reason # "none" => Grounded(reason, metrics)
  BY <1>2, RateOf DEF AbortGrounded, Grounded
<1>4. reason' # "none" => Grounded(reason', metrics')
  <2>1. CASE Store
    <3>1. reason' = Evaluate(seen) /\ metrics' = metrics
      BY <2>1 DEF Store
    <3> QED BY <1>2, <3>1, EvaluateGrounds
  <2>2. CASE Work \/ Deliver
    <3>1. reason' = reason /\ \A c \in Counters : metrics'[c] >= metrics[c]
      BY <2>2, WorkGrows DEF SnapshotInv
    <3>2. \A c \in Counters : metrics[c] <= metrics'[c]
      BY <1>2, <3>1 DEF Readings
    <3> QED BY <1>2, <1>3, <3>1, <3>2, GrowthGrounds
  <2>3. ASSUME UNCHANGED <<reason, metrics>> PROVE reason' # "none" => Grounded(reason', metrics')
    BY <1>3, <2>3
  <2>4. CASE Tick \/ Load \/ Decide \/ SendStop \/ MonitorDies
    BY <2>3, <2>4 DEF Tick, Load, Decide, SendStop, MonitorDies
  <2>5. CASE Forward \/ StopRequested \/ WorkloadReturns
    BY <2>3, <2>5 DEF Forward, StopRequested, WorkloadReturns, W!Return
  <2>6. CASE Main \/ Terminated \/ UNCHANGED vars
    BY <2>3, <2>6 DEF Main, Refuse, Start, AbortTasks, Decided, Exit, Terminated, vars
  <2> QED BY <2>1, <2>2, <2>4, <2>5, <2>6 DEF Next, Monitor
<1> QED BY <1>2, <1>4, RateOf DEF AbortGrounded, Grounded

\* The counters are Relaxed atomics, loaded one by one while the tasks increase them
\* (metrics.rs:116-129), so a snapshot may hold values that never stood together. Still
\* no run is aborted on samples, drops or errors that were not counted, for every limit
\* and however late each increase becomes visible.
THEOREM AbortsAreGrounded == Safety => []AbortGrounded
<1>1. Init => SnapshotInv /\ AbortGrounded
  BY InitSnapshot DEF Init, AbortGrounded
<1>2. SnapshotInv /\ AbortGrounded /\ [Next]_vars => (SnapshotInv /\ AbortGrounded)'
  BY NextSnapshot, NextGrounded
<1> QED BY <1>1, <1>2, PTL DEF Safety

-----------------------------------------------------------------------------
(***************************************************************************)
(* Who writes the stop channel has stored its reason before, and the run   *)
(* reads the reason after the workload has seen the channel; so however    *)
(* late the monitor is aborted, the reason is not missed.                  *)
(***************************************************************************)
ReasonStored ==
    /\ monitor = "storing" => Evaluate(seen) # "none"
    /\ monitor = "stored" => reason # "none"
    /\ report # NoReport => main \in {"reported", "exited"}

StopJustified ==
    /\ channel => external \/ reason # "none"
    /\ obeyed => channel

ReasonInv == ReasonStored /\ StopJustified /\ StopExplained

LEMMA NextReason == TypeOK /\ ReasonInv /\ [Next]_vars => ReasonInv'
<1> SUFFICES ASSUME TypeOK, ReasonInv, [Next]_vars PROVE ReasonInv'
  OBVIOUS
<1> USE DEF ReasonInv, NoReport, stopVars, monitorVars, workloadVars, mainVars
<1>1. ASSUME UNCHANGED seen PROVE Evaluate(seen)' = Evaluate(seen)
  BY <1>1 DEF Evaluate, EnoughSamples, ConnectionsFail, MessagesFail, TooSlow, TooManyDropped, RateExceeds,
              Larger, Clamped
<1>2. ASSUME UNCHANGED <<report, obeyed>>, external' = external \/ external' = TRUE
      PROVE  StopExplained'
  BY <1>2 DEF StopExplained
<1>3. ASSUME UNCHANGED obeyed, channel' = channel \/ channel' = TRUE,
             external => external', reason # "none" => reason' # "none",
             channel' /\ ~channel => external' \/ reason' # "none"
      PROVE  StopJustified'
  BY <1>3 DEF StopJustified
<1>4. CASE Tick \/ Load \/ Decide
  <2>1. ReasonStored'
    BY <1>1, <1>4 DEF ReasonStored, Tick, Load, Decide
  <2> QED BY <1>2, <1>3, <1>4, <2>1 DEF Tick, Load, Decide
<1>5. CASE Store
  <2>1. reason' # "none" /\ ReasonStored'
    BY <1>5 DEF ReasonStored, Store
  <2> QED BY <1>2, <1>3, <1>5, <2>1 DEF Store
<1>6. CASE SendStop
  <2>1. ReasonStored' /\ reason # "none"
    BY <1>6 DEF ReasonStored, SendStop
  <2> QED BY <1>2, <1>3, <1>6, <2>1 DEF SendStop
<1>7. CASE MonitorDies
  <2>1. ReasonStored'
    BY <1>7 DEF ReasonStored, MonitorDies
  <2> QED BY <1>2, <1>3, <1>7, <2>1 DEF MonitorDies
<1>8. CASE Forward \/ StopRequested
  <2>1. ReasonStored'
    BY <1>1, <1>8 DEF ReasonStored, Forward, StopRequested
  <2> QED BY <1>2, <1>3, <1>8, <2>1 DEF Forward, StopRequested
<1>9. CASE Work \/ Deliver
  <2>1. UNCHANGED <<stopVars, monitorVars, mainVars, outcome, obeyed>>
    BY <1>9, WorkGrows
  <2>2. ReasonStored'
    BY <1>1, <2>1 DEF ReasonStored
  <2> QED BY <1>2, <1>3, <2>1, <2>2
<1>10. CASE WorkloadReturns
  <2>1. ReasonStored' /\ UNCHANGED report /\ report = NoReport
    BY <1>1, <1>10 DEF ReasonStored, WorkloadReturns
  <2>2. obeyed' = channel /\ UNCHANGED <<channel, external, reason>>
    BY <1>10 DEF WorkloadReturns, W!Return
  <2> QED BY <2>1, <2>2 DEF StopJustified, StopExplained
<1>11. CASE Decided
  <2>1. ReasonStored'
    BY <1>1, <1>11 DEF ReasonStored, Decided
  <2>2. UNCHANGED <<obeyed, channel, external, reason>>
    BY <1>11 DEF Decided
  <2>3. obeyed /\ ~external => reason # "none"
    BY DEF StopJustified
  <2>4. reason # "none" => report'.status = "Aborted" /\ report'.stopReason = reason /\ reason \in Criteria
    BY <1>11 DEF Decided, Status, StopReason, TypeOK
  <2>5. StopExplained'
    BY <2>2, <2>3, <2>4 DEF StopExplained
  <2> QED BY <1>3, <2>1, <2>2, <2>5
<1>12. CASE Refuse \/ Start \/ AbortTasks \/ Exit
  <2>1. ReasonStored'
    BY <1>1, <1>12 DEF ReasonStored, Refuse, Start, AbortTasks, Exit
  <2> QED BY <1>2, <1>3, <1>12, <2>1 DEF Refuse, Start, AbortTasks, Exit
<1>13. CASE UNCHANGED vars
  <2>1. ReasonStored'
    BY <1>1, <1>13 DEF ReasonStored, vars
  <2> QED BY <1>2, <1>3, <1>13, <2>1 DEF vars
<1> QED BY <1>4, <1>5, <1>6, <1>7, <1>8, <1>9, <1>10, <1>11, <1>12, <1>13
        DEF Next, Monitor, Main, Terminated

\* A run that ended because the monitor stopped it is reported as aborted, with the
\* threshold that was exceeded, although the monitor is aborted and not awaited
\* (runner.rs:100-109).
THEOREM AbortsAreExplained == Safety => []StopExplained
<1>1. Init => SnapshotInv /\ ReasonInv
  BY InitSnapshot DEF Init, ReasonInv, ReasonStored, StopJustified, StopExplained
<1>2. (SnapshotInv => TypeOK) /\ (ReasonInv => StopExplained)
  BY DEF SnapshotInv, ReasonInv
<1> QED BY <1>1, <1>2, NextSnapshot, NextReason, PTL DEF Safety
===============================================================================
