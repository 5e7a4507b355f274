---------------------------- MODULE WorkloadProofs ----------------------------
(***************************************************************************)
(* Scenario, for every value of its constants: the report holds the        *)
(* failures there were, the attempts stay within their budget, nothing     *)
(* outlives the run; and what others rely on: the scenario uses the        *)
(* barrier as ReadinessBarrier has it, is a Workload for the runner, and   *)
(* treats each session as SessionContract allows, which SessionProofs      *)
(* shows a Session to keep.                                                *)
(***************************************************************************)
EXTENDS ScenarioProofs

(***************************************************************************)
(* The report, the attempt budget and the end of the run. The main task    *)
(* joins only finished tasks and returns after the last; a finished task   *)
(* does not move and keeps its result; reconnect_exhausted is only given   *)
(* by Retry, when the budget is spent.                                     *)
(***************************************************************************)
Settled ==
    /\ \A p \in joined : pc[p] = "done"
    /\ main = "returned" => joined = Participants
    /\ \A p \in Participants : gate[p] \in Barrier!Inside => pc[p] = "gate"
    /\ gate[Main] \in Barrier!Inside => main = "gate"
    /\ \A p \in Participants : result[p] = "reconnect_exhausted" => pc[p] = "done"

EndInv == Settled /\ ExhaustedMeansSpent /\ FailuresFaithful

\* Only tasks that are not done move, and a step of one leaves the report alone.
LEMMA ReportKept ==
  ASSUME Typed, EndInv, NEW p \in Participants, pc[p] # "done",
         \A q \in Participants \ {p} : result'[q] = result[q],
         UNCHANGED <<main, joined, failures>>,
         gate'[Main] = gate[Main], signalled' = signalled
  PROVE  FailuresFaithful'
<1>1. p \notin joined /\ joined \subseteq Participants
  BY DEF EndInv, Settled, Typed, RestTyped
<1>2. {[participant |-> q, category |-> result'[q]] : q \in {r \in joined : result'[r] # "ok"}}
        = {[participant |-> q, category |-> result[q]] : q \in {r \in joined : result[r] # "ok"}}
  <2>1. \A q \in joined : result'[q] = result[q]
    BY <1>1
  <2> QED BY <2>1
<1> QED BY <1>2 DEF EndInv, FailuresFaithful

LEMMA RetrySpends ==
  ASSUME Typed, EndInv, NEW p \in Participants, NEW e \in Errors, e # "reconnect_exhausted",
         \/ ReconnectEnabled /\ Retry(p, e)
         \/ Finish(p, e) /\ UNCHANGED attempt,
         pc[p] \in {"connecting", "closing"}
  PROVE  /\ ExhaustedMeansSpent'
         /\ \A q \in Participants : result'[q] = "reconnect_exhausted" => pc'[q] = "done"
         /\ \A q \in Participants \ {p} : result'[q] = result[q] /\ pc'[q] = pc[q]
<1> USE DEF Typed, TasksTyped, EndInv, Settled, ExhaustedMeansSpent
<1>1. "reconnect_exhausted" # "ok" /\ MaxAttempts \in Nat
  BY ScenarioAssumption
<1>2. CASE Finish(p, e) /\ UNCHANGED attempt
  BY <1>1, <1>2 DEF Finish
<1>3. CASE ReconnectEnabled /\ Retry(p, e)
  <2>1. CASE attempt[p] >= MaxAttempts
    <3>1. attempt[p] = MaxAttempts /\ Finish(p, "reconnect_exhausted") /\ UNCHANGED attempt
      BY <1>1, <1>3, <2>1 DEF Retry
    <3> QED BY <1>1, <1>3, <3>1 DEF Finish
  <2>2. CASE ~(attempt[p] >= MaxAttempts)
    <3>1. /\ attempt' = [attempt EXCEPT ![p] = @ + 1]
          /\ \E t \in {"done", "backoff"}, r \in {"ok", e} :
                pc' = [pc EXCEPT ![p] = t] /\ result' = [result EXCEPT ![p] = r]
      BY <1>3, <2>2 DEF Retry, Finish
    <3> QED BY <1>1, <3>1
  <2> QED BY <2>1, <2>2
<1> QED BY <1>2, <1>3

\* A failed attempt or session: the two actions that go through Retry.
LEMMA FailureSettled ==
  ASSUME Typed, EndInv, NEW p \in Participants, ConnectFails(p) \/ Disconnect(p)
  PROVE  EndInv'
<1>1. /\ pc[p] \in {"connecting", "closing"}
      /\ UNCHANGED <<ready, gate, signalled, main, joined, failures>>
  BY DEF ConnectFails, Disconnect, gateVars, stopVars, mainVars
<1>2. PICK e \in {"ok"} \cup Errors :
        /\ e # "reconnect_exhausted"
        /\ \/ e # "ok" /\ ReconnectEnabled /\ Retry(p, e)
           \/ Finish(p, e) /\ UNCHANGED attempt
  <2>1. CASE ConnectFails(p)
    <3>1. PICK e \in ConnectErrors :
            \/ ReconnectEnabled /\ Retry(p, e)
            \/ Finish(p, e) /\ UNCHANGED attempt
      BY <2>1 DEF ConnectFails
    <3>2. e \in Errors /\ e # "reconnect_exhausted" /\ e # "ok"
      BY ScenarioAssumption DEF Errors
    <3> QED BY <3>1, <3>2
  <2>2. CASE Disconnect(p)
    <3>1. pc[p] = "closing" /\ result[p] \in {"ok"} \cup Errors /\ result[p] # "reconnect_exhausted"
      BY <2>2 DEF Disconnect, Typed, TasksTyped, Answered, EndInv, Settled
    <3>2. \/ result[p] # "ok" /\ ReconnectEnabled /\ Retry(p, result[p])
          \/ Finish(p, result[p]) /\ UNCHANGED attempt
      BY <2>2, ScenarioAssumption DEF Disconnect
    <3> QED BY <3>1, <3>2
  <2> QED BY <2>1, <2>2
<1>3. /\ ExhaustedMeansSpent'
      /\ \A q \in Participants : result'[q] = "reconnect_exhausted" => pc'[q] = "done"
      /\ \A q \in Participants \ {p} : result'[q] = result[q] /\ pc'[q] = pc[q]
  <2>1. CASE e \in Errors
    BY <1>1, <1>2, <2>1, RetrySpends, ScenarioAssumption
  <2>2. CASE e = "ok"
    BY <1>2, <2>2 DEF Finish, Typed, TasksTyped, EndInv, Settled, ExhaustedMeansSpent
  <2> QED BY <2>1, <2>2
<1>4. FailuresFaithful'
  BY <1>1, <1>3, ReportKept
<1>5. Settled'
  BY <1>1, <1>3 DEF Settled, EndInv, Typed, RestTyped
<1> QED BY <1>3, <1>4, <1>5 DEF EndInv

\* The other actions of a task, which finish it with what it had or with Ok(()).
LEMMA ParticipantSettled ==
  ASSUME Typed, EndInv, NEW p \in Participants, Participant(p)
  PROVE  EndInv'
<1> USE DEF Goto, Finish, Close, gateVars, stopVars, mainVars
<1> DEFINE Plain ==
        /\ pc[p] # "done"
        /\ \E t : pc' = [pc EXCEPT ![p] = t]
        /\ \/ UNCHANGED result
           \/ \E r : r # "reconnect_exhausted" /\ result' = [result EXCEPT ![p] = r]
        /\ \A q \in Participants : gate'[q] \in Barrier!Inside => pc'[q] = "gate"
        /\ gate'[Main] \in Barrier!Inside => gate[Main] \in Barrier!Inside
        /\ (gate[Main] = "TimedOut") = (gate'[Main] = "TimedOut")
        /\ UNCHANGED <<attempt, signalled, main, joined, failures>>
<1>1. ASSUME Plain PROVE EndInv'
  <2>1. /\ p \notin joined /\ joined \subseteq Participants
        /\ \A q \in Participants \ {p} : result'[q] = result[q] /\ pc'[q] = pc[q]
        /\ result'[p] = result[p] \/ result'[p] # "reconnect_exhausted"
        /\ result[p] # "reconnect_exhausted"
    BY <1>1 DEF Typed, TasksTyped, RestTyped, EndInv, Settled
  <2>2. Settled' /\ ExhaustedMeansSpent'
    BY <1>1, <2>1 DEF EndInv, Settled, ExhaustedMeansSpent
  <2>3. {[participant |-> q, category |-> result'[q]] : q \in {r \in joined : result'[r] # "ok"}}
          = {[participant |-> q, category |-> result[q]] : q \in {r \in joined : result[r] # "ok"}}
    <3>1. \A q \in joined : result'[q] = result[q]
      BY <2>1
    <3> QED BY <3>1
  <2>4. FailuresFaithful'
    BY <1>1, <2>3 DEF EndInv, FailuresFaithful
  <2> QED BY <2>2, <2>4 DEF EndInv
<1> USE ScenarioAssumption DEF Typed, TasksTyped, GateTyped, EndInv, Settled, Barrier!Inside, Barrier!Verdicts
<1>2. CASE RampElapsed(p)
  <2>1. Plain BY <1>2 DEF RampElapsed
  <2> QED BY <1>1, <2>1
<1>3. CASE RampInterrupted(p)
  <2>1. Plain BY <1>3 DEF RampInterrupted
  <2> QED BY <1>1, <2>1
<1>4. CASE Dial(p)
  <2>1. Plain BY <1>4 DEF Dial
  <2> QED BY <1>1, <2>1
<1>5. CASE DialInterrupted(p)
  <2>1. Plain BY <1>5 DEF DialInterrupted
  <2> QED BY <1>1, <2>1
<1>6. CASE ConnectSucceeds(p)
  <2>1. Plain BY <1>6 DEF ConnectSucceeds
  <2> QED BY <1>1, <2>1
<1>7. CASE ConnectFails(p) \/ Disconnect(p)
  BY <1>7, FailureSettled
<1>8. CASE MarkReady(p)
  <2>1. Plain BY <1>8 DEF MarkReady, Barrier!Insert
  <2> QED BY <1>1, <2>1
<1>9. CASE NotifyReady(p)
  <2>1. Plain BY <1>9 DEF NotifyReady, Barrier!NotifyWaiters
  <2> QED BY <1>1, <2>1
<1>10. CASE BeginSession(p)
  <2>1. Plain BY <1>10 DEF BeginSession, Barrier!Enter, Barrier!Move
  <2> QED BY <1>1, <2>1
<1>11. CASE SlowElapsed(p)
  <2>1. Plain BY <1>11 DEF SlowElapsed, Barrier!Enter, Barrier!Move
  <2> QED BY <1>1, <2>1
<1>12. CASE SlowInterrupted(p)
  <2>1. Plain BY <1>12 DEF SlowInterrupted
  <2> QED BY <1>1, <2>1
<1>13. CASE GateOpens(p)
  <2>1. Plain BY <1>13 DEF GateOpens
  <2> QED BY <1>1, <2>1
<1>14. CASE GateRefuses(p)
  <2>1. Plain BY <1>14 DEF GateRefuses
  <2> QED BY <1>1, <2>1
<1>15. CASE ReaderEnds(p)
  BY <1>15 DEF ReaderEnds, ExhaustedMeansSpent, FailuresFaithful
<1>16. CASE SessionEnds(p)
  <2>1. \E r \in {"ok"} \cup ReadErrors \cup SendErrors : Close(p, r)
    BY <1>16 DEF SessionEnds, ReadResults, SendResults
  <2>2. Plain BY <1>16, <2>1 DEF SessionEnds
  <2> QED BY <1>1, <2>2
<1>17. CASE BackoffElapsed(p)
  <2>1. Plain BY <1>17 DEF BackoffElapsed
  <2> QED BY <1>1, <2>1
<1>18. CASE BackoffInterrupted(p)
  <2>1. Plain BY <1>18 DEF BackoffInterrupted
  <2> QED BY <1>1, <2>1
<1> QED BY <1>2, <1>3, <1>4, <1>5, <1>6, <1>7, <1>8, <1>9, <1>10, <1>11, <1>12, <1>13,
           <1>14, <1>15, <1>16, <1>17, <1>18 DEF Participant

\* Joining a finished task adds its failure, if it has one, to the report.
LEMMA JoinSettled ==
  ASSUME Typed, EndInv, NEW p \in Participants, Join(p)
  PROVE  EndInv'
<1>1. /\ main = "joining" /\ pc[p] = "done" /\ p \notin joined /\ joined' = joined \cup {p}
      /\ failures' = IF result[p] = "ok" THEN failures
                     ELSE failures \cup {[participant |-> p, category |-> result[p]]}
      /\ UNCHANGED <<pc, attempt, result, reader, gate, main, signalled>>
  BY DEF Join, taskVars, gateVars, stopVars
<1>2. Settled' /\ ExhaustedMeansSpent'
  BY <1>1 DEF EndInv, Settled, ExhaustedMeansSpent
<1>3. result[p] # "readiness_timeout" /\ result[p] # "none"
  <2>1. result[p] \in {"ok"} \cup Errors
    BY <1>1 DEF Typed, TasksTyped, Answered
  <2> QED BY <2>1, ScenarioAssumption
<1> DEFINE Report(s) == {[participant |-> q, category |-> result[q]] : q \in {r \in s : result[r] # "ok"}}
           Timeouts(s) == {f \in s : f.category = "readiness_timeout"}
<1>4. /\ failures \ Timeouts(failures) = Report(joined)
      /\ Timeouts(failures) # {} => gate[Main] = "TimedOut" /\ signalled
  BY DEF EndInv, FailuresFaithful
<1>5. failures' \ Timeouts(failures') = Report(joined \cup {p}) /\ Timeouts(failures') = Timeouts(failures)
  <2>1. CASE result[p] = "ok"
    <3>1. Report(joined \cup {p}) = Report(joined)
      BY <2>1
    <3> QED BY <1>1, <1>4, <2>1, <3>1
  <2>2. CASE result[p] # "ok"
    <3> DEFINE new == [participant |-> p, category |-> result[p]]
    <3>1. Report(joined \cup {p}) = Report(joined) \cup {new}
      BY <2>2
    <3>2. new.category # "readiness_timeout"
      BY <1>3
    <3>3. failures' = failures \cup {new}
      BY <1>1, <2>2
    <3> HIDE DEF Report, new
    <3>4. Timeouts(failures') = Timeouts(failures)
      BY <3>2, <3>3
    <3>5. failures' \ Timeouts(failures') = (failures \ Timeouts(failures)) \cup {new}
      BY <3>2, <3>3
    <3> QED BY <1>4, <3>1, <3>4, <3>5
  <2> QED BY <2>1, <2>2
<1>6. FailuresFaithful'
  BY <1>1, <1>4, <1>5 DEF FailuresFaithful
<1> QED BY <1>2, <1>6 DEF EndInv

\* The timeouts of the barrier enter the report with the cancellation.
LEMMA TimeoutSettled ==
  ASSUME Typed, EndInv, MainTimesOut
  PROVE  EndInv'
<1>1. /\ main = "gate" /\ gate[Main] = "TimedOut" /\ main' = "joining" /\ signalled'
      /\ failures' = failures \cup [participant : Required \ ready, category : {"readiness_timeout"}]
      /\ UNCHANGED <<pc, attempt, result, gate, joined>>
  BY DEF MainTimesOut, taskVars, gateVars
<1>2. Settled' /\ ExhaustedMeansSpent'
  BY <1>1 DEF EndInv, Settled, ExhaustedMeansSpent, Barrier!Inside
<1>3. failures' \ {f \in failures' : f.category = "readiness_timeout"}
        = failures \ {f \in failures : f.category = "readiness_timeout"}
  <2>1. \A f \in [participant : Required \ ready, category : {"readiness_timeout"}] :
            f.category = "readiness_timeout"
    OBVIOUS
  <2> QED BY <1>1, <2>1
<1>4. FailuresFaithful'
  BY <1>1, <1>3 DEF EndInv, FailuresFaithful
<1> QED BY <1>2, <1>4 DEF EndInv

LEMMA NextSettled == Typed /\ EndInv /\ [Next]_vars => EndInv'
<1> SUFFICES ASSUME Typed, EndInv, [Next]_vars PROVE EndInv'
  OBVIOUS
<1>1. CASE \E w \in Participants \cup {Main} : AtGate(w)
  <2>1. PICK w \in Participants \cup {Main} : AtGate(w)
    BY <1>1
  <2>2. /\ gate[w] \in Barrier!Inside /\ \E to : gate' = [gate EXCEPT ![w] = to]
        /\ UNCHANGED <<pc, attempt, result, signalled, main, joined, failures>>
    BY <2>1 DEF AtGate, taskVars, mainVars, Barrier!Wait, Barrier!Check, Barrier!Arm, Barrier!Woken,
                Barrier!SeeStop, Barrier!SeeTimeout, Barrier!Move, Barrier!Inside
  <2>3. Settled' /\ ExhaustedMeansSpent'
    BY <2>2 DEF EndInv, Settled, ExhaustedMeansSpent, Typed, GateTyped
  <2>4. gate[Main] = "TimedOut" => gate'[Main] = "TimedOut"
    BY <2>2 DEF Typed, GateTyped, Barrier!Inside
  <2>5. FailuresFaithful'
    BY <2>2, <2>4 DEF EndInv, FailuresFaithful
  <2> QED BY <2>3, <2>5 DEF EndInv
<1>2. CASE MainWaits
  <2>1. /\ main = "gate" /\ gate[Main] = "outside" /\ gate' = [gate EXCEPT ![Main] = "entering"]
        /\ UNCHANGED <<pc, attempt, result, signalled, main, joined, failures>>
    BY <1>2 DEF MainWaits, taskVars, mainVars, Barrier!Enter, Barrier!Move
  <2>2. Settled' /\ ExhaustedMeansSpent'
    BY <2>1, ScenarioAssumption DEF EndInv, Settled, ExhaustedMeansSpent, Typed, GateTyped
  <2>3. FailuresFaithful'
    BY <2>1 DEF EndInv, FailuresFaithful
  <2> QED BY <2>2, <2>3 DEF EndInv
<1>3. CASE MainProceeds \/ Return
  <2>1. /\ gate[Main] \notin Barrier!Inside \/ main # "gate"
        /\ main' \in {"joining", "returned"} /\ (main' = "returned" => joined = Participants)
        /\ UNCHANGED <<pc, attempt, result, gate, signalled, joined, failures>>
    BY <1>3 DEF MainProceeds, Return, taskVars, gateVars, stopVars, Barrier!Inside
  <2> QED BY <2>1 DEF EndInv, Settled, ExhaustedMeansSpent, FailuresFaithful
<1>4. CASE ForwardStop
  BY <1>4 DEF ForwardStop, taskVars, gateVars, mainVars, EndInv, Settled, ExhaustedMeansSpent, FailuresFaithful
<1>5. CASE Environment \/ UNCHANGED vars
  BY <1>5 DEF Environment, StopRequested, Deadline, BarrierDeadline, vars, taskVars, gateVars, stopVars,
              mainVars, EndInv, Settled, ExhaustedMeansSpent, FailuresFaithful
<1> QED BY <1>1, <1>2, <1>3, <1>4, <1>5, ParticipantSettled, JoinSettled, TimeoutSettled
        DEF Next, MainTask, Terminated

LEMMA InitSettled == Init => CountingInv /\ EndInv
<1> SUFFICES ASSUME Init PROVE CountingInv /\ EndInv
  OBVIOUS
<1>1. CountingInv
  BY InitCounted DEF Init, CountingInv, Answered
<1>2. Settled /\ ExhaustedMeansSpent
  BY DEF Init, Settled, ExhaustedMeansSpent, Barrier!Inside
<1>3. FailuresFaithful
  BY DEF Init, FailuresFaithful
<1> QED BY <1>1, <1>2, <1>3 DEF EndInv

\* ScenarioOutcome holds the failure of every participant joined and nothing
\* else but the timeouts of the barrier, which come with the cancellation; a
\* participant gives up with reconnect_exhausted only after its last attempt.
THEOREM ReportIsFaithful == Safety => [](FailuresFaithful /\ ExhaustedMeansSpent)
<1>1. CountingInv /\ EndInv /\ [Next]_vars => CountingInv' /\ EndInv'
  BY NextCounted, NextSettled, CountingTyped
<1>2. EndInv => FailuresFaithful /\ ExhaustedMeansSpent
  BY DEF EndInv
<1> QED BY InitSettled, <1>1, <1>2, PTL DEF Safety

\* When the scenario returns, every task has ended, none waits at the barrier,
\* and the gauge of open connections is back at zero.
THEOREM NothingOutlivesTheRun == Safety => []QuietAtReturn
<1>1. CountingInv /\ EndInv /\ [Next]_vars => CountingInv' /\ EndInv'
  BY NextCounted, NextSettled, CountingTyped
<1>2. CountingInv /\ EndInv => QuietAtReturn
  <2> SUFFICES ASSUME CountingInv, EndInv, main = "returned" PROVE
                  /\ \A p \in Participants : pc[p] = "done"
                  /\ \A w \in Participants \cup {Main} : gate[w] \notin Barrier!Inside
                  /\ metrics.active = 0
    BY DEF QuietAtReturn
  <2>1. \A p \in Participants : pc[p] = "done"
    BY DEF EndInv, Settled
  <2>2. \A w \in Participants \cup {Main} : gate[w] \notin Barrier!Inside
    BY <2>1 DEF EndInv, Settled
  <2>3. Live = {}
    BY <2>1 DEF Live, LiveStages
  <2>4. metrics.active = 0
    BY <2>3, FS_EmptySet DEF CountingInv, Counted, GaugeExact
  <2> QED BY <2>1, <2>2, <2>4
<1> QED BY InitSettled, <1>1, <1>2, PTL DEF Safety

-----------------------------------------------------------------------------
(***************************************************************************)
(* The attempt budget. The connections a participant has begun are counted *)
(* by its attempt and by where its task is: a set of pairs <<participant,  *)
(* attempt>>, which has room for no more than the budget allows. Every one *)
(* that the run has counted is in it; a task that was cut short may have   *)
(* reached an attempt it never made, so that the set may be larger.        *)
(***************************************************************************)
Unstarted == {"ramp", "dial", "backoff"}

Begun(f, a) ==
    {c \in Participants \X (0..MaxAttempts) :
        c[2] < a[c[1]] \/ (c[2] = a[c[1]] /\ f[c[1]] \notin Unstarted)}

BudgetInv ==
    /\ metrics.attempts <= Cardinality(Begun(pc, attempt))
    /\ ~ReconnectEnabled => \A p \in Participants : attempt[p] = 0

LEMMA BegunFinite ==
  ASSUME NEW f, NEW a
  PROVE  /\ IsFiniteSet(Begun(f, a)) /\ Cardinality(Begun(f, a)) \in Nat
         /\ Cardinality(Begun(f, a)) <= Cardinality(Participants) * (MaxAttempts + 1)
         /\ (\A p \in Participants : a[p] = 0) => Cardinality(Begun(f, a)) <= Cardinality(Participants)
<1>0. \A n \in Nat : IsFiniteSet(0..n) /\ Cardinality(0..n) = n + 1
  BY FS_Interval
<1>1. /\ IsFiniteSet({0}) /\ Cardinality({0}) = 1
      /\ Cardinality(Participants) \in Nat
  BY FS_Singleton, FS_CardinalityType, ScenarioAssumption
<1>2. ASSUME NEW S, IsFiniteSet(S), Begun(f, a) \subseteq Participants \X S
      PROVE  /\ IsFiniteSet(Begun(f, a)) /\ Cardinality(Begun(f, a)) \in Nat
             /\ Cardinality(Begun(f, a)) <= Cardinality(Participants) * Cardinality(S)
  <2>1. IsFiniteSet(Participants \X S) /\ Cardinality(Participants \X S) = Cardinality(Participants) * Cardinality(S)
    BY <1>2, FS_Product, ScenarioAssumption
  <2>2. IsFiniteSet(Begun(f, a)) /\ Cardinality(Begun(f, a)) <= Cardinality(Participants \X S)
    BY <1>2, <2>1, FS_Subset
  <2> QED BY <2>1, <2>2, FS_CardinalityType
<1>3. Begun(f, a) \subseteq Participants \X (0..MaxAttempts)
  BY DEF Begun
<1>4. (\A p \in Participants : a[p] = 0) => Begun(f, a) \subseteq Participants \X {0}
  BY ScenarioAssumption DEF Begun
<1>5. IsFiniteSet(0..MaxAttempts) /\ Cardinality(0..MaxAttempts) = MaxAttempts + 1
  BY <1>0, ScenarioAssumption
<1>6. /\ IsFiniteSet(Begun(f, a)) /\ Cardinality(Begun(f, a)) \in Nat
      /\ Cardinality(Begun(f, a)) <= Cardinality(Participants) * (MaxAttempts + 1)
  BY <1>2, <1>3, <1>5
<1>7. ASSUME \A p \in Participants : a[p] = 0
      PROVE  Cardinality(Begun(f, a)) <= Cardinality(Participants)
  <2>1. Cardinality(Begun(f, a)) <= Cardinality(Participants) * 1
    BY <1>1, <1>2, <1>4, <1>7
  <2> QED BY <1>1, <2>1
<1> QED BY <1>6, <1>7

\* A task that goes on, whether or not it dials, never takes a connection back.
LEMMA BegunGrows ==
  ASSUME NEW f, NEW a \in [Participants -> Nat], NEW g, NEW b \in [Participants -> Nat],
         \A p \in Participants :
            a[p] < b[p] \/ (a[p] = b[p] /\ (f[p] \notin Unstarted => g[p] \notin Unstarted))
  PROVE  Cardinality(Begun(f, a)) <= Cardinality(Begun(g, b))
<1>1. Begun(f, a) \subseteq Begun(g, b)
  BY DEF Begun
<1> QED BY <1>1, BegunFinite, FS_Subset

LEMMA DialBegins ==
  ASSUME Typed, NEW p \in Participants, Dial(p)
  PROVE  Cardinality(Begun(pc', attempt')) = Cardinality(Begun(pc, attempt)) + 1
<1>1. /\ pc[p] = "dial" /\ pc' = [pc EXCEPT ![p] = "connecting"] /\ attempt' = attempt
      /\ pc \in [Participants -> Stages] /\ attempt \in [Participants -> 0..MaxAttempts]
  BY DEF Dial, Goto, Typed, TasksTyped
<1>2. Begun(pc', attempt') = Begun(pc, attempt) \cup {<<p, attempt[p]>>}
  BY <1>1, ScenarioAssumption DEF Begun, Unstarted
<1>3. <<p, attempt[p]>> \notin Begun(pc, attempt)
  BY <1>1, ScenarioAssumption DEF Begun, Unstarted
<1> QED BY <1>2, <1>3, BegunFinite, FS_AddElement

LEMMA ParticipantBudget ==
  ASSUME CountingInv, BudgetInv, NEW p \in Participants, Participant(p)
  PROVE  BudgetInv'
<1>1. /\ pc \in [Participants -> Stages] /\ attempt \in [Participants -> 0..MaxAttempts]
      /\ metrics \in [Counters -> Nat] /\ MaxAttempts \in Nat
  BY CountingTyped, ScenarioAssumption DEF Typed, TasksTyped
<1>2. attempt' \in [Participants -> 0..MaxAttempts]
  BY CountingTyped, ParticipantTyped DEF Typed, TasksTyped
<1> DEFINE Onward ==
        /\ metrics'.attempts = metrics.attempts
        /\ \E t : pc' = [pc EXCEPT ![p] = t] /\ (t \in Unstarted /\ attempt' = attempt => pc[p] \in Unstarted)
        /\ attempt' = attempt \/ (ReconnectEnabled /\ attempt' = [attempt EXCEPT ![p] = @ + 1])
<1>3. ASSUME Onward PROVE BudgetInv'
  <2>1. \A q \in Participants : \/ attempt[q] < attempt'[q]
                                \/ attempt[q] = attempt'[q] /\ (pc[q] \notin Unstarted => pc'[q] \notin Unstarted)
    BY <1>1, <1>3
  <2>2. Cardinality(Begun(pc, attempt)) <= Cardinality(Begun(pc', attempt'))
    BY <1>1, <1>2, <2>1, BegunGrows
  <2>3. /\ metrics.attempts \in Nat
        /\ Cardinality(Begun(pc, attempt)) \in Nat /\ Cardinality(Begun(pc', attempt')) \in Nat
    BY <1>1, BegunFinite DEF Counters
  <2> QED BY <1>1, <1>3, <2>2, <2>3 DEF BudgetInv
<1>4. ASSUME NEW S, Count(S), "attempts" \notin S PROVE metrics'.attempts = metrics.attempts
  BY <1>4 DEF Count, Counters
<1> USE DEF Goto, Finish, Close, Unstarted
<1>5. CASE Dial(p)
  <2>1. metrics'.attempts = metrics.attempts + 1 /\ UNCHANGED attempt
    BY <1>5 DEF Dial, Count, Counters
  <2>2. metrics.attempts \in Nat /\ Cardinality(Begun(pc, attempt)) \in Nat
    BY <1>1, BegunFinite DEF Counters
  <2> QED BY <1>5, <2>1, <2>2, CountingTyped, DialBegins DEF BudgetInv
<1>6. ASSUME NEW e, pc[p] \in {"connecting", "closing"},
             (ReconnectEnabled /\ Retry(p, e)) \/ (Finish(p, e) /\ UNCHANGED attempt),
             metrics'.attempts = metrics.attempts
      PROVE  Onward
  <2>1. CASE UNCHANGED attempt
    BY <1>1, <1>6, <2>1 DEF Retry
  <2>2. CASE ReconnectEnabled /\ attempt' = [attempt EXCEPT ![p] = @ + 1]
    <3>1. attempt' # attempt
      BY <1>1, <2>2
    <3> QED BY <1>6, <2>2, <3>1, RetryLeaves
  <2> QED BY <1>6, <2>1, <2>2 DEF Retry
<1>7. CASE ConnectFails(p)
  <2>1. metrics'.attempts = metrics.attempts
    BY <1>4, <1>7 DEF ConnectFails
  <2>2. \E e : (ReconnectEnabled /\ Retry(p, e)) \/ (Finish(p, e) /\ UNCHANGED attempt)
    BY <1>7 DEF ConnectFails
  <2> QED BY <1>3, <1>6, <1>7, <2>1, <2>2 DEF ConnectFails
<1>8. CASE Disconnect(p)
  <2>1. metrics'.attempts = metrics.attempts
    BY <1>8 DEF Disconnect
  <2>2. (ReconnectEnabled /\ Retry(p, result[p])) \/ (Finish(p, result[p]) /\ UNCHANGED attempt)
    BY <1>8, ScenarioAssumption DEF Disconnect
  <2> QED BY <1>3, <1>6, <1>8, <2>1, <2>2 DEF Disconnect
<1>9. CASE ConnectSucceeds(p)
  <2>1. metrics'.attempts = metrics.attempts
    BY <1>4, <1>9 DEF ConnectSucceeds
  <2>2. UNCHANGED attempt /\ \E t \in {"connected", "ready"} : pc' = [pc EXCEPT ![p] = t]
    BY <1>9 DEF ConnectSucceeds
  <2> QED BY <1>3, <2>1, <2>2
<1>10. CASE ReaderEnds(p)
  BY <1>10 DEF ReaderEnds, BudgetInv
<1>11. CASE \/ RampElapsed(p) \/ RampInterrupted(p) \/ DialInterrupted(p) \/ MarkReady(p) \/ NotifyReady(p)
            \/ BeginSession(p) \/ SlowElapsed(p) \/ SlowInterrupted(p) \/ GateOpens(p) \/ GateRefuses(p)
            \/ SessionEnds(p) \/ BackoffElapsed(p) \/ BackoffInterrupted(p)
  <2> USE DEF RampElapsed, RampInterrupted, DialInterrupted, MarkReady, NotifyReady, BeginSession, SlowElapsed,
              SlowInterrupted, GateOpens, GateRefuses, SessionEnds, BackoffElapsed, BackoffInterrupted
  <2>1. UNCHANGED <<metrics, attempt>>
    BY <1>11
  <2>2. \E t : pc' = [pc EXCEPT ![p] = t] /\ (t \in Unstarted => pc[p] \in Unstarted)
    BY <1>11
  <2> QED BY <1>3, <2>1, <2>2
<1> QED BY <1>5, <1>7, <1>8, <1>9, <1>10, <1>11 DEF Participant

LEMMA NextBudget == CountingInv /\ BudgetInv /\ [Next]_vars => BudgetInv'
<1> SUFFICES ASSUME CountingInv, BudgetInv, [Next]_vars PROVE BudgetInv'
  OBVIOUS
<1>1. ASSUME UNCHANGED <<pc, attempt, metrics>> PROVE BudgetInv'
  BY <1>1 DEF BudgetInv
<1>2. ASSUME \/ \E w \in Participants \cup {Main} : AtGate(w)
             \/ MainTask \/ ForwardStop \/ Environment \/ UNCHANGED vars
      PROVE  UNCHANGED <<pc, attempt, metrics>>
  BY <1>2 DEF AtGate, MainTask, MainWaits, MainProceeds, MainTimesOut, Join, Return, ForwardStop,
              Environment, StopRequested, Deadline, BarrierDeadline, vars, taskVars
<1> QED BY <1>1, <1>2, ParticipantBudget DEF Next, Terminated

\* However sessions, failed connects and backoffs follow each other, a run opens no
\* more connections than reconnect.max_attempts allows for its participants, and a
\* participant gives up with reconnect_exhausted only when its share is spent.
THEOREM BudgetIsExact == Safety => []BudgetExact
<1>1. Init => BudgetInv
  <2> SUFFICES ASSUME Init PROVE BudgetInv
    OBVIOUS
  <2>1. metrics.attempts = 0 /\ \A p \in Participants : attempt[p] = 0
    BY DEF Init, Counters
  <2> QED BY <2>1, BegunFinite DEF BudgetInv
<1>2. CountingInv /\ EndInv /\ BudgetInv /\ [Next]_vars => CountingInv' /\ EndInv' /\ BudgetInv'
  BY NextCounted, NextSettled, NextBudget, CountingTyped
<1>3. CountingInv /\ EndInv /\ BudgetInv => BudgetExact
  <2> SUFFICES ASSUME CountingInv, EndInv, BudgetInv PROVE AttemptsWithinBudget
    BY DEF BudgetExact, EndInv
  <2>1. metrics.attempts \in Nat /\ Cardinality(Begun(pc, attempt)) \in Nat /\ Cardinality(Participants) \in Nat
    BY CountingTyped, BegunFinite, FS_CardinalityType, ScenarioAssumption DEF Counters
  <2>2. CASE ReconnectEnabled
    <3>1. Cardinality(Participants) * (MaxAttempts + 1) \in Nat
      BY <2>1, ScenarioAssumption
    <3>2. Cardinality(Begun(pc, attempt)) <= Cardinality(Participants) * (MaxAttempts + 1)
      BY BegunFinite
    <3> DEFINE bound == Cardinality(Participants) * (MaxAttempts + 1)
    <3> HIDE DEF bound
    <3>3. metrics.attempts <= bound
      BY <2>1, <3>1, <3>2 DEF BudgetInv, bound
    <3> QED BY <2>2, <3>3 DEF AttemptsWithinBudget, bound
  <2>3. CASE ~ReconnectEnabled
    <3>1. Cardinality(Begun(pc, attempt)) <= Cardinality(Participants)
      BY <2>3, BegunFinite DEF BudgetInv
    <3> QED BY <2>1, <2>3, <3>1 DEF AttemptsWithinBudget, BudgetInv
  <2> QED BY <2>2, <2>3
<1> QED BY InitSettled, <1>1, <1>2, <1>3, PTL DEF Safety
-----------------------------------------------------------------------------
(***************************************************************************)
(* Refinement: the tasks of a scenario, seen through their calls of the    *)
(* barrier, behave as ReadinessBarrier says, so that what is proved of the *)
(* barrier in ReadinessBarrierProofs holds of it here.                     *)
(***************************************************************************)
LEMMA NotifyingKept ==
  ASSUME Typed, NEW p \in Participants, NEW t,
         pc' = [pc EXCEPT ![p] = t], pc[p] # "notifying", t # "notifying"
  PROVE  Notifying' = Notifying
BY DEF Notifying, Typed, TasksTyped

LEMMA ParticipantUsesBarrier ==
  ASSUME Typed, NEW p \in Participants, Participant(p)
  PROVE  Barrier!Next \/ UNCHANGED Barrier!vars
<1> USE DEF Goto, Finish, Close, gateVars, clockVars, stopVars, Barrier!vars
<1>1. CASE MarkReady(p) BY <1>1 DEF MarkReady, Barrier!Next, Barrier!MarkReady
<1>2. CASE NotifyReady(p) BY <1>2 DEF NotifyReady, Barrier!Next, Barrier!MarkReady
<1>3. CASE SlowElapsed(p) BY <1>3 DEF SlowElapsed, Barrier!Next
<1>4. CASE BeginSession(p)
  <2>1. CASE Barrier!Enter(p) BY <2>1 DEF Barrier!Next
  <2>2. CASE UNCHANGED gateVars
    <3>1. pc[p] = "ready" /\ \E t \in {"streaming", "closing", "slow", "gate"} : pc' = [pc EXCEPT ![p] = t]
      BY <1>4 DEF BeginSession
    <3> QED BY <1>4, <2>2, <3>1, NotifyingKept DEF BeginSession
  <2> QED BY <1>4, <2>1, <2>2 DEF BeginSession
<1>5. CASE ReaderEnds(p) BY <1>5 DEF ReaderEnds, Notifying
<1>6. CASE ConnectFails(p) \/ Disconnect(p)
  <2>1. pc[p] # "notifying" /\ UNCHANGED <<gateVars, clockVars, stopVars>>
    BY <1>6 DEF ConnectFails, Disconnect
  <2>2. \E t \in {"done", "backoff"} : pc' = [pc EXCEPT ![p] = t]
    BY <1>6, RetryLeaves DEF ConnectFails, Disconnect
  <2> QED BY <2>1, <2>2, NotifyingKept
<1>7. CASE \/ RampElapsed(p) \/ RampInterrupted(p) \/ Dial(p) \/ DialInterrupted(p)
           \/ ConnectSucceeds(p) \/ SlowInterrupted(p) \/ GateOpens(p) \/ GateRefuses(p)
           \/ SessionEnds(p) \/ BackoffElapsed(p) \/ BackoffInterrupted(p)
  <2> USE DEF RampElapsed, RampInterrupted, Dial, DialInterrupted, ConnectSucceeds, SlowInterrupted,
              GateOpens, GateRefuses, SessionEnds, BackoffElapsed, BackoffInterrupted
  <2>1. UNCHANGED <<gateVars, clockVars, stopVars>>
    BY <1>7
  <2>2. pc[p] # "notifying" /\ \E t \in Stages \ {"notifying"} : pc' = [pc EXCEPT ![p] = t]
    BY <1>7 DEF Stages, LiveStages
  <2> QED BY <2>1, <2>2, NotifyingKept
<1> QED BY <1>1, <1>2, <1>3, <1>4, <1>5, <1>6, <1>7 DEF Participant

\* Every scenario uses the barrier as ReadinessBarrier allows.
THEOREM ScenarioUsesBarrier == Safety => Barrier!Safety
<1>1. Init => CountingInv /\ Barrier!Init
  BY InitSettled DEF Init, Barrier!Init, Notifying
<1>2. Typed /\ [Next]_vars => [Barrier!Next]_(Barrier!vars)
  <2> SUFFICES ASSUME Typed, [Next]_vars PROVE Barrier!Next \/ UNCHANGED Barrier!vars
    OBVIOUS
  <2> USE DEF Barrier!vars
  <2>1. CASE \E w \in Participants \cup {Main} : AtGate(w)
    BY <2>1 DEF AtGate, Barrier!Next
  <2>2. CASE MainWaits BY <2>2 DEF MainWaits, Barrier!Next
  <2>3. CASE MainTimesOut \/ ForwardStop
    BY <2>3 DEF MainTimesOut, ForwardStop, Notifying, taskVars, gateVars, clockVars, Typed, RestTyped,
                Barrier!Next, Barrier!Stop
  <2>4. CASE Environment
    BY <2>4 DEF Environment, StopRequested, Deadline, BarrierDeadline, Notifying, taskVars, gateVars,
                clockVars, stopVars, Barrier!Next, Barrier!Expire
  <2>5. CASE MainProceeds \/ (\E p \in Participants : Join(p)) \/ Return \/ UNCHANGED vars
    BY <2>5 DEF MainProceeds, Join, Return, vars, Notifying, taskVars, gateVars, clockVars, stopVars
  <2> QED BY <2>1, <2>2, <2>3, <2>4, <2>5, ParticipantUsesBarrier DEF Next, MainTask, Terminated
<1>3. CountingInv => Typed
  BY CountingTyped
<1> QED BY <1>1, <1>2, <1>3, NextCounted, PTL DEF Safety, Barrier!Safety
-----------------------------------------------------------------------------
(***************************************************************************)
(* Refinement: what the runner relies on. Every action counts by adding,   *)
(* but for the gauge; the failures stay below the attempts because busy    *)
(* tasks are not negative; and a task that takes a step is not done, that  *)
(* of a reader included, so that nothing counts after the return.          *)
(***************************************************************************)
LEMMA CountersGrow ==
  ASSUME CountingInv, NoOrphanReader, NEW p \in Participants, Participant(p)
  PROVE  /\ pc[p] # "done" /\ UNCHANGED <<main, external>>
         /\ \A c \in Counters \ {"active"} : metrics'[c] >= metrics[c]
<1>1. metrics \in [Counters -> Nat] /\ reader \in [Participants -> {"none", "running", "ok"} \cup ReadErrors]
  BY CountingTyped DEF Typed, TasksTyped
<1>2. ASSUME UNCHANGED metrics PROVE \A c \in Counters \ {"active"} : metrics'[c] >= metrics[c]
  BY <1>1, <1>2
<1>3. ASSUME NEW S, Count(S) PROVE \A c \in Counters \ {"active"} : metrics'[c] >= metrics[c]
  BY <1>1, <1>3 DEF Count
<1> USE DEF Goto, Finish, Close, mainVars, stopVars
<1>4. CASE Dial(p) BY <1>3, <1>4 DEF Dial
<1>5. CASE ConnectSucceeds(p) BY <1>3, <1>5 DEF ConnectSucceeds
<1>6. CASE ConnectFails(p) BY <1>3, <1>6 DEF ConnectFails
<1>7. CASE Disconnect(p)
  <2>1. \A c \in Counters \ {"active", "failures", "reconnectFailures"} : metrics'[c] = metrics[c]
    BY <1>1, <1>7 DEF Disconnect
  <2>2. metrics'.failures \in {metrics.failures, metrics.failures + 1}
    BY <1>1, <1>7 DEF Disconnect, Counters
  <2>3. metrics'.reconnectFailures \in {metrics.reconnectFailures, metrics.reconnectFailures + 1}
    BY <1>1, <1>7 DEF Disconnect, Counters
  <2>4. \A c \in Counters \ {"active"} : metrics'[c] >= metrics[c]
    BY <1>1, <2>1, <2>2, <2>3 DEF Counters
  <2> QED BY <1>7, <2>4 DEF Disconnect
<1>8. CASE MarkReady(p) \/ NotifyReady(p) \/ SlowElapsed(p)
  BY <1>2, <1>8 DEF MarkReady, NotifyReady, SlowElapsed
<1>9. CASE ReaderEnds(p)
  BY <1>2, <1>9 DEF ReaderEnds, NoOrphanReader
<1>10. CASE \/ RampElapsed(p) \/ RampInterrupted(p) \/ DialInterrupted(p) \/ BeginSession(p)
            \/ SlowInterrupted(p) \/ GateOpens(p) \/ GateRefuses(p) \/ SessionEnds(p)
            \/ BackoffElapsed(p) \/ BackoffInterrupted(p)
  BY <1>2, <1>10 DEF RampElapsed, RampInterrupted, DialInterrupted, BeginSession, SlowInterrupted,
     GateOpens, GateRefuses, SessionEnds, BackoffElapsed, BackoffInterrupted
<1> QED BY <1>4, <1>5, <1>6, <1>7, <1>8, <1>9, <1>10 DEF Participant

LEMMA CountersPlausible ==
  ASSUME CountingInv'
  PROVE  metrics'.failures <= metrics'.attempts
<1>1. metrics'.failures + Tally(pc', BusyStages) <= metrics'.attempts
  BY CountingAsTallies DEF CountingInv, Counted
<1>2. metrics'.failures \in Nat /\ metrics'.attempts \in Nat
  BY DEF CountingInv, Counted, TypeOK, Counters
<1>3. Tally(pc', BusyStages) \in Nat
  BY TallyType
<1> QED BY <1>1, <1>2, <1>3

\* Every scenario is a workload as the runner relies on it (runner.rs:96): its counters
\* grow, its failures stay below its attempts, and it counts nothing once it returned.
THEOREM ScenarioIsAWorkload == Safety => Work!Safety
<1>1. Init => Work!Init
  BY DEF Init, Work!Init
<1>2. CountingInv /\ EndInv /\ NoOrphanReader /\ CountingInv' /\ [Next]_vars => [Work!Next]_(Work!vars)
  <2> SUFFICES ASSUME CountingInv, EndInv, NoOrphanReader, CountingInv', [Next]_vars
               PROVE  Work!Next \/ UNCHANGED Work!vars
    OBVIOUS
  <2> USE DEF Work!vars, taskVars, gateVars, clockVars, stopVars, mainVars
  <2>1. ASSUME NEW p \in Participants, Participant(p) PROVE Work!Next
    <3>1. /\ pc[p] # "done" /\ UNCHANGED <<main, external>>
          /\ \A c \in Counters \ {"active"} : metrics'[c] >= metrics[c]
      BY <2>1, CountersGrow
    <3>2. main # "returned"
      BY <3>1 DEF EndInv, Settled
    <3>3. metrics'.failures <= metrics'.attempts
      BY CountersPlausible
    <3> QED BY <3>1, <3>2, <3>3 DEF Work!Next, Work!Run, Work!Plausible
  <2>2. CASE \E w \in Participants \cup {Main} : AtGate(w)
    BY <2>2 DEF AtGate
  <2>3. CASE \/ MainWaits \/ MainProceeds \/ MainTimesOut \/ ForwardStop
             \/ \E p \in Participants : Join(p)
    BY <2>3 DEF MainWaits, MainProceeds, MainTimesOut, ForwardStop, Join
  <2>4. CASE Return
    BY <2>4 DEF Return, Work!Next, Work!Return
  <2>5. CASE Environment
    BY <2>5 DEF Environment, StopRequested, Deadline, BarrierDeadline, Work!Next, Work!Stop
  <2>6. CASE UNCHANGED vars
    BY <2>6 DEF vars
  <2> QED BY <2>1, <2>2, <2>3, <2>4, <2>5, <2>6 DEF Next, MainTask, Terminated
<1>3. CountingInv /\ EndInv /\ [Next]_vars => CountingInv' /\ EndInv'
  BY NextCounted, NextSettled, CountingTyped
<1>4. CountingInv /\ NoOrphanReader /\ [Next]_vars => NoOrphanReader'
  BY NextJoined, CountingTyped
<1>5. Init => NoOrphanReader
  BY DEF Init, NoOrphanReader
<1> QED BY InitSettled, <1>1, <1>2, <1>3, <1>4, <1>5, PTL DEF Safety, Work!Safety
-----------------------------------------------------------------------------
(***************************************************************************)
(* Refinement: run_participant keeps SessionContract with each session. No *)
(* session begins with the result of an earlier one, and a reader that     *)
(* ended well was interrupted; the interruption is not taken back.         *)
(***************************************************************************)
Fresh ==
    /\ \A p \in Participants : pc[p] \in LiveStages \ {"closing"} => result[p] = "none"
    /\ \A p \in Participants : reader[p] = "ok" => Interrupted

\* The task of p takes its step while stop and deadline stand as they are.
LEMMA ParticipantLeaves ==
  ASSUME Typed, NEW p \in Participants, Participant(p)
  PROVE  /\ UNCHANGED <<bornStopped, signalled, deadline>>
         /\ \A q \in Participants : q # p => UNCHANGED <<pc[q], result[q], reader[q]>>
<1> USE DEF Goto, Finish, Close, gateVars, clockVars, stopVars, Typed, TasksTyped
<1>1. CASE MarkReady(p) BY <1>1 DEF MarkReady, Barrier!Insert
<1>2. CASE NotifyReady(p) BY <1>2 DEF NotifyReady, Barrier!NotifyWaiters
<1>3. CASE BeginSession(p) BY <1>3 DEF BeginSession, SpawnReader
<1>4. CASE SlowElapsed(p) BY <1>4 DEF SlowElapsed, SpawnReader, Barrier!Enter, Barrier!Move
<1>5. CASE ReaderEnds(p) BY <1>5 DEF ReaderEnds
<1>6. CASE ConnectFails(p) BY <1>6 DEF ConnectFails, Retry
<1>7. CASE Disconnect(p) BY <1>7 DEF Disconnect, Retry
<1>8. CASE SessionEnds(p) BY <1>8 DEF SessionEnds
<1>9. CASE \/ RampElapsed(p) \/ RampInterrupted(p) \/ Dial(p) \/ DialInterrupted(p)
           \/ ConnectSucceeds(p) \/ SlowInterrupted(p) \/ GateOpens(p) \/ GateRefuses(p)
           \/ BackoffElapsed(p) \/ BackoffInterrupted(p)
  BY <1>9 DEF RampElapsed, RampInterrupted, Dial, DialInterrupted, ConnectSucceeds, SlowInterrupted,
              GateOpens, GateRefuses, BackoffElapsed, BackoffInterrupted
<1> QED BY <1>1, <1>2, <1>3, <1>4, <1>5, <1>6, <1>7, <1>8, <1>9 DEF Participant

\* What the others do to the tasks of participants: nothing, or interrupt them.
LEMMA OthersInterrupt ==
  ASSUME \/ \E w \in Participants \cup {Main} : AtGate(w)
         \/ MainTask \/ ForwardStop \/ Environment \/ UNCHANGED vars
  PROVE  UNCHANGED <<pc, result, reader>> /\ (Interrupted => Interrupted')
<1> USE DEF Interrupted, Cancelled, vars, taskVars, gateVars, clockVars, stopVars
<1>1. CASE \E w \in Participants \cup {Main} : AtGate(w)
  BY <1>1 DEF AtGate, Barrier!Wait, Barrier!Check, Barrier!Arm, Barrier!Woken, Barrier!SeeStop,
              Barrier!SeeTimeout, Barrier!Move
<1>2. CASE MainTask
  BY <1>2 DEF MainTask, MainWaits, MainProceeds, MainTimesOut, Join, Return, Barrier!Enter, Barrier!Move
<1>3. CASE ForwardStop BY <1>3 DEF ForwardStop
<1>4. CASE Environment BY <1>4 DEF Environment, StopRequested, Deadline, BarrierDeadline
<1>5. CASE UNCHANGED vars BY <1>5
<1> QED BY <1>1, <1>2, <1>3, <1>4, <1>5

-----------------------------------------------------------------------------
\* The task of p itself: its result is "none" while it lives, its reader runs until
\* it fails or is interrupted.
LEMMA ParticipantFresh ==
  ASSUME Typed, Fresh, NEW p \in Participants, Participant(p)
  PROVE  /\ pc'[p] \in LiveStages \ {"closing"} => result'[p] = "none"
         /\ reader'[p] = "ok" => Interrupted
<1> USE DEF Fresh, LiveStages, Goto, Finish, Close, Typed, TasksTyped
<1>1. "ok" \notin ReadErrors
  BY ScenarioAssumption DEF Errors
<1>2. CASE ConnectFails(p) \/ Disconnect(p)
  <2>1. UNCHANGED reader /\ \E t \in {"done", "backoff"} : pc' = [pc EXCEPT ![p] = t]
    BY <1>2, RetryLeaves DEF ConnectFails, Disconnect
  <2> QED BY <2>1
<1>3. CASE ReaderEnds(p)
  BY <1>1, <1>3 DEF ReaderEnds, ReadResults
<1>4. CASE BeginSession(p) BY <1>4 DEF BeginSession, SpawnReader
<1>5. CASE SlowElapsed(p) BY <1>5 DEF SlowElapsed, SpawnReader
<1>6. CASE SessionEnds(p) BY <1>6 DEF SessionEnds
<1>7. CASE \/ RampElapsed(p) \/ RampInterrupted(p) \/ Dial(p) \/ DialInterrupted(p)
           \/ ConnectSucceeds(p) \/ MarkReady(p) \/ NotifyReady(p)
           \/ SlowInterrupted(p) \/ GateOpens(p) \/ GateRefuses(p)
           \/ BackoffElapsed(p) \/ BackoffInterrupted(p)
  BY <1>7 DEF RampElapsed, RampInterrupted, Dial, DialInterrupted, ConnectSucceeds, MarkReady,
              NotifyReady, SlowInterrupted, GateOpens, GateRefuses, BackoffElapsed, BackoffInterrupted
<1> QED BY <1>2, <1>3, <1>4, <1>5, <1>6, <1>7 DEF Participant

LEMMA NextFresh == Typed /\ Fresh /\ [Next]_vars => Fresh'
<1> SUFFICES ASSUME Typed, Fresh, [Next]_vars PROVE Fresh'
  OBVIOUS
<1>1. ASSUME NEW p \in Participants, Participant(p) PROVE Fresh'
  <2>1. Interrupted' <=> Interrupted
    BY <1>1, ParticipantLeaves DEF Interrupted, Cancelled
  <2>2. \A q \in Participants : q # p => UNCHANGED <<pc[q], result[q], reader[q]>>
    BY <1>1, ParticipantLeaves
  <2> QED BY <1>1, <2>1, <2>2, ParticipantFresh DEF Fresh
<1>2. ASSUME UNCHANGED <<pc, result, reader>> /\ (Interrupted => Interrupted') PROVE Fresh'
  BY <1>2 DEF Fresh
<1> QED BY <1>1, <1>2, OthersInterrupt DEF Next, Terminated

-----------------------------------------------------------------------------
\* A step that leaves p's task alone, or interrupts it.
LEMMA Undisturbed ==
  ASSUME NEW p \in Participants, UNCHANGED <<pc[p], result[p]>>, Interrupted => Interrupted'
  PROVE  [Contract(p)!Next]_(Contract(p)!vars)
<1>1. Interrupted \in BOOLEAN /\ Interrupted' \in BOOLEAN
  BY DEF Interrupted, Cancelled
<1> QED BY <1>1 DEF Contract!Next, Contract!vars, Contract!Interrupt

\* A step of p's task, by where it begins and ends.
LEMMA OwnSession ==
  ASSUME Typed, Fresh, NEW p \in Participants, Participant(p)
  PROVE  [Contract(p)!Next]_(Contract(p)!vars)
<1>1. UNCHANGED Interrupted
  BY ParticipantLeaves DEF Interrupted, Cancelled
<1> USE <1>1 DEF Contract!Next, Contract!vars
<1>2. CASE pc[p] # "streaming" /\ pc'[p] # "streaming"
  BY <1>2 DEF Contract!Elsewhere
<1>3. CASE pc[p] # "streaming" /\ pc'[p] = "streaming"
  <2>1. result'[p] = "none"
    BY <1>3, ParticipantFresh DEF LiveStages
  <2> QED BY <1>3, <2>1 DEF Contract!Open
<1>4. CASE ReaderEnds(p)
  BY <1>4 DEF ReaderEnds
<1>5. CASE SessionEnds(p)
  <2>1. pc[p] = "streaming" /\ pc'[p] = "closing"
    BY <1>5 DEF SessionEnds, Close, Typed, TasksTyped
  <2>2. result'[p] \in ReadErrors \cup SendErrors
            \cup IF Interrupted \/ AbruptDisconnect THEN {"ok"} ELSE {}
    BY <1>5 DEF SessionEnds, Close, ReadResults, SendResults, Fresh, Typed, TasksTyped
  <2> QED BY <2>1, <2>2 DEF Contract!End
<1>6. pc[p] = "streaming" => SessionEnds(p) \/ ReaderEnds(p)
  BY DEF Participant, RampElapsed, RampInterrupted, Dial, DialInterrupted, ConnectSucceeds,
         ConnectFails, MarkReady, NotifyReady, BeginSession, SlowElapsed, SlowInterrupted, GateOpens,
         GateRefuses, Disconnect, BackoffElapsed, BackoffInterrupted, Goto
<1> QED BY <1>2, <1>3, <1>4, <1>5, <1>6

\* run_participant treats every session as its contract allows (scenarios.rs:302-495):
\* one that was not interrupted ends well only if a client may quit, and no session
\* begins with the failure of the one before.
THEOREM SessionsAsAgreed == Safety => KeepsContract
<1>1. Init => CountingInv /\ Fresh
  BY InitSettled DEF Init, Fresh, LiveStages
<1>2. CountingInv /\ Fresh /\ [Next]_vars => CountingInv' /\ Fresh'
  BY NextCounted, NextFresh, CountingTyped
<1>3. CountingInv /\ Fresh /\ [Next]_vars
        => \A p \in Participants : [Contract(p)!Next]_(Contract(p)!vars)
  <2> SUFFICES ASSUME CountingInv, Fresh, [Next]_vars, NEW p \in Participants
               PROVE  [Contract(p)!Next]_(Contract(p)!vars)
    OBVIOUS
  <2>1. Typed
    BY CountingTyped
  <2>2. CASE Participant(p)
    BY <2>1, <2>2, OwnSession
  <2>3. CASE \E q \in Participants : q # p /\ Participant(q)
    <3>1. UNCHANGED <<pc[p], result[p]>> /\ (Interrupted => Interrupted')
      BY <2>1, <2>3, ParticipantLeaves DEF Interrupted, Cancelled
    <3> QED BY <3>1, Undisturbed
  <2>4. CASE \/ \E w \in Participants \cup {Main} : AtGate(w)
             \/ MainTask \/ ForwardStop \/ Environment \/ UNCHANGED vars
    <3>1. UNCHANGED <<pc, result>> /\ (Interrupted => Interrupted')
      BY <2>4, OthersInterrupt
    <3> QED BY <3>1, Undisturbed
  <2> QED BY <2>2, <2>3, <2>4 DEF Next, Terminated
<1> QED BY <1>1, <1>2, <1>3, PTL DEF Safety, KeepsContract
===============================================================================
