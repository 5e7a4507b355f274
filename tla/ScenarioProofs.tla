---------------------------- MODULE ScenarioProofs ----------------------------
(***************************************************************************)
(* Scenario for every set of participants, role assignment, barrier and    *)
(* attempt budget: types, the held senders, the joined readers and the     *)
(* connection counters.                                                    *)
(***************************************************************************)
EXTENDS Scenario, FiniteSetTheorems, TLAPS

(***************************************************************************)
(* Counting the tasks whose stage is in S: when the task p moves to stage  *)
(* t the count changes by one exactly if p enters or leaves S.             *)
(***************************************************************************)
Tally(f, S) == Cardinality({q \in Participants : f[q] \in S})

LEMMA TallyType ==
  ASSUME NEW f, NEW S
  PROVE  Tally(f, S) \in Nat /\ IsFiniteSet({q \in Participants : f[q] \in S})
<1> DEFINE T == {q \in Participants : f[q] \in S}
<1>1. T \subseteq Participants
  OBVIOUS
<1>2. IsFiniteSet(T)
  BY <1>1, FS_Subset, ScenarioAssumption
<1> QED BY <1>2, FS_CardinalityType DEF Tally

\* g is f with p moved to t, and p stays in or out of S, enters or leaves it.
Moves(f, g, p, t) ==
    /\ f \in [Participants -> Stages] /\ p \in Participants
    /\ g = [f EXCEPT ![p] = t]

Keeps(f, p, t, S)  == f[p] \in S <=> t \in S
Enters(f, p, t, S) == f[p] \notin S /\ t \in S
Leaves(f, p, t, S) == f[p] \in S /\ t \notin S

LEMMA TallyMove ==
  ASSUME NEW f, NEW g, NEW p, NEW t, NEW S, Moves(f, g, p, t)
  PROVE  /\ Keeps(f, p, t, S) => Tally(g, S) = Tally(f, S)
         /\ Enters(f, p, t, S) => Tally(g, S) = Tally(f, S) + 1
         /\ Leaves(f, p, t, S) => Tally(f, S) = Tally(g, S) + 1
<1> DEFINE F == {q \in Participants : f[q] \in S}
           G == {q \in Participants : g[q] \in S}
<1>1. IsFiniteSet(F) /\ IsFiniteSet(G)
  BY TallyType
<1>2. (f[p] \in S <=> t \in S) => G = F
  BY DEF Moves
<1>3. ASSUME f[p] \notin S, t \in S PROVE Cardinality(G) = Cardinality(F) + 1
  <2>1. p \notin F /\ G = F \cup {p}
    BY <1>3 DEF Moves
  <2> QED BY <2>1, <1>1, FS_AddElement
<1>4. ASSUME f[p] \in S, t \notin S PROVE Cardinality(F) = Cardinality(G) + 1
  <2>1. p \notin G /\ F = G \cup {p}
    BY <1>4 DEF Moves
  <2> QED BY <2>1, <1>1, FS_AddElement
<1> QED BY <1>2, <1>3, <1>4 DEF Tally, Keeps, Enters, Leaves

-----------------------------------------------------------------------------
(***************************************************************************)
(* The types are not inductive alone: the gauge is decremented, and stays  *)
(* a natural number only because it counts the live connections. The       *)
(* strengthening is the conjunction of the types with the two counting     *)
(* invariants, which no other part of the state is needed for.             *)
(***************************************************************************)
Counted == TypeOK /\ GaugeExact /\ ErrorRateBounded

BusyStages == LiveStages \cup {"connecting"}

LEMMA InitCounted == Init => Counted
<1> SUFFICES ASSUME Init PROVE Counted
  OBVIOUS
<1> USE ScenarioAssumption DEF Init
<1>1. TypeOK
  <2>1. bornStopped \in BOOLEAN
    <3>1. CASE bornStopped = FALSE BY <3>1
    <3>2. CASE bornStopped = external BY <3>2
    <3> QED BY <3>1, <3>2
  <2>2. /\ pc \in [Participants -> Stages]
        /\ attempt \in [Participants -> 0..MaxAttempts]
        /\ result \in [Participants -> {"none", "ok"} \cup Errors]
        /\ metrics \in [Counters -> Nat]
    BY DEF Stages
  <2>3. /\ failures \subseteq [participant : Participants, category : Errors \cup {"readiness_timeout"}]
        /\ main \in {"gate", "joining", "returned"}
    OBVIOUS
  <2> QED BY <2>1, <2>2, <2>3 DEF TypeOK
<1>2. Live = {} /\ Busy = {}
  BY DEF Live, Busy, LiveStages
<1>3. Cardinality({}) = 0
  BY FS_EmptySet
<1> QED BY <1>1, <1>2, <1>3 DEF Counted, GaugeExact, ErrorRateBounded, Counters

\* The two counting invariants in terms of tallies, in both states of a step.
LEMMA CountingAsTallies ==
  /\ GaugeExact <=> metrics.active = Tally(pc, LiveStages)
  /\ ErrorRateBounded <=> metrics.failures + Tally(pc, BusyStages) <= metrics.attempts
  /\ GaugeExact' <=> metrics'.active = Tally(pc', LiveStages)
  /\ ErrorRateBounded' <=> metrics'.failures + Tally(pc', BusyStages) <= metrics'.attempts
BY DEF GaugeExact, ErrorRateBounded, Tally, Live, Busy, BusyStages

(***************************************************************************)
(* A step that counts nothing and moves one task within the stages that    *)
(* hold a connection, or within the others, and does not start an attempt. *)
(***************************************************************************)
LEMMA QuietMove ==
  ASSUME Counted, NEW p \in Participants, NEW t,
         pc' = [pc EXCEPT ![p] = t], UNCHANGED metrics,
         pc[p] \in LiveStages <=> t \in LiveStages,
         t \in BusyStages => pc[p] \in BusyStages
  PROVE  GaugeExact' /\ ErrorRateBounded'
<1>1. pc \in [Participants -> Stages] /\ metrics \in [Counters -> Nat]
  BY DEF Counted, TypeOK
<1> Moves(pc, pc', p, t)
  BY <1>1 DEF Moves
<1>2. Keeps(pc, p, t, LiveStages) /\ (Keeps(pc, p, t, BusyStages) \/ Leaves(pc, p, t, BusyStages))
  BY DEF Keeps, Leaves
<1>3. Tally(pc', LiveStages) = Tally(pc, LiveStages)
  BY <1>2, TallyMove
<1>4. Tally(pc', BusyStages) = Tally(pc, BusyStages) \/ Tally(pc, BusyStages) = Tally(pc', BusyStages) + 1
  BY <1>2, TallyMove
<1>5. Tally(pc, BusyStages) \in Nat /\ Tally(pc', BusyStages) \in Nat
  BY TallyType
<1>6. metrics.failures \in Nat /\ metrics.attempts \in Nat
  BY <1>1 DEF Counters
<1> QED BY <1>3, <1>4, <1>5, <1>6, CountingAsTallies DEF Counted

LEMMA StillCounted ==
  ASSUME Counted, UNCHANGED <<pc, metrics>>
  PROVE  GaugeExact' /\ ErrorRateBounded'
BY CountingAsTallies DEF Counted

-----------------------------------------------------------------------------
(* The four actions that count connections. *)

LEMMA DialCounted ==
  ASSUME Counted, NEW p \in Participants, Dial(p)
  PROVE  GaugeExact' /\ ErrorRateBounded' /\ metrics' \in [Counters -> Nat]
<1> USE DEF Counters
<1>1. pc \in [Participants -> Stages] /\ metrics \in [Counters -> Nat]
  BY DEF Counted, TypeOK
<1>2. pc[p] = "dial" /\ pc' = [pc EXCEPT ![p] = "connecting"]
  BY DEF Dial, Goto
<1> Moves(pc, pc', p, "connecting")
  BY <1>1, <1>2 DEF Moves
<1>3. Keeps(pc, p, "connecting", LiveStages) /\ Enters(pc, p, "connecting", BusyStages)
  BY <1>2 DEF Keeps, Enters, BusyStages, LiveStages
<1>4. Tally(pc', LiveStages) = Tally(pc, LiveStages) /\ Tally(pc', BusyStages) = Tally(pc, BusyStages) + 1
  BY <1>3, TallyMove
<1>5. /\ metrics'.active = metrics.active /\ metrics'.failures = metrics.failures
      /\ metrics'.attempts = metrics.attempts + 1 /\ metrics' \in [Counters -> Nat]
  BY <1>1 DEF Dial, Count
<1>6. Tally(pc, BusyStages) \in Nat
  BY TallyType
<1>7. metrics.failures \in Nat /\ metrics.attempts \in Nat
  BY <1>1
<1> QED BY <1>4, <1>5, <1>6, <1>7, CountingAsTallies DEF Counted

LEMMA ConnectSucceedsCounted ==
  ASSUME Counted, NEW p \in Participants, ConnectSucceeds(p)
  PROVE  GaugeExact' /\ ErrorRateBounded' /\ metrics' \in [Counters -> Nat]
<1> USE DEF Counters
<1>1. pc \in [Participants -> Stages] /\ metrics \in [Counters -> Nat]
  BY DEF Counted, TypeOK
<1> DEFINE t == IF p \in Required THEN "connected" ELSE "ready"
<1>2. pc[p] = "connecting" /\ pc' = [pc EXCEPT ![p] = t]
  BY DEF ConnectSucceeds, Goto
<1>3. Enters(pc, p, t, LiveStages) /\ Keeps(pc, p, t, BusyStages)
  BY <1>2 DEF Keeps, Enters, BusyStages, LiveStages
<1> HIDE DEF t
<1> Moves(pc, pc', p, t)
  BY <1>1, <1>2 DEF Moves
<1>4. Tally(pc', LiveStages) = Tally(pc, LiveStages) + 1 /\ Tally(pc', BusyStages) = Tally(pc, BusyStages)
  BY <1>3, TallyMove
<1>5. /\ metrics'.active = metrics.active + 1 /\ metrics'.failures = metrics.failures
      /\ metrics'.attempts = metrics.attempts /\ metrics' \in [Counters -> Nat]
  BY <1>1 DEF ConnectSucceeds, Count
<1> QED BY <1>4, <1>5, CountingAsTallies DEF Counted

\* Both outcomes of a failed attempt leave the task in a stage without a connection.
LEMMA RetryLeaves ==
  ASSUME NEW p \in Participants, NEW e, Retry(p, e) \/ Finish(p, e)
  PROVE  \E t \in {"done", "backoff"} : pc' = [pc EXCEPT ![p] = t]
BY DEF Retry, Finish

LEMMA ConnectFailsCounted ==
  ASSUME Counted, NEW p \in Participants, ConnectFails(p)
  PROVE  GaugeExact' /\ ErrorRateBounded' /\ metrics' \in [Counters -> Nat]
<1> USE DEF Counters
<1>1. pc \in [Participants -> Stages] /\ metrics \in [Counters -> Nat]
  BY DEF Counted, TypeOK
<1>2. PICK e \in ConnectErrors :
        /\ Count({"failures"} \cup (IF e \in TlsErrors THEN {"tls"} ELSE {})
                    \cup (IF ReconnectEnabled THEN {"reconnectFailures"} ELSE {}))
        /\ Retry(p, e) \/ Finish(p, e)
  BY DEF ConnectFails
<1>3. PICK t \in {"done", "backoff"} : pc' = [pc EXCEPT ![p] = t]
  BY <1>2, RetryLeaves
<1>4. Keeps(pc, p, t, LiveStages) /\ Leaves(pc, p, t, BusyStages)
  BY DEF ConnectFails, Keeps, Leaves, BusyStages, LiveStages
<1> Moves(pc, pc', p, t)
  BY <1>1, <1>3 DEF Moves
<1>5. Tally(pc', LiveStages) = Tally(pc, LiveStages) /\ Tally(pc, BusyStages) = Tally(pc', BusyStages) + 1
  BY <1>4, TallyMove
<1>6. /\ metrics'.active = metrics.active /\ metrics'.failures = metrics.failures + 1
      /\ metrics'.attempts = metrics.attempts /\ metrics' \in [Counters -> Nat]
  BY <1>1, <1>2 DEF Count
<1>7. Tally(pc', BusyStages) \in Nat /\ metrics.failures \in Nat /\ metrics.attempts \in Nat
  BY <1>1, TallyType
<1> QED BY <1>5, <1>6, <1>7, CountingAsTallies DEF Counted

LEMMA DisconnectCounted ==
  ASSUME Counted, NEW p \in Participants, Disconnect(p)
  PROVE  GaugeExact' /\ ErrorRateBounded' /\ metrics' \in [Counters -> Nat]
<1> USE DEF Counters
<1>1. pc \in [Participants -> Stages] /\ metrics \in [Counters -> Nat]
  BY DEF Counted, TypeOK
<1>2. PICK t \in {"done", "backoff"} : pc' = [pc EXCEPT ![p] = t]
  BY RetryLeaves DEF Disconnect
<1>3. Leaves(pc, p, t, LiveStages) /\ Leaves(pc, p, t, BusyStages)
  BY DEF Disconnect, Leaves, BusyStages, LiveStages
<1> Moves(pc, pc', p, t)
  BY <1>1, <1>2 DEF Moves
<1>4. Tally(pc, LiveStages) = Tally(pc', LiveStages) + 1 /\ Tally(pc, BusyStages) = Tally(pc', BusyStages) + 1
  BY <1>3, TallyMove
<1>5. /\ Tally(pc', BusyStages) \in Nat /\ Tally(pc', LiveStages) \in Nat
      /\ metrics.failures \in Nat /\ metrics.attempts \in Nat /\ metrics.active \in Nat
      /\ metrics.reconnectFailures \in Nat
  BY <1>1, TallyType
<1>6. metrics.active = Tally(pc', LiveStages) + 1
  BY <1>4, CountingAsTallies DEF Counted
<1>7. /\ metrics'.active = metrics.active - 1 /\ metrics'.attempts = metrics.attempts
      /\ metrics'.failures \in {metrics.failures, metrics.failures + 1}
      /\ metrics' \in [Counters -> Nat]
  <2> DEFINE failed == IF result[p] # "ok" THEN metrics.failures + 1 ELSE metrics.failures
             again == IF result[p] # "ok" /\ attempt[p] > 0
                      THEN metrics.reconnectFailures + 1 ELSE metrics.reconnectFailures
  <2>1. metrics' = [metrics EXCEPT !.active = metrics.active - 1, !.failures = failed,
                                   !.reconnectFailures = again]
    BY DEF Disconnect
  <2>2. failed \in {metrics.failures, metrics.failures + 1} /\ failed \in Nat /\ again \in Nat
    BY <1>5
  <2>3. metrics.active - 1 \in Nat
    BY <1>5, <1>6
  <2> HIDE DEF failed, again
  <2> QED BY <1>1, <2>1, <2>2, <2>3
<1> QED BY <1>4, <1>5, <1>6, <1>7, CountingAsTallies DEF Counted

-----------------------------------------------------------------------------
(***************************************************************************)
(* Types. A task that failed or ended has a result, without which Join     *)
(* could report a failure of no category; the gauge's type comes from the  *)
(* counting lemmas.                                                        *)
(***************************************************************************)
Answered ==
    \A p \in Participants : pc[p] \in {"closing", "backoff", "done"} => result[p] # "none"

\* The parts of TypeOK and Answered about the tasks, and about the barrier.
TasksTyped ==
    /\ pc \in [Participants -> Stages]
    /\ attempt \in [Participants -> 0..MaxAttempts]
    /\ result \in [Participants -> {"none", "ok"} \cup Errors]
    /\ reader \in [Participants -> {"none", "running", "ok"} \cup ReadErrors]
    /\ Answered

GateTyped ==
    /\ ready \subseteq Required
    /\ gate \in [Participants \cup {Main} -> {"outside"} \cup Barrier!Inside \cup Barrier!Verdicts]

RestTyped ==
    /\ expired \in BOOLEAN /\ deadline \in BOOLEAN
    /\ external \in BOOLEAN /\ bornStopped \in BOOLEAN /\ signalled \in BOOLEAN
    /\ main \in {"gate", "joining", "returned"}
    /\ joined \subseteq Participants
    /\ failures \subseteq [participant : Participants, category : Errors \cup {"readiness_timeout"}]

Typed == TasksTyped /\ GateTyped /\ RestTyped

LEMMA RetryTyped ==
  ASSUME TasksTyped, NEW p \in Participants, NEW e \in Errors,
         Retry(p, e) \/ (Finish(p, e) /\ UNCHANGED attempt), UNCHANGED reader
  PROVE  TasksTyped'
<1>1. e \notin {"none", "ok"}
  BY ScenarioAssumption
<1>2. "reconnect_exhausted" \in Errors /\ MaxAttempts \in Nat
  BY ScenarioAssumption DEF Errors
<1>3. CASE attempt' = attempt /\ (Finish(p, e) \/ Finish(p, "reconnect_exhausted"))
  BY <1>1, <1>2, <1>3 DEF TasksTyped, Answered, Finish, Stages
<1>4. CASE /\ attempt[p] < MaxAttempts /\ attempt' = [attempt EXCEPT ![p] = @ + 1]
           /\ Finish(p, "ok") \/ Finish(p, e)
  BY <1>1, <1>2, <1>4 DEF TasksTyped, Answered, Finish, Stages
<1>5. CASE /\ attempt[p] < MaxAttempts /\ attempt' = [attempt EXCEPT ![p] = @ + 1]
           /\ pc' = [pc EXCEPT ![p] = "backoff"] /\ result' = [result EXCEPT ![p] = e]
  BY <1>1, <1>2, <1>5 DEF TasksTyped, Answered, Stages
<1>6. attempt[p] \in Nat
  BY <1>2 DEF TasksTyped
<1> QED BY <1>2, <1>3, <1>4, <1>5, <1>6 DEF Retry

\* One step of a participant task, action by action.
LEMMA ParticipantTyped ==
  ASSUME Typed, NEW p \in Participants, Participant(p)
  PROVE  Typed'
<1> USE DEF Typed, TasksTyped, Answered
<1>1. "ok" \notin Errors /\ "none" \notin Errors /\ ReadErrors \subseteq Errors
      /\ SendErrors \subseteq Errors /\ ConnectErrors \subseteq Errors
  BY ScenarioAssumption DEF Errors
<1> USE DEF Goto, Finish, Close, gateVars, clockVars, stopVars, mainVars, Stages, LiveStages,
            GateTyped, RestTyped
<1>2. CASE RampElapsed(p) BY <1>2 DEF RampElapsed
<1>3. CASE RampInterrupted(p) BY <1>3 DEF RampInterrupted
<1>4. CASE Dial(p) BY <1>4 DEF Dial
<1>5. CASE DialInterrupted(p) BY <1>5 DEF DialInterrupted
<1>6. CASE ConnectSucceeds(p) BY <1>6 DEF ConnectSucceeds
<1>7. CASE ConnectFails(p)
  <2>1. PICK e \in ConnectErrors : Retry(p, e) \/ (Finish(p, e) /\ UNCHANGED attempt)
    BY <1>7 DEF ConnectFails
  <2>2. TasksTyped'
    BY <1>1, <1>7, <2>1, RetryTyped DEF ConnectFails
  <2> QED BY <1>7, <2>2 DEF ConnectFails
<1>8. CASE MarkReady(p) BY <1>8 DEF MarkReady, Barrier!Insert
<1>9. CASE NotifyReady(p) BY <1>9 DEF NotifyReady, Barrier!NotifyWaiters, Barrier!Inside
<1>10. CASE BeginSession(p)
  BY <1>10 DEF BeginSession, SpawnReader, Barrier!Enter, Barrier!Move, Barrier!Inside
<1>11. CASE SlowElapsed(p)
  BY <1>11 DEF SlowElapsed, SpawnReader, Barrier!Enter, Barrier!Move, Barrier!Inside
<1>12. CASE SlowInterrupted(p) BY <1>12 DEF SlowInterrupted
<1>13. CASE GateOpens(p) BY <1>13 DEF GateOpens
<1>14. CASE GateRefuses(p) BY <1>14 DEF GateRefuses
<1>15. CASE ReaderEnds(p) BY <1>15 DEF ReaderEnds, ReadResults
<1>16. CASE SessionEnds(p)
  <2>1. PICK r \in {"ok"} \cup Errors : Close(p, r)
    BY <1>1, <1>16 DEF SessionEnds, ReadResults, SendResults
  <2> QED BY <1>1, <1>16, <2>1 DEF SessionEnds
<1>17. CASE Disconnect(p)
  <2>1. pc[p] = "closing" /\ result[p] \in {"ok"} \cup Errors
    BY <1>17 DEF Disconnect
  <2>2. CASE result[p] = "ok" BY <1>17, <2>1, <2>2 DEF Disconnect
  <2>3. CASE result[p] # "ok"
    <3>1. Retry(p, result[p]) \/ (Finish(p, result[p]) /\ UNCHANGED attempt)
      BY <1>17 DEF Disconnect
    <3>2. TasksTyped'
      BY <1>17, <2>1, <2>3, <3>1, RetryTyped DEF Disconnect
    <3> QED BY <1>17, <3>2 DEF Disconnect
  <2> QED BY <2>2, <2>3
<1>18. CASE BackoffElapsed(p) BY <1>18 DEF BackoffElapsed
<1>19. CASE BackoffInterrupted(p) BY <1>1, <1>19 DEF BackoffInterrupted
<1> QED BY <1>2, <1>3, <1>4, <1>5, <1>6, <1>7, <1>8, <1>9, <1>10, <1>11, <1>12, <1>13,
           <1>14, <1>15, <1>16, <1>17, <1>18, <1>19 DEF Participant

\* The steps of the gate, the main task, the forwarder and the environment.
LEMMA OthersTyped ==
  ASSUME Typed,
         \/ \E w \in Participants \cup {Main} : AtGate(w)
         \/ MainTask \/ ForwardStop \/ Environment
  PROVE  Typed'
<1> USE DEF Typed, gateVars, clockVars, stopVars, mainVars
<1>1. CASE \E w \in Participants \cup {Main} : AtGate(w)
  <2>1. PICK w \in Participants \cup {Main} : AtGate(w)
    BY <1>1
  <2>2. TasksTyped'
    BY <2>1 DEF AtGate, taskVars, TasksTyped, Answered
  <2>3. GateTyped'
    BY <2>1 DEF AtGate, GateTyped, Barrier!Wait, Barrier!Check, Barrier!Arm, Barrier!Woken,
                Barrier!SeeStop, Barrier!SeeTimeout, Barrier!Move, Barrier!Inside, Barrier!Verdicts
  <2>4. RestTyped'
    BY <2>1 DEF AtGate, RestTyped, Barrier!Wait, Barrier!Check, Barrier!Arm, Barrier!Woken,
                Barrier!SeeStop, Barrier!SeeTimeout, Barrier!Move
  <2> QED BY <2>2, <2>3, <2>4
<1> USE DEF RestTyped, GateTyped
<1>2. CASE MainWaits
  <2>1. TasksTyped'
    BY <1>2 DEF MainWaits, taskVars, TasksTyped, Answered
  <2> QED BY <1>2, <2>1 DEF MainWaits, Barrier!Enter, Barrier!Move, Barrier!Inside
<1>3. CASE MainProceeds
  BY <1>3 DEF MainProceeds, taskVars, TasksTyped, Answered
<1>4. CASE MainTimesOut
  <2>1. TasksTyped' /\ GateTyped'
    BY <1>4 DEF MainTimesOut, taskVars, TasksTyped, Answered
  <2>2. [participant : Required \ ready, category : {"readiness_timeout"}]
            \subseteq [participant : Participants, category : Errors \cup {"readiness_timeout"}]
    BY ScenarioAssumption
  <2> QED BY <1>4, <2>1, <2>2 DEF MainTimesOut
<1>5. CASE \E p \in Participants : Join(p)
  <2>1. PICK p \in Participants : Join(p)
    BY <1>5
  <2>2. TasksTyped' /\ GateTyped'
    BY <2>1 DEF Join, taskVars, TasksTyped, Answered
  <2>3. result[p] # "ok" => result[p] \in Errors
    BY <2>1 DEF Join, TasksTyped, Answered
  <2>4. failures' \subseteq [participant : Participants, category : Errors \cup {"readiness_timeout"}]
    <3>1. CASE result[p] = "ok" BY <2>1, <3>1 DEF Join
    <3>2. CASE result[p] # "ok"
      <4>1. [participant |-> p, category |-> result[p]]
                \in [participant : Participants, category : Errors \cup {"readiness_timeout"}]
        BY <2>3, <3>2
      <4> QED BY <2>1, <3>2, <4>1 DEF Join
    <3> QED BY <3>1, <3>2
  <2> QED BY <2>1, <2>2, <2>4 DEF Join
<1>6. CASE Return
  BY <1>6 DEF Return, taskVars, TasksTyped, Answered
<1>7. CASE ForwardStop
  BY <1>7 DEF ForwardStop, taskVars, TasksTyped, Answered
<1>8. CASE Environment
  BY <1>8 DEF Environment, StopRequested, Deadline, BarrierDeadline, taskVars, TasksTyped, Answered
<1> QED BY <1>1, <1>2, <1>3, <1>4, <1>5, <1>6, <1>7, <1>8 DEF MainTask

-----------------------------------------------------------------------------
(***************************************************************************)
(* The inductive invariant of the counters: types, the two counting        *)
(* invariants, and that whoever failed has a category.                     *)
(***************************************************************************)
CountingInv == Counted /\ Answered

LEMMA CountingTyped == CountingInv => Typed /\ metrics \in [Counters -> Nat]
BY DEF CountingInv, Counted, TypeOK, Typed, TasksTyped, GateTyped, RestTyped

LEMMA TypedCounting ==
  Typed' /\ metrics' \in [Counters -> Nat] /\ GaugeExact' /\ ErrorRateBounded' => CountingInv'
BY DEF CountingInv, Counted, TypeOK, Typed, TasksTyped, GateTyped, RestTyped

\* What a participant does to the counters, action by action.
LEMMA ParticipantCounted ==
  ASSUME CountingInv, NEW p \in Participants, Participant(p)
  PROVE  GaugeExact' /\ ErrorRateBounded' /\ metrics' \in [Counters -> Nat]
<1> USE DEF CountingInv
<1>0. metrics \in [Counters -> Nat]
  BY CountingTyped
<1> DEFINE Quietly(t) ==
        /\ pc' = [pc EXCEPT ![p] = t] /\ UNCHANGED metrics
        /\ pc[p] \in LiveStages <=> t \in LiveStages
        /\ t \in BusyStages => pc[p] \in BusyStages
<1>1. ASSUME NEW t, Quietly(t)
      PROVE  GaugeExact' /\ ErrorRateBounded' /\ metrics' \in [Counters -> Nat]
  BY <1>0, <1>1, QuietMove
<1> HIDE DEF CountingInv
<1> USE DEF Goto, Finish, Close, LiveStages, BusyStages
<1>2. CASE RampElapsed(p)
  <2>1. Quietly("dial") BY <1>2 DEF RampElapsed
  <2> QED BY <1>1, <2>1
<1>3. CASE RampInterrupted(p)
  <2>1. Quietly("done") BY <1>3 DEF RampInterrupted
  <2> QED BY <1>1, <2>1
<1>4. CASE Dial(p) BY <1>4, DialCounted DEF CountingInv
<1>5. CASE DialInterrupted(p)
  <2>1. Quietly("done") BY <1>5 DEF DialInterrupted
  <2> QED BY <1>1, <2>1
<1>6. CASE ConnectSucceeds(p) BY <1>6, ConnectSucceedsCounted DEF CountingInv
<1>7. CASE ConnectFails(p) BY <1>7, ConnectFailsCounted DEF CountingInv
<1>8. CASE MarkReady(p)
  <2>1. Quietly("notifying") BY <1>8 DEF MarkReady
  <2> QED BY <1>1, <2>1
<1>9. CASE NotifyReady(p)
  <2>1. Quietly("ready") BY <1>9 DEF NotifyReady
  <2> QED BY <1>1, <2>1
<1>10. CASE BeginSession(p)
  <2>1. \E t \in {"streaming", "closing", "slow", "gate"} : Quietly(t)
    BY <1>10 DEF BeginSession
  <2> QED BY <1>1, <2>1
<1>11. CASE SlowElapsed(p)
  <2>1. Quietly("gate") BY <1>11 DEF SlowElapsed
  <2> QED BY <1>1, <2>1
<1>12. CASE SlowInterrupted(p)
  <2>1. Quietly("closing") BY <1>12 DEF SlowInterrupted
  <2> QED BY <1>1, <2>1
<1>13. CASE GateOpens(p)
  <2>1. Quietly("streaming") BY <1>13 DEF GateOpens
  <2> QED BY <1>1, <2>1
<1>14. CASE GateRefuses(p)
  <2>1. Quietly("closing") BY <1>14 DEF GateRefuses
  <2> QED BY <1>1, <2>1
<1>15. CASE ReaderEnds(p)
  BY <1>0, <1>15, StillCounted DEF ReaderEnds, CountingInv
<1>16. CASE SessionEnds(p)
  <2>1. Quietly("closing") BY <1>16 DEF SessionEnds
  <2> QED BY <1>1, <2>1
<1>17. CASE Disconnect(p) BY <1>17, DisconnectCounted DEF CountingInv
<1>18. CASE BackoffElapsed(p)
  <2>1. Quietly("dial") BY <1>18 DEF BackoffElapsed
  <2> QED BY <1>1, <2>1
<1>19. CASE BackoffInterrupted(p)
  <2>1. Quietly("done") BY <1>19 DEF BackoffInterrupted
  <2> QED BY <1>1, <2>1
<1> QED BY <1>2, <1>3, <1>4, <1>5, <1>6, <1>7, <1>8, <1>9, <1>10, <1>11, <1>12, <1>13,
           <1>14, <1>15, <1>16, <1>17, <1>18, <1>19 DEF Participant

LEMMA NextCounted == CountingInv /\ [Next]_vars => CountingInv'
<1> SUFFICES ASSUME CountingInv, [Next]_vars PROVE CountingInv'
  OBVIOUS
<1>1. Typed /\ metrics \in [Counters -> Nat]
  BY CountingTyped
<1>2. ASSUME NEW p \in Participants, Participant(p) PROVE CountingInv'
  BY <1>1, <1>2, ParticipantTyped, ParticipantCounted, TypedCounting
<1>3. CASE \/ \E w \in Participants \cup {Main} : AtGate(w)
           \/ MainTask \/ ForwardStop \/ Environment
  <2>1. Typed'
    BY <1>1, <1>3, OthersTyped
  <2>2. UNCHANGED <<pc, metrics>>
    BY <1>3 DEF AtGate, MainTask, MainWaits, MainProceeds, MainTimesOut, Join, Return, ForwardStop,
                Environment, StopRequested, Deadline, BarrierDeadline, taskVars
  <2> QED BY <1>1, <2>1, <2>2, StillCounted, TypedCounting DEF CountingInv
<1>4. CASE UNCHANGED vars
  <2>1. Typed'
    BY <1>1, <1>4 DEF vars, taskVars, gateVars, clockVars, stopVars, mainVars, Typed, TasksTyped,
                      GateTyped, RestTyped, Answered
  <2>2. UNCHANGED <<pc, metrics>>
    BY <1>4 DEF vars, taskVars
  <2> QED BY <1>1, <2>1, <2>2, StillCounted, TypedCounting DEF CountingInv
<1> QED BY <1>2, <1>3, <1>4 DEF Next, Terminated

\* Whatever the participants, their roles and the barrier: every run keeps its types.
THEOREM ScenarioTyping == Safety => []TypeOK
<1>1. Init => CountingInv
  BY InitCounted DEF Init, CountingInv, Answered
<1>2. CountingInv => TypeOK
  BY DEF CountingInv, Counted
<1> QED BY <1>1, <1>2, NextCounted, PTL DEF Safety

\* active_connections counts the open connections, and the failures counted leave
\* room in connection_attempts for every attempt still in flight or alive: the
\* connection error rate is a fraction, however often participants reconnect.
THEOREM ConnectionCounting == Safety => [](GaugeExact /\ ErrorRateBounded)
<1>1. Init => CountingInv
  BY InitCounted DEF Init, CountingInv, Answered
<1>2. CountingInv => GaugeExact /\ ErrorRateBounded
  BY DEF CountingInv, Counted
<1> QED BY <1>1, <1>2, NextCounted, PTL DEF Safety

\* connection_failures and the attempts in flight or alive never exceed
\* connection_attempts: no path counts one connection as failed twice.
THEOREM FailuresStayBelow == Safety => []ErrorRateBounded
<1>1. Init => CountingInv
  BY InitCounted DEF Init, CountingInv, Answered
<1>2. CountingInv => ErrorRateBounded
  BY DEF CountingInv, Counted
<1> QED BY <1>1, <1>2, NextCounted, PTL DEF Safety
-----------------------------------------------------------------------------
(***************************************************************************)
(* Held senders. A sender reaches "streaming" only through the gate, and   *)
(* the gate answered Ready; the set of ready aliases never shrinks.        *)
(***************************************************************************)
Opened == \A w \in Participants \cup {Main} : gate[w] = "Ready" => Required \subseteq ready

GatingInv == SendersGated /\ Opened

LEMMA ParticipantGated ==
  ASSUME Typed, GatingInv, NEW p \in Participants, Participant(p)
  PROVE  GatingInv'
<1> USE DEF GatingInv, SendersGated, Opened, Sends, Typed, TasksTyped, GateTyped,
            Goto, Finish, Close, gateVars, Barrier!Inside, Barrier!Verdicts
<1>1. CASE RampElapsed(p) BY <1>1 DEF RampElapsed
<1>2. CASE RampInterrupted(p) BY <1>2 DEF RampInterrupted
<1>3. CASE Dial(p) BY <1>3 DEF Dial
<1>4. CASE DialInterrupted(p) BY <1>4 DEF DialInterrupted
<1>5. CASE ConnectSucceeds(p) BY <1>5 DEF ConnectSucceeds
<1>6. CASE ConnectFails(p)
  <2>1. UNCHANGED <<ready, gate>> BY <1>6 DEF ConnectFails
  <2>2. \E t \in {"done", "backoff"} : pc' = [pc EXCEPT ![p] = t]
    BY <1>6, RetryLeaves DEF ConnectFails
  <2> QED BY <2>1, <2>2
<1>7. CASE MarkReady(p) BY <1>7 DEF MarkReady, Barrier!Insert
<1>8. CASE NotifyReady(p) BY <1>8 DEF NotifyReady, Barrier!NotifyWaiters
<1>9. CASE BeginSession(p) BY <1>9 DEF BeginSession, Barrier!Enter, Barrier!Move
<1>10. CASE SlowElapsed(p) BY <1>10 DEF SlowElapsed, Barrier!Enter, Barrier!Move
<1>11. CASE SlowInterrupted(p) BY <1>11 DEF SlowInterrupted
<1>12. CASE GateOpens(p) BY <1>12 DEF GateOpens
<1>13. CASE GateRefuses(p) BY <1>13 DEF GateRefuses
<1>14. CASE ReaderEnds(p) BY <1>14 DEF ReaderEnds
<1>15. CASE SessionEnds(p) BY <1>15 DEF SessionEnds
<1>16. CASE Disconnect(p)
  <2>1. UNCHANGED <<ready, gate>> BY <1>16 DEF Disconnect
  <2>2. \E t \in {"done", "backoff"} : pc' = [pc EXCEPT ![p] = t]
    BY <1>16, RetryLeaves DEF Disconnect
  <2> QED BY <2>1, <2>2
<1>17. CASE BackoffElapsed(p) BY <1>17 DEF BackoffElapsed
<1>18. CASE BackoffInterrupted(p) BY <1>18 DEF BackoffInterrupted
<1> QED BY <1>1, <1>2, <1>3, <1>4, <1>5, <1>6, <1>7, <1>8, <1>9, <1>10, <1>11, <1>12,
           <1>13, <1>14, <1>15, <1>16, <1>17, <1>18 DEF Participant

LEMMA AtGateGated ==
  ASSUME Typed, GatingInv, NEW w \in Participants \cup {Main}, AtGate(w)
  PROVE  GatingInv'
BY DEF GatingInv, SendersGated, Opened, Typed, GateTyped, AtGate, taskVars, Barrier!Wait,
       Barrier!Check, Barrier!Arm, Barrier!Woken, Barrier!SeeStop, Barrier!SeeTimeout, Barrier!Move

LEMMA NextGated == Typed /\ GatingInv /\ [Next]_vars => GatingInv'
<1> SUFFICES ASSUME Typed, GatingInv, [Next]_vars PROVE GatingInv'
  OBVIOUS
<1>1. CASE MainWaits
  BY <1>1 DEF MainWaits, taskVars, Barrier!Enter, Barrier!Move, GatingInv, SendersGated, Opened,
              Typed, GateTyped
<1>2. CASE UNCHANGED <<pc, ready, gate>>
  BY <1>2 DEF GatingInv, SendersGated, Opened
<1>3. ASSUME \/ MainProceeds \/ MainTimesOut \/ (\E p \in Participants : Join(p)) \/ Return
             \/ ForwardStop \/ Environment \/ UNCHANGED vars
      PROVE  UNCHANGED <<pc, ready, gate>>
  BY <1>3 DEF MainProceeds, MainTimesOut, Join, Return, ForwardStop, Environment, StopRequested,
              Deadline, BarrierDeadline, vars, taskVars, gateVars
<1> QED BY <1>1, <1>2, <1>3, ParticipantGated, AtGateGated DEF Next, MainTask, Terminated

\* A sender streams only after every alias of wait_for_ready has completed a
\* connection, whatever the interleaving of marks, waits and wake-ups.
THEOREM SendersAreGated == Safety => []SendersGated
<1>1. Init => CountingInv /\ GatingInv
  BY InitCounted DEF Init, CountingInv, Answered, GatingInv, SendersGated, Opened
<1>2. CountingInv /\ GatingInv /\ [Next]_vars => CountingInv' /\ GatingInv'
  BY NextCounted, NextGated, CountingTyped
<1>3. GatingInv => SendersGated
  BY DEF GatingInv
<1> QED BY <1>1, <1>2, <1>3, PTL DEF Safety

-----------------------------------------------------------------------------
(***************************************************************************)
(* Joined readers: inductive with the types alone.                         *)
(***************************************************************************)
LEMMA NextJoined == Typed /\ NoOrphanReader /\ [Next]_vars => NoOrphanReader'
<1> SUFFICES ASSUME Typed, NoOrphanReader, [Next]_vars PROVE NoOrphanReader'
  OBVIOUS
<1>1. ASSUME NEW p \in Participants, Participant(p) PROVE NoOrphanReader'
  <2> USE DEF NoOrphanReader, Typed, TasksTyped, Goto, Finish, Close
  <2>1. CASE RampElapsed(p) BY <2>1 DEF RampElapsed
  <2>2. CASE RampInterrupted(p) BY <2>2 DEF RampInterrupted
  <2>3. CASE Dial(p) BY <2>3 DEF Dial
  <2>4. CASE DialInterrupted(p) BY <2>4 DEF DialInterrupted
  <2>5. CASE ConnectSucceeds(p) BY <2>5 DEF ConnectSucceeds
  <2>6. CASE ConnectFails(p)
    <3>1. pc[p] = "connecting" /\ UNCHANGED reader BY <2>6 DEF ConnectFails
    <3>2. \E t \in {"done", "backoff"} : pc' = [pc EXCEPT ![p] = t]
      BY <2>6, RetryLeaves DEF ConnectFails
    <3> QED BY <3>1, <3>2
  <2>7. CASE MarkReady(p) BY <2>7 DEF MarkReady
  <2>8. CASE NotifyReady(p) BY <2>8 DEF NotifyReady
  <2>9. CASE BeginSession(p) BY <2>9 DEF BeginSession, SpawnReader
  <2>10. CASE SlowElapsed(p) BY <2>10 DEF SlowElapsed, SpawnReader
  <2>11. CASE SlowInterrupted(p) BY <2>11 DEF SlowInterrupted
  <2>12. CASE GateOpens(p) BY <2>12 DEF GateOpens
  <2>13. CASE GateRefuses(p) BY <2>13 DEF GateRefuses
  <2>14. CASE ReaderEnds(p) BY <2>14 DEF ReaderEnds
  <2>15. CASE SessionEnds(p) BY <2>15 DEF SessionEnds
  <2>16. CASE Disconnect(p)
    <3>1. pc[p] = "closing" /\ UNCHANGED reader BY <2>16 DEF Disconnect
    <3>2. \E t \in {"done", "backoff"} : pc' = [pc EXCEPT ![p] = t]
      BY <2>16, RetryLeaves DEF Disconnect
    <3> QED BY <3>1, <3>2
  <2>17. CASE BackoffElapsed(p) BY <2>17 DEF BackoffElapsed
  <2>18. CASE BackoffInterrupted(p) BY <2>18 DEF BackoffInterrupted
  <2> QED BY <1>1, <2>1, <2>2, <2>3, <2>4, <2>5, <2>6, <2>7, <2>8, <2>9, <2>10, <2>11, <2>12,
             <2>13, <2>14, <2>15, <2>16, <2>17, <2>18 DEF Participant
<1>2. ASSUME UNCHANGED <<pc, reader>> PROVE NoOrphanReader'
  BY <1>2 DEF NoOrphanReader
<1>3. ASSUME \/ \E w \in Participants \cup {Main} : AtGate(w)
             \/ MainTask \/ ForwardStop \/ Environment \/ UNCHANGED vars
      PROVE  UNCHANGED <<pc, reader>>
  BY <1>3 DEF AtGate, MainTask, MainWaits, MainProceeds, MainTimesOut, Join, Return, ForwardStop,
              Environment, StopRequested, Deadline, BarrierDeadline, vars, taskVars
<1> QED BY <1>1, <1>2, <1>3 DEF Next, Terminated

\* Every path out of run_connected joins the reader task it spawned.
THEOREM ReadersAreJoined == Safety => []NoOrphanReader
<1>1. Init => CountingInv /\ NoOrphanReader
  BY InitCounted DEF Init, CountingInv, Answered, NoOrphanReader
<1>2. CountingInv /\ NoOrphanReader /\ [Next]_vars => CountingInv' /\ NoOrphanReader'
  BY NextCounted, NextJoined, CountingTyped
<1> QED BY <1>1, <1>2, PTL DEF Safety
===============================================================================
