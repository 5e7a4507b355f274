# TAK Bench, verified

TLA+ modules, TLC runs and TLAPS proofs about `tak_bench`, the load and
conformance harness in `src/`. Line numbers are those of `src/src/`; where no file
is named, of `scenarios.rs`.

## The system

`tak-bench run` reads a configuration, merges the options into it, has the safety
policy judge the result and hands it to the runner. The runner starts a threshold
monitor and calls `run_fixed_positions_with_lifecycle`, which spawns one tokio task
per participant. Each task waits for its ramp delay, connects (TCP, TLS), reports
itself ready, sends positions or reads events or both, and reconnects with backoff
after a failure. All of them share the metrics, a correlation ledger, a readiness
barrier and a watch channel for cancellation. When all have joined, the routing
assertions are evaluated and the runner decides status and stop reason.

| component | state | operations | talks to |
|---|---|---|---|
| command line (`main.rs`) | the configuration being merged | run, smoke, validate, validate --connect | policy, runner |
| safety policy (`safety.rs`) | none | `validate_with_options` | configuration |
| run lifecycle (`runner.rs`) | threshold reason, stop channel | monitor, forward, run, report | scenario, metrics, thresholds |
| metrics, thresholds | atomic counters, histograms | increase, snapshot, evaluate | all tasks, monitor |
| scenario runner (182-299) | join set, cancellation channel, failures | spawn, barrier, cancel, join | participants, forwarder, runner |
| ramp schedule (`scheduler.rs`) | none | `start_delays` | scenario runner |
| readiness barrier (57-118) | set of ready aliases behind a mutex, a `Notify`, a deadline | `mark_ready`, `wait`, `missing` | participant tasks, main task |
| participant (302-494) | attempt, phase, last failure | dial, ready, session, disconnect, backoff | barrier, metrics, session |
| connection (`connection.rs`) | a stream | `connect`, `write_all` | participant, session |
| session (497-852) | batch, event count, reader task | generate, flush, read, drop | socket, ledger, metrics |
| stream decoder (`protocol.rs`) | byte buffer | `push` | reader |
| ledger and routing (51-55, 628-630, 854-909) | sent and seen correlations | insert, look up, evaluate | sessions, report |
| report, lifecycle events, provisioning | data, formatting, I/O | | |

What is hard here: the barrier's check and its registration for a wake-up are two
steps; the main task and every sender wait at it separately; a stop, the run's
deadline and the barrier's own deadline arrive at any point of a loop with seven
exits; the reader and the sender of a two-way participant race to end the
session, and the loser is dropped wherever it is suspended; a write can fail with
part of a batch delivered; an event may be received before its sender has recorded
it, twice, or late; counters are read one by one while they move, and without an
order between them; the monitor that
stops a run is itself aborted and never awaited; and the policy is a long
conjunction over options that replace each other. `PROJECT.json` lists each hazard
with its line and the properties about it.

## The modules

**ReadinessGate** is the abstract gate: who waits, what each was told, and what
justifies an answer. **ReadinessBarrier** is the code: `mark_ready` is `Insert`
(under the lock) and `NotifyWaiters` (after it), and `wait` is `Check` (under the
lock), `Arm` (the `select!` creates its `Notified`), then `Woken`, `SeeStop` or
`SeeTimeout`. `notify_waiters` stores no permit, so it moves exactly the waiters
that are `armed`. A waiter that calls `wait` again (next connection) enters anew.

**Scenario** is the main task, the participant tasks and the forwarder of an
external stop. `pc[p]` is the await or the stretch of code a task is in:

| `pc` | code |
|---|---|
| `ramp` | `wait_for_delay` before `run_participant` |
| `dial`, `connecting` | loop top; `select!` around `connect` |
| `connected`, `notifying`, `ready` | before, inside and after `mark_ready` |
| `slow`, `gate`, `streaming` | the three awaits of `run_connected` |
| `closing` | `run_connected` returned, nothing accounted yet |
| `backoff`, `done` | `wait_for_delay` after a failure; the task has returned |

It steps the barrier through `Barrier!Insert`, `Barrier!Enter` and so on, with
`Barrier == INSTANCE ReadinessBarrier`; the barrier's `stop` is what arrived on the
cancellation channel. A session is abstracted to the ways it can end
(`ReadResults`, `SendResults`). Every exit of the loop is an action of its own, and
the counter updates belong to the action of the handler that makes them.

**Session** is what one participant does while it streams, over its successive
connections: events are numbered, batched, written or dropped, and the reader's
result may win the `select!` at any await of the sender. `setup`, fixed at the start,
is its role and the scenario's options. **SessionContract** states how a session may
end, and that it ends when it is interrupted.

**RoutingLedger** is one ledger between several senders and receivers, and between
them a server that delivers whatever it has received to anybody, any number of
times. The sender's side is `Queue` (which stamps the event), `Write` and `Record`
(under the lock, after the write); the receiver's is `Decode` and `Look` (under the
lock). `Quit` and `QuitMeasuring` abort a reader at the ledger's lock and, inside it,
at the histogram's; `Evaluate` is `evaluate_routing`. `taken` (copies decoded, but for
those given up at the ledger's lock), `looks`, `prompt`, `late` and `excused` record what
really happened, so that properties can compare the ledger's answers with it.

**Runner** is `execute_with_lifecycle` with its caller: monitor, forwarder, main. The
monitor's snapshot is one `Load` per counter, in the order of **Thresholds**'
`LoadOrder`, and `evaluate` is `Evaluate` there. The counters are atomics of their own
that are increased and loaded with `Ordering::Relaxed` (`metrics.rs` 116-129), so that a
`Load` may return any value its counter has had since the last one: nothing orders two
counters, also where their increases follow each other in one task. `AbortTasks` aborts
the monitor, which is `MonitorDies` only where the task can be suspended. **Workload**
is what Runner assumes of a scenario: counters that only grow, failures within attempts,
a return after which nothing is counted, and one that comes after a stop.

**Launch** follows a command from the file to the first connections: `Overridden` is
`apply_overrides`, `Check` asks **SafetyPolicy**, `Validate` is validate with and
without `--connect`, `Spawn` zips the participants with **Pacing**'s delays, and `Dial`
has the outcomes that the TLS files permit. **Configuration** is the shape of an
`AppConfig`. SafetyPolicy lists the checks in the code's order, each under its
`SafetyError`; the first that refuses is the answer.

**StreamDecoder** is `CotStreamDecoder::push` turn by turn, over a byte stream that is
read in pieces of any size; bytes, markers and the limit are parameters. `Framing`
says where the frames of a whole stream lie, each found from the end of the one
before; `FramesBy(t)` and `BadBy(t)` are those that its first t bytes contain whole, and
whether one of them must fail. Neither looks at any cut.

How they compose:

- Scenario implements ReadinessBarrier, which implements ReadinessGate;
- Session implements SessionContract, and Scenario treats its sessions by it
  (`KeepsContract`): what Scenario assumes of a session, Session guarantees;
- Scenario implements Workload (`ImplementsWorkload`), and Runner steps its workload
  by Workload's actions and owes it Workload's reaction to a stop;
- Launch ends where Scenario begins, with the participants, delays and budget the
  policy let through.

The `MC*` modules give small casts. A definition marked *(slip)* is a plausible
mistake in the code, not reached by any behaviour of the specification;
`PROJECT.json` names it beside the definition it stands in for, and each
property is shown to fail when it does.

## The runs

| run | question | bounds | distinct states |
|---|---|---|---|
| barrier | does the barrier keep the gate's promises? | 2 listed aliases, 1 other, 2 waiters | 1 478 |
| scenario | counters, budget, report, readers, use of the barrier | two-way and receiver, both waited for, 1 retry, slow writes, 2 kinds of connect failure, abrupt disconnects | 644 386 |
| scenario_liveness | do the deadlines end the run? is it a Workload? are sessions treated by their contract? | 2 senders, 1 waited for, slow writes, no retry | 56 470 |
| retry_liveness | does a stop end it through reconnects? | 1 two-way participant, 2 retries | 18 027 |
| session | is each event counted once, recorded if written, in a stream without a gap? is the contract kept? | 4 setups, 9 events, 3 connections, batches of 2 or 3 that may overflow | 77 730 |
| routing | do assertions, duplicates and latencies say what happened? | 2 senders, 3 events, 2 receivers, 3 receptions, 2 instants, timeout 0 | 1 108 696 |
| runner | do status, reason and end of a run follow from its counters and stops? | 3 units of counted work, every threshold set | 208 645 |
| decoder | do the cuts of a stream matter? | 567 streams of up to 3 of 8 pieces, limit 5 bytes, every cut | 67 020 |
| launch | what can be dialed, when, and as whom? | a sound request for each of 4 environments, 4 commands and 2 casts, and all that differ from one in 1 or 2 places | 1 517 568 |

The other three runs are about sentences of the documents, below.

Why this is enough:

- *scenario* runs: tasks are alike except for role and membership in
  `wait_for_ready`, and interact only through the barrier, the stop and the counters.
  Two participants give every pairwise interleaving of marks, waits and failures; the
  third role, a sender that does not read, is in scenario_liveness. One retry shows
  both a retried and an exhausted attempt; two show the budget carried over.
- *session*: the numbers are the least for which a batch fills, fails in part, is
  pending at a disconnect, and meets the invalid events of a third connection.
  `BatchLimit` counts the events that surely fit in 8 MiB; events differ in length, so a
  longer batch may fit or not.
- *routing*: two events of one sender tell "all" from "some", one of another sender
  tells whose they are; two receivers tell their entries apart; three receptions allow a
  first copy, a duplicate and one for the other receiver; with two instants and
  a timeout of 0 a copy is in time or late.
- *runner*: three units of work make either rate exceed one half and the drops their
  limit, before, between and after any two loads of a snapshot; they also show a snapshot
  of one failure in the one attempt that was visible, while two were made.
- *decoder*: markers of two bytes that begin alike, as the code's do, split in every
  way; a frame of exactly the limit, one over it, and an unfinished one at either side
  of it.
- *launch*: every numeric check of the policy has values on both sides of its bound,
  and two places catch what an option does to a field, or one field to another. u64 and
  u32 are scaled down (`MaxU64`, `MaxU32`) so that a wrap and a saturation happen
  (`Power` is `saturating_pow`).

The bounds without a counterpart in the code are `MaxEvents`, `MaxClock`,
`MaxReceived`, `MaxWork`, and the small sets of streams and requests.

The properties, by module:

- *ReadinessBarrier*: `OpensOnlyWhenReady` (nobody is let through early),
  `ImplementsGate` (answers are justified, and a stop or the timeout is never slept
  through).
- *Scenario*: `SendersGated`, `GaugeExact`, `ErrorRateBounded`, `BudgetExact` (no
  connection beyond the budget, and none given up before), `NoOrphanReader`,
  `FailuresFaithful`, `QuietAtReturn`; the refinements; `StopTerminates` and
  `DeadlinesTerminate`.
- *Session*: `NothingCountedTwice` (and, for a participant that only sends, nothing
  uncounted), `LedgerSound`, `StreamUnbroken` (what was written after an event proves that
  this one was), `InvalidPerSession`, `ImplementsContract`.
- *RoutingLedger*: `PassMeansRouted` and `RoutedMeansPass` (an assertion passes exactly
  if every recorded event was received in time, except that a late duplicate may fail
  it, and so may a reader that is aborted at the ledger's lock with the event),
  `ForbiddenExact` (with the same exception), `DeliveriesExact`.
- *Runner*: `AbortGrounded` (no abort without the samples, the drops and the errors it
  rests on), `StopExplained`, `ThresholdEndsRun`, `StopEndsRun`. That a snapshot shows a
  rate the run had is not claimed: of Relaxed counters it may show one above 1, an
  excess that never was, or none where there is one.
- *StreamDecoder*: `CutsDoNotMatter`, `FailureLosesOnePush`, `BufferBounded`,
  `PushReturns`.
- *Launch*: `GuardRails` (in terms of tasks, cadence, aliases and who plays which role,
  as the documents put it, not of the checks; of invalid events in staging, as
  docs/scenarios.md and the repository's README put it, below), `RampFollowed`
  (`AllSpawned`, and by strategy all at once, `StepsFollowed` or `SpreadEvenly`),
  `TlsHonoured`, `BackoffGrows`.

### What the repository says and the code does not do

Three runs state a sentence of a document as a property and find it violated;
`PROJECT.json` quotes each.

- *silent_sender_timeout*: a sender whose own wait times out returns `Ok(())`, and a run
  nobody stopped reports no `readiness_timeout`, although that sender never sent. One
  cause: between `wait`'s test (92) and `notified()` (96) a `mark_ready` may run whole,
  and the waiter sleeps until the deadline although every alias is ready. Another:
  `missing` (236) is read after the answer, and finds none.
- *failure_does_not_cancel*: a participant failure cancels nothing.
- *uncounted_batch*: when the reader ends the session the sender's batch is counted
  nowhere.

Met on the way, and described by the models as the code has it, without a run:

- The deadline met at the loop top or in a dial after a failed attempt turns the failure
  into `Ok(())` (319, 327); in the backoff it keeps it (the test at 1887).
- `max_events` bounds the invalid events of each connection, not of the run (652, 820).
- A run aborted by a threshold exits with success: `failure` is of the outcome only
  (`runner.rs` 141), while the comment at `runner.rs` 30 can be read otherwise.
- `seen.insert` keeps the Instant of the last copy (629): a late duplicate fails an
  assertion that was met. A `NotReceived` assertion does not see an event that was
  decoded but whose sending was never recorded.
- A reader that is aborted (567, 581) while it awaits the ledger's lock (628) has counted
  its event as received (627), but the ledger never sees it: a `Received` assertion may
  fail though every event was decoded in time, and a `NotReceived` one pass though one was
  decoded.
- Nothing orders the counters that a snapshot loads: a rate over its limit may be missed
  until a later tick, and one that the run never had may abort it.
- docs/safety.md line 7 rejects malformed events outside of local and temporary
  environments; docs/scenarios.md line 13 and the repository's README line 11 let them
  into staging with `--allow-invalid-events`, and so does the code (`safety.rs`
  103-107).
- The flush before an oversized event (662) has nothing to write: the oversized events of
  a connection are its first, and never enter the batch.
- docs/metrics.md line 3 has the sender record "immediately before writing"; the Instant
  is taken when the event is queued, and the ledger entry is made after the write (764).
- A step schedule that grows beyond the clients, or shrinks, passes `validate`, also with
  `--connect`, and fails when the run starts (`scheduler.rs` 44).
- A duration option wraps or panics (`main.rs` 311) where the same value in a file
  saturates; a duration near the end of u64 panics at 191, and a `synchronization.timeout`
  at 75-79. `GuardRails` holds all the same, of the duration that is used.
- Nothing validates the rates of `abort` (`config.rs` 282): a negative one is exceeded by
  the first sample, also by a rate of 0 over nothing.
- Jitter is applied after `max_backoff` (492), so that a backoff may be twice the maximum.
- `disconnect_reason` answers `external_stop` also for an abrupt disconnect and a
  refused barrier (476).

### Fairness

Tokio schedules every runnable task, hence weak fairness of each step a task can take by
itself. `select!` polls its branches in random order, so a branch that is ready again
and again is taken: strong fairness of the stop and timeout exits of the barrier and of
the sender's loop. A write ends because `timeouts.write` bounds each chunk. The
monitor's interval ticks, `push` is a loop without an await, and what a task has counted
becomes visible to the monitor in finite time: if it ticks for ever, by one of the ticks
(strong fairness of the `Tick` with everything shown). No delay, connect, session or
alias is assumed to finish, no peer to send, no stop to be requested and no deadline to
pass: termination is by reaction alone. Runner assumes of its workload that it returns
once stopped, which scenario_liveness shows of Scenario. `DeadlinesTerminate` needs both
deadlines because the barrier does not look at the run's.

## The proofs

Each theorem holds for every value of its module's constants that satisfies the named
assumption: `ScenarioAssumption` (finitely many participants, the barrier's aliases
among them, category names distinct; the same for the barrier), `SessionAssumption`
(setups have positive batch sizes), `RoutingAssumption` (each event has one sender),
`ThresholdsAssumption` (limits are unset, or fractions and numbers), `DecoderAssumption`
(markers are not empty and the start's is no longer than the end's) and
`ConfigurationAssumption` (the numbers are numbers, and `client-0`, `client-1`, ..
differ). Every invariant that a run checks is proved, and so are both action properties
and the safety half of every refinement; the rest is liveness.

- **ReadinessBarrierProofs**: types; `OpensOnlyWhenReady`, inductive with the types
  since `ready` never shrinks; and the barrier implements the gate's safety, step by step.
- **ScenarioProofs**: `TypeOK`, `GaugeExact` and `ErrorRateBounded`. None of them
  is inductive alone: the gauge is decremented in `Disconnect` and stays a natural
  number only because it counts live connections. `CountingInv` joins the types, both
  counting invariants, and `Answered` (a task that failed or ended has a result,
  without which `Join` could report a failure of no category). The counting
  argument is in `TallyMove`: a task that changes stage changes the number of tasks
  in a set of stages by at most one. Four actions count; the others are `QuietMove`s.
  On it rest `SendersGated` (through `Opened`: the gate's answer outlives the moment it
  was given) and `NoOrphanReader`.
- **WorkloadProofs**: `EndInv` for the report and the end of the run: joined tasks are
  done, done tasks do not move, so `FailuresFaithful`, the second half of `BudgetExact`
  and `QuietAtReturn` follow. The first half, a bound on the connections of a whole run,
  is `BudgetInv`: the connections begun are no more than the pairs of a participant and
  an attempt that it has come to (`Begun`), and there are as many pairs as the budget
  has. Then `ScenarioUsesBarrier` (the barrier's theorems hold of the tasks),
  `ScenarioIsAWorkload`, which needs `ErrorRateBounded`, that a joined task is done, and
  that a reader that runs belongs to a task that is not, and `SessionsAsAgreed` for
  `KeepsContract`: no session starts with the result of an earlier one, and a reader
  ends well only after an interruption (`Fresh`).
- **SessionProofs**: `StreamInv` is the types, `Underway` (a batch and a reader belong
  to an open session; what is being recorded was written) and `LedgerSound`.
  `StreamUnbroken` is carried by `UnbrokenInv`: while a connection lasts, what its
  sender handed out is on the wire, or in hand and made later than what is.
  `InvalidPerSession` holds through a tally per connection, and `NothingCountedTwice`
  through `Balance`: sent, dropped and in hand add up to what was generated, unless a
  reader may have cut a batch short. Last, `SessionKeepsContract`.
- **RoutingProofs**: `PassMeansRouted`, `RoutedMeansPass`, `ForbiddenExact`. `Truthful`
  ties an entry of `ledger.seen` to what happened: it holds the Instant of the last
  copy, which is not before that of the first; `TakenInv` says that what a receiver took
  in it has looked up or still holds. `Verdict` needs that nothing but the clock
  moves once every task was joined. `CountersInv` carries `TypeOK` and `DeliveriesExact`:
  every event received is an entry of `ledger.seen`, a further copy, in a reader's hands
  or given up (`Tallied`), and an entry was measured unless its reader was aborted in
  between (`Measured`).
- **RunnerProofs**: types, `AbortGrounded` and `StopExplained`. `SnapshotInv` says that
  nothing is visible that was not counted; so what `Evaluate` finds in a snapshot is
  grounded in the counters (`EvaluateGrounds`), since more errors of the same total
  exceed the same limit (`RateGrows`), and stays so as they grow (`GrowthGrounds`).
  `ReasonInv`: who writes the channel has stored the reason before.
- **DecoderProofs**: `CutsDoNotMatter`, `FailureLosesOnePush` and `BufferBounded` of
  every stream, cut in every way. `Aligned` is what holds between two turns of the loop:
  the buffer is the rest of what was read, the frames decoded are the first of
  `Framing`, and the next frame seen from the buffer's beginning is the next one of the
  stream. `SkipPreamble` and `KeepTail` keep the last of these because the bytes they
  drop begin no marker (`SkipKeepsNext`, `NoneAhead`), also none that is still to be
  completed; the others because a marker found in the buffer is the first in the stream
  after it (`Ahead`). `PushMovesOn` is the variant behind `PushReturns`.
- **LaunchProofs**: `GuardRails`, `RampFollowed`, `TlsHonoured` and `BackoffGrows` for
  every request. `LaunchInv` says that whatever is dialed was asked about (`Asked`: the
  policy refuses nothing of the configuration as merged, which no longer changes), that
  the tasks are those of an accepted schedule (`Scheduled`), that who is followed is a
  participant (`Followed`), and which backoff belongs to an attempt (`Paced`).
  `Unrefused` turns "no refusal" into the negation of every single check, and
  `PlayersAre` finds the aliases an assertion names among the participants
  (`CastIsPlayable`). About the schedule: `StepDelaysAre` (each client starts with the
  step that brings it), `StepStarts`, `LinearStarts`, and `Shuffled`, by which a
  permutation changes no count. `PowersGrow` is about the saturating power.

Where a proof needs induction over data, it is a search for a least counterexample:
`LeastNat` (a set of naturals that is not empty has a least member, from the
well-foundedness of finite subsets) is applied to the set of indices at which the claim
fails. That a recursive function exists at all is shown in the same way from its first
values (`FramingIs`, `FlattenIs`, `PowerIs`).

The composition is thus proved where it is safety: barrier and gate, scenario and
barrier, scenario and workload, and both sides of the session's contract.

Only model-checked: liveness and everything that depends on fairness (`StopTerminates`,
`DeadlinesTerminate`, `ThresholdEndsRun`, `StopEndsRun`, `PushReturns`), `Workload!Reacts`
and the fairness of the gate, the barrier and the contract included in the refinements
that TLC checks; the prover handles neither fairness nor ENABLED.

## Not modelled, and the plan

Left out of the modelled parts: panics of a task (reported as participant
`unknown`), lifecycle events (emitted at `ConnectSucceeds`, `Disconnect` and `Decided`
and read by nothing in the program), TLS template errors inside `run_participant`
(validation excludes them, `safety.rs` 223-242), the text of events and what
`inspect_event` parses of it, histograms beyond the percentiles `evaluate` looks at, the
resource figures of the report. Reader silence within the read timeout changes only a
counter in the functional profile and is a `read_failed` otherwise.

Not modelled at all, because it is data, formatting or I/O without a behaviour over
time: serde and defaults of the configuration, report serialisation and rendering,
`scenario list`, `certs inspect` and `report render`, the provisioning boundary, which
nothing calls, test support, and the build workflows.

Next: the safety arguments behind the remaining liveness properties, as variants like
that of `PushMovesOn`; and a run with several sessions stepped inside Scenario in place
of their contract, should the two ever be changed apart.
