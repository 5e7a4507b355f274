-------------------------------- MODULE Session --------------------------------
(***************************************************************************)
(* scenarios.rs: the traffic of one participant once the barrier has let   *)
(* it through, over its successive connections. send_positions generates   *)
(* one event per tick, batches them, and writes full batches (flush_batch, *)
(* write_fragmented); read_events runs beside it in a task of its own if   *)
(* the participant also receives; run_connected selects whichever returns  *)
(* first and drops or aborts the other.                                    *)
(*                                                                         *)
(* Events are numbered as they are generated. A write is one step with its *)
(* outcome; one that fails or is dropped may have delivered a prefix.      *)
(***************************************************************************)
EXTENDS Naturals, FiniteSets

CONSTANTS
    Setups,         \* the roles and options considered, see below
    MaxEvents,      \* bound on the events generated
    MaxSessions     \* connections: 1 + reconnect.max_attempts

ASSUME SessionAssumption ==
    /\ Setups \subseteq [role : {"send_only", "send_receive", "receive_only"},
                          batchSize : Nat \ {0}, batchLimit : Nat \ {0},
                          invalidEvents : Nat, oversized : BOOLEAN, abruptAfter : Nat]
    /\ MaxSessions \in Nat \ {0}
    /\ MaxEvents \in Nat

VARIABLES
    setup,          \* the participant's role and the scenario's options; never changes
    sender,         \* where send_positions is
    reader,         \* where read_events is, or what it returned
    outcome,        \* "none", then what run_connected returned
    sessions,       \* connections opened so far
    eventCount,     \* send_positions' event_count
    batch,          \* the events of OutgoingBatch
    generated,      \* events generated so far, over all sessions
    valid,          \* those that carry a correlation
    handed,         \* those put in a batch or given to the writer
    wire,           \* those whose last byte was accepted by the socket
    ledger,         \* CorrelationLedger.sent
    sent,           \* metrics.sent_messages
    dropped,        \* metrics.dropped_messages
    localDropped,   \* metrics.local_dropped_messages
    interrupted     \* stop was sent, or the deadline has passed

senderVars == <<sender, eventCount, batch, generated, valid, handed, wire>>
countVars  == <<ledger, sent, dropped, localDropped>>
vars == <<setup, senderVars, countVars, reader, outcome, sessions, interrupted>>

Role          == setup.role
BatchSize     == setup.batchSize        \* fragmentation.events_per_write, at least 1
BatchLimit    == setup.batchLimit       \* events that surely fit in a batch of 8 MiB
InvalidEvents == setup.invalidEvents    \* invalid.max_events, 0 if not enabled
Oversized     == setup.oversized        \* invalid.kind is OversizedFrame
AbruptAfter   == setup.abruptAfter      \* abrupt_disconnect.after_events, 0 if not enabled

ReadErrors == {"peer_closed", "read_failed", "cot_parse_failed"}
SendErrors == {"write_failed", "participant_task_failed"}

\* waiting: in select!; flushing: writing a full batch; recording: at the ledger's
\* lock after it; oversize: writing an oversized event; gone: returned, or dropped.
SenderStages == {"waiting", "flushing", "recording", "oversize", "gone"}

Open == outcome = "none"

Init ==
    /\ setup \in Setups
    /\ interrupted \in BOOLEAN
    /\ sender = IF Role = "receive_only" THEN "gone" ELSE "waiting"
    \* the reader task has been running while the sender was at the barrier
    /\ reader \in IF Role = "send_receive" THEN {"reading"} \cup ReadErrors
                  ELSE IF Role = "receive_only" THEN {"reading"} ELSE {"none"}
    /\ outcome = "none"
    /\ sessions = 1
    /\ eventCount = 0
    /\ batch = {}
    /\ generated = 0
    /\ valid = {} /\ handed = {} /\ wire = {} /\ ledger = {}
    /\ sent = 0 /\ dropped = 0 /\ localDropped = 0

-----------------------------------------------------------------------------
(* The end of run_connected. *)

\* send_positions returns: the reader task is aborted and awaited, r is the result.
Return(r) ==
    /\ sender' = "gone"
    /\ reader' = "none"
    /\ outcome' = r

\* record_local_drop
LocalDrop(n) ==
    /\ dropped' = dropped + n
    /\ localDropped' = localDropped + n

\* What follows an event, queued or written: the abrupt disconnect, or the next
\* turn of the loop with the batch that is pending.
AfterEvent(pending) ==
    IF AbruptAfter > 0 /\ eventCount' >= AbruptAfter
    THEN Return("ok") /\ LocalDrop(Cardinality(pending)) /\ batch' = {}
    ELSE /\ sender' = "waiting"
         /\ batch' = pending
         /\ UNCHANGED <<reader, outcome, dropped, localDropped>>

-----------------------------------------------------------------------------
(* send_positions. *)

\* (slip: event_count is compared inclusively)
InvalidInclusive == eventCount <= InvalidEvents

\* invalid_kind is Some
IsInvalid == eventCount < InvalidEvents

Generate ==
    /\ sender = "waiting" /\ generated < MaxEvents
    /\ generated' = generated + 1
    /\ eventCount' = eventCount + 1

\* A valid event, or an invalid one of ordinary size, joins the batch, which may
\* then be too long, or full. Events differ in length.
Queue ==
    /\ ~(IsInvalid /\ Oversized)
    /\ Generate
    /\ valid' = IF IsInvalid THEN valid ELSE valid \cup {generated'}
    /\ handed' = handed \cup {generated'}
    /\ LET queued == batch \cup {generated'}
           n      == Cardinality(queued)
       IN  \/ /\ n > BatchLimit
              /\ LocalDrop(n)
              /\ Return("participant_task_failed")
              /\ batch' = {}
           \/ /\ n >= BatchSize
              /\ sender' = "flushing"
              /\ batch' = queued
              /\ UNCHANGED <<reader, outcome, dropped, localDropped>>
           \/ /\ n < BatchSize
              /\ AfterEvent(queued)
    /\ UNCHANGED <<wire, ledger, sent, sessions, interrupted>>

\* An oversized event is written by itself, after flush_batch has written what waits
\* in the batch; with nothing there, flush_batch returns at once.
GenerateOversized ==
    /\ IsInvalid /\ Oversized
    /\ Generate
    /\ IF batch = {} THEN sender' = "oversize" /\ handed' = handed \cup {generated'}
                     ELSE sender' = "flushing" /\ UNCHANGED handed
    /\ UNCHANGED <<batch, valid, wire, countVars, reader, outcome, sessions, interrupted>>

\* An oversized event is waiting for that flush. (It never has to: the oversized events
\* of a connection come before all others.)
FlushedFor == generated \notin handed

\* write_fragmented of the batch succeeds; the ledger is locked next.
BatchWritten ==
    /\ sender = "flushing"
    /\ sender' = "recording"
    /\ wire' = wire \cup batch
    /\ sent' = sent + Cardinality(batch)
    /\ UNCHANGED <<eventCount, batch, generated, valid, handed,
                   ledger, dropped, localDropped, reader, outcome, sessions, interrupted>>

\* The events of the write in progress, of which the socket may have taken a prefix
\* (the whole of it if only the flush failed) when the write fails or is dropped.
InFlight == CASE sender = "flushing" -> batch
              [] sender = "oversize" -> {generated}
              [] OTHER -> {}

PrefixDelivered == \E k \in 0..generated : wire' = wire \cup {e \in InFlight : e <= k}

\* (slip: the failed batch is recorded as sent)
BatchFailsRecorded ==
    /\ sender = "flushing"
    /\ ledger' = ledger \cup (batch \cap valid)
    /\ dropped' = dropped + Cardinality(batch)
    /\ batch' = {}
    /\ Return("write_failed")
    /\ UNCHANGED <<eventCount, generated, valid, handed, wire,
                   sent, localDropped, sessions, interrupted>>

\* (slip: it is counted as a local drop besides)
BatchFailsTwice ==
    /\ sender = "flushing"
    /\ wire' = wire
    /\ LocalDrop(2 * Cardinality(batch))
    /\ batch' = {}
    /\ Return("write_failed")
    /\ UNCHANGED <<eventCount, generated, valid, handed, ledger, sent, sessions, interrupted>>

\* (slip: the session goes on after a failed write)
BatchFailsOn ==
    /\ sender = "flushing"
    /\ PrefixDelivered
    /\ dropped' = dropped + Cardinality(batch)
    /\ batch' = {}
    /\ sender' = "waiting"
    /\ UNCHANGED <<reader, outcome, eventCount, generated, valid, handed,
                   ledger, sent, localDropped, sessions, interrupted>>

\* It fails or times out.
BatchFails ==
    /\ sender = "flushing"
    /\ PrefixDelivered
    /\ dropped' = dropped + Cardinality(batch)
    /\ batch' = {}
    /\ Return("write_failed")
    /\ UNCHANGED <<eventCount, generated, valid, handed,
                   ledger, sent, localDropped, sessions, interrupted>>

\* The batch's correlations enter ledger.sent, and flush_batch returns.
Record ==
    /\ sender = "recording"
    /\ ledger' = ledger \cup (batch \cap valid)
    /\ UNCHANGED eventCount
    /\ IF FlushedFor
       THEN /\ sender' = "oversize" /\ handed' = handed \cup {generated}
            /\ batch' = {}
            /\ UNCHANGED <<reader, outcome, dropped, localDropped>>
       ELSE AfterEvent({}) /\ UNCHANGED handed
    /\ UNCHANGED <<generated, valid, wire, sent, sessions, interrupted>>

OversizedWritten ==
    /\ sender = "oversize"
    /\ wire' = wire \cup {generated}
    /\ sent' = sent + 1
    /\ UNCHANGED eventCount
    /\ AfterEvent(batch)
    /\ UNCHANGED <<generated, valid, handed, ledger, sessions, interrupted>>

OversizedFails ==
    /\ sender = "oversize"
    /\ PrefixDelivered
    /\ dropped' = dropped + 1
    /\ Return("write_failed")
    /\ UNCHANGED <<eventCount, batch, generated, valid, handed,
                   ledger, sent, localDropped, sessions, interrupted>>

\* The stop or deadline branch of select!: the pending batch is counted as dropped.
SenderInterrupted ==
    /\ sender = "waiting" /\ interrupted
    /\ LocalDrop(Cardinality(batch))
    /\ batch' = {}
    /\ Return("ok")
    /\ UNCHANGED <<eventCount, generated, valid, handed, wire,
                   ledger, sent, sessions, interrupted>>

-----------------------------------------------------------------------------
(* read_events, and the reader's branch of run_connected's select!. *)

\* (slip: end of stream is a good end)
EofIsFine ==
    /\ reader = "reading"
    /\ reader' \in ReadErrors \cup {"ok"}
    /\ UNCHANGED <<senderVars, countVars, outcome, sessions, interrupted>>

\* End of stream, a read or decoding error, a silence the profile does not
\* tolerate (a read_failed too), or the stop or deadline.
ReaderEnds ==
    /\ reader = "reading"
    /\ reader' \in ReadErrors \cup IF interrupted THEN {"ok"} ELSE {}
    /\ UNCHANGED <<senderVars, countVars, outcome, sessions, interrupted>>

\* The reader's result is run_connected's: a sender is dropped where it stands,
\* and what it had batched or was writing goes with it.
ReaderWins ==
    /\ Open /\ reader \in ReadErrors \cup {"ok"}
    /\ outcome' = reader
    /\ reader' = "none"
    /\ sender' = "gone"
    /\ PrefixDelivered
    /\ batch' = {}
    /\ UNCHANGED <<eventCount, generated, valid, handed,
                   countVars, sessions, interrupted>>

-----------------------------------------------------------------------------
\* (slip: the attempt budget is not looked at)
ReconnectUnbounded ==
    /\ outcome \notin {"none", "ok"} /\ ~interrupted
    /\ sessions' = sessions + 1
    /\ outcome' = "none"
    /\ sender' = IF Role = "receive_only" THEN "gone" ELSE "waiting"
    /\ reader' = IF Role = "send_only" THEN "none" ELSE "reading"
    /\ eventCount' = 0
    /\ UNCHANGED <<batch, generated, valid, handed, wire, countVars, interrupted>>

\* The participant's next connection after a failure; all of send_positions'
\* state is new.
Reconnect ==
    /\ outcome \notin {"none", "ok"} /\ ~interrupted /\ sessions < MaxSessions
    /\ sessions' = sessions + 1
    /\ outcome' = "none"
    /\ sender' = IF Role = "receive_only" THEN "gone" ELSE "waiting"
    /\ reader' = IF Role = "send_only" THEN "none" ELSE "reading"
    /\ eventCount' = 0
    /\ UNCHANGED <<batch, generated, valid, handed, wire, countVars, interrupted>>

Interrupt ==
    /\ ~interrupted /\ interrupted' = TRUE
    /\ UNCHANGED <<senderVars, countVars, reader, outcome, sessions>>

Terminated == ~Open /\ UNCHANGED vars

Write == BatchWritten \/ BatchFails \/ OversizedWritten \/ OversizedFails

Step ==
    \/ Queue \/ GenerateOversized \/ Write \/ Record \/ SenderInterrupted
    \/ ReaderEnds \/ ReaderWins
    \/ Reconnect \/ Interrupt

Next == (Step /\ UNCHANGED setup) \/ Terminated

(***************************************************************************)
(* A write ends, because timeouts.write bounds each chunk of it; a select! *)
(* that keeps being entered takes its stop branch in the end, however      *)
(* often the ticker is ready too. Ticks and peers are under no obligation. *)
(***************************************************************************)
Fairness ==
    /\ WF_vars(Write /\ UNCHANGED setup)
    /\ WF_vars(Record /\ UNCHANGED setup)
    /\ SF_vars(SenderInterrupted /\ UNCHANGED setup)
    /\ WF_vars(interrupted /\ ReaderEnds /\ UNCHANGED setup)
    /\ WF_vars(ReaderWins /\ UNCHANGED setup)

Safety == Init /\ [][Next]_vars

Spec == Safety /\ Fairness

-----------------------------------------------------------------------------
TypeOK ==
    /\ setup \in Setups
    /\ sender \in SenderStages
    /\ reader \in {"none", "reading", "ok"} \cup ReadErrors
    /\ outcome \in {"none", "ok"} \cup ReadErrors \cup SendErrors
    /\ sessions \in 1..MaxSessions
    /\ eventCount \in 0..generated
    /\ generated \in 0..MaxEvents
    /\ valid \subseteq 1..generated
    /\ handed \subseteq 1..generated
    /\ batch \subseteq handed
    /\ wire \subseteq handed
    /\ ledger \subseteq 1..generated
    /\ {sent, dropped, localDropped} \subseteq Nat
    /\ interrupted \in BOOLEAN

\* What the sender holds and no counter has yet.
InHand ==
    (IF sender \in {"waiting", "flushing"} THEN Cardinality(batch) ELSE 0)
        + (IF sender = "oversize" THEN 1 ELSE 0)

\* Every event that was batched or given to the writer is counted, as sent or as
\* dropped, whatever ends the session ("pending local batches are discarded and
\* counted", docs/safety.md:9).
EventsAccounted == sent + dropped + InHand = Cardinality(handed)

\* It is so on each way out of send_positions by itself. A reader that is selected
\* instead may leave events uncounted, but none is ever counted twice, as sent and as
\* dropped or by two of the paths that give up a batch.
NothingCountedTwice ==
    /\ sent + dropped + InHand <= Cardinality(handed)
    /\ Role = "send_only" => EventsAccounted

\* Routing is judged on what was sent: a correlation enters ledger.sent only if
\* the socket took the whole event, and an invalid event has none.
LedgerSound == ledger \subseteq wire \cap valid

\* The events of the present connection, which is the last one once it has ended.
Current(e) == generated - eventCount < e

\* The server gets a connection's events in the order in which they were made and
\* without a gap: what was written after an event proves that this one was written.
\* So nothing follows a write that failed or was dropped in the middle, on the stream
\* that it has torn.
StreamUnbroken ==
    \A e \in wire, d \in handed : Current(d) /\ d < e => d \in wire

\* Per connection at most max_events invalid events are handed out.
InvalidPerSession == Cardinality(handed \ valid) <= InvalidEvents * sessions

Contract == INSTANCE SessionContract WITH
                open     <- Open,
                Failures <- ReadErrors \cup SendErrors,
                mayQuit  <- AbruptAfter > 0

\* A session keeps the contract run_participant relies on, and in particular
\* ends when it is interrupted, whatever its sender is in the middle of.
ImplementsContract == Contract!Spec
================================================================================
