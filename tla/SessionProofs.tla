---------------------------- MODULE SessionProofs ----------------------------
(***************************************************************************)
(* Session, for every setup and any number of events and connections: what *)
(* is recorded was written, no stream has a gap, invalid events are        *)
(* bounded, no event is counted twice, and a session ends as its contract  *)
(* says.                                                                   *)
(***************************************************************************)
EXTENDS Session, FiniteSetTheorems, TLAPS

SetupTyped ==
  /\ Role \in {"send_only", "send_receive", "receive_only"}
  /\ BatchSize \in Nat \ {0} /\ BatchLimit \in Nat \ {0}
  /\ InvalidEvents \in Nat /\ Oversized \in BOOLEAN /\ AbruptAfter \in Nat

\* What is in progress belongs to an open session; invalid events come first.
Underway ==
  /\ sender # "gone" => Open
  /\ ~Open => batch = {} /\ reader = "none"
  /\ sender = "recording" => batch \subseteq wire
  /\ sender \in {"flushing", "recording"} => generated \in handed
  /\ sender = "oversize" => generated \in handed /\ Oversized /\ eventCount <= InvalidEvents
  /\ Oversized /\ eventCount <= InvalidEvents => batch = {}

StreamInv == TypeOK /\ Underway /\ LedgerSound

LEMMA SetupsTyped == setup \in Setups => SetupTyped
BY SessionAssumption DEF SetupTyped, Role, BatchSize, BatchLimit, InvalidEvents, Oversized, AbruptAfter

\* Invalid events come first: flush_batch has nothing to write before an oversized one.
LEMMA OversizedAlone ==
  ASSUME StreamInv, GenerateOversized
  PROVE  /\ Generate /\ IsInvalid /\ batch = {} /\ sender' = "oversize"
         /\ handed' = handed \cup {generated'}
<1>1. eventCount \in Nat /\ InvalidEvents \in Nat
  BY SetupsTyped, SessionAssumption DEF StreamInv, TypeOK, SetupTyped
<1>2. Generate /\ IsInvalid /\ Oversized /\ batch = {}
  BY <1>1 DEF GenerateOversized, IsInvalid, StreamInv, Underway
<1> QED BY <1>2 DEF GenerateOversized

LEMMA RecordsLast ==
  ASSUME StreamInv, Record
  PROVE  AfterEvent({}) /\ UNCHANGED handed
BY DEF Record, FlushedFor, StreamInv, Underway

\* The events up to n are finitely many, and one that is new counts for one.
LEMMA EventSets ==
  ASSUME NEW n \in Nat, NEW S \in SUBSET (1..n)
  PROVE  /\ IsFiniteSet(S) /\ Cardinality(S) \in Nat
         /\ IsFiniteSet(S \cup {n + 1}) /\ Cardinality(S \cup {n + 1}) = Cardinality(S) + 1
<1>1. IsFiniteSet(S)
  <2>1. IsFiniteSet(1..n)
    BY FS_Interval
  <2> QED BY <2>1, FS_Subset
<1>2. n + 1 \notin S
  OBVIOUS
<1> QED BY <1>1, <1>2, FS_CardinalityType, FS_AddElement

-----------------------------------------------------------------------------
LEMMA QueueTyped ==
  ASSUME StreamInv, Queue, UNCHANGED setup
  PROVE  StreamInv'
<1> USE DEF StreamInv, Underway, TypeOK, LedgerSound, SenderStages, Open, ReadErrors, SendErrors,
            Oversized, InvalidEvents
<1>1. SetupTyped
  BY SetupsTyped
<1> DEFINE queued == batch \cup {generated'}
<1>2. /\ sender = "waiting" /\ Open
      /\ generated' = generated + 1 /\ generated' \in 0..MaxEvents
      /\ eventCount' = eventCount + 1
  BY SessionAssumption DEF Queue, Generate
<1>3. /\ valid' \subseteq 1..generated' /\ valid \subseteq valid'
      /\ handed' \subseteq 1..generated' /\ handed' = handed \cup {generated'}
      /\ UNCHANGED <<wire, ledger, sent, sessions, interrupted>>
  BY <1>2 DEF Queue
<1>4. queued \subseteq handed' /\ Cardinality(queued) \in Nat
  <2>1. queued \subseteq 1..generated'
    BY <1>2
  <2> QED BY <1>2, <1>3, <2>1, EventSets
<1>5. ~(Oversized' /\ eventCount' <= InvalidEvents')
  BY <1>1, <1>2 DEF Queue, IsInvalid, SetupTyped
<1>6. CASE LocalDrop(Cardinality(queued)) /\ Return("participant_task_failed") /\ batch' = {}
  BY <1>2, <1>3, <1>4, <1>5, <1>6 DEF LocalDrop, Return
<1>7. CASE sender' = "flushing" /\ batch' = queued
           /\ UNCHANGED <<reader, outcome, dropped, localDropped>>
  BY <1>2, <1>3, <1>4, <1>5, <1>7
<1>8. CASE AfterEvent(queued)
  <2>1. CASE Return("ok") /\ LocalDrop(Cardinality(queued)) /\ batch' = {}
    BY <1>2, <1>3, <1>4, <1>5, <2>1 DEF LocalDrop, Return
  <2>2. CASE /\ sender' = "waiting" /\ batch' = queued
             /\ UNCHANGED <<reader, outcome, dropped, localDropped>>
    BY <1>2, <1>3, <1>4, <1>5, <2>2
  <2> QED BY <1>8, <2>1, <2>2 DEF AfterEvent
<1> QED BY <1>6, <1>7, <1>8 DEF Queue

LEMMA PrefixTyped ==
  ASSUME StreamInv, PrefixDelivered
  PROVE  wire \subseteq wire' /\ wire' \subseteq handed
BY DEF PrefixDelivered, InFlight, StreamInv, Underway, TypeOK

LEMMA StepTyped ==
  ASSUME StreamInv, Step, UNCHANGED setup
  PROVE  StreamInv'
<1> USE DEF StreamInv, Underway, TypeOK, LedgerSound, SenderStages, Open, ReadErrors, SendErrors,
            Oversized, InvalidEvents
<1>0. SetupTyped
  BY SetupsTyped
<1>1. Cardinality(batch) \in Nat
  <2>1. generated \in Nat /\ batch \in SUBSET (1..generated)
    BY SessionAssumption
  <2> QED BY <2>1, EventSets
<1>2. CASE Queue
  BY <1>2, QueueTyped
<1>3. CASE GenerateOversized
  <2>1. /\ Generate /\ IsInvalid /\ Oversized /\ batch = {} /\ batch' = {}
        /\ sender' = "oversize" /\ handed' = handed \cup {generated'}
        /\ UNCHANGED <<valid, wire, countVars, reader, outcome, sessions, interrupted>>
    BY <1>3, OversizedAlone DEF GenerateOversized
  <2> QED BY <1>0, <2>1, SessionAssumption DEF Generate, IsInvalid, countVars, SetupTyped
<1>4. CASE BatchWritten
  BY <1>1, <1>4 DEF BatchWritten
<1>5. CASE BatchFails
  <2>1. wire \subseteq wire' /\ wire' \subseteq handed
    BY <1>5, PrefixTyped DEF BatchFails
  <2> QED BY <1>1, <1>5, <2>1 DEF BatchFails, Return
<1>6. CASE OversizedWritten
  <2>1. CASE Return("ok") /\ LocalDrop(Cardinality(batch)) /\ batch' = {}
    BY <1>1, <1>6, <2>1 DEF OversizedWritten, LocalDrop, Return
  <2>2. CASE /\ sender' = "waiting" /\ batch' = batch
             /\ UNCHANGED <<reader, outcome, dropped, localDropped>>
    BY <1>6, <2>2 DEF OversizedWritten
  <2> QED BY <1>6, <2>1, <2>2 DEF OversizedWritten, AfterEvent
<1>7. CASE OversizedFails
  <2>1. wire \subseteq wire' /\ wire' \subseteq handed
    BY <1>7, PrefixTyped DEF OversizedFails
  <2> QED BY <1>7, <2>1 DEF OversizedFails, Return
<1>8. CASE Record
  <2>1. Cardinality({}) = 0
    BY FS_EmptySet
  <2>2. AfterEvent({}) /\ UNCHANGED handed
    BY <1>8, RecordsLast
  <2> QED BY <1>8, <2>1, <2>2 DEF Record, AfterEvent, Return, LocalDrop
<1>9. CASE SenderInterrupted
  BY <1>1, <1>9 DEF SenderInterrupted, Return, LocalDrop
<1>10. CASE ReaderEnds
  BY <1>10 DEF ReaderEnds, senderVars, countVars
<1>11. CASE ReaderWins
  <2>1. wire \subseteq wire' /\ wire' \subseteq handed
    BY <1>11, PrefixTyped DEF ReaderWins
  <2> QED BY <1>11, <2>1 DEF ReaderWins, countVars
<1>12. CASE Reconnect
  BY <1>0, <1>12, SessionAssumption DEF Reconnect, countVars, SetupTyped
<1>13. CASE Interrupt
  BY <1>13 DEF Interrupt, senderVars, countVars
<1> QED BY <1>2, <1>3, <1>4, <1>5, <1>6, <1>7, <1>8, <1>9, <1>10, <1>11, <1>12, <1>13
        DEF Step, Write

LEMMA InitTyped == Init => StreamInv
BY SessionAssumption DEF Init, StreamInv, Underway, TypeOK, LedgerSound, SenderStages, Open, ReadErrors

LEMMA NextTyped == StreamInv /\ [Next]_vars => StreamInv'
<1> SUFFICES ASSUME StreamInv, [Next]_vars PROVE StreamInv'
  OBVIOUS
<1>1. CASE Step /\ UNCHANGED setup
  BY <1>1, StepTyped
<1>2. CASE UNCHANGED vars
  BY <1>2 DEF vars, senderVars, countVars, StreamInv, Underway, TypeOK, LedgerSound, Open,
              Oversized, InvalidEvents
<1> QED BY <1>1, <1>2 DEF Next, Terminated

\* Types of a participant's traffic over all of its connections (scenarios.rs:497-852),
\* for every setup: the batch holds events that were handed out, and so does the wire.
THEOREM SessionTyping == Safety => []TypeOK
<1>1. StreamInv => TypeOK
  BY DEF StreamInv
<1> QED BY <1>1, InitTyped, NextTyped, PTL DEF Safety

\* A correlation is in ledger.sent only if the socket took the whole event
\* (scenarios.rs:764), wherever a write fails or its sender is dropped.
THEOREM RecordedWasWritten == Safety => []LedgerSound
<1>1. StreamInv => LedgerSound
  BY DEF StreamInv
<1> QED BY <1>1, InitTyped, NextTyped, PTL DEF Safety

-----------------------------------------------------------------------------
(***************************************************************************)
(* The stream. While a connection lasts, what its sender has handed out is *)
(* on the wire, or it is in the batch or the write in progress, and then   *)
(* made later than anything on the wire. A write that ends the session may *)
(* add the first of these, and a sender that has ended adds nothing.       *)
(***************************************************************************)
Pending ==
  IF sender \in {"waiting", "flushing"} THEN batch
  ELSE IF sender = "oversize" THEN {generated} ELSE {}

UnbrokenInv ==
  /\ StreamUnbroken
  /\ sender # "gone" => \A d \in handed : Current(d) => d \in wire \cup Pending
  /\ \A e \in wire, d \in Pending : e < d

\* A prefix of the write in progress leaves no gap.
LEMMA PrefixUnbroken ==
  ASSUME StreamInv, UnbrokenInv, PrefixDelivered
  PROVE  \A e \in wire', d \in handed : Current(d) /\ d < e => d \in wire'
<1> PICK k \in 0..generated : wire' = wire \cup {e \in InFlight : e <= k}
  BY DEF PrefixDelivered
<1>1. generated \in Nat /\ handed \subseteq Nat /\ wire \subseteq Nat /\ InFlight \subseteq Pending
  BY SessionAssumption DEF StreamInv, TypeOK, InFlight, Pending
<1> SUFFICES ASSUME NEW e \in wire', NEW d \in handed, Current(d), d < e
             PROVE  d \in wire'
  OBVIOUS
<1>2. CASE e \in wire
  BY <1>2 DEF UnbrokenInv, StreamUnbroken
<1>3. CASE e \in InFlight /\ e <= k
  <2>1. sender \in {"flushing", "oversize"} /\ Pending = InFlight
    BY <1>3 DEF InFlight, Pending
  <2>2. CASE d \in InFlight
    <3>1. d \in Nat /\ e \in Nat /\ k \in Nat
      BY <1>1, <1>3, <2>1 DEF StreamInv, TypeOK, InFlight
    <3> QED BY <1>3, <2>2, <3>1
  <2> QED BY <2>1, <2>2 DEF UnbrokenInv
<1> QED BY <1>2, <1>3

LEMMA StepUnbroken ==
  ASSUME StreamInv, UnbrokenInv, Step, UNCHANGED setup
  PROVE  UnbrokenInv'
<1> USE DEF UnbrokenInv, StreamUnbroken, Current
<1>1. /\ generated \in Nat /\ eventCount \in Nat
      /\ handed \subseteq 1..generated /\ wire \subseteq handed /\ batch \subseteq handed
      /\ ~Open => batch = {} /\ sender = "gone"
      /\ sender = "oversize" => batch = {}
  BY SessionAssumption DEF StreamInv, TypeOK, Underway, SenderStages
\* a new event is later than those on the wire
<1>2. ASSUME sender = "waiting", Generate, UNCHANGED wire,
             handed' = handed \cup {generated'},
             sender' = "gone" \/ Pending' = batch \cup {generated'},
             sender' = "gone" => Pending' = {}
      PROVE  UnbrokenInv'
  <2>1. generated' = generated + 1 /\ eventCount' = eventCount + 1 /\ Pending = batch
    BY <1>2 DEF Generate, Pending
  <2>2. \A d \in Nat : Current(d)' <=> Current(d)
    BY <1>1, <2>1
  <2>3. wire \subseteq 1..generated /\ handed' = handed \cup {generated + 1} /\ wire' = wire
    BY <1>1, <1>2, <2>1
  <2>4. StreamUnbroken'
    <3> SUFFICES ASSUME NEW e \in wire, NEW d \in handed', Current(d)', d < e PROVE d \in wire
      BY <2>3
    <3>1. d \in handed /\ Current(d)
      BY <1>1, <2>2, <2>3
    <3> QED BY <3>1
  <2>5. sender' # "gone" => \A d \in handed' : Current(d)' => d \in wire' \cup Pending'
    <3> SUFFICES ASSUME sender' # "gone", NEW d \in handed', Current(d)' PROVE d \in wire \cup Pending'
      BY <2>3
    <3>1. CASE d = generated + 1
      BY <1>2, <2>1, <3>1
    <3>2. CASE d \in handed
      BY <1>1, <1>2, <2>1, <2>2, <3>2
    <3> QED BY <2>3, <3>1, <3>2
  <2>6. \A e \in wire', d \in Pending' : e < d
    <3> SUFFICES ASSUME NEW e \in wire, NEW d \in Pending' PROVE e < d
      BY <2>3
    <3>1. CASE d = generated + 1
      BY <1>1, <2>3, <3>1
    <3> QED BY <1>2, <2>1, <3>1
  <2> HIDE DEF StreamUnbroken, Current
  <2> QED BY <2>4, <2>5, <2>6
\* the session ends, or goes on, with nothing new
<1>3. ASSUME UNCHANGED <<generated, eventCount, handed>>, sender' = "gone",
             wire' = wire \/ PrefixDelivered
      PROVE  UnbrokenInv'
  <2>1. Pending' = {}
    BY <1>3 DEF Pending
  <2>2. CASE wire' = wire
    BY <1>3, <2>1, <2>2
  <2>3. CASE PrefixDelivered
    BY <1>3, <2>1, <2>3, PrefixUnbroken
  <2> QED BY <1>3, <2>2, <2>3
<1>4. ASSUME UNCHANGED <<generated, eventCount, handed>>, Pending' = {}, sender # "gone",
             wire' = wire \cup Pending
      PROVE  UnbrokenInv'
  BY <1>1, <1>4
<1>5. CASE Queue
  <2>1. /\ sender = "waiting" /\ Generate /\ UNCHANGED wire /\ handed' = handed \cup {generated'}
    BY <1>5 DEF Queue, Generate
  <2>2. \/ sender' = "gone"
        \/ sender' \in {"waiting", "flushing"} /\ batch' = batch \cup {generated'}
    BY <1>5 DEF Queue, AfterEvent, Return
  <2> QED BY <1>2, <2>1, <2>2 DEF Pending
<1>6. CASE GenerateOversized
  <2>1. /\ sender = "waiting" /\ Generate /\ UNCHANGED wire /\ handed' = handed \cup {generated'}
        /\ batch = {} /\ sender' = "oversize"
    BY <1>6, OversizedAlone DEF GenerateOversized, Generate
  <2> QED BY <1>2, <2>1 DEF Pending
<1>7. CASE BatchWritten
  BY <1>4, <1>7 DEF BatchWritten, Pending
<1>8. CASE BatchFails \/ OversizedFails \/ SenderInterrupted \/ ReaderWins
  BY <1>3, <1>8 DEF BatchFails, OversizedFails, SenderInterrupted, ReaderWins, Return
<1>9. CASE OversizedWritten
  <2>1. sender' \in {"waiting", "gone"} /\ batch' = {} /\ sender = "oversize"
    BY <1>1, <1>9 DEF OversizedWritten, AfterEvent, Return
  <2>2. Pending' = {} /\ Pending = {generated}
    BY <2>1 DEF Pending
  <2> QED BY <1>4, <1>9, <2>1, <2>2 DEF OversizedWritten
<1>10. CASE Record
  <2>1. AfterEvent({}) /\ UNCHANGED handed
    BY <1>10, RecordsLast
  <2>2. sender' \in {"waiting", "gone"} /\ batch' = {} /\ sender = "recording"
    BY <1>10, <2>1 DEF Record, AfterEvent, Return
  <2>3. Pending' = {} /\ Pending = {}
    BY <2>2 DEF Pending
  <2> QED BY <1>4, <1>10, <2>1, <2>2, <2>3 DEF Record
<1>11. CASE ReaderEnds \/ Interrupt
  BY <1>11 DEF ReaderEnds, Interrupt, senderVars, Pending
<1>12. CASE Reconnect
  <2>1. /\ UNCHANGED <<generated, handed, wire>> /\ eventCount' = 0 /\ batch' = {}
        /\ sender' \in {"waiting", "gone"}
    BY <1>1, <1>12 DEF Reconnect, Open
  <2>2. Pending' = {} /\ \A d \in handed' : ~Current(d)'
    BY <1>1, <2>1 DEF Pending
  <2> QED BY <2>1, <2>2
<1> QED BY <1>5, <1>6, <1>7, <1>8, <1>9, <1>10, <1>11, <1>12 DEF Step, Write

\* A connection's events reach the wire in their order and without a gap
\* (scenarios.rs:661-776): after a write that fails or is dropped in the middle, nothing
\* else is written on that connection.
THEOREM NoGapInAStream == Safety => []StreamUnbroken
<1>1. Init => UnbrokenInv
  BY DEF Init, UnbrokenInv, StreamUnbroken, Pending
<1>2. StreamInv /\ UnbrokenInv /\ [Next]_vars => UnbrokenInv'
  <2> SUFFICES ASSUME StreamInv, UnbrokenInv, [Next]_vars PROVE UnbrokenInv'
    OBVIOUS
  <2>1. CASE Step /\ UNCHANGED setup
    BY <2>1, StepUnbroken
  <2>2. CASE UNCHANGED vars
    BY <2>2 DEF vars, senderVars, UnbrokenInv, StreamUnbroken, Current, Pending
  <2> QED BY <2>1, <2>2 DEF Next, Terminated
<1>3. UnbrokenInv => StreamUnbroken
  BY DEF UnbrokenInv
<1> QED BY <1>1, <1>2, <1>3, InitTyped, NextTyped, PTL DEF Safety
-----------------------------------------------------------------------------
(***************************************************************************)
(* Invalid events. event_count restarts with each connection, so that the  *)
(* bound is kept per connection: those of earlier ones, and of this one.   *)
(***************************************************************************)
InvalidTally ==
  /\ Cardinality(handed \ valid) <= InvalidEvents * (sessions - 1) + eventCount
  /\ InvalidPerSession

LEMMA Multiples ==
  ASSUME NEW i \in Nat, NEW s \in Nat
  PROVE  i * s \in Nat /\ i * (s - 1) = i * s - i /\ i * (s + 1) = i * s + i
OBVIOUS

LEMMA NextTallied == StreamInv /\ InvalidTally /\ [Next]_vars => InvalidTally'
<1> SUFFICES ASSUME StreamInv, InvalidTally, [Next]_vars PROVE InvalidTally'
  OBVIOUS
<1> USE DEF InvalidTally, InvalidPerSession
<1>1. /\ SetupTyped /\ sessions \in Nat \ {0} /\ eventCount \in Nat /\ generated \in Nat
      /\ handed \in SUBSET (1..generated) /\ (handed \ valid) \in SUBSET (1..generated)
      /\ valid \in SUBSET (1..generated)
  BY SetupsTyped, SessionAssumption DEF StreamInv, TypeOK
<1> DEFINE before == Cardinality(handed \ valid)
           most   == InvalidEvents * sessions
<1>2. /\ before \in Nat /\ most \in Nat /\ InvalidEvents \in Nat
      /\ InvalidEvents * (sessions - 1) = most - InvalidEvents
      /\ InvalidEvents * (sessions + 1) = most + InvalidEvents
  <2>1. before \in Nat
    BY <1>1, EventSets
  <2>2. InvalidEvents \in Nat
    BY <1>1 DEF SetupTyped
  <2> QED BY <1>1, <2>1, <2>2, Multiples
<1> HIDE DEF most
<1>3. CASE Generate /\ IsInvalid /\ UNCHANGED <<setup, sessions, valid>>
           /\ handed' = handed \cup {generated'}
  <2>1. handed' \ valid' = (handed \ valid) \cup {generated + 1}
    BY <1>1, <1>3 DEF Generate
  <2>2. Cardinality(handed' \ valid') = before + 1
    BY <1>1, <2>1, EventSets
  <2>3. InvalidEvents' = InvalidEvents
    BY <1>3 DEF InvalidEvents
  <2> QED BY <1>1, <1>2, <1>3, <2>2, <2>3 DEF Generate, IsInvalid, most
<1>4. CASE Generate /\ UNCHANGED <<setup, sessions>>
           /\ valid' = valid \cup {generated'} /\ handed' = handed \cup {generated'}
  <2>1. handed' \ valid' = handed \ valid
    BY <1>1, <1>4 DEF Generate
  <2>2. InvalidEvents' = InvalidEvents
    BY <1>4 DEF InvalidEvents
  <2>3. /\ Cardinality(handed' \ valid') = before
        /\ InvalidEvents' * (sessions' - 1) = most - InvalidEvents
        /\ InvalidEvents' * sessions' = most
        /\ before <= most - InvalidEvents + eventCount /\ before <= most
    BY <1>2, <1>4, <2>1, <2>2 DEF most
  <2>4. eventCount' = eventCount + 1
    BY <1>4 DEF Generate
  <2> QED BY <1>1, <1>2, <2>3, <2>4
<1>5. CASE Queue /\ UNCHANGED setup
  BY <1>3, <1>4, <1>5 DEF Queue
<1>6. CASE GenerateOversized /\ UNCHANGED setup
  BY <1>3, <1>6, OversizedAlone DEF GenerateOversized
<1>7. CASE Reconnect /\ UNCHANGED setup
  <2>1. /\ handed' \ valid' = handed \ valid
        /\ sessions' - 1 = sessions /\ sessions' = sessions + 1 /\ eventCount' = 0
    BY <1>1, <1>7 DEF Reconnect
  <2>2. InvalidEvents' = InvalidEvents
    BY <1>7 DEF InvalidEvents
  <2>3. before <= most /\ InvalidEvents' * (sessions' - 1) = most
        /\ InvalidEvents' * sessions' = most + InvalidEvents
    BY <1>2, <2>1, <2>2 DEF most
  <2>4. Cardinality(handed' \ valid') = before
    BY <2>1
  <2> QED BY <1>2, <2>1, <2>3, <2>4
<1>8. CASE UNCHANGED <<setup, handed, valid, sessions, eventCount>>
  BY <1>8 DEF InvalidEvents
<1>9. CASE Write \/ Record \/ SenderInterrupted \/ ReaderEnds \/ ReaderWins \/ Interrupt
  <2> HIDE DEF InvalidTally
  <2>3. Record => UNCHANGED handed
    BY RecordsLast
  <2>1. UNCHANGED <<handed, valid, sessions, eventCount>>
    BY <1>9, <2>3 DEF Write, BatchWritten, BatchFails, OversizedWritten, OversizedFails, Record,
        SenderInterrupted, ReaderEnds, ReaderWins, Interrupt, senderVars
  <2>2. UNCHANGED setup
    BY DEF Next, Terminated, vars
  <2> QED BY <1>8, <2>1, <2>2
<1>10. CASE UNCHANGED vars
  BY <1>8, <1>10 DEF vars, senderVars
<1> QED BY <1>5, <1>6, <1>7, <1>9, <1>10 DEF Next, Step, Terminated

\* A participant hands out at most max_events invalid events per connection
\* (scenarios.rs:819), over any number of connections and however they end.
THEOREM InvalidsAreBounded == Safety => []InvalidPerSession
<1>1. Init => InvalidTally
  <2> SUFFICES ASSUME Init PROVE InvalidTally
    OBVIOUS
  <2>1. handed \ valid = {} /\ sessions = 1 /\ eventCount = 0 /\ InvalidEvents \in Nat
    BY SetupsTyped DEF Init, SetupTyped
  <2> QED BY <2>1, FS_EmptySet DEF InvalidTally, InvalidPerSession
<1>2. InvalidTally => InvalidPerSession
  BY DEF InvalidTally
<1> QED BY <1>1, <1>2, InitTyped, NextTyped, NextTallied, PTL DEF Safety
-----------------------------------------------------------------------------
(***************************************************************************)
(* Counting. Every step but one counts, or keeps in hand, just the events  *)
(* it hands out; a reader that wins lets some go. It never wins over a     *)
(* sender that has no reader.                                              *)
(***************************************************************************)
Unread == Role = "send_only" => reader = "none"

Balance == sent + dropped + InHand

\* A step that is balanced, or that only lets go, keeps the count.
LEMMA Balanced ==
  ASSUME NothingCountedTwice, Unread', UNCHANGED setup,
         NEW d \in Nat, Balance \in Nat, Cardinality(handed) \in Nat,
         Cardinality(handed') = Cardinality(handed) + d,
         Balance' \in Nat,
         \/ Balance' = Balance + d
         \/ Balance' <= Balance + d /\ Role # "send_only"
  PROVE  NothingCountedTwice'
<1>1. Role' = Role
  BY DEF Role
<1> QED BY <1>1 DEF NothingCountedTwice, EventsAccounted, Balance

LEMMA QueueCounted ==
  ASSUME StreamInv, NothingCountedTwice, Unread, Queue, UNCHANGED setup
  PROVE  NothingCountedTwice' /\ Unread'
<1>1. /\ sender = "waiting" /\ sent \in Nat /\ dropped \in Nat /\ generated \in Nat
      /\ batch \in SUBSET (1..generated) /\ handed \in SUBSET (1..generated)
  BY SessionAssumption DEF StreamInv, TypeOK, Queue, Generate
<1> DEFINE queued == batch \cup {generated'}
           b      == Cardinality(batch)
<1>2. /\ b \in Nat /\ Cardinality(handed) \in Nat
      /\ Cardinality(queued) = b + 1
      /\ Cardinality(handed') = Cardinality(handed) + 1
      /\ sent' = sent
  <2>1. generated' = generated + 1 /\ handed' = handed \cup {generated'} /\ sent' = sent
    BY DEF Queue, Generate
  <2> QED BY <1>1, <2>1, EventSets
<1>3. Balance = sent + dropped + b
  BY <1>1, <1>2 DEF Balance, InHand
<1>4. CASE LocalDrop(Cardinality(queued)) /\ \E r \in {"ok", "participant_task_failed"} : Return(r)
  <2>1. Balance' = sent + (dropped + (b + 1)) /\ Unread'
    BY <1>1, <1>2, <1>4 DEF Balance, InHand, LocalDrop, Return, Unread
  <2> QED BY <1>1, <1>2, <1>3, <2>1, Balanced
<1>5. CASE sender' \in {"waiting", "flushing"} /\ batch' = queued /\ UNCHANGED <<reader, dropped>>
  <2>1. Balance' = sent + dropped + (b + 1) /\ Unread'
    BY <1>1, <1>2, <1>5 DEF Balance, InHand, Unread, Role
  <2> QED BY <1>1, <1>2, <1>3, <2>1, Balanced
<1>6. CASE AfterEvent(queued)
  <2>1. CASE LocalDrop(Cardinality(queued)) /\ Return("ok")
    BY <1>4, <2>1
  <2>2. CASE sender' = "waiting" /\ batch' = queued /\ UNCHANGED <<reader, outcome, dropped>>
    BY <1>5, <2>2
  <2> QED BY <1>6, <2>1, <2>2 DEF AfterEvent
<1> QED BY <1>2, <1>4, <1>5, <1>6 DEF Queue

LEMMA StepCounted ==
  ASSUME StreamInv, NothingCountedTwice, Unread, Step, UNCHANGED setup
  PROVE  NothingCountedTwice' /\ Unread'
<1> DEFINE b == Cardinality(batch)
<1>1. /\ sent \in Nat /\ dropped \in Nat /\ generated \in Nat
      /\ handed \in SUBSET (1..generated) /\ batch \in SUBSET (1..generated)
      /\ sender = "oversize" => batch = {}
      /\ ~Open => batch = {} /\ sender = "gone"
      /\ sender # "gone" => Open
  BY SessionAssumption DEF StreamInv, TypeOK, Underway, SenderStages
<1>2. b \in Nat /\ Cardinality(handed) \in Nat /\ Cardinality({}) = 0
  BY <1>1, EventSets, FS_EmptySet
<1>3. Balance \in Nat
  BY <1>1, <1>2 DEF Balance, InHand
<1>4. CASE Queue
  BY <1>4, QueueCounted
<1>5. CASE /\ UNCHANGED handed
           /\ Balance' = Balance
           /\ Unread'
  BY <1>2, <1>3, <1>5, Balanced
<1>6. CASE GenerateOversized
  <2>2. batch = {} /\ sender' = "oversize" /\ handed' = handed \cup {generated'} /\ Generate
    BY <1>6, OversizedAlone
  <2>1. Cardinality(handed') = Cardinality(handed) + 1
    BY <1>1, <2>2, EventSets DEF Generate
  <2>3. Balance' = Balance + 1 /\ Unread'
    BY <1>1, <1>2, <1>6, <2>2
    DEF GenerateOversized, Generate, Balance, InHand, countVars, Unread, Role
  <2> QED BY <1>2, <1>3, <2>1, <2>3, Balanced
<1>7. CASE BatchWritten
  <2>1. UNCHANGED handed /\ Balance' = Balance /\ Unread'
    BY <1>1, <1>2, <1>7 DEF BatchWritten, Balance, InHand, Unread, Role
  <2> QED BY <1>5, <2>1
<1>8. CASE BatchFails
  <2>1. UNCHANGED handed /\ Balance' = Balance /\ Unread'
    BY <1>1, <1>2, <1>8 DEF BatchFails, Return, Balance, InHand, Unread
  <2> QED BY <1>5, <2>1
<1>9. CASE OversizedWritten
  <2>1. batch = {} /\ sender = "oversize" /\ handed' = handed /\ sent' = sent + 1
    BY <1>1, <1>9 DEF OversizedWritten
  <2>2. Balance = sent + dropped + 1
    BY <1>1, <1>2, <2>1 DEF Balance, InHand
  <2>3. batch' = {} /\ dropped' = dropped /\ sender' \in {"waiting", "gone"} /\ Unread'
    BY <1>1, <1>2, <1>9, <2>1 DEF OversizedWritten, AfterEvent, Return, LocalDrop, Unread, Role
  <2>4. Balance' = sent + 1 + dropped
    BY <1>1, <1>2, <2>1, <2>3 DEF Balance, InHand
  <2> QED BY <1>1, <1>5, <2>1, <2>2, <2>3, <2>4
<1>10. CASE OversizedFails
  <2>1. UNCHANGED handed /\ Balance' = Balance /\ Unread'
    BY <1>1, <1>2, <1>10 DEF OversizedFails, Return, Balance, InHand, Unread
  <2> QED BY <1>5, <2>1
<1>11. CASE Record
  <2>3. AfterEvent({}) /\ UNCHANGED handed
    BY <1>11, RecordsLast
  <2>1. /\ sender = "recording" /\ UNCHANGED <<handed, sent, dropped>> /\ Unread'
        /\ sender' \in {"waiting", "gone"} /\ batch' = {}
    BY <1>1, <1>2, <1>11, <2>3 DEF Record, AfterEvent, Return, LocalDrop, Unread, Role
  <2>2. Balance' = Balance
    BY <1>1, <1>2, <2>1 DEF Balance, InHand
  <2> QED BY <1>5, <2>1, <2>2
<1>12. CASE SenderInterrupted
  <2>1. UNCHANGED handed /\ Balance' = Balance /\ Unread'
    BY <1>1, <1>2, <1>12 DEF SenderInterrupted, Return, LocalDrop, Balance, InHand, Unread
  <2> QED BY <1>5, <2>1
<1>13. CASE ReaderEnds \/ Interrupt
  <2>1. UNCHANGED handed /\ Balance' = Balance /\ Unread'
    BY <1>13 DEF ReaderEnds, Interrupt, senderVars, countVars, Balance, InHand, Unread, Role
  <2> QED BY <1>5, <2>1
<1>14. CASE ReaderWins
  <2>1. Role # "send_only" /\ Unread' /\ handed' = handed
    BY <1>14 DEF ReaderWins, Unread, ReadErrors
  <2>2. Balance' = sent + dropped /\ sent + dropped <= Balance
    BY <1>1, <1>2, <1>14 DEF ReaderWins, countVars, Balance, InHand
  <2>3. Cardinality(handed') = Cardinality(handed) + 0
    BY <1>2, <2>1
  <2> QED BY <1>1, <1>2, <1>3, <2>1, <2>2, <2>3, Balanced
<1>15. CASE Reconnect
  <2>1. UNCHANGED handed /\ Balance' = Balance /\ Unread'
    BY <1>1, <1>2, <1>15 DEF Reconnect, Open, countVars, Balance, InHand, Unread, Role
  <2> QED BY <1>5, <2>1
<1> QED BY <1>4, <1>6, <1>7, <1>8, <1>9, <1>10, <1>11, <1>12, <1>13, <1>14, <1>15 DEF Step, Write

\* No event is counted twice, by whichever two of the paths that write or give up a
\* batch (scenarios.rs:571-776), and a participant without a reader counts every one.
THEOREM CountedOnce == Safety => []NothingCountedTwice
<1>1. Init => NothingCountedTwice /\ Unread
  <2> SUFFICES ASSUME Init PROVE NothingCountedTwice /\ Unread
    OBVIOUS
  <2> QED BY FS_EmptySet DEF Init, NothingCountedTwice, EventsAccounted, InHand, Unread
<1>2. StreamInv /\ NothingCountedTwice /\ Unread /\ [Next]_vars => NothingCountedTwice' /\ Unread'
  <2> SUFFICES ASSUME StreamInv, NothingCountedTwice, Unread, [Next]_vars
               PROVE  NothingCountedTwice' /\ Unread'
    OBVIOUS
  <2>1. CASE Step /\ UNCHANGED setup
    BY <2>1, StepCounted
  <2>2. CASE UNCHANGED vars
    BY <2>2 DEF vars, senderVars, countVars, NothingCountedTwice, EventsAccounted, InHand, Unread, Role
  <2> QED BY <2>1, <2>2 DEF Next, Terminated
<1> QED BY <1>1, <1>2, InitTyped, NextTyped, PTL DEF Safety
-----------------------------------------------------------------------------
(***************************************************************************)
(* The contract. A reader returns well only if the run was interrupted; a  *)
(* sender also if the configuration lets it quit.                          *)
(***************************************************************************)
ReaderObeys == reader = "ok" => interrupted

MayQuit == AbruptAfter > 0

Ends(r) ==
  /\ Open /\ ~Open' /\ outcome' = r /\ UNCHANGED interrupted

LEMMA EndKeepsContract ==
  ASSUME UNCHANGED setup,
         NEW r \in ReadErrors \cup SendErrors \cup IF interrupted \/ MayQuit THEN {"ok"} ELSE {},
         Ends(r)
  PROVE  Contract!Next
BY DEF Ends, MayQuit, AbruptAfter, Contract!Next, Contract!End

LEMMA StepKeepsContract ==
  ASSUME StreamInv, ReaderObeys, Step, UNCHANGED setup
  PROVE  ReaderObeys' /\ [Contract!Next]_(Contract!vars)
<1> USE DEF ReaderObeys, ReadErrors, SendErrors
<1>1. sender # "gone" => Open
  BY DEF StreamInv, Underway
<1>2. CASE UNCHANGED <<outcome, interrupted>> /\ ReaderObeys'
  BY <1>2 DEF Contract!vars, Open, AbruptAfter
<1>3. ASSUME NEW r \in SendErrors \cup IF interrupted \/ MayQuit THEN {"ok"} ELSE {},
             sender # "gone", Return(r), UNCHANGED interrupted
      PROVE  ReaderObeys' /\ [Contract!Next]_(Contract!vars)
  <2>1. Ends(r) /\ ReaderObeys'
    BY <1>1, <1>3 DEF Return, Ends, Open
  <2>2. r \in ReadErrors \cup SendErrors \cup IF interrupted \/ MayQuit THEN {"ok"} ELSE {}
    BY <1>3
  <2>3. Contract!Next
    BY <2>1, <2>2, EndKeepsContract
  <2> QED BY <2>1, <2>3
<1>4. \/ UNCHANGED <<reader, outcome>>
      \/ \E r \in SendErrors \cup IF MayQuit THEN {"ok"} ELSE {} : sender # "gone" /\ Return(r)
      \/ SenderInterrupted \/ ReaderEnds \/ ReaderWins \/ Reconnect
  <2>1. CASE Queue
    BY <2>1 DEF Queue, Generate, AfterEvent, MayQuit
  <2>2. CASE GenerateOversized
    BY <2>2 DEF GenerateOversized
  <2>3. CASE Write
    BY <2>3 DEF Write, BatchWritten, BatchFails, OversizedWritten, OversizedFails, AfterEvent, MayQuit
  <2>4. CASE Record
    BY <2>4, RecordsLast DEF Record, AfterEvent, MayQuit
  <2>5. CASE Interrupt
    BY <2>5 DEF Interrupt
  <2> QED BY <2>1, <2>2, <2>3, <2>4, <2>5 DEF Step
<1>5. CASE SenderInterrupted
  <2>1. /\ interrupted /\ "ok" \in SendErrors \cup IF interrupted \/ MayQuit THEN {"ok"} ELSE {}
        /\ sender # "gone" /\ Return("ok") /\ UNCHANGED interrupted
    BY <1>5 DEF SenderInterrupted
  <2> QED BY <1>3, <2>1
<1>6. CASE ReaderEnds
  BY <1>2, <1>6 DEF ReaderEnds
<1>7. CASE ReaderWins
  <2>1. Ends(reader) /\ ReaderObeys'
    BY <1>7 DEF ReaderWins, Ends, Open, countVars
  <2>2. reader \in ReadErrors \cup SendErrors \cup IF interrupted \/ MayQuit THEN {"ok"} ELSE {}
    BY <1>7 DEF ReaderWins
  <2>3. Contract!Next
    BY <2>1, <2>2, EndKeepsContract
  <2> QED BY <2>1, <2>3
<1>8. CASE Reconnect
  BY <1>8 DEF Reconnect, Contract!Next, Contract!Open, Open, AbruptAfter
<1>9. CASE Interrupt
  BY <1>9 DEF Interrupt, Contract!Next, Contract!Interrupt, Open, AbruptAfter
<1>10. CASE UNCHANGED <<reader, outcome, interrupted>>
  BY <1>2, <1>10
<1>11. CASE ~Interrupt /\ ~Reconnect
  <2>1. UNCHANGED interrupted
    BY <1>11 DEF Step, Queue, GenerateOversized, Write, BatchWritten, BatchFails, OversizedWritten,
                 OversizedFails, Record, SenderInterrupted, ReaderEnds, ReaderWins
  <2> QED BY <1>3, <1>4, <1>5, <1>6, <1>7, <1>10, <1>11, <2>1
<1> QED BY <1>8, <1>9, <1>11

\* The safety half of ImplementsContract, which Scenario relies on: a session that was
\* not interrupted, and may not quit, ends with a failure, and stays ended until the
\* next connection (scenarios.rs:497-587).
THEOREM SessionKeepsContract == Safety => Contract!Safety
<1>1. Init => Contract!Init /\ ReaderObeys
  <2> SUFFICES ASSUME Init PROVE Contract!Init /\ ReaderObeys
    OBVIOUS
  <2>1. AbruptAfter \in Nat
    BY SetupsTyped DEF Init, SetupTyped
  <2> QED BY <2>1 DEF Init, Contract!Init, ReaderObeys, ReadErrors, Open
<1>2. StreamInv /\ ReaderObeys /\ [Next]_vars => ReaderObeys' /\ [Contract!Next]_(Contract!vars)
  <2> SUFFICES ASSUME StreamInv, ReaderObeys, [Next]_vars
               PROVE  ReaderObeys' /\ [Contract!Next]_(Contract!vars)
    OBVIOUS
  <2>1. CASE Step /\ UNCHANGED setup
    BY <2>1, StepKeepsContract
  <2>2. CASE UNCHANGED vars
    BY <2>2 DEF vars, ReaderObeys, Contract!vars, Open, AbruptAfter
  <2> QED BY <2>1, <2>2 DEF Next, Terminated
<1> QED BY <1>1, <1>2, InitTyped, NextTyped, PTL DEF Safety, Contract!Safety
===============================================================================
