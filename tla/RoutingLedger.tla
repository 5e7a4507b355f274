----------------------------- MODULE RoutingLedger -----------------------------
(***************************************************************************)
(* scenarios.rs: what becomes of an event's correlation. The sender stamps *)
(* an event when it queues it and enters it in ledger.sent after the batch *)
(* was written; the server, whose routing is unknown, may deliver it any   *)
(* number of times to any receiver, also before that; a receiver counts an *)
(* event when it decodes it and enters it in ledger.seen when it has the   *)
(* ledger's lock. The assertions are evaluated when all tasks have joined. *)
(*                                                                         *)
(* Session models the batches; here they matter only as the events that    *)
(* are written, and then recorded, together.                               *)
(***************************************************************************)
EXTENDS Naturals, FiniteSets

CONSTANTS
    Senders, Receivers,     \* participants; one that does both is in each
    Events,                 \* the events generated in the run
    SenderOf,               \* the sender of each
    Timeout,                \* RoutingAssertion.timeout
    None,
    MaxClock,               \* bound on the time that passes
    MaxReceived             \* bound on the events decoded

ASSUME RoutingAssumption ==
    /\ SenderOf \in [Events -> Senders]
    /\ None \notin Events
    /\ {Timeout, MaxClock, MaxReceived} \subseteq Nat

VARIABLES
    clock,
    place,          \* where each event is on its sender's side
    stamp,          \* the Instant it was queued at
    wire,           \* events the server has received whole
    sending,        \* senders whose task has not ended
    reading,        \* receivers whose task has not ended
    holding,        \* the event a reader has decoded, on its way to the ledger's lock
    sent,           \* CorrelationLedger.sent
    seen,           \* CorrelationLedger.seen, by <<receiver, event>>
    received,       \* metrics.received_messages
    duplicates,     \* metrics.duplicate_messages
    latencies,      \* record_delivery calls for each <<receiver, event>>
    verdicts        \* None, then the pairs whose assertion passed

\* What happened, for the properties: how many copies of an event a receiver has decoded,
\* less those with which its reader was aborted at the ledger's lock, and how many it has
\* looked up; which pairs were first looked up in time, ever too late, and first looked
\* up before the event was recorded, or by a reader that was aborted over it.
VARIABLES taken, looks, prompt, late, excused

lookHistory == <<looks, prompt, late, excused>>
history     == <<taken, lookHistory>>
senderVars == <<place, stamp, wire, sending, sent>>
readerVars == <<reading, holding, seen, received, duplicates, latencies>>
vars       == <<clock, senderVars, readerVars, verdicts, history>>

Pairs == Receivers \X Events

Of(s) == {e \in Events : SenderOf[e] = s}

At(s, p) == {e \in Of(s) : place[e] = p}

Init ==
    /\ clock = 0
    /\ place = [e \in Events |-> "new"]
    /\ stamp = [e \in Events |-> 0]
    /\ wire = {} /\ sent = {} /\ seen = << >>
    /\ sending = Senders /\ reading = Receivers
    /\ holding = [r \in Receivers |-> None]
    /\ received = 0 /\ duplicates = 0
    /\ latencies = [p \in Pairs |-> 0]
    /\ verdicts = None
    /\ taken = [p \in Pairs |-> 0] /\ looks = [p \in Pairs |-> 0]
    /\ prompt = {} /\ late = {} /\ excused = {}

Tick ==
    /\ clock < MaxClock /\ clock' = clock + 1
    /\ UNCHANGED <<senderVars, readerVars, verdicts, history>>

-----------------------------------------------------------------------------
(* send_positions and flush_batch. *)

\* batch.correlations.push((correlation, Instant::now()))
Queue(s) ==
    /\ s \in sending /\ At(s, "written") = {}
    /\ \E e \in At(s, "new") :
        /\ place' = [place EXCEPT ![e] = "queued"]
        /\ stamp' = [stamp EXCEPT ![e] = clock]
    /\ UNCHANGED <<clock, wire, sending, sent, readerVars, verdicts, history>>

MoveAll(from, to) == place' = [e \in Events |-> IF e \in from THEN to ELSE place[e]]

Write(s) ==
    /\ s \in sending /\ At(s, "queued") # {}
    /\ MoveAll(At(s, "queued"), "written")
    /\ wire' = wire \cup At(s, "queued")
    /\ UNCHANGED <<clock, stamp, sending, sent, readerVars, verdicts, history>>

\* ledger.sent.insert, for the whole batch under one lock.
Record(s) ==
    /\ s \in sending /\ At(s, "written") # {}
    /\ MoveAll(At(s, "written"), "recorded")
    /\ sent' = sent \cup At(s, "written")
    /\ UNCHANGED <<clock, stamp, wire, sending, readerVars, verdicts, history>>

\* The write fails, or the sender is dropped before it or between it and the lock;
\* some of the batch may be on the wire. The task ends, or connects anew.
Drop(s) ==
    /\ s \in sending
    /\ MoveAll(At(s, "queued") \cup At(s, "written"), "lost")
    /\ \E part \in SUBSET At(s, "queued") : wire' = wire \cup part
    /\ sending' \in {sending, sending \ {s}}
    /\ UNCHANGED <<clock, stamp, sent, readerVars, verdicts, history>>

-----------------------------------------------------------------------------
(* read_events. *)

\* inspect_event: the event is counted; only one whose correlation the server
\* preserved goes on to the ledger.
Decode(r) ==
    /\ r \in reading /\ holding[r] = None /\ received < MaxReceived
    /\ \E e \in wire :
        \/ /\ holding' = [holding EXCEPT ![r] = e]
           /\ taken' = [taken EXCEPT ![<<r, e>>] = @ + 1]
        \/ UNCHANGED <<holding, taken>>
    /\ received' = received + 1
    /\ UNCHANGED <<clock, senderVars, reading, seen, duplicates, latencies,
                   verdicts, lookHistory>>

\* ledger.seen.insert(key, Instant::now())
Insert(keys) == [k \in DOMAIN seen \cup keys |-> IF k \in keys THEN clock ELSE seen[k]]

Witness(p, aborted) ==
    LET inTime == clock - stamp[p[2]] <= Timeout
        first  == looks[p] = 0
    IN  /\ UNCHANGED taken
        /\ looks' = [looks EXCEPT ![p] = @ + 1]
        /\ prompt' = prompt \cup {q \in {p} : first /\ inTime}
        /\ late' = late \cup {q \in {p} : ~inTime}
        /\ excused' = excused \cup {q \in {p} : first /\ (aborted \/ p[2] \notin sent)}

\* (slip: an event nobody is known to have sent is not entered)
LookIfSent(r) ==
    /\ holding[r] # None
    /\ holding' = [holding EXCEPT ![r] = None]
    /\ LET p == <<r, holding[r]>> IN
        /\ Witness(p, FALSE)
        /\ seen' = IF p[2] \in sent THEN Insert({p}) ELSE seen
        /\ duplicates' = duplicates + IF p \in DOMAIN seen THEN 1 ELSE 0
        /\ latencies' = [latencies EXCEPT ![p] = @ + IF p \notin DOMAIN seen /\ p[2] \in sent
                                                    THEN 1 ELSE 0]
    /\ UNCHANGED <<clock, senderVars, reading, received, verdicts>>

\* (slip: seen has one entry per event, whoever received it)
LookAnyReceiver(r) ==
    /\ holding[r] # None
    /\ holding' = [holding EXCEPT ![r] = None]
    /\ LET p == <<r, holding[r]>> IN
        /\ Witness(p, FALSE)
        /\ seen' = Insert(Receivers \X {p[2]})
        /\ duplicates' = duplicates + IF p \in DOMAIN seen THEN 1 ELSE 0
        /\ latencies' = [latencies EXCEPT ![p] = @ + IF p \notin DOMAIN seen /\ p[2] \in sent
                                                    THEN 1 ELSE 0]
    /\ UNCHANGED <<clock, senderVars, reading, received, verdicts>>

\* (slip: a duplicate is measured too)
LookAlwaysMeasures(r) ==
    /\ holding[r] # None
    /\ holding' = [holding EXCEPT ![r] = None]
    /\ LET p == <<r, holding[r]>> IN
        /\ Witness(p, FALSE)
        /\ seen' = Insert({p})
        /\ duplicates' = duplicates + IF p \in DOMAIN seen THEN 1 ELSE 0
        /\ latencies' = [latencies EXCEPT ![p] = @ + IF p[2] \in sent THEN 1 ELSE 0]
    /\ UNCHANGED <<clock, senderVars, reading, received, verdicts>>

\* Under the lock: insert replaces the Instant of an earlier copy, which makes this
\* one a duplicate; a first copy is measured if its sending is recorded already.
Look(r) ==
    /\ holding[r] # None
    /\ holding' = [holding EXCEPT ![r] = None]
    /\ LET p == <<r, holding[r]>> IN
        /\ Witness(p, FALSE)
        /\ seen' = Insert({p})
        /\ duplicates' = duplicates + IF p \in DOMAIN seen THEN 1 ELSE 0
        /\ latencies' = [latencies EXCEPT ![p] = @ + IF p \notin DOMAIN seen /\ p[2] \in sent
                                                    THEN 1 ELSE 0]
    /\ UNCHANGED <<clock, senderVars, reading, received, verdicts>>

\* (slip: a reader that ends still has an event for the ledger)
QuitHolding(r) ==
    /\ r \in reading
    /\ reading' \in {reading, reading \ {r}}
    /\ UNCHANGED <<clock, senderVars, holding, seen, received, duplicates, latencies,
                   verdicts, history>>

\* Aborted while it waits for the delivery histogram, under the ledger's lock: the
\* event is entered, and will not be measured.
QuitMeasuring(r) ==
    /\ holding[r] # None
    /\ holding' = [holding EXCEPT ![r] = None]
    /\ reading' \in {reading, reading \ {r}}
    /\ LET p == <<r, holding[r]>> IN
        /\ p \notin DOMAIN seen /\ p[2] \in sent
        /\ Witness(p, TRUE)
        /\ seen' = Insert({p})
    /\ UNCHANGED <<clock, senderVars, received, duplicates, latencies, verdicts>>

\* It returns, or is aborted at the ledger's lock with its event, which is counted as
\* received and nowhere else. The task ends, or connects anew; ledger.seen is kept.
Quit(r) ==
    /\ r \in reading
    /\ holding' = [holding EXCEPT ![r] = None]
    /\ reading' \in {reading, reading \ {r}}
    /\ taken' = [p \in Pairs |-> IF p = <<r, holding[r]>> THEN taken[p] - 1 ELSE taken[p]]
    /\ UNCHANGED <<clock, senderVars, seen, received, duplicates, latencies,
                   verdicts, lookHistory>>

-----------------------------------------------------------------------------
(* evaluate_routing. *)

Recorded(s) == sent \cap Of(s)

\* Received: every recorded event was seen, and its entry is not too old.
Arrived(s, r) ==
    /\ Recorded(s) # {}
    /\ \A e \in Recorded(s) :
        <<r, e>> \in DOMAIN seen /\ seen[<<r, e>>] - stamp[e] <= Timeout

\* NotReceived: none was seen.
Absent(s, r) ==
    /\ Recorded(s) # {}
    /\ \A e \in Recorded(s) : <<r, e>> \notin DOMAIN seen

Judge == verdicts' = [arrived |-> {p \in Senders \X Receivers : Arrived(p[1], p[2])},
                      absent  |-> {p \in Senders \X Receivers : Absent(p[1], p[2])}]

\* (slip: the receivers are not waited for)
EvaluateEarly ==
    /\ sending = {} /\ verdicts = None
    /\ Judge
    /\ UNCHANGED <<clock, senderVars, readerVars, history>>

\* After the last task was joined.
Evaluate ==
    /\ sending = {} /\ reading = {} /\ verdicts = None
    /\ Judge
    /\ UNCHANGED <<clock, senderVars, readerVars, history>>

Evaluated == verdicts # None

Terminated == Evaluated /\ UNCHANGED vars

Next ==
    \/ Tick
    \/ \E s \in Senders : Queue(s) \/ Write(s) \/ Record(s) \/ Drop(s)
    \/ \E r \in Receivers : Decode(r) \/ Look(r) \/ Quit(r) \/ QuitMeasuring(r)
    \/ Evaluate
    \/ Terminated

Spec == Init /\ [][Next]_vars

-----------------------------------------------------------------------------
TypeOK ==
    /\ clock \in 0..MaxClock
    /\ place \in [Events -> {"new", "queued", "written", "recorded", "lost"}]
    /\ stamp \in [Events -> 0..clock]
    /\ sent \subseteq wire /\ wire \subseteq Events
    /\ sending \subseteq Senders /\ reading \subseteq Receivers
    /\ holding \in [Receivers -> wire \cup {None}]
    /\ \A r \in Receivers \ reading : holding[r] = None
    /\ DOMAIN seen \subseteq Pairs
    /\ taken \in [Pairs -> 0..received]
    /\ received \in 0..MaxReceived /\ duplicates \in 0..received
    /\ latencies \in [Pairs -> Nat]
    /\ Evaluated => sending = {} /\ reading = {}

\* A Received assertion that passes says the truth: the receiver had a first copy of
\* every event of this sender that was recorded, in time, and there was one.
PassMeansRouted ==
    Evaluated => \A p \in verdicts.arrived :
        /\ Recorded(p[1]) # {}
        /\ \A e \in Recorded(p[1]) : <<p[2], e>> \in prompt

\* The receiver has decoded no copy of the pair's event, other than copies with which its
\* reader was aborted at the ledger's lock.
Unseen(p) == taken[p] = 0

\* It fails only for a reason: nothing was recorded, an event was not decoded or only by
\* readers that were aborted before they had the ledger's lock, or a copy was looked up
\* too late. That a copy overtakes the sender's own recording, or that other receivers
\* and senders are busy meanwhile, is none.
RoutedMeansPass ==
    Evaluated => \A s \in Senders, r \in Receivers :
        \/ <<s, r>> \in verdicts.arrived
        \/ Recorded(s) = {}
        \/ \E e \in Recorded(s) : Unseen(<<r, e>>) \/ <<r, e>> \in late

\* A NotReceived assertion passes exactly if events were recorded and the receiver,
\* over all of its connections, decoded none of them, or only where its reader was
\* aborted before it had the ledger's lock: such a receipt goes unnoticed.
ForbiddenExact ==
    Evaluated => \A s \in Senders, r \in Receivers :
        <<s, r>> \in verdicts.absent <=>
            Recorded(s) # {} /\ \A e \in Recorded(s) : Unseen(<<r, e>>)

\* The copies of a pair's event that were looked up after the first, by their number.
FurtherCopies == {c \in Pairs \X (1..MaxReceived) : c[2] < looks[c[1]]}

\* What the report calls duplicates are further copies for the same receiver, of those
\* that were looked up, whatever other receivers have had; each is one of the events
\* received, and so is a copy that was given up at the lock. A delivery is measured
\* once, by its first copy, and stays without a latency only if that copy overtook the
\* recording of its event, or its reader was aborted over it.
DeliveriesExact ==
    /\ duplicates = Cardinality(FurtherCopies)
    /\ duplicates + Cardinality(DOMAIN seen) <= received
    /\ \A p \in Pairs : latencies[p] = IF looks[p] > 0 /\ p \notin excused THEN 1 ELSE 0
================================================================================
