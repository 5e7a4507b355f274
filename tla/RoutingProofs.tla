----------------------------- MODULE RoutingProofs -----------------------------
(***************************************************************************)
(* RoutingLedger, for every set of participants and events, any timeout    *)
(* and any routing by the server: what the assertions say is what happened *)
(* (RoutingInv, TakenInv), and the counters say how often (CountersInv).   *)
(***************************************************************************)
EXTENDS RoutingLedger, FiniteSetTheorems, TLAPS

Places == {"new", "queued", "written", "recorded", "lost"}

(***************************************************************************)
(* The types that the assertions depend on; those of the counters are not  *)
(* needed here, and follow below. A reader that ended holds no event, and  *)
(* an event is stamped before it is on the wire, after which its Instant   *)
(* does not change.                                                        *)
(***************************************************************************)
LedgerTyped ==
    /\ clock \in Nat
    /\ place \in [Events -> Places]
    /\ stamp \in [Events -> Nat]
    /\ sent \subseteq wire /\ wire \subseteq Events
    /\ \A e \in wire : place[e] # "new"
    /\ \A e \in Events : place[e] = "written" => e \in wire
    /\ holding \in [Receivers -> Events \cup {None}]
    /\ \A r \in Receivers : holding[r] # None => holding[r] \in wire /\ r \in reading
    /\ sending \subseteq Senders
    /\ DOMAIN seen \subseteq Pairs
    /\ looks \in [Pairs -> Nat]

(***************************************************************************)
(* What an entry of ledger.seen says. It has the Instant of the last copy, *)
(* which is not before that of the first: if the last was in time, so was  *)
(* the first, and if none was late, the last was not.                      *)
(***************************************************************************)
Truthful(p) ==
    /\ p \in DOMAIN seen <=> looks[p] > 0
    /\ p \in DOMAIN seen =>
        /\ seen[p] \in Nat /\ seen[p] <= clock
        /\ p[2] \in wire
        /\ seen[p] - stamp[p[2]] <= Timeout => p \in prompt
        /\ p \notin late => seen[p] - stamp[p[2]] <= Timeout

Verdict ==
    Evaluated =>
        /\ sending = {} /\ reading = {}
        /\ verdicts = [arrived |-> {p \in Senders \X Receivers : Arrived(p[1], p[2])},
                       absent  |-> {p \in Senders \X Receivers : Absent(p[1], p[2])}]

RoutingInv == LedgerTyped /\ (\A p \in Pairs : Truthful(p)) /\ Verdict

\* The verdicts speak of what the sending side and the ledger hold, no more.
LEMMA VerdictKept ==
  ASSUME RoutingInv, UNCHANGED <<sending, reading, sent, stamp, seen, verdicts>>
  PROVE  Verdict'
BY DEF RoutingInv, Verdict, Evaluated, Arrived, Absent, Recorded, Of

LEMMA TruthKept ==
  ASSUME RoutingInv, UNCHANGED <<seen, looks, prompt, late>>, clock' \in Nat, clock' >= clock,
         wire \subseteq wire', \A e \in wire : stamp'[e] = stamp[e]
  PROVE  \A p \in Pairs : Truthful(p)'
BY DEF RoutingInv, LedgerTyped, Truthful

-----------------------------------------------------------------------------
LEMMA SenderKeeps ==
  ASSUME RoutingInv, NEW s \in Senders, Queue(s) \/ Write(s) \/ Record(s) \/ Drop(s)
  PROVE  RoutingInv'
<1> USE RoutingAssumption
<1>1. s \in sending /\ ~Evaluated /\ UNCHANGED <<readerVars, verdicts, history, clock>>
  BY DEF RoutingInv, Verdict, Queue, Write, Record, Drop
<1>2. Verdict'
  BY <1>1 DEF Verdict, Evaluated
<1>3. LedgerTyped' /\ wire \subseteq wire' /\ \A e \in wire : stamp'[e] = stamp[e]
  <2> USE <1>1 DEF RoutingInv, LedgerTyped, readerVars, history, lookHistory, Places, At, Of
  <2>1. CASE Queue(s) BY <2>1 DEF Queue
  <2>2. CASE Write(s) BY <2>2 DEF Write, MoveAll
  <2>3. CASE Record(s) BY <2>3 DEF Record, MoveAll
  <2>4. CASE Drop(s) BY <2>4 DEF Drop, MoveAll
  <2> QED BY <2>1, <2>2, <2>3, <2>4
<1>4. \A p \in Pairs : Truthful(p)'
  BY <1>1, <1>3, TruthKept DEF readerVars, history, lookHistory, RoutingInv, LedgerTyped
<1> QED BY <1>2, <1>3, <1>4 DEF RoutingInv

\* An event is entered in the ledger, measured or not.
Enter(p) ==
    /\ \E aborted \in BOOLEAN : Witness(p, aborted)
    /\ seen' = Insert({p})

LEMMA EnterKeepsTruth ==
  ASSUME RoutingInv, NEW p \in Pairs, p[2] \in wire, Enter(p), UNCHANGED <<clock, wire, stamp>>
  PROVE  /\ \A q \in Pairs : Truthful(q)'
         /\ DOMAIN seen' \subseteq Pairs /\ looks' \in [Pairs -> Nat]
<1> DEFINE first == looks[p] = 0
           inTime == clock - stamp[p[2]] <= Timeout
<1>1. p[2] \in Events
  BY DEF RoutingInv, LedgerTyped
<1>2. /\ looks' = [looks EXCEPT ![p] = @ + 1]
      /\ prompt' = prompt \cup {q \in {p} : first /\ inTime}
      /\ late' = late \cup {q \in {p} : ~inTime}
  BY DEF Enter, Witness
<1>3. /\ DOMAIN seen' = DOMAIN seen \cup {p} /\ seen'[p] = clock
      /\ \A q \in DOMAIN seen : q # p => seen'[q] = seen[q]
  BY DEF Enter, Insert
<1>4. looks' \in [Pairs -> Nat] /\ looks'[p] > 0 /\ \A q \in Pairs : q # p => looks'[q] = looks[q]
  BY <1>1, <1>2 DEF RoutingInv, LedgerTyped
<1>5. clock \in Nat /\ stamp[p[2]] \in Nat /\ Timeout \in Nat
  BY <1>1, RoutingAssumption DEF RoutingInv, LedgerTyped
<1>6. Truthful(p)'
  <2>1. inTime => p \in prompt'
    <3>1. CASE first BY <1>2, <3>1
    <3>2. CASE ~first
      <4>1. p \in DOMAIN seen /\ seen[p] \in Nat /\ seen[p] <= clock
        BY <1>1, <3>2 DEF RoutingInv, LedgerTyped, Truthful
      <4>2. inTime => seen[p] - stamp[p[2]] <= Timeout
        BY <1>5, <4>1
      <4> QED BY <1>2, <4>1, <4>2 DEF RoutingInv, Truthful
    <3> QED BY <3>1, <3>2
  <2>2. p \notin late' => inTime
    BY <1>2
  <2> QED BY <1>1, <1>3, <1>4, <1>5, <2>1, <2>2 DEF Truthful
<1>7. ASSUME NEW q \in Pairs, q # p PROVE Truthful(q)'
  <2>1. (q \in prompt' <=> q \in prompt) /\ (q \in late' <=> q \in late)
    BY <1>2, <1>7
  <2>2. q \in DOMAIN seen' <=> q \in DOMAIN seen
    BY <1>3, <1>7
  <2> QED BY <1>3, <1>4, <1>7, <2>1, <2>2 DEF Truthful, RoutingInv
<1> QED BY <1>1, <1>3, <1>4, <1>6, <1>7 DEF RoutingInv, LedgerTyped

LEMMA ReaderKeeps ==
  ASSUME RoutingInv, NEW r \in Receivers, Decode(r) \/ Look(r) \/ Quit(r) \/ QuitMeasuring(r)
  PROVE  RoutingInv'
<1>1. UNCHANGED <<clock, senderVars, verdicts>>
  BY DEF Decode, Look, Quit, QuitMeasuring
<1>2. Verdict'
  <2>1. reading # {}
    BY DEF RoutingInv, LedgerTyped, Decode, Look, Quit, QuitMeasuring
  <2> QED BY <1>1, <2>1 DEF RoutingInv, Verdict, Evaluated
<1> USE <1>1 DEF senderVars, readerVars, history, lookHistory
<1>3. CASE Decode(r)
  <2>1. LedgerTyped'
    BY <1>3 DEF Decode, RoutingInv, LedgerTyped
  <2> QED BY <1>2, <1>3, <2>1, TruthKept DEF Decode, RoutingInv, LedgerTyped
<1>4. CASE Quit(r)
  <2>1. LedgerTyped'
    BY <1>4 DEF Quit, RoutingInv, LedgerTyped
  <2> QED BY <1>2, <1>4, <2>1, TruthKept DEF Quit, RoutingInv, LedgerTyped
<1>5. CASE Look(r) \/ QuitMeasuring(r)
  <2> DEFINE p == <<r, holding[r]>>
  <2>1. p \in Pairs /\ p[2] \in wire /\ Enter(p)
    BY <1>5 DEF Look, QuitMeasuring, Enter, Pairs, RoutingInv, LedgerTyped
  <2>2. holding' = [holding EXCEPT ![r] = None] /\ reading' \in {reading, reading \ {r}}
    BY <1>5 DEF Look, QuitMeasuring
  <2> HIDE DEF p
  <2>3. /\ \A q \in Pairs : Truthful(q)'
        /\ DOMAIN seen' \subseteq Pairs /\ looks' \in [Pairs -> Nat]
    BY <2>1, EnterKeepsTruth
  <2>4. LedgerTyped'
    BY <2>2, <2>3 DEF RoutingInv, LedgerTyped
  <2> QED BY <1>2, <2>3, <2>4 DEF RoutingInv
<1> QED BY <1>3, <1>4, <1>5

-----------------------------------------------------------------------------
LEMMA InitRouting == Init => RoutingInv
BY RoutingAssumption DEF Init, RoutingInv, LedgerTyped, Truthful, Verdict, Evaluated, Places, Pairs

LEMMA NextRouting == RoutingInv /\ [Next]_vars => RoutingInv'
<1> SUFFICES ASSUME RoutingInv, [Next]_vars PROVE RoutingInv'
  OBVIOUS
<1> USE DEF senderVars, readerVars, history, lookHistory
<1>1. ASSUME UNCHANGED <<senderVars, readerVars, history>>, clock' \in Nat, clock' >= clock, Verdict'
      PROVE  RoutingInv'
  <2>1. LedgerTyped'
    BY <1>1 DEF RoutingInv, LedgerTyped
  <2> QED BY <1>1, <2>1, TruthKept DEF RoutingInv
<1>2. CASE Tick
  <2>1. clock' \in Nat /\ clock' >= clock
    BY <1>2 DEF Tick, RoutingInv, LedgerTyped
  <2> QED BY <1>1, <1>2, <2>1, VerdictKept DEF Tick
<1>3. CASE Evaluate
  <2>1. Verdict'
    BY <1>3 DEF Evaluate, Judge, Verdict, Arrived, Absent, Recorded, Of
  <2> QED BY <1>1, <1>3, <2>1 DEF Evaluate, RoutingInv, LedgerTyped
<1>4. CASE UNCHANGED vars
  BY <1>1, <1>4, VerdictKept DEF vars, RoutingInv, LedgerTyped
<1> QED BY <1>2, <1>3, <1>4, SenderKeeps, ReaderKeeps DEF Next, Terminated

\* A Received assertion that passes says the truth (scenarios.rs:870-892): every
\* recorded event of the sender reached the receiver, its first copy in time, however
\* the server delays, repeats or reorders copies and whoever else is connected.
THEOREM PassIsTrue == Spec => []PassMeansRouted
<1>1. RoutingInv => PassMeansRouted
  <2> SUFFICES ASSUME RoutingInv, Evaluated, NEW q \in verdicts.arrived
               PROVE  /\ Recorded(q[1]) # {}
                      /\ \A e \in Recorded(q[1]) : <<q[2], e>> \in prompt
    BY DEF PassMeansRouted
  <2>1. q \in Senders \X Receivers /\ Arrived(q[1], q[2])
    BY DEF RoutingInv, Verdict
  <2>2. ASSUME NEW e \in Recorded(q[1]) PROVE <<q[2], e>> \in prompt
    <3>1. <<q[2], e>> \in Pairs
      BY <2>1 DEF Recorded, Of, Pairs
    <3> QED BY <2>1, <3>1 DEF Arrived, RoutingInv, Truthful
  <2> QED BY <2>1, <2>2 DEF Arrived
<1> QED BY <1>1, InitRouting, NextRouting, PTL DEF Spec

-----------------------------------------------------------------------------
(***************************************************************************)
(* What a receiver has taken in, it has looked up or still holds; when all *)
(* readers have ended, it has looked it up.                                *)
(***************************************************************************)
InHand(p) == IF holding[p[1]] = p[2] THEN 1 ELSE 0

TakenInv ==
    /\ taken \in [Pairs -> Nat]
    /\ \A p \in Pairs : taken[p] = looks[p] + InHand(p)

LEMMA PairOf ==
  ASSUME NEW p \in Pairs
  PROVE  p[1] \in Receivers /\ p[2] \in Events /\ p = <<p[1], p[2]>> /\ p[2] # None
BY RoutingAssumption DEF Pairs

LEMMA InitTaken == Init => TakenInv
<1> SUFFICES ASSUME Init PROVE TakenInv
  OBVIOUS
<1>1. ASSUME NEW p \in Pairs PROVE taken[p] = looks[p] + InHand(p)
  BY PairOf DEF Init, InHand
<1> QED BY <1>1 DEF TakenInv, Init

LEMMA ReaderTakes ==
  ASSUME RoutingInv, TakenInv, NEW r \in Receivers, Decode(r) \/ Look(r) \/ Quit(r) \/ QuitMeasuring(r)
  PROVE  TakenInv'
<1>1. /\ holding \in [Receivers -> Events \cup {None}] /\ looks \in [Pairs -> Nat]
      /\ wire \subseteq Events /\ taken \in [Pairs -> Nat]
  BY DEF RoutingInv, LedgerTyped, TakenInv
<1> DEFINE h == <<r, holding[r]>>
\* only the pair that the reader holds, or comes to hold, is concerned
<1>2. ASSUME NEW p \in Pairs, p[1] # r, UNCHANGED <<taken[p], looks[p]>>,
             \E x : holding' = [holding EXCEPT ![r] = x]
      PROVE  taken'[p] = looks'[p] + InHand(p)' /\ taken'[p] \in Nat
  BY <1>1, <1>2, PairOf DEF TakenInv, InHand
<1>3. CASE Decode(r)
  <2>1. looks' = looks /\ holding[r] = None
    BY <1>3 DEF Decode, lookHistory
  <2>2. CASE UNCHANGED <<holding, taken>>
    BY <1>1, <2>1, <2>2 DEF TakenInv, InHand
  <2>3. ASSUME NEW e \in wire, holding' = [holding EXCEPT ![r] = e],
               taken' = [taken EXCEPT ![<<r, e>>] = @ + 1]
        PROVE  TakenInv'
    <3>1. <<r, e>> \in Pairs /\ taken' \in [Pairs -> Nat]
      BY <1>1, <2>3 DEF Pairs
    <3>2. ASSUME NEW p \in Pairs PROVE taken'[p] = looks'[p] + InHand(p)'
      <4>1. CASE p = <<r, e>>
        <5>1. taken[p] = looks[p] /\ looks[p] \in Nat
          BY <1>1, <2>1, <4>1, PairOf DEF TakenInv, InHand
        <5> QED BY <1>1, <2>1, <2>3, <4>1, <5>1 DEF InHand
      <4>2. CASE p # <<r, e>>
        <5>1. taken'[p] = taken[p] /\ looks'[p] = looks[p]
          BY <1>1, <2>1, <2>3, <4>2
        <5>2. CASE p[1] = r
          <6>1. holding[p[1]] # p[2] /\ holding'[p[1]] # p[2]
            BY <1>1, <2>1, <2>3, <4>2, <5>2, PairOf
          <6> QED BY <5>1, <6>1 DEF TakenInv, InHand
        <5>3. CASE p[1] # r
          BY <1>2, <2>3, <5>1, <5>3
        <5> QED BY <5>2, <5>3
      <4> QED BY <4>1, <4>2
    <3> QED BY <3>1, <3>2 DEF TakenInv
  <2> QED BY <1>3, <2>2, <2>3 DEF Decode
<1>4. ASSUME holding' = [holding EXCEPT ![r] = None], holding[r] # None,
             looks' = [looks EXCEPT ![h] = @ + 1], taken' = taken
      PROVE  TakenInv'
  <2>1. h \in Pairs
    BY <1>1, <1>4 DEF Pairs
  <2>2. ASSUME NEW p \in Pairs PROVE taken'[p] = looks'[p] + InHand(p)'
    <3>1. CASE p = h
      <4>1. taken[p] = looks[p] + 1 /\ looks'[p] = looks[p] + 1 /\ looks[p] \in Nat
        BY <1>1, <1>4, <3>1 DEF TakenInv, InHand
      <4>2. holding'[p[1]] # p[2]
        BY <1>1, <1>4, <3>1
      <4> QED BY <1>4, <4>1, <4>2 DEF InHand
    <3>2. CASE p # h
      <4>1. taken'[p] = taken[p] /\ looks'[p] = looks[p]
        BY <1>1, <1>4, <2>1, <3>2
      <4>2. CASE p[1] = r
        <5>1. holding[p[1]] # p[2] /\ holding'[p[1]] # p[2]
          BY <1>1, <1>4, <3>2, <4>2, PairOf
        <5> QED BY <4>1, <5>1 DEF TakenInv, InHand
      <4>3. CASE p[1] # r
        BY <1>2, <1>4, <4>1, <4>3
      <4> QED BY <4>2, <4>3
    <3> QED BY <3>1, <3>2
  <2> QED BY <1>1, <1>4, <2>2 DEF TakenInv
<1>5. CASE Look(r) \/ QuitMeasuring(r)
  BY <1>4, <1>5 DEF Look, QuitMeasuring, Witness
<1>6. CASE Quit(r)
  <2>1. /\ holding' = [holding EXCEPT ![r] = None] /\ looks' = looks
        /\ taken' = [p \in Pairs |-> IF p = h THEN taken[p] - 1 ELSE taken[p]]
    BY <1>6 DEF Quit, lookHistory
  <2>2. ASSUME NEW p \in Pairs PROVE taken'[p] = looks'[p] + InHand(p)' /\ taken'[p] \in Nat
    <3>1. CASE p = h
      <4>1. taken[p] = looks[p] + 1 /\ looks[p] \in Nat
        BY <1>1, <3>1 DEF TakenInv, InHand
      <4>2. holding'[p[1]] # p[2]
        BY <1>1, <2>1, <3>1, PairOf
      <4> QED BY <2>1, <3>1, <4>1, <4>2 DEF InHand
    <3>2. CASE p # h
      <4>1. taken'[p] = taken[p] /\ looks'[p] = looks[p]
        BY <2>1, <3>2
      <4>2. CASE p[1] = r
        <5>1. holding[p[1]] # p[2] /\ holding'[p[1]] # p[2]
          BY <1>1, <2>1, <3>2, <4>2, PairOf
        <5> QED BY <1>1, <4>1, <5>1 DEF TakenInv, InHand
      <4>3. CASE p[1] # r
        BY <1>2, <2>1, <4>1, <4>3
      <4> QED BY <4>2, <4>3
    <3> QED BY <3>1, <3>2
  <2> QED BY <2>1, <2>2 DEF TakenInv
<1> QED BY <1>3, <1>5, <1>6

LEMMA NextTaken == RoutingInv /\ TakenInv /\ [Next]_vars => TakenInv'
<1> SUFFICES ASSUME RoutingInv, TakenInv, [Next]_vars PROVE TakenInv'
  OBVIOUS
<1>1. ASSUME UNCHANGED <<taken, looks, holding>> PROVE TakenInv'
  BY <1>1 DEF TakenInv, InHand
<1>2. CASE \E s \in Senders : Queue(s) \/ Write(s) \/ Record(s) \/ Drop(s)
  BY <1>1, <1>2 DEF Queue, Write, Record, Drop, readerVars, history, lookHistory
<1>3. CASE Tick \/ Evaluate \/ UNCHANGED vars
  BY <1>1, <1>3 DEF Tick, Evaluate, vars, readerVars, history, lookHistory
<1> QED BY <1>2, <1>3, ReaderTakes DEF Next, Terminated

\* When the assertions are judged nobody holds an event any more.
LEMMA TakenIsLookedUp ==
  ASSUME RoutingInv, TakenInv, Evaluated, NEW p \in Pairs
  PROVE  Unseen(p) <=> p \notin DOMAIN seen
<1>1. holding[p[1]] # p[2]
  BY PairOf DEF RoutingInv, LedgerTyped, Verdict
<1>2. taken[p] = looks[p] /\ looks[p] \in Nat
  BY <1>1 DEF TakenInv, InHand, RoutingInv, LedgerTyped
<1> QED BY <1>2 DEF Unseen, RoutingInv, Truthful

LEMMA InitEntered == Init => RoutingInv /\ TakenInv
BY InitRouting, InitTaken

LEMMA NextEntered == RoutingInv /\ TakenInv /\ [Next]_vars => RoutingInv' /\ TakenInv'
BY NextRouting, NextTaken

\* It fails only for a reason (scenarios.rs:871-889): nothing was recorded, a copy was
\* looked up too late, or some event was decoded by no reader but such as were aborted at
\* the ledger's lock with it (627-628). That a copy overtakes the sender's entry in the
\* ledger, or that a reader is aborted after its look-up, is no reason.
THEOREM RoutedPasses == Spec => []RoutedMeansPass
<1>1. RoutingInv /\ TakenInv => RoutedMeansPass
  <2> SUFFICES ASSUME RoutingInv, TakenInv, Evaluated, NEW s \in Senders, NEW r \in Receivers,
                      Recorded(s) # {},
                      \A e \in Recorded(s) : ~Unseen(<<r, e>>) /\ <<r, e>> \notin late
               PROVE  <<s, r>> \in verdicts.arrived
    BY DEF RoutedMeansPass
  <2>1. ASSUME NEW e \in Recorded(s)
        PROVE  <<r, e>> \in DOMAIN seen /\ seen[<<r, e>>] - stamp[e] <= Timeout
    <3>1. <<r, e>> \in Pairs
      BY DEF Recorded, Of, Pairs
    <3>2. <<r, e>> \in DOMAIN seen
      BY <3>1, TakenIsLookedUp
    <3> QED BY <3>1, <3>2 DEF RoutingInv, Truthful
  <2>2. Arrived(s, r)
    BY <2>1 DEF Arrived
  <2> QED BY <2>2 DEF RoutingInv, Verdict
<1> QED BY <1>1, InitEntered, NextEntered, PTL DEF Spec

\* A NotReceived assertion passes exactly if events were recorded and the receiver, over
\* all of its connections, decoded none of them (scenarios.rs:893-905), or only by readers
\* that were aborted at the ledger's lock (567, 581, 628), whose receipts it misses.
THEOREM ForbiddenIsExact == Spec => []ForbiddenExact
<1>1. RoutingInv /\ TakenInv => ForbiddenExact
  <2> SUFFICES ASSUME RoutingInv, TakenInv, Evaluated, NEW s \in Senders, NEW r \in Receivers
               PROVE  <<s, r>> \in verdicts.absent <=>
                        Recorded(s) # {} /\ \A e \in Recorded(s) : Unseen(<<r, e>>)
    BY DEF ForbiddenExact
  <2>1. <<s, r>> \in verdicts.absent <=> Absent(s, r)
    BY DEF RoutingInv, Verdict
  <2>2. ASSUME NEW e \in Recorded(s) PROVE <<r, e>> \notin DOMAIN seen <=> Unseen(<<r, e>>)
    <3>1. <<r, e>> \in Pairs
      BY DEF Recorded, Of, Pairs
    <3> QED BY <3>1, TakenIsLookedUp
  <2> QED BY <2>1, <2>2 DEF Absent
<1> QED BY <1>1, InitEntered, NextEntered, PTL DEF Spec

-----------------------------------------------------------------------------
(***************************************************************************)
(* The counters. Every event received is on its way to the ledger, or was  *)
(* looked up, or was given up over: the first copies looked up are the     *)
(* entries of ledger.seen, the others are the duplicates. That a receiver  *)
(* looks no pair up more often than events were received bounds the        *)
(* numbers that its copies can have.                                       *)
(***************************************************************************)
Holders == {r \in Receivers : holding[r] # None}

Bounds ==
    /\ clock \in 0..MaxClock /\ stamp \in [Events -> 0..clock]
    /\ reading \subseteq Receivers
    /\ received \in 0..MaxReceived
    /\ \A p \in Pairs : looks[p] + (IF holding[p[1]] = p[2] THEN 1 ELSE 0) <= received

Tallied ==
    /\ IsFiniteSet(FurtherCopies) /\ duplicates = Cardinality(FurtherCopies)
    /\ IsFiniteSet(DOMAIN seen) /\ IsFiniteSet(Holders)
    /\ duplicates + Cardinality(DOMAIN seen) + Cardinality(Holders) <= received

Measured ==
    /\ latencies \in [Pairs -> Nat]
    /\ \A p \in Pairs : looks[p] = 0 => p \notin excused
    /\ \A p \in Pairs : latencies[p] = IF looks[p] > 0 /\ p \notin excused THEN 1 ELSE 0

CountersInv == Bounds /\ Tallied /\ Measured

\* What is not touched by a step of the sending side, the clock or the verdicts.
LEMMA CountersKept ==
  ASSUME RoutingInv, CountersInv, UNCHANGED <<readerVars, history>>,
         clock' \in 0..MaxClock, stamp' \in [Events -> 0..clock']
  PROVE  CountersInv'
<1> USE DEF readerVars, history, lookHistory
<1>1. Bounds'
  BY DEF CountersInv, Bounds
<1>2. FurtherCopies' = FurtherCopies /\ Holders' = Holders
  BY DEF FurtherCopies, Holders
<1>3. Tallied' /\ Measured'
  BY <1>2 DEF CountersInv, Tallied, Measured
<1> QED BY <1>1, <1>3 DEF CountersInv

LEMMA CountersInNat ==
  ASSUME CountersInv
  PROVE  /\ received \in Nat /\ duplicates \in Nat /\ MaxReceived \in Nat
         /\ Cardinality(DOMAIN seen) \in Nat /\ Cardinality(Holders) \in Nat
BY FS_CardinalityType, RoutingAssumption DEF CountersInv, Bounds, Tallied

\* Decode: one more event is received, and its reader may hold it.
LEMMA DecodeCounted ==
  ASSUME RoutingInv, CountersInv, NEW r \in Receivers, Decode(r)
  PROVE  CountersInv'
<1>1. /\ holding[r] = None /\ received < MaxReceived /\ received' = received + 1
      /\ UNCHANGED <<clock, senderVars, reading, seen, duplicates, latencies, lookHistory>>
      /\ \E e \in wire : holding' = [holding EXCEPT ![r] = e] \/ holding' = holding
  BY DEF Decode
<1>2. looks \in [Pairs -> Nat] /\ holding \in [Receivers -> Events \cup {None}]
  BY DEF RoutingInv, LedgerTyped
<1>3. Bounds'
  <2>1. \A p \in Pairs : looks[p] + (IF holding'[p[1]] = p[2] THEN 1 ELSE 0) <= received'
    <3> SUFFICES ASSUME NEW p \in Pairs
                 PROVE  looks[p] + (IF holding'[p[1]] = p[2] THEN 1 ELSE 0) <= received + 1
      BY <1>1
    <3>1. looks[p] \in Nat /\ received \in Nat /\ looks[p] <= received
      BY <1>2, CountersInNat DEF CountersInv, Bounds
    <3> QED BY <3>1
  <2> QED BY <1>1, <2>1, CountersInNat DEF CountersInv, Bounds, senderVars, lookHistory
<1>4. FurtherCopies' = FurtherCopies
  BY <1>1 DEF FurtherCopies, lookHistory
<1>5. IsFiniteSet(Holders') /\ Cardinality(Holders') <= Cardinality(Holders) + 1
  <2>1. Holders' \subseteq Holders \cup {r}
    BY <1>1, <1>2 DEF Holders
  <2>2. IsFiniteSet(Holders \cup {r}) /\ Cardinality(Holders \cup {r}) <= Cardinality(Holders) + 1
    <3>1. IsFiniteSet(Holders)
      BY DEF CountersInv, Tallied
    <3>2. r \notin Holders
      BY <1>1 DEF Holders
    <3>3. IsFiniteSet(Holders \cup {r}) /\ Cardinality(Holders \cup {r}) = Cardinality(Holders) + 1
      BY <3>1, <3>2, FS_AddElement
    <3> QED BY <3>3, CountersInNat
  <2>3. IsFiniteSet(Holders') /\ Cardinality(Holders') <= Cardinality(Holders \cup {r})
    BY <2>1, <2>2, FS_Subset
  <2> QED BY <2>2, <2>3, FS_CardinalityType, CountersInNat
<1>6. Tallied'
  <2>1. Cardinality(Holders') \in Nat
    BY <1>5, FS_CardinalityType
  <2> QED BY <1>1, <1>4, <1>5, <2>1, CountersInNat DEF CountersInv, Tallied
<1>7. Measured'
  BY <1>1 DEF CountersInv, Measured, lookHistory
<1> QED BY <1>3, <1>6, <1>7 DEF CountersInv

\* Quit: the event a reader holds is given up.
LEMMA QuitCounted ==
  ASSUME RoutingInv, CountersInv, NEW r \in Receivers, Quit(r)
  PROVE  CountersInv'
<1>1. /\ holding' = [holding EXCEPT ![r] = None] /\ reading' \in {reading, reading \ {r}}
      /\ UNCHANGED <<clock, senderVars, seen, received, duplicates, latencies, lookHistory>>
  BY DEF Quit
<1>2. looks \in [Pairs -> Nat] /\ holding \in [Receivers -> Events \cup {None}]
  BY DEF RoutingInv, LedgerTyped
<1>3. Bounds'
  <2>1. \A p \in Pairs : looks[p] + (IF holding'[p[1]] = p[2] THEN 1 ELSE 0) <= received
    <3> SUFFICES ASSUME NEW p \in Pairs
                 PROVE  looks[p] + (IF holding'[p[1]] = p[2] THEN 1 ELSE 0) <= received
      OBVIOUS
    <3>1. looks[p] \in Nat /\ received \in Nat
          /\ looks[p] + (IF holding[p[1]] = p[2] THEN 1 ELSE 0) <= received
      BY <1>2, CountersInNat DEF CountersInv, Bounds
    <3>2. p[1] \in Receivers /\ p[2] \in Events /\ None \notin Events
      BY RoutingAssumption DEF Pairs
    <3>3. holding'[p[1]] = p[2] => holding[p[1]] = p[2]
      BY <1>1, <1>2, <3>2
    <3> QED BY <3>1, <3>3
  <2> QED BY <1>1, <2>1 DEF CountersInv, Bounds, senderVars, lookHistory
<1>4. FurtherCopies' = FurtherCopies
  BY <1>1 DEF FurtherCopies, lookHistory
<1>5. IsFiniteSet(Holders') /\ Cardinality(Holders') <= Cardinality(Holders)
  <2>1. Holders' \subseteq Holders
    BY <1>1, <1>2 DEF Holders
  <2> QED BY <2>1, FS_Subset DEF CountersInv, Tallied
<1>6. Tallied'
  <2>1. Cardinality(Holders') \in Nat
    BY <1>5, FS_CardinalityType
  <2> QED BY <1>1, <1>4, <1>5, <2>1, CountersInNat DEF CountersInv, Tallied
<1>7. Measured'
  BY <1>1 DEF CountersInv, Measured, lookHistory
<1> QED BY <1>3, <1>6, <1>7 DEF CountersInv

\* An event is entered in the ledger: the first copy of its pair, or a duplicate.
LEMMA EnterCounted ==
  ASSUME RoutingInv, CountersInv, NEW r \in Receivers, holding[r] # None, NEW p, p = <<r, holding[r]>>,
         looks' = [looks EXCEPT ![p] = @ + 1], DOMAIN seen' = DOMAIN seen \cup {p},
         holding' = [holding EXCEPT ![r] = None],
         duplicates' = duplicates + IF p \in DOMAIN seen THEN 1 ELSE 0,
         reading' \subseteq reading, UNCHANGED <<clock, stamp, received>>
  PROVE  Bounds' /\ Tallied'
<1>1. /\ p \in Pairs /\ r = p[1] /\ holding[r] = p[2] /\ p[2] # None
      /\ looks \in [Pairs -> Nat] /\ holding \in [Receivers -> Events \cup {None}]
  BY DEF RoutingInv, LedgerTyped, Pairs
<1>2. p \in DOMAIN seen <=> looks[p] > 0
  BY <1>1 DEF RoutingInv, Truthful
<1>3. looks[p] \in Nat /\ looks[p] + 1 <= received
  BY <1>1 DEF CountersInv, Bounds
<1>4. looks'[p] = looks[p] + 1 /\ \A q \in Pairs : q # p => looks'[q] = looks[q]
  BY <1>1
<1>5. Bounds'
  <2>1. ASSUME NEW q \in Pairs
        PROVE  looks'[q] + (IF holding'[q[1]] = q[2] THEN 1 ELSE 0) <= received
    <3>1. q[1] \in Receivers /\ q[2] \in Events /\ q[2] # None
      BY RoutingAssumption DEF Pairs
    <3>2. CASE q = p
      <4>1. holding'[q[1]] # q[2]
        BY <1>1, <3>1, <3>2
      <4> QED BY <1>3, <1>4, <3>2, <4>1
    <3>3. CASE q # p
      <4>1. holding'[q[1]] = q[2] => holding[q[1]] = q[2]
        BY <1>1, <3>1
      <4>2. /\ looks[q] + (IF holding[q[1]] = q[2] THEN 1 ELSE 0) <= received
            /\ looks[q] \in Nat /\ received \in Nat
        BY <1>1, CountersInNat DEF CountersInv, Bounds
      <4> QED BY <1>4, <3>3, <4>1, <4>2
    <3> QED BY <3>2, <3>3
  <2> QED BY <2>1 DEF CountersInv, Bounds
<1>6. IsFiniteSet(FurtherCopies') /\ duplicates' = Cardinality(FurtherCopies')
  <2>1. CASE looks[p] = 0
    <3>1. FurtherCopies' = FurtherCopies
      BY <1>1, <1>4, <2>1 DEF FurtherCopies
    <3> QED BY <1>2, <2>1, <3>1, CountersInNat DEF CountersInv, Tallied
  <2>2. CASE looks[p] > 0
    <3>1. looks[p] \in 1..MaxReceived
      BY <1>3, <2>2, CountersInNat DEF CountersInv, Bounds
    <3>2. FurtherCopies' = FurtherCopies \cup {<<p, looks[p]>>}
      BY <1>1, <1>4, <3>1 DEF FurtherCopies
    <3>3. <<p, looks[p]>> \notin FurtherCopies
      BY <1>3 DEF FurtherCopies
    <3>4. IsFiniteSet(FurtherCopies) /\ duplicates = Cardinality(FurtherCopies)
      BY DEF CountersInv, Tallied
    <3>5. IsFiniteSet(FurtherCopies') /\ Cardinality(FurtherCopies') = Cardinality(FurtherCopies) + 1
      BY <3>2, <3>3, <3>4, FS_AddElement
    <3> QED BY <1>2, <2>2, <3>4, <3>5
  <2> QED BY <1>3, <2>1, <2>2
<1>7. /\ IsFiniteSet(DOMAIN seen')
      /\ Cardinality(DOMAIN seen') = IF p \in DOMAIN seen THEN Cardinality(DOMAIN seen)
                                     ELSE Cardinality(DOMAIN seen) + 1
  <2>1. IsFiniteSet(DOMAIN seen)
    BY DEF CountersInv, Tallied
  <2> QED BY <2>1, FS_AddElement
<1>8. IsFiniteSet(Holders') /\ Cardinality(Holders') = Cardinality(Holders) - 1
  <2>1. Holders' = Holders \ {r} /\ r \in Holders
    BY <1>1 DEF Holders
  <2>2. IsFiniteSet(Holders)
    BY DEF CountersInv, Tallied
  <2> QED BY <2>1, <2>2, FS_RemoveElement
<1>9. duplicates' + Cardinality(DOMAIN seen') + Cardinality(Holders') <= received
  BY <1>7, <1>8, CountersInNat DEF CountersInv, Tallied
<1> QED BY <1>5, <1>6, <1>7, <1>8, <1>9 DEF Tallied

LEMMA LookCounted ==
  ASSUME RoutingInv, CountersInv, NEW r \in Receivers, Look(r) \/ QuitMeasuring(r)
  PROVE  CountersInv'
<1> DEFINE p == <<r, holding[r]>>
<1>1. /\ holding[r] # None /\ holding' = [holding EXCEPT ![r] = None]
      /\ reading' \in {reading, reading \ {r}} /\ UNCHANGED <<clock, senderVars, received>>
  BY DEF Look, QuitMeasuring
<1>2. /\ p \in Pairs /\ looks \in [Pairs -> Nat]
      /\ p \in DOMAIN seen <=> looks[p] > 0
  BY <1>1 DEF RoutingInv, LedgerTyped, Truthful, Pairs
<1>3. /\ looks' = [looks EXCEPT ![p] = @ + 1] /\ DOMAIN seen' = DOMAIN seen \cup {p}
      /\ duplicates' = duplicates + IF p \in DOMAIN seen THEN 1 ELSE 0
  <2>1. CASE Look(r) BY <2>1 DEF Look, Witness, Insert
  <2>2. CASE QuitMeasuring(r)
    <3>1. p \notin DOMAIN seen /\ duplicates' = duplicates
      BY <2>2 DEF QuitMeasuring
    <3>2. looks' = [looks EXCEPT ![p] = @ + 1] /\ DOMAIN seen' = DOMAIN seen \cup {p}
      BY <2>2 DEF QuitMeasuring, Witness, Insert
    <3> QED BY <3>1, <3>2, CountersInNat
  <2> QED BY <2>1, <2>2
<1>4. /\ looks[p] \in Nat /\ looks'[p] > 0
      /\ \A q \in Pairs : q # p => looks'[q] = looks[q] /\ latencies'[q] = latencies[q]
                                    /\ (q \in excused' <=> q \in excused)
      /\ latencies' \in [Pairs -> Nat]
      /\ latencies'[p] = IF p \notin excused' THEN 1 ELSE 0
  <2>1. /\ latencies \in [Pairs -> Nat] /\ looks[p] \in Nat
        /\ latencies[p] = IF looks[p] > 0 /\ p \notin excused THEN 1 ELSE 0
        /\ looks[p] = 0 => p \notin excused
    BY <1>2 DEF CountersInv, Measured
  <2>2. looks'[p] > 0 /\ \A q \in Pairs : q # p => looks'[q] = looks[q]
    BY <1>2, <1>3
  <2>3. CASE Look(r)
    <3>1. /\ latencies' = [latencies EXCEPT ![p] = @ + IF p \notin DOMAIN seen /\ p[2] \in sent THEN 1 ELSE 0]
          /\ excused' = excused \cup {q \in {p} : looks[p] = 0 /\ p[2] \notin sent}
      BY <2>3 DEF Look, Witness
    <3> HIDE DEF p
    <3>2. /\ latencies' \in [Pairs -> Nat] /\ \A q \in Pairs : q # p => latencies'[q] = latencies[q]
          /\ latencies'[p] = latencies[p] + IF p \notin DOMAIN seen /\ p[2] \in sent THEN 1 ELSE 0
      BY <1>2, <2>1, <3>1
    <3>3. /\ \A q \in Pairs : q # p => (q \in excused' <=> q \in excused)
          /\ p \in excused' <=> p \in excused \/ (looks[p] = 0 /\ p[2] \notin sent)
      BY <3>1
    <3> QED BY <1>2, <2>1, <2>2, <3>2, <3>3
  <2>4. CASE QuitMeasuring(r)
    <3>1. /\ latencies' = latencies /\ p \notin DOMAIN seen
          /\ excused' = excused \cup {q \in {p} : looks[p] = 0}
      BY <2>4 DEF QuitMeasuring, Witness
    <3> HIDE DEF p
    <3>2. p \in excused' /\ \A q \in Pairs : q # p => (q \in excused' <=> q \in excused)
      BY <1>2, <2>1, <3>1
    <3> QED BY <1>2, <2>1, <2>2, <3>1, <3>2
  <2> QED BY <2>3, <2>4
<1>6. Measured'
  <2> HIDE DEF p
  <2>1. ASSUME NEW q \in Pairs
        PROVE  /\ looks'[q] = 0 => q \notin excused'
               /\ latencies'[q] = IF looks'[q] > 0 /\ q \notin excused' THEN 1 ELSE 0
    <3>1. CASE q = p BY <1>4, <3>1
    <3>2. CASE q # p BY <1>4, <3>2 DEF CountersInv, Measured
    <3> QED BY <3>1, <3>2
  <2> QED BY <1>4, <2>1 DEF Measured
<1>5. Bounds' /\ Tallied'
  <2>1. reading' \subseteq reading /\ UNCHANGED <<clock, stamp, received>>
    BY <1>1 DEF senderVars
  <2> QED BY <1>1, <1>3, <2>1, EnterCounted
<1> QED BY <1>5, <1>6 DEF CountersInv

LEMMA NextCounters == RoutingInv /\ CountersInv /\ [Next]_vars => CountersInv'
<1> SUFFICES ASSUME RoutingInv, CountersInv, [Next]_vars PROVE CountersInv'
  OBVIOUS
<1>1. clock \in 0..MaxClock /\ stamp \in [Events -> 0..clock] /\ MaxClock \in Nat
  BY RoutingAssumption DEF CountersInv, Bounds
<1>2. CASE \E s \in Senders : Queue(s) \/ Write(s) \/ Record(s) \/ Drop(s)
  <2>1. UNCHANGED <<clock, readerVars, history>> /\ stamp' \in [Events -> 0..clock]
    BY <1>1, <1>2 DEF Queue, Write, Record, Drop, At, Of
  <2> QED BY <1>1, <2>1, CountersKept
<1>3. CASE Tick
  <2>1. /\ UNCHANGED <<readerVars, history>> /\ clock' \in 0..MaxClock
        /\ stamp' \in [Events -> 0..clock']
    BY <1>1, <1>3 DEF Tick, senderVars
  <2> QED BY <2>1, CountersKept
<1>4. CASE Evaluate \/ UNCHANGED vars
  BY <1>1, <1>4, CountersKept DEF Evaluate, vars, senderVars
<1> QED BY <1>2, <1>3, <1>4, DecodeCounted, QuitCounted, LookCounted DEF Next, Terminated

LEMMA InitCounters == Init => CountersInv
<1> SUFFICES ASSUME Init PROVE CountersInv
  OBVIOUS
<1> USE RoutingAssumption DEF Init
<1>1. FurtherCopies = {} /\ Holders = {} /\ DOMAIN seen = {}
  BY DEF FurtherCopies, Holders, Pairs
<1>2. Bounds
  BY DEF Bounds, Pairs
<1>3. Tallied
  BY <1>1, FS_EmptySet DEF Tallied
<1>4. Measured
  BY DEF Measured
<1> QED BY <1>2, <1>3, <1>4 DEF CountersInv

\* Types of the ledger and of the counters beside it; an Instant is not in the future,
\* and a task that ended holds no event.
THEOREM RoutingTyping == Spec => []TypeOK
<1>1. RoutingInv /\ TakenInv /\ CountersInv => TypeOK
  <2> SUFFICES ASSUME RoutingInv, TakenInv, CountersInv PROVE TypeOK
    OBVIOUS
  <2>1. duplicates \in 0..received
    BY CountersInNat DEF CountersInv, Bounds, Tallied
  <2>2. taken \in [Pairs -> 0..received]
    <3> SUFFICES ASSUME NEW p \in Pairs PROVE taken[p] <= received
      BY CountersInNat DEF TakenInv
    <3> QED BY DEF TakenInv, InHand, CountersInv, Bounds
  <2> QED BY <2>1, <2>2
      DEF TypeOK, RoutingInv, LedgerTyped, Verdict, Places, CountersInv, Bounds, Measured
<1>2. Init => RoutingInv /\ TakenInv /\ CountersInv
  BY InitEntered, InitCounters
<1>3. RoutingInv /\ TakenInv /\ CountersInv /\ [Next]_vars => RoutingInv' /\ TakenInv' /\ CountersInv'
  BY NextEntered, NextCounters
<1> QED BY <1>1, <1>2, <1>3, PTL DEF Spec

\* duplicate_messages counts the further copies of each receiver's events and the
\* latency histogram its first copies (scenarios.rs:628-630), whatever the server
\* repeats, however the receivers' look-ups interleave and whoever is aborted.
THEOREM DeliveriesAreExact == Spec => []DeliveriesExact
<1>1. CountersInv => DeliveriesExact
  <2> SUFFICES ASSUME CountersInv PROVE duplicates + Cardinality(DOMAIN seen) <= received
    BY DEF DeliveriesExact, CountersInv, Tallied, Measured
  <2> QED BY CountersInNat DEF CountersInv, Tallied
<1>2. Init => RoutingInv /\ CountersInv
  BY InitRouting, InitCounters
<1>3. RoutingInv /\ CountersInv /\ [Next]_vars => RoutingInv' /\ CountersInv'
  BY NextRouting, NextCounters
<1> QED BY <1>1, <1>2, <1>3, PTL DEF Spec
================================================================================
