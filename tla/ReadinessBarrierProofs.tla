------------------------ MODULE ReadinessBarrierProofs ------------------------
(***************************************************************************)
(* The safety part of ReadinessBarrier for every set of aliases, waiters   *)
(* and required aliases: its types, that it opens only when every required *)
(* alias is ready, and that each of its steps is one of ReadinessGate.     *)
(***************************************************************************)
EXTENDS ReadinessBarrier, TLAPS

(***************************************************************************)
(* The barrier's variables keep their types; in particular only aliases of *)
(* wait_for_ready are ever recorded (mark_ready's guard).                  *)
(***************************************************************************)
THEOREM BarrierTyping == Safety => []TypeOK
<1>1. Init => TypeOK
  BY DEF Init, TypeOK
<1>2. TypeOK /\ [Next]_vars => TypeOK'
  <2> SUFFICES ASSUME TypeOK, [Next]_vars PROVE TypeOK'
    OBVIOUS
  <2> USE DEF TypeOK, Inside, Verdicts
  <2>1. ASSUME NEW a \in Aliases, MarkReady(a) PROVE TypeOK'
    <3>1. CASE Insert(a)
      BY <3>1 DEF Insert
    <3>2. CASE NotifyWaiters(a)
      BY <3>2 DEF NotifyWaiters
    <3> QED BY <2>1, <3>1, <3>2 DEF MarkReady
  <2>2. ASSUME NEW w \in Waiters, Enter(w) \/ Wait(w) PROVE TypeOK'
    BY <2>2 DEF Enter, Wait, Check, Arm, Woken, SeeStop, SeeTimeout, Move
  <2>3. CASE Stop \/ Expire
    BY <2>3 DEF Stop, Expire
  <2>4. CASE UNCHANGED vars
    BY <2>4 DEF vars
  <2> QED BY <2>1, <2>2, <2>3, <2>4 DEF Next
<1> QED BY <1>1, <1>2, PTL DEF Safety

(***************************************************************************)
(* wait lets nobody through before every required alias has been marked    *)
(* ready. The set never shrinks and a waiter reaches "Ready" only by the   *)
(* subset test, so the property is inductive beside the types.             *)
(***************************************************************************)
THEOREM BarrierHolds == Safety => []OpensOnlyWhenReady
<1>1. Init => OpensOnlyWhenReady
  BY DEF Init, OpensOnlyWhenReady
<1>2. TypeOK /\ OpensOnlyWhenReady /\ [Next]_vars => OpensOnlyWhenReady'
  <2> SUFFICES ASSUME TypeOK, OpensOnlyWhenReady, [Next]_vars,
                      NEW v \in Waiters, gate'[v] = "Ready"
               PROVE  Required \subseteq ready'
    BY DEF OpensOnlyWhenReady
  <2> USE DEF TypeOK, OpensOnlyWhenReady
  <2>1. ASSUME NEW a \in Aliases, MarkReady(a) PROVE Required \subseteq ready'
    BY <2>1 DEF MarkReady, Insert, NotifyWaiters
  <2>2. ASSUME NEW w \in Waiters, Enter(w) \/ Wait(w) PROVE Required \subseteq ready'
    BY <2>2 DEF Enter, Wait, Check, Arm, Woken, SeeStop, SeeTimeout, Move
  <2>3. CASE Stop \/ Expire
    BY <2>3 DEF Stop, Expire
  <2>4. CASE UNCHANGED vars
    BY <2>4 DEF vars
  <2> QED BY <2>1, <2>2, <2>3, <2>4 DEF Next
<1> QED BY <1>1, <1>2, BarrierTyping, PTL DEF Safety

(***************************************************************************)
(* The barrier implements the safety part of ReadinessGate: a Ready, a     *)
(* Stopped or a TimedOut is given only when the gate may give it, however  *)
(* checks, registrations and notifications interleave. Checks that fail,   *)
(* registrations and wake-ups are stuttering steps of the gate.            *)
(***************************************************************************)
THEOREM BarrierImplementsGate == Safety => Gate!Safety
<1> USE DEF Gate!Verdicts
<1>1. Init => Gate!Init
  BY DEF Init, Gate!Init, Inside
<1>2. TypeOK /\ [Next]_vars => [Gate!Next]_(Gate!vars)
  <2> SUFFICES ASSUME TypeOK, [Next]_vars
               PROVE  Gate!Next \/ UNCHANGED Gate!vars
    OBVIOUS
  <2> USE DEF TypeOK
  <2> DEFINE told(g) == [w \in Waiters |-> IF g[w] \in Inside THEN "waiting" ELSE g[w]]
  <2>1. ASSUME NEW a \in Aliases, MarkReady(a) PROVE Gate!Next \/ UNCHANGED Gate!vars
    <3>1. CASE Insert(a)
      <4>1. Gate!Arrive(a)
        BY <3>1 DEF Insert, Gate!Arrive
      <4> QED BY <4>1 DEF Gate!Next
    <3>2. CASE NotifyWaiters(a)
      <4>1. told(gate') = told(gate)
        BY <3>2 DEF NotifyWaiters, Inside
      <4> QED BY <3>2, <4>1 DEF NotifyWaiters, Gate!vars
    <3> QED BY <2>1, <3>1, <3>2 DEF MarkReady
  <2>2. ASSUME NEW w \in Waiters, Enter(w) \/ Wait(w)
        PROVE  Gate!Next \/ UNCHANGED Gate!vars
    <3>1. UNCHANGED <<ready, stop, expired>>
      BY <2>2 DEF Enter, Wait, Check, Arm, Woken, SeeStop, SeeTimeout, Move
    <3>2. CASE Enter(w)
      <4>1. Gate!Enter(w)
        BY <3>2 DEF Enter, Move, Inside, Verdicts, Gate!Enter, Gate!Move
      <4> QED BY <4>1 DEF Gate!Next
    <3>3. CASE Check(w) /\ Required \subseteq ready
      <4>1. Gate!LetThrough(w)
        BY <3>3 DEF Check, Move, Inside, Gate!LetThrough, Gate!Move
      <4> QED BY <4>1 DEF Gate!Next
    <3>4. CASE (Check(w) /\ ~(Required \subseteq ready)) \/ Arm(w) \/ Woken(w)
      <4>1. told(gate') = told(gate)
        BY <3>4 DEF Check, Arm, Woken, Move, Inside
      <4> QED BY <3>1, <4>1 DEF Gate!vars
    <3>5. CASE SeeStop(w) \/ SeeTimeout(w)
      <4>1. Gate!GiveUp(w)
        BY <3>5 DEF SeeStop, SeeTimeout, Move, Inside, Gate!GiveUp, Gate!Move
      <4> QED BY <4>1 DEF Gate!Next
    <3> QED BY <2>2, <3>2, <3>3, <3>4, <3>5 DEF Wait
  <2>3. CASE Stop
    BY <2>3 DEF Stop, Gate!Next, Gate!Stop
  <2>4. CASE Expire
    BY <2>4 DEF Expire, Gate!Next, Gate!Elapse
  <2>5. CASE UNCHANGED vars
    BY <2>5 DEF vars, Gate!vars
  <2> QED BY <2>1, <2>2, <2>3, <2>4, <2>5 DEF Next
<1> QED BY <1>1, <1>2, BarrierTyping, PTL DEF Safety, Gate!Safety
===============================================================================
