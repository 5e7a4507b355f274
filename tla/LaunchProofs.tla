----------------------------- MODULE LaunchProofs ------------------------------
(***************************************************************************)
(* Launch, for every request: any configuration file, options, files on    *)
(* disk and limits.                                                        *)
(***************************************************************************)
EXTENDS Launch, SequenceTheorems, FiniteSetTheorems, TLAPS

LEMMA LeastNat ==
    ASSUME NEW S \in SUBSET Nat, S # {}
    PROVE  \E m \in S : \A n \in S : m <= n
<1>1. PICK top \in S : TRUE
  OBVIOUS
<1> DEFINE U == 0..top
           T == {0..n : n \in S \cap U}
           R == StrictSubsetOrdering(U)
<1>2. IsFiniteSet(U)
  <2>1. \A n \in Nat : IsFiniteSet(0..n)
    BY FS_Interval
  <2> QED BY <2>1
<1>3. IsWellFoundedOn(R, SUBSET U)
  BY <1>2, FS_StrictSubsetOrderingWellFounded, FS_FiniteSubsetsOfFinite
<1>4. T \subseteq SUBSET U /\ 0..top \in T
  OBVIOUS
<1>5. \E x \in T : \A y \in T : <<y, x>> \notin R
  <2> HIDE DEF T, U, R
  <2> QED BY <1>3, <1>4, WFMin
<1>6. PICK m \in S \cap U : \A n \in S \cap U : <<0..n, 0..m>> \notin R
  BY <1>5
<1>7. ASSUME NEW n \in S, n < m PROVE FALSE
  <2>1. n \in S \cap U /\ 0..n \subseteq 0..m /\ m \in 0..m /\ m \notin 0..n
    BY <1>7
  <2>2. <<0..n, 0..m>> \in R
    BY <1>7, <2>1 DEF StrictSubsetOrdering
  <2> QED BY <1>6, <2>1, <2>2
<1> QED BY <1>7

-----------------------------------------------------------------------------
(* What it means that the policy refuses nothing. *)

LEMMA WorkloadNames ==
    ASSUME NEW c
    PROVE  /\ Len(WorkloadChecks(c)) = 18 /\ DOMAIN WorkloadChecks(c) = 1..18
           /\ \A i \in 1..18 : WorkloadChecks(c)[i][1] # "none"
BY DEF WorkloadChecks

LEMMA ConcatThree ==
    ASSUME NEW S, NEW s \in Seq(S), NEW t \in Seq(S), NEW u \in Seq(S)
    PROVE  /\ DOMAIN (s \o t \o u) = 1..(Len(s) + Len(t) + Len(u))
           /\ \A i \in 1..Len(s) : (s \o t \o u)[i] = s[i]
           /\ \A i \in 1..Len(t) : (s \o t \o u)[Len(s) + i] = t[i]
           /\ \A i \in 1..Len(u) : (s \o t \o u)[Len(s) + Len(t) + i] = u[i]
<1>1. Len(s) \in Nat /\ Len(t) \in Nat /\ Len(u) \in Nat
  BY LenProperties
<1> DEFINE v == s \o t
<1>2. /\ v \in Seq(S) /\ Len(v) = Len(s) + Len(t)
      /\ \A i \in 1..(Len(s) + Len(t)) : v[i] = IF i <= Len(s) THEN s[i] ELSE t[i - Len(s)]
  BY ConcatProperties
<1> HIDE DEF v
<1>3. /\ v \o u \in Seq(S) /\ Len(v \o u) = Len(v) + Len(u)
      /\ \A i \in 1..(Len(v) + Len(u)) : (v \o u)[i] = IF i <= Len(v) THEN v[i] ELSE u[i - Len(v)]
  <2>1. v \in Seq(S)
    BY <1>2
  <2> QED BY <2>1, ConcatProperties
<1>4. DOMAIN (v \o u) = 1..(Len(v) + Len(u))
  BY <1>3, LenProperties
<1>5. \A i \in 1..Len(s) : (v \o u)[i] = s[i]
  BY <1>1, <1>2, <1>3
<1>6. \A i \in 1..Len(t) : (v \o u)[Len(s) + i] = t[i]
  <2> SUFFICES ASSUME NEW i \in 1..Len(t) PROVE (v \o u)[Len(s) + i] = t[i]
    OBVIOUS
  <2>1. /\ Len(s) + i \in 1..(Len(s) + Len(t)) /\ ~(Len(s) + i <= Len(s))
        /\ (Len(s) + i) - Len(s) = i
        /\ Len(s) + i \in 1..(Len(v) + Len(u)) /\ Len(s) + i <= Len(v)
    BY <1>1, <1>2
  <2> QED BY <1>2, <1>3, <2>1
<1>7. \A i \in 1..Len(u) : (v \o u)[Len(v) + i] = u[i]
  <2> SUFFICES ASSUME NEW i \in 1..Len(u) PROVE (v \o u)[Len(v) + i] = u[i]
    OBVIOUS
  <2>1. /\ Len(v) + i \in 1..(Len(v) + Len(u)) /\ ~(Len(v) + i <= Len(v))
        /\ (Len(v) + i) - Len(v) = i
    BY <1>1, <1>2
  <2> QED BY <1>3, <2>1
<1> QED BY <1>2, <1>4, <1>5, <1>6, <1>7 DEF v

\* The list of checks, in three parts.
LEMMA ChecksAre ==
    ASSUME NEW c, NEW o
    PROVE  /\ DOMAIN Checks(c, o) = 1..22
           /\ \A i \in 1..2  : Checks(c, o)[i] = TargetChecks(c)[i]
           /\ \A i \in 1..18 : Checks(c, o)[2 + i] = WorkloadChecks(c)[i]
           /\ \A i \in 1..2  : Checks(c, o)[20 + i] = OptionChecks(c, o)[i]
<1> DEFINE head == TargetChecks(c)
           body == WorkloadChecks(c)
           tail == OptionChecks(c, o)
           all  == {head[i] : i \in 1..2} \cup {body[i] : i \in 1..18} \cup {tail[i] : i \in 1..2}
<1>1. body = [i \in 1..18 |-> body[i]] /\ Len(body) = 18
  BY DEF WorkloadChecks
<1>2. head = [i \in 1..2 |-> head[i]] /\ Len(head) = 2
  BY DEF TargetChecks
<1>3. tail = [i \in 1..2 |-> tail[i]] /\ Len(tail) = 2
  BY DEF OptionChecks
<1>4. Checks(c, o) = head \o body \o tail
  BY DEF Checks
<1> HIDE DEF body, tail, head
<1>5. head \in Seq(all) /\ body \in Seq(all) /\ tail \in Seq(all)
  <2>1. \A i \in 1..2 : head[i] \in all
    OBVIOUS
  <2>2. \A i \in 1..18 : body[i] \in all
    OBVIOUS
  <2>3. \A i \in 1..2 : tail[i] \in all
    OBVIOUS
  <2> HIDE DEF all
  <2>4. head \in Seq(all)
    BY <1>2, <2>1
  <2>5. body \in Seq(all)
    BY <1>1, <2>2
  <2>6. tail \in Seq(all)
    BY <1>3, <2>3
  <2> QED BY <2>4, <2>5, <2>6
<1> HIDE DEF all
<1>6. /\ DOMAIN Checks(c, o) = 1..(2 + 18 + 2)
      /\ \A i \in 1..2  : Checks(c, o)[i] = head[i]
      /\ \A i \in 1..18 : Checks(c, o)[2 + i] = body[i]
      /\ \A i \in 1..2  : Checks(c, o)[2 + 18 + i] = tail[i]
  BY <1>1, <1>2, <1>3, <1>4, <1>5, ConcatThree
<1> QED BY <1>6 DEF head, body, tail

\* The first check that refuses has a name, so without one none does.
LEMMA NothingRefused ==
    ASSUME NEW c, NEW o, Refusal(c, o) = "none"
    PROVE  \A i \in 1..22 : ~Checks(c, o)[i][2]
<1>1. DOMAIN Checks(c, o) = 1..22
  BY ChecksAre
<1>2. ASSUME NEW i \in 1..22 PROVE Checks(c, o)[i][1] # "none"
  <2>1. CASE i \in 1..2
    <3>1. TargetChecks(c)[i][1] # "none"
      BY <2>1 DEF TargetChecks
    <3> QED BY <2>1, <3>1, ChecksAre
  <2>2. CASE i \in 3..20
    <3>1. i - 2 \in 1..18 /\ 2 + (i - 2) = i
      BY <2>2
    <3>2. WorkloadChecks(c)[i - 2][1] # "none" /\ Checks(c, o)[2 + (i - 2)] = WorkloadChecks(c)[i - 2]
      BY <3>1, WorkloadNames, ChecksAre
    <3> QED BY <3>1, <3>2
  <2>3. CASE i \in 21..22
    <3>1. i - 20 \in 1..2 /\ 20 + (i - 20) = i
      BY <2>3
    <3>2. OptionChecks(c, o)[i - 20][1] # "none"
      BY <3>1 DEF OptionChecks
    <3>3. Checks(c, o)[20 + (i - 20)] = OptionChecks(c, o)[i - 20]
      BY <3>1, ChecksAre
    <3> QED BY <3>1, <3>2, <3>3
  <2> QED BY <2>1, <2>2, <2>3
<1>3. ASSUME Refusing(c, o) # {} PROVE FALSE
  <2>1. Refusing(c, o) \in SUBSET Nat
    BY <1>1 DEF Refusing
  <2>2. \E i \in Refusing(c, o) : \A j \in Refusing(c, o) : i <= j
    BY <1>3, <2>1, LeastNat
  <2>3. PICK i \in Refusing(c, o) : Refusal(c, o) = Checks(c, o)[i][1]
    BY <1>3, <2>2 DEF Refusal
  <2>4. i \in 1..22
    BY <1>1 DEF Refusing
  <2> QED BY <1>2, <2>3, <2>4
<1> QED BY <1>1, <1>3 DEF Refusing

\* What is known of a configuration that is not refused.
LEMMA Unrefused ==
    ASSUME NEW c, NEW o, Refusal(c, o) = "none"
    PROVE  /\ \A i \in 1..2  : ~TargetChecks(c)[i][2]
           /\ \A i \in 1..18 : ~WorkloadChecks(c)[i][2]
           /\ \A i \in 1..2  : ~OptionChecks(c, o)[i][2]
<1>1. \A i \in 1..22 : ~Checks(c, o)[i][2]
  BY NothingRefused
<1>2. \A i \in 1..2 : i \in 1..22 /\ 20 + i \in 1..22
  OBVIOUS
<1>3. \A i \in 1..18 : 2 + i \in 1..22
  OBVIOUS
<1> QED BY <1>1, <1>2, <1>3, ChecksAre

\* What the checks that the guard rails rest on say of a sound configuration.
LEMMA GuardsHold ==
    ASSUME NEW c, NEW o, Refusal(c, o) = "none",
           c.run.interval \in Nat, c.run.duration \in Nat, c.run.period \in Int,
           c.scenario.invalid.maxEvents \in Int, Count(c) \in Nat
    PROVE  /\ c.acknowledged
           /\ \/ c.host \in c.allowHosts
              \/ c.environment = "local" /\ c.host \in Loopback
           /\ c.environment = "production" =>
                /\ o.allowProduction /\ c.run.profile = "smoke"
                /\ Count(c) <= 3 /\ c.run.duration <= QuarterHour
                /\ c.run.interval >= HalfMinute /\ ~Disruptive(c)
           /\ c.run.profile \in {"stress", "spike", "soak"} => LocalOrTemporary(c)
           /\ Disruptive(c) => c.environment # "staging" /\ c.environment # "production"
           /\ c.scenario.invalid.enabled =>
                /\ LocalOrTemporary(c) \/ (c.environment = "staging" /\ o.allowInvalid)
                /\ c.scenario.invalid.maxEvents \notin {None, 0}
                /\ c.run.interval >= OneSecond
           /\ ~BadTemplates(c) /\ Count(c) # 0
<1>1. Second \in Nat /\ HalfMinute \in Nat /\ OneSecond \in Nat /\ QuarterHour \in Nat
  BY ConfigurationAssumption DEF HalfMinute, OneSecond, QuarterHour
<1>2. ~TargetChecks(c)[1][2] /\ ~TargetChecks(c)[2][2]
  BY Unrefused
<1>3. ~OptionChecks(c, o)[1][2] /\ ~OptionChecks(c, o)[2][2]
  BY Unrefused
<1>4. /\ ~WorkloadChecks(c)[2][2] /\ ~WorkloadChecks(c)[11][2] /\ ~WorkloadChecks(c)[12][2]
      /\ ~WorkloadChecks(c)[13][2] /\ ~WorkloadChecks(c)[14][2] /\ ~WorkloadChecks(c)[15][2]
      /\ ~WorkloadChecks(c)[16][2] /\ ~WorkloadChecks(c)[17][2] /\ ~WorkloadChecks(c)[18][2]
  BY Unrefused
<1>5. /\ c.acknowledged
      /\ c.host \in c.allowHosts \/ (c.environment = "local" /\ c.host \in Loopback)
  BY <1>2 DEF TargetChecks
<1>6. /\ c.environment = "production" => o.allowProduction
      /\ c.scenario.invalid.enabled =>
            LocalOrTemporary(c) \/ (c.environment = "staging" /\ o.allowInvalid)
  BY <1>3 DEF OptionChecks
<1>7. /\ Count(c) # 0 /\ ~BadTemplates(c)
      /\ c.run.profile \in {"stress", "spike", "soak"} => LocalOrTemporary(c)
      /\ c.environment = "staging" => ~Disruptive(c)
  BY <1>4 DEF WorkloadChecks
<1>8. c.environment = "production" =>
        /\ c.run.profile = "smoke" /\ ~(Count(c) > 3)
        /\ ~(c.run.duration > QuarterHour)
        /\ ~(c.run.interval < HalfMinute) /\ ~Disruptive(c)
  BY <1>4 DEF WorkloadChecks
<1>9. c.scenario.invalid.enabled =>
        /\ c.scenario.invalid.maxEvents \notin {None, 0}
        /\ ~(c.run.interval < OneSecond)
  BY <1>4 DEF WorkloadChecks
<1>10. c.environment = "production" =>
        /\ Count(c) <= 3 /\ c.run.duration <= QuarterHour /\ c.run.interval >= HalfMinute
  BY <1>1, <1>8
<1>11. c.scenario.invalid.enabled => c.run.interval >= OneSecond
  BY <1>1, <1>9
<1> QED BY <1>5, <1>6, <1>7, <1>8, <1>9, <1>10, <1>11

-----------------------------------------------------------------------------
(* Options leave a configuration a configuration. *)

LEMMA UnitIs == \A u \in Units : Unit(u) \in Nat
BY DEF Units, Unit

LEMMA WrappedIs == \A n \in Nat, u \in Units : Wrapped(n, u) \in Nat
<1> SUFFICES ASSUME NEW n \in Nat, NEW u \in Units PROVE Wrapped(n, u) \in Nat
  OBVIOUS
<1>1. Second \in Nat /\ MaxU64 + 1 \in Nat \ {0}
  BY ConfigurationAssumption
<1>2. n * Unit(u) \in Nat
  BY DEF Units, Unit
<1>3. (n * Unit(u)) % (MaxU64 + 1) \in Nat
  BY <1>1, <1>2
<1>4. \A a, b \in Nat : a * b \in Nat
  OBVIOUS
<1> QED BY <1>1, <1>3, <1>4 DEF Wrapped

LEMMA OverriddenIs ==
    ASSUME NEW c \in AppConfig, NEW a \in Args
    PROVE  Overridden(c, a) \in AppConfig
<1> DEFINE d == GivenDuration(a.duration, c.run.duration)
           i == GivenDuration(a.interval, c.run.interval)
           p == IF request.command = "smoke" THEN "smoke" ELSE GivenName(a.profile, c.run.profile)
           n == GivenNumber(a.clients, c.run.clients)
           m == GivenNumber(a.maxClients, c.run.maxClients)
           r == GivenNumber(a.period, c.run.period)
           h == GivenName(a.server, c.host)
           e == GivenName(a.environment, c.environment)
<1>1. d \in Nat /\ i \in Nat
  BY WrappedIs DEF Args, AppConfig, Run, Durations, GivenDuration
<1>2. n \in U32 /\ m \in U32 /\ r \in Optional(Nat)
  BY DEF Args, AppConfig, Run, GivenNumber, Optional, U32
<1>3. p \in Profiles
  BY DEF Args, AppConfig, Run, GivenName, Profiles, Absent
<1>4. h \in Hosts /\ e \in Environments
  BY DEF Args, AppConfig, GivenName
<1>5. Overridden(c, a) =
        [c EXCEPT !.host = h, !.environment = e,
                  !.run = [profile |-> p, clients |-> n, maxClients |-> m,
                           duration |-> d, interval |-> i, period |-> r],
                  !.acknowledged = c.acknowledged \/ a.acknowledge]
  BY DEF Overridden, AppConfig
<1>6. [profile |-> p, clients |-> n, maxClients |-> m,
       duration |-> d, interval |-> i, period |-> r] \in Run
  BY <1>1, <1>2, <1>3 DEF Run, Durations
<1>7. (c.acknowledged \/ a.acknowledge) \in BOOLEAN
  OBVIOUS
<1> HIDE DEF d, i, p, n, m, r, h, e
<1> QED BY <1>4, <1>5, <1>6, <1>7 DEF AppConfig

-----------------------------------------------------------------------------
(* The inductive invariant. *)

Cleared == {"accepted", "dialing", "preflight", "failed", "open", "ended"}

(***************************************************************************)
(* What is dialed has been asked about: the policy refused nothing of the  *)
(* configuration as the options left it, and neither changes any more.     *)
(***************************************************************************)
Asked ==
    /\ stage \in Cleared \cup {"merged"} => warned
    /\ stage \in Cleared => Refusal(config, request.options) = "none"
    /\ stage \in {"merged", "accepted", "dialing", "failed"} => Running

\* The tasks are those of a schedule that the strategy allows.
Scheduled ==
    LET n == Len(Participants(config)) IN
    /\ config.scheduler.strategy = "step" => ~BadSteps(n, config.scheduler.steps)
    /\ \E delays \in StartDelays(n, config.scheduler) :
            tasks = Schedule(Participants(config), delays)

\* Who is followed is a participant, and its session is what a dial may end with.
Followed ==
    /\ \E i \in DOMAIN Participants(config) : who = Participants(config)[i].id
    /\ session # NoSession =>
        LET tls == ForParticipant(config.tls, who) IN
        /\ session.result \in ConnectResults(tls)
        /\ session.cert = IF session.result = "tls" THEN tls.cert ELSE NoFile

\* A dial is repeated only by who reconnects, and after the backoff of its attempt.
Paced ==
    LET r == config.reconnect IN
    /\ stage = "failed" => r.enabled
    /\ attempt \in Nat /\ attempt <= r.attempts
    /\ ~Dialing => attempt = 0
    /\ IF attempt = 0 THEN backoff = 0 ELSE backoff \in ReconnectDelays(r, attempt)

LaunchInv ==
    /\ request \in Requests /\ config \in AppConfig
    /\ Asked
    /\ Dialing /\ Running => Scheduled
    /\ ~Dialing \/ ~Running => tasks = << >>
    /\ Dialing => Followed
    /\ ~Dialing => session = NoSession
    /\ Paced

LEMMA ReconnectIs ==
    ASSUME NEW c \in AppConfig
    PROVE  /\ c.reconnect.min \in Nat /\ c.reconnect.max \in Nat
           /\ c.reconnect.attempts \in Nat /\ c.reconnect.attempts <= MaxU32
           /\ c.reconnect.jitter \in Nat
BY ConfigurationAssumption DEF AppConfig, Reconnect, Durations, U32

LEMMA InitLaunch == Init => LaunchInv
<1> SUFFICES ASSUME Init PROVE LaunchInv
  OBVIOUS
<1>1. config \in AppConfig /\ request \in Requests
  BY DEF Init, Start, Requests
<1>2. Paced
  BY <1>1, ReconnectIs DEF Init, Start, Paced
<1> QED BY <1>1, <1>2 DEF Init, Start, LaunchInv, Asked, Cleared, Dialing

LEMMA FirstParticipant ==
    ASSUME NEW c \in AppConfig, Count(c) # 0
    PROVE  1 \in DOMAIN Participants(c)
<1>1. CASE c.participants # << >>
  <2>1. c.participants \in Seq(Participant)
    BY DEF AppConfig
  <2>2. Len(c.participants) \in Nat \ {0} /\ DOMAIN c.participants = 1..Len(c.participants)
    BY <1>1, <2>1, EmptySeq, LenProperties
  <2> QED BY <1>1, <2>2 DEF Participants
<1>2. CASE c.participants = << >>
  <2>1. c.run.clients \in Nat /\ c.run.clients # 0
    BY <1>2, ConfigurationAssumption DEF AppConfig, Run, Count, U32
  <2> QED BY <1>2, <2>1 DEF Participants
<1> QED BY <1>1, <1>2

LEMMA NextPaced ==
    ASSUME LaunchInv, [Next]_vars
    PROVE  Paced'
<1>1. CASE Merge
  <2>1. config' \in AppConfig
    BY <1>1, OverriddenIs DEF Merge, LaunchInv, Requests
  <2>2. attempt' = 0 /\ backoff' = 0 /\ stage' = "merged"
    BY <1>1 DEF Merge, LaunchInv, Paced, Dialing
  <2>3. config'.reconnect.attempts \in Nat
    BY <2>1, ReconnectIs
  <2> QED BY <2>2, <2>3 DEF Paced
<1>2. CASE MergePanics \/ DeadlinePanics \/ ScheduleFails \/ Check \/ Validate \/ Spawn
  <2>1. attempt' = attempt /\ backoff' = backoff /\ config' = config /\ ~Dialing /\ stage' # "failed"
    BY <1>2 DEF MergePanics, DeadlinePanics, ScheduleFails, Check, Validate, Spawn, Dialing
  <2> QED BY <2>1 DEF LaunchInv, Paced
<1>3. CASE Dial
  <2>1. /\ attempt' = attempt /\ backoff' = backoff /\ config' = config /\ Dialing /\ Dialing'
        /\ stage' = "failed" => config.reconnect.enabled
    BY <1>3 DEF Dial, Dialing
  <2> QED BY <2>1 DEF LaunchInv, Paced
<1>4. CASE GiveUp
  BY <1>4 DEF GiveUp, LaunchInv, Paced, Dialing
<1>5. CASE Backoff
  <2>1. /\ attempt' = attempt + 1 /\ config' = config /\ stage' = "dialing"
        /\ attempt < config.reconnect.attempts
        /\ backoff' \in ReconnectDelays(config.reconnect, attempt')
    BY <1>5 DEF Backoff
  <2>2. attempt \in Nat /\ config.reconnect.attempts \in Nat
    BY ReconnectIs DEF LaunchInv, Paced
  <2>3. attempt' \in Nat /\ attempt' <= config.reconnect.attempts /\ attempt' # 0
    BY <2>1, <2>2
  <2> QED BY <2>1, <2>3 DEF Paced, Dialing
<1>6. CASE UNCHANGED vars
  BY <1>6 DEF vars, LaunchInv, Paced, Dialing
<1> QED BY <1>1, <1>2, <1>3, <1>4, <1>5, <1>6 DEF Next, Terminated

LEMMA NextLaunch == LaunchInv /\ [Next]_vars => LaunchInv'
<1> SUFFICES ASSUME LaunchInv, [Next]_vars PROVE LaunchInv'
  OBVIOUS
<1>p. Paced'
  BY NextPaced
<1>0. request' = request
  BY DEF Next, Merge, MergePanics, Check, Validate, DeadlinePanics, ScheduleFails, Spawn,
         Dial, GiveUp, Backoff, Terminated, vars
<1>1. CASE Merge
  <2>1. config' \in AppConfig
    BY <1>1, OverriddenIs DEF Merge, LaunchInv, Requests
  <2> QED BY <1>p, <1>0, <1>1, <2>1 DEF Merge, LaunchInv, Asked, Cleared, Dialing, Running
<1>2. CASE MergePanics \/ DeadlinePanics \/ ScheduleFails
  BY <1>p, <1>0, <1>2 DEF MergePanics, DeadlinePanics, ScheduleFails, LaunchInv, Asked, Cleared, Dialing, Running
<1>3. CASE Check
  BY <1>p, <1>0, <1>3 DEF Check, LaunchInv, Asked, Cleared, Dialing, Running
<1>4. CASE Validate
  <2>1. CASE stage' = "preflight"
    <3>1. /\ Refusal(config, request.options) = "none" /\ warned' = TRUE
          /\ who' = Participants(config)[1].id /\ ~Running
          /\ config' = config /\ tasks' = tasks /\ session' = session /\ stage = "parsed"
      BY <1>4, <2>1 DEF Validate
    <3>2. Count(config) # 0
      <4>1. ~WorkloadChecks(config)[2][2]
        BY <3>1, Unrefused
      <4> QED BY <4>1 DEF WorkloadChecks
    <3>3. 1 \in DOMAIN Participants(config)
      BY <3>2, FirstParticipant DEF LaunchInv
    <3>4. Followed'
      BY <3>1, <3>3 DEF Followed, LaunchInv, Dialing
    <3> QED BY <1>p, <1>0, <2>1, <3>1, <3>4 DEF LaunchInv, Asked, Cleared, Dialing, Running
  <2>2. CASE stage' # "preflight"
    BY <1>p, <1>0, <1>4, <2>2 DEF Validate, LaunchInv, Asked, Cleared, Dialing, Running
  <2> QED BY <2>1, <2>2
<1>5. CASE Spawn
  <2>1. /\ config' = config /\ warned' = warned /\ session' = session
        /\ stage = "accepted" /\ stage' = "dialing"
    BY <1>5 DEF Spawn
  <2>2. Scheduled'
    BY <1>5, <2>1 DEF Spawn, Scheduled, ScheduleRefused
  <2>3. Followed'
    BY <1>5, <2>1 DEF Spawn, Followed, LaunchInv, Dialing
  <2> QED BY <1>p, <1>0, <2>1, <2>2, <2>3 DEF LaunchInv, Asked, Cleared, Dialing, Running
<1>6. CASE Dial
  <2>1. /\ config' = config /\ warned' = warned /\ tasks' = tasks /\ who' = who
        /\ stage \in {"dialing", "preflight"} /\ stage' \in {"open", "failed", "ended"}
        /\ stage' = "failed" => Running
    BY <1>6 DEF Dial
  <2>2. Followed'
    BY <1>6, <2>1 DEF Dial, Followed, LaunchInv, Dialing, NoSession
  <2>3. Scheduled => Scheduled'
    BY <2>1 DEF Scheduled
  <2> QED BY <1>p, <1>0, <2>1, <2>2, <2>3 DEF LaunchInv, Asked, Cleared, Dialing, Running
<1>7. CASE GiveUp \/ Backoff
  <2>1. /\ config' = config /\ warned' = warned /\ tasks' = tasks /\ who' = who
        /\ session' = session /\ stage = "failed" /\ stage' \in {"dialing", "ended"}
    BY <1>7 DEF GiveUp, Backoff
  <2>2. (Followed => Followed') /\ (Scheduled => Scheduled')
    BY <2>1 DEF Followed, Scheduled
  <2> QED BY <1>p, <1>0, <2>1, <2>2 DEF LaunchInv, Asked, Cleared, Dialing, Running
<1>8. CASE UNCHANGED vars
  BY <1>p, <1>8 DEF vars, LaunchInv, Asked, Dialing, Running, Scheduled, Followed
<1> QED BY <1>1, <1>2, <1>3, <1>4, <1>5, <1>6, <1>7, <1>8 DEF Next, Terminated

-----------------------------------------------------------------------------
LEMMA FaultsHaveNames ==
    ASSUME NEW tls
    PROVE  MaterialFault(tls) \notin {"clear", "tls"}
<1>1. IdentityFault(tls) \in {"none", "tls_configuration_failed",
                             "client_certificate_load_failed", "client_key_load_failed"}
  <2>1. CASE (tls.cert = NoFile) # (tls.key = NoFile)
    BY <2>1 DEF IdentityFault
  <2>2. CASE tls.cert = NoFile /\ tls.key = NoFile
    BY <2>2 DEF IdentityFault
  <2>3. CASE tls.cert # NoFile /\ tls.key # NoFile
    BY <2>3 DEF IdentityFault
  <2> QED BY <2>1, <2>2, <2>3
<1>2. MaterialFault(tls) \in {IdentityFault(tls), "tls_configuration_failed", "ca_load_failed"}
  BY DEF MaterialFault
<1> QED BY <1>1, <1>2

\* A session is in the clear only if it is configured so, and one with TLS is with a
\* CA and the client's own identity, if it has one (connection.rs, config.rs), for
\* any combination of files, templates and participants.
THEOREM TlsIsHonoured == Spec => []TlsHonoured
<1>1. LaunchInv => TlsHonoured
  <2> SUFFICES ASSUME LaunchInv, Established PROVE TlsHonoured
    BY DEF TlsHonoured
  <2> DEFINE tls == ForParticipant(config.tls, who)
  <2>1. session # NoSession
    BY DEF Established, NoSession
  <2>2. Dialing /\ Followed
    BY <2>1 DEF LaunchInv
  <2>3. /\ session.result \in ConnectResults(tls) /\ session.result \in {"clear", "tls"}
        /\ session.cert = IF session.result = "tls" THEN tls.cert ELSE NoFile
    BY <2>1, <2>2 DEF Followed, Established
  <2>4. config.tls \in Tls
    BY DEF LaunchInv, AppConfig
  <2>5. tls.enabled = config.tls.enabled /\ tls.ca = config.tls.ca
    BY <2>4 DEF ForParticipant, Tls
  <2>6. ResolvesFor(config.tls, who)
    <3>1. Refusal(config, request.options) = "none"
      BY <2>2 DEF LaunchInv, Asked, Dialing, Cleared
    <3>2. ~BadTemplates(config)
      <4>1. ~WorkloadChecks(config)[11][2]
        BY <3>1, Unrefused
      <4> QED BY <4>1 DEF WorkloadChecks
    <3> QED BY <2>2, <3>2 DEF Followed, BadTemplates
  <2>7. MaterialFault(tls) \notin {"clear", "tls"}
    BY FaultsHaveNames
  <2>8. CASE ~config.tls.enabled
    BY <2>3, <2>5, <2>8 DEF ConnectResults, TlsHonoured
  <2>9. CASE config.tls.enabled
    <3>1. session.result = "tls" /\ MaterialFault(tls) = "none" /\ session.cert = tls.cert
      BY <2>3, <2>5, <2>7, <2>9 DEF ConnectResults
    <3>2. tls.ca \in Readable /\ IdentityFault(tls) = "none"
      BY <3>1 DEF MaterialFault
    <3>3. (tls.cert = NoFile) <=> (tls.key = NoFile)
      BY <3>2 DEF IdentityFault
    <3>4. HasTemplates(config.tls) =>
            /\ tls.cert = OwnFile("cert", who)
            /\ config.tls.cert = NoFile /\ config.tls.key = NoFile
      BY <2>4, <2>6 DEF ForParticipant, ResolvesFor, Tls
    <3>5. ~HasTemplates(config.tls) => tls = config.tls
      BY DEF ForParticipant
    <3> QED BY <2>5, <2>9, <3>1, <3>2, <3>3, <3>4, <3>5 DEF TlsHonoured
  <2> QED BY <2>8, <2>9
<1> QED BY <1>1, InitLaunch, NextLaunch, PTL DEF Spec

-----------------------------------------------------------------------------
(* The schedules of scheduler.rs. *)

\* FlattenSeq is a recursive function; that there is one is shown by its first values.
LEMMA FlattenIs ==
    ASSUME NEW S, NEW s \in Seq(S), Len(s) # 0
    PROVE  \E f : /\ f = [i \in 1..Len(s) |-> IF i = 1 THEN s[i] ELSE f[i - 1] \o s[i]]
                  /\ FlattenSeq(s) = f[Len(s)]
<1> DEFINE UpTo(n, g) == g = [i \in 1..n |-> IF i = 1 THEN s[i] ELSE g[i - 1] \o s[i]]
           Missing == {n \in 1..Len(s) : ~ \E g : UpTo(n, g)}
<1>1. Len(s) \in Nat
  BY LenProperties
<1>2. ASSUME NEW m \in Missing, \A n \in Missing : m <= n
      PROVE  FALSE
  <2>1. m # 1
    <3>1. UpTo(1, [i \in 1..1 |-> s[i]])
      OBVIOUS
    <3> QED BY <1>2, <3>1
  <2>2. m \in 1..Len(s) /\ m - 1 \in 1..Len(s) /\ ~(m <= m - 1)
    <3> HIDE DEF UpTo
    <3> QED BY <1>1, <1>2, <2>1
  <2>3. PICK g : UpTo(m - 1, g)
    <3> HIDE DEF UpTo
    <3> QED BY <1>2, <2>2
  <2> DEFINE h == [i \in 1..m |-> IF i = 1 THEN s[i] ELSE g[i - 1] \o s[i]]
  <2>4. ASSUME NEW i \in 1..m, i # 1 PROVE h[i - 1] = g[i - 1]
    <3>1. i - 1 \in 1..(m - 1) /\ i - 1 \in 1..m
      BY <1>1, <2>2, <2>4
    <3> QED BY <2>3, <3>1
  <2>5. UpTo(m, h)
    BY <2>4
  <2> QED BY <1>2, <2>5
<1>3. Missing = {}
  <2>1. Missing \in SUBSET Nat
    <3> HIDE DEF UpTo
    <3> QED BY <1>1
  <2> HIDE DEF Missing
  <2> QED BY <1>2, <2>1, LeastNat
<1>4. \E g : UpTo(Len(s), g)
  <2> HIDE DEF UpTo
  <2>1. Len(s) \in 1..Len(s)
    BY <1>1
  <2> QED BY <1>3, <2>1
<1> DEFINE f == CHOOSE g : UpTo(Len(s), g)
<1>5. UpTo(Len(s), f)
  BY <1>4
<1>6. FlattenSeq(s) = f[Len(s)]
  BY DEF FlattenSeq
<1> QED BY <1>5, <1>6

Steps == Seq([at : Durations, clients : U32])

LEMMA StepIs ==
    ASSUME NEW steps \in Steps
    PROVE  /\ Len(steps) \in Nat /\ DOMAIN steps = 1..Len(steps)
           /\ \A i \in DOMAIN steps : steps[i].at \in Nat /\ steps[i].clients \in Nat
<1>1. Len(steps) \in Nat /\ DOMAIN steps = 1..Len(steps)
  BY LenProperties DEF Steps
<1>2. \A i \in 1..Len(steps) : steps[i] \in [at : Durations, clients : U32]
  BY ElementOfSeq DEF Steps
<1>3. U32 \subseteq Nat
  BY ConfigurationAssumption DEF U32
<1>4. \A i \in DOMAIN steps : steps[i].at \in Nat /\ steps[i].clients \in U32
  BY <1>1, <1>2 DEF Durations
<1> QED BY <1>1, <1>3, <1>4

\* Steps that the schedule accepts are ordered, in time and in clients.
LEMMA StepsAreOrdered ==
    ASSUME NEW n \in Nat, NEW steps \in Steps, ~BadSteps(n, steps)
    PROVE  /\ \A i \in DOMAIN steps : steps[i].clients <= n
           /\ \A i, j \in DOMAIN steps :
                i <= j => steps[i].at <= steps[j].at /\ steps[i].clients <= steps[j].clients
<1> DEFINE Rises(i, j) == steps[i].at <= steps[j].at /\ steps[i].clients <= steps[j].clients
           Wrong == {j \in DOMAIN steps : \E i \in DOMAIN steps : i <= j /\ ~Rises(i, j)}
<1>1. /\ Len(steps) \in Nat /\ DOMAIN steps = 1..Len(steps)
      /\ \A i \in DOMAIN steps : steps[i].at \in Nat /\ steps[i].clients \in Nat
  BY StepIs
<1>2. \A i \in DOMAIN steps : ~(steps[i].clients > n)
  BY DEF BadSteps
<1>3. ASSUME NEW i \in DOMAIN steps, i > 1 PROVE Rises(i - 1, i)
  <2>1. ~(steps[i].at < steps[i-1].at) /\ ~(steps[i].clients < steps[i-1].clients)
    BY <1>3 DEF BadSteps
  <2>2. i - 1 \in DOMAIN steps
    BY <1>1, <1>3
  <2>3. /\ steps[i].at \in Nat /\ steps[i].clients \in Nat
        /\ steps[i-1].at \in Nat /\ steps[i-1].clients \in Nat
    BY <1>1, <2>2
  <2> QED BY <2>1, <2>3
<1>4. ASSUME NEW m \in Wrong, \A k \in Wrong : m <= k
      PROVE  FALSE
  <2>1. PICK i \in DOMAIN steps : i <= m /\ ~Rises(i, m)
    BY <1>4
  <2>2. i # m
    BY <1>1, <2>1
  <2>3. m - 1 \in DOMAIN steps /\ i <= m - 1 /\ m > 1 /\ ~(m <= m - 1)
    <3>1. m \in 1..Len(steps) /\ i \in 1..Len(steps)
      BY <1>1
    <3> HIDE DEF Rises, Wrong
    <3> QED BY <1>1, <2>1, <2>2, <3>1
  <2>4. m - 1 \notin Wrong
    BY <1>4, <2>3
  <2>5. Rises(i, m - 1) /\ Rises(m - 1, m)
    BY <1>3, <2>3, <2>4
  <2>6. /\ steps[i].at \in Nat /\ steps[i].clients \in Nat
        /\ steps[m].at \in Nat /\ steps[m].clients \in Nat
        /\ steps[m-1].at \in Nat /\ steps[m-1].clients \in Nat
    BY <1>1, <2>3
  <2>7. Rises(i, m)
    BY <2>5, <2>6
  <2> QED BY <2>1, <2>7
<1>5. Wrong = {}
  <2>1. Wrong \in SUBSET Nat
    BY <1>1
  <2> HIDE DEF Wrong
  <2> QED BY <1>4, <2>1, LeastNat
<1>6. \A i \in DOMAIN steps : steps[i].clients <= n
  BY <1>1, <1>2
<1> QED BY <1>5, <1>6

\* The step that brings client j.
Brings(steps, k, j) ==
    /\ k \in DOMAIN steps /\ j <= steps[k].clients
    /\ k = 1 \/ steps[k - 1].clients < j

\* What the steps up to i schedule: as many clients as step i wants, each of them when
\* the step that brings it is reached.
LEMMA StepsSchedule ==
    ASSUME NEW n \in Nat, NEW steps \in Steps, ~BadSteps(n, steps), Len(steps) # 0,
           NEW f, \A i \in DOMAIN steps :
                    f[i] = IF i = 1 THEN Repeat(steps[i].at, Added(steps, i))
                           ELSE f[i - 1] \o Repeat(steps[i].at, Added(steps, i))
    PROVE  \A i \in DOMAIN steps :
                /\ f[i] \in Seq(Nat) /\ Len(f[i]) = steps[i].clients
                /\ \A j \in 1..steps[i].clients :
                        \E k \in DOMAIN steps : Brings(steps, k, j) /\ f[i][j] = steps[k].at
<1> DEFINE Good(i) == /\ f[i] \in Seq(Nat) /\ Len(f[i]) = steps[i].clients
                      /\ \A j \in 1..steps[i].clients :
                            \E k \in DOMAIN steps : Brings(steps, k, j) /\ f[i][j] = steps[k].at
           Wrong == {i \in DOMAIN steps : ~Good(i)}
<1>1. /\ Len(steps) \in Nat /\ DOMAIN steps = 1..Len(steps)
      /\ \A i \in DOMAIN steps : steps[i].at \in Nat /\ steps[i].clients \in Nat
  BY StepIs
<1>2. ASSUME NEW x \in Nat, NEW m \in Nat
      PROVE  /\ Repeat(x, m) \in Seq(Nat) /\ Len(Repeat(x, m)) = m
             /\ \A j \in 1..m : Repeat(x, m)[j] = x
  BY DEF Repeat
<1>3. Good(1)
  <2>1. 1 \in DOMAIN steps
    BY <1>1
  <2>2. /\ f[1] = Repeat(steps[1].at, steps[1].clients)
        /\ steps[1].at \in Nat /\ steps[1].clients \in Nat
    <3>1. Added(steps, 1) = steps[1].clients
      BY <1>1, <2>1 DEF Added
    <3> QED BY <1>1, <2>1, <3>1
  <2>3. /\ f[1] \in Seq(Nat) /\ Len(f[1]) = steps[1].clients
        /\ \A j \in 1..steps[1].clients : f[1][j] = steps[1].at
    <3> DEFINE x == steps[1].at
               m == steps[1].clients
    <3>1. x \in Nat /\ m \in Nat /\ f[1] = Repeat(x, m)
      BY <2>2
    <3> HIDE DEF x, m
    <3>2. f[1] \in Seq(Nat) /\ Len(f[1]) = m /\ \A j \in 1..m : f[1][j] = x
      BY <1>2, <3>1
    <3> QED BY <3>2 DEF x, m
  <2>4. \A j \in 1..steps[1].clients : Brings(steps, 1, j)
    BY <2>1, <2>2 DEF Brings
  <2> QED BY <2>1, <2>3, <2>4
<1>4. ASSUME NEW m \in Wrong, \A i \in Wrong : m <= i
      PROVE  FALSE
  <2>1. m \in DOMAIN steps /\ m # 1
    <3> HIDE DEF Good
    <3> QED BY <1>3
  <2>2. m - 1 \in DOMAIN steps /\ m > 1 /\ ~(m <= m - 1) /\ m - 1 <= m
    <3> HIDE DEF Wrong
    <3> QED BY <1>1, <2>1
  <2>3. Good(m - 1)
    <3> HIDE DEF Good
    <3> QED BY <1>4, <2>2
  <2> DEFINE a == steps[m].at
             b == steps[m - 1].clients
             c == steps[m].clients
             g == f[m - 1]
             r == Repeat(a, c - b)
  <2>4. a \in Nat /\ b \in Nat /\ c \in Nat /\ b <= c
    BY <1>1, <2>1, <2>2, StepsAreOrdered
  <2>5. g \in Seq(Nat) /\ Len(g) = b
    BY <2>3
  <2>6. f[m] = g \o r
    <3>1. Added(steps, m) = c - b
      BY <2>1 DEF Added
    <3> QED BY <1>1, <2>1, <3>1
  <2>7. r \in Seq(Nat) /\ Len(r) = c - b /\ \A j \in 1..(c - b) : r[j] = a
    <3>1. c - b \in Nat
      BY <2>4
    <3> QED BY <1>2, <2>4, <3>1
  <2>8. \A j \in 1..b : \E k \in DOMAIN steps : Brings(steps, k, j) /\ g[j] = steps[k].at
    BY <2>3
  <2>9. /\ f[m] \in Seq(Nat) /\ Len(f[m]) = c
        /\ \A j \in 1..c : f[m][j] = IF j <= b THEN g[j] ELSE a
    <3> HIDE DEF a, b, c, g, r
    <3>1. /\ g \o r \in Seq(Nat) /\ Len(g \o r) = Len(g) + Len(r)
          /\ \A j \in 1..(Len(g) + Len(r)) :
                (g \o r)[j] = IF j <= Len(g) THEN g[j] ELSE r[j - Len(g)]
      <4>1. g \in Seq(Nat) /\ r \in Seq(Nat)
        BY <2>5, <2>7
      <4> QED BY <4>1, ConcatProperties
    <3>2. Len(g) + Len(r) = c
      BY <2>4, <2>5, <2>7
    <3>3. ASSUME NEW j \in 1..c PROVE (g \o r)[j] = IF j <= b THEN g[j] ELSE a
      <4>1. CASE j <= b
        BY <2>5, <3>1, <3>2, <4>1
      <4>2. CASE ~(j <= b)
        <5>1. j - b \in 1..(c - b)
          BY <2>4, <4>2
        <5> QED BY <2>5, <2>7, <3>1, <3>2, <4>2, <5>1
      <4> QED BY <4>1, <4>2
    <3> QED BY <2>6, <3>1, <3>2, <3>3
  <2>10. ASSUME NEW j \in 1..c
         PROVE  \E k \in DOMAIN steps : Brings(steps, k, j) /\ f[m][j] = steps[k].at
    <3>1. CASE j <= b
      <4>1. j \in 1..b
        BY <2>4, <3>1
      <4> QED BY <2>8, <2>9, <3>1, <4>1
    <3>2. CASE ~(j <= b)
      <4>1. b < j /\ j <= c
        BY <2>4, <3>2
      <4>2. Brings(steps, m, j)
        BY <2>1, <4>1 DEF Brings
      <4> QED BY <2>1, <2>9, <3>2, <4>2
    <3> QED BY <3>1, <3>2
  <2>11. Good(m)
    BY <2>9, <2>10
  <2> QED BY <1>4, <2>11
<1>5. Wrong = {}
  <2>1. Wrong \in SUBSET Nat
    <3> HIDE DEF Good
    <3> QED BY <1>1
  <2> HIDE DEF Wrong
  <2> QED BY <1>4, <2>1, LeastNat
<1> QED BY <1>5

\* Client j starts with the step that brings it, and with the last step if none does.
StartsAt(steps, j, d) ==
    IF Len(steps) = 0 THEN d = 0
    ELSE \/ \E k \in DOMAIN steps : Brings(steps, k, j) /\ d = steps[k].at
         \/ steps[Len(steps)].clients < j /\ d = steps[Len(steps)].at

LEMMA StepDelaysAre ==
    ASSUME NEW n \in Nat, NEW steps \in Steps, ~BadSteps(n, steps)
    PROVE  /\ StepDelays(n, steps) \in Seq(Nat) /\ Len(StepDelays(n, steps)) = n
           /\ \A j \in 1..n : StartsAt(steps, j, StepDelays(n, steps)[j])
<1> DEFINE last == Len(steps)
           s == [i \in DOMAIN steps |-> Repeat(steps[i].at, Added(steps, i))]
           most == IF last = 0 THEN 0 ELSE steps[last].clients
           late == IF last = 0 THEN 0 ELSE steps[last].at
           r == Repeat(late, n - most)
           g == FlattenSeq(s)
<1>1. /\ last \in Nat /\ DOMAIN steps = 1..last
      /\ \A i \in DOMAIN steps : steps[i].at \in Nat /\ steps[i].clients \in Nat
  BY StepIs
<1>2. most \in Nat /\ late \in Nat /\ most <= n
  <2>1. CASE last = 0
    BY <2>1
  <2>2. CASE last # 0
    <3>1. last \in DOMAIN steps
      BY <1>1, <2>2
    <3> QED BY <1>1, <2>2, <3>1, StepsAreOrdered
  <2> QED BY <2>1, <2>2
<1>3. StepDelays(n, steps) = g \o r
  BY DEF StepDelays
<1>4. s \in Seq({s[i] : i \in DOMAIN steps}) /\ Len(s) = last
  BY <1>1
<1>5. /\ g \in Seq(Nat) /\ Len(g) = most
      /\ last # 0 => \A j \in 1..most :
            \E k \in DOMAIN steps : Brings(steps, k, j) /\ g[j] = steps[k].at
  <2>1. CASE last = 0
    <3>1. s = << >>
      BY <1>1, <2>1
    <3>2. g = << >>
      BY <1>4, <2>1, <3>1 DEF FlattenSeq
    <3>3. g \in Seq(Nat) /\ Len(g) = most
      <4> HIDE DEF g
      <4>1. Len(g) = 0 /\ g \in Seq(Nat)
        BY <3>2, EmptySeq
      <4> QED BY <2>1, <4>1
    <3> QED BY <2>1, <3>3
  <2>2. CASE last # 0
    <3>1. PICK f : /\ f = [i \in 1..Len(s) |-> IF i = 1 THEN s[i] ELSE f[i - 1] \o s[i]]
                   /\ g = f[Len(s)]
      <4>1. Len(s) # 0
        BY <1>4, <2>2
      <4> HIDE DEF s
      <4> QED BY <1>4, <4>1, FlattenIs
    <3>2. ASSUME NEW i \in DOMAIN steps
          PROVE  f[i] = IF i = 1 THEN Repeat(steps[i].at, Added(steps, i))
                        ELSE f[i - 1] \o Repeat(steps[i].at, Added(steps, i))
      <4>1. s[i] = Repeat(steps[i].at, Added(steps, i))
        OBVIOUS
      <4>2. i \in 1..Len(s)
        BY <1>1, <1>4
      <4> HIDE DEF s
      <4> QED BY <3>1, <4>1, <4>2
    <3>3. last \in DOMAIN steps
      BY <1>1, <2>2
    <3>4. /\ f[last] \in Seq(Nat) /\ Len(f[last]) = steps[last].clients
          /\ \A j \in 1..steps[last].clients :
                \E k \in DOMAIN steps : Brings(steps, k, j) /\ f[last][j] = steps[k].at
      <4>1. \A i \in DOMAIN steps :
                /\ f[i] \in Seq(Nat) /\ Len(f[i]) = steps[i].clients
                /\ \A j \in 1..steps[i].clients :
                    \E k \in DOMAIN steps : Brings(steps, k, j) /\ f[i][j] = steps[k].at
        BY <2>2, <3>2, StepsSchedule
      <4> QED BY <3>3, <4>1
    <3>5. g = f[last]
      BY <1>4, <3>1
    <3> HIDE DEF g
    <3> QED BY <2>2, <3>4, <3>5
  <2> QED BY <2>1, <2>2
<1>6. r \in Seq(Nat) /\ Len(r) = n - most /\ \A j \in 1..(n - most) : r[j] = late
  <2>1. n - most \in Nat
    BY <1>2
  <2> HIDE DEF most, late
  <2> QED BY <1>2, <2>1 DEF Repeat
<1>7. /\ g \o r \in Seq(Nat) /\ Len(g \o r) = n
      /\ \A j \in 1..n : (g \o r)[j] = IF j <= most THEN g[j] ELSE late
  <2> HIDE DEF g, r, most, late
  <2>1. /\ g \o r \in Seq(Nat) /\ Len(g \o r) = Len(g) + Len(r)
        /\ \A j \in 1..(Len(g) + Len(r)) :
                (g \o r)[j] = IF j <= Len(g) THEN g[j] ELSE r[j - Len(g)]
    BY <1>5, <1>6, ConcatProperties
  <2>2. Len(g) + Len(r) = n
    BY <1>2, <1>5, <1>6
  <2>3. ASSUME NEW j \in 1..n PROVE (g \o r)[j] = IF j <= most THEN g[j] ELSE late
    <3>1. CASE j <= most
      BY <1>5, <2>1, <2>2, <3>1
    <3>2. CASE ~(j <= most)
      <4>1. j - most \in 1..(n - most)
        BY <1>2, <3>2
      <4> QED BY <1>5, <1>6, <2>1, <2>2, <3>2, <4>1
    <3> QED BY <3>1, <3>2
  <2> QED BY <2>1, <2>2, <2>3
<1>8. ASSUME NEW j \in 1..n PROVE StartsAt(steps, j, (g \o r)[j])
  <2>1. CASE last = 0
    <3>1. most = 0 /\ late = 0 /\ ~(j <= most)
      BY <2>1
    <3> QED BY <1>7, <2>1, <3>1 DEF StartsAt
  <2>2. CASE last # 0 /\ j <= most
    <3>1. j \in 1..most
      BY <1>2, <2>2
    <3> HIDE DEF g, r, most, late
    <3> QED BY <1>5, <1>7, <2>2, <3>1 DEF StartsAt
  <2>3. CASE last # 0 /\ ~(j <= most)
    <3>1. most < j
      BY <1>2, <2>3
    <3>2. most = steps[last].clients /\ late = steps[last].at /\ (g \o r)[j] = late
      BY <1>7, <2>3
    <3> HIDE DEF g, r, most, late
    <3> QED BY <2>3, <3>1, <3>2 DEF StartsAt
  <2> QED BY <2>1, <2>2, <2>3
<1> QED BY <1>3, <1>7, <1>8

LEMMA Division ==
    ASSUME NEW a \in Nat, NEW b \in Nat, b # 0
    PROVE  /\ a \div b \in Nat
           /\ b * (a \div b) <= a /\ a < b * (a \div b) + b
OBVIOUS

LEMMA LinearIs ==
    ASSUME NEW n \in Nat, NEW ramp \in Nat
    PROVE  /\ LinearDelays(n, ramp) \in [1..n -> Nat]
           /\ \A i \in 1..n : LinearDelays(n, ramp)[i] = (ramp * (i - 1)) \div n
<1>1. ASSUME NEW i \in 1..n PROVE (ramp * (i - 1)) \div n \in Nat
  <2>1. i - 1 \in Nat /\ n # 0
    OBVIOUS
  <2>2. \A x, y \in Nat : x * y \in Nat
    OBVIOUS
  <2>3. ramp * (i - 1) \in Nat
    BY <2>1, <2>2
  <2> QED BY <2>1, <2>3, Division
<1> QED BY <1>1 DEF LinearDelays

\* There is a delay for each client.
LEMMA DelaysAre ==
    ASSUME NEW n \in Nat, NEW s \in Scheduler,
           s.strategy = "step" => ~BadSteps(n, s.steps),
           NEW d \in StartDelays(n, s)
    PROVE  d \in [1..n -> Nat] /\ Len(d) = n
<1>1. s.rampUp \in Nat /\ s.steps \in Steps
      /\ s.strategy \in {"immediate", "linear", "step", "randomized"}
  BY DEF Scheduler, Durations, Steps
<1>2. CASE s.strategy = "immediate"
  BY <1>2 DEF StartDelays, Repeat
<1>3. CASE s.strategy = "linear"
  <2>1. d = LinearDelays(n, s.rampUp)
    BY <1>3 DEF StartDelays
  <2>2. d \in [1..n -> Nat]
    BY <1>1, <2>1, LinearIs
  <2> QED BY <2>2
<1>4. CASE s.strategy = "step"
  <2>1. d = StepDelays(n, s.steps)
    BY <1>4 DEF StartDelays
  <2>2. d \in Seq(Nat) /\ Len(d) = n
    BY <1>1, <1>4, <2>1, StepDelaysAre
  <2>3. d \in [1..n -> Nat]
    BY <2>2, LenProperties
  <2> QED BY <2>2, <2>3
<1>5. CASE s.strategy = "randomized"
  <2>1. PICK p \in [1..n -> 1..n] : d = [i \in 1..n |-> LinearDelays(n, s.rampUp)[p[i]]]
    BY <1>5 DEF StartDelays
  <2>2. LinearDelays(n, s.rampUp) \in [1..n -> Nat]
    BY <1>1, LinearIs
  <2>3. d \in [1..n -> Nat]
    BY <2>1, <2>2
  <2> QED BY <2>3
<1> QED BY <1>1, <1>2, <1>3, <1>4, <1>5

LEMMA ParticipantsAre ==
    ASSUME NEW c \in AppConfig
    PROVE  /\ Count(c) \in Nat /\ Len(Participants(c)) = Count(c)
           /\ DOMAIN Participants(c) = 1..Count(c)
<1>1. CASE c.participants # << >>
  <2>1. c.participants \in Seq(Participant)
    BY DEF AppConfig
  <2>2. Participants(c) = c.participants /\ Count(c) = Len(c.participants)
    BY <1>1 DEF Participants, Count
  <2> QED BY <2>1, <2>2, LenProperties
<1>2. CASE c.participants = << >>
  <2>1. c.run.clients \in Nat
    BY ConfigurationAssumption DEF AppConfig, Run, U32
  <2> QED BY <1>2, <2>1 DEF Participants, Count
<1> QED BY <1>1, <1>2

\* The tasks are the participants, each with its delay.
LEMMA TasksAre ==
    ASSUME config \in AppConfig, Scheduled
    PROVE  \E d \in StartDelays(Count(config), config.scheduler) :
              /\ d \in [1..Count(config) -> Nat]
              /\ Len(tasks) = Count(config) /\ DOMAIN tasks = 1..Count(config)
              /\ \A i \in 1..Count(config) :
                    tasks[i].participant = Participants(config)[i].id /\ tasks[i].delay = d[i]
<1> DEFINE n == Count(config)
           s == Participants(config)
<1>1. n \in Nat /\ Len(s) = n /\ DOMAIN s = 1..n
  BY ParticipantsAre
<1>2. PICK d \in StartDelays(n, config.scheduler) : tasks = Schedule(s, d)
  BY <1>1 DEF Scheduled
<1>3. d \in [1..n -> Nat] /\ Len(d) = n
  <2>1. config.scheduler \in Scheduler
    BY DEF AppConfig
  <2>2. config.scheduler.strategy = "step" => ~BadSteps(n, config.scheduler.steps)
    BY <1>1 DEF Scheduled
  <2> QED BY <1>1, <1>2, <2>1, <2>2, DelaysAre
<1>4. Least(Len(s), Len(d)) = n
  BY <1>1, <1>3 DEF Least
<1>5. tasks = [i \in 1..n |-> [participant |-> s[i].id, delay |-> d[i]]]
  BY <1>2, <1>4 DEF Schedule
<1> HIDE DEF s, n
<1>6. /\ Len(tasks) = n /\ DOMAIN tasks = 1..n
      /\ \A i \in 1..n : tasks[i].participant = s[i].id /\ tasks[i].delay = d[i]
  BY <1>1, <1>5
<1> QED BY <1>2, <1>3, <1>6 DEF s, n

LEMMA ConcatTwo ==
    ASSUME NEW s \in Seq(Ids), NEW t \in Seq(Ids)
    PROVE  /\ \A i \in DOMAIN s : i \in DOMAIN (s \o t) /\ (s \o t)[i] = s[i]
           /\ \A i \in DOMAIN t : Len(s) + i \in DOMAIN (s \o t) /\ (s \o t)[Len(s) + i] = t[i]
<1>1. /\ DOMAIN s = 1..Len(s) /\ DOMAIN t = 1..Len(t) /\ Len(s) \in Nat /\ Len(t) \in Nat
      /\ s \o t \in Seq(Ids) /\ Len(s \o t) = Len(s) + Len(t)
  OBVIOUS
<1>2. DOMAIN (s \o t) = 1..(Len(s) + Len(t))
  BY <1>1
<1>3. ASSUME NEW i \in 1..(Len(s) + Len(t))
      PROVE  (s \o t)[i] = IF i <= Len(s) THEN s[i] ELSE t[i - Len(s)]
  OBVIOUS
<1>4. ASSUME NEW i \in DOMAIN s PROVE i \in DOMAIN (s \o t) /\ (s \o t)[i] = s[i]
  BY <1>1, <1>2, <1>3
<1>5. ASSUME NEW i \in DOMAIN t
      PROVE  Len(s) + i \in DOMAIN (s \o t) /\ (s \o t)[Len(s) + i] = t[i]
  <2>1. Len(s) + i \in 1..(Len(s) + Len(t)) /\ ~(Len(s) + i <= Len(s)) /\ (Len(s) + i) - Len(s) = i
    BY <1>1
  <2> QED BY <1>2, <1>3, <2>1
<1> QED BY <1>4, <1>5

\* The participants and routing assertions of a configuration that is not refused.
LEMMA PlayersAre ==
    ASSUME config \in AppConfig, NEW o, Refusal(config, o) = "none"
    PROVE  CastIsPlayable
<1> DEFINE ps == config.participants
<1>1. ~BadIds(config) /\ ~BadRouting(config)
  <2>1. ~WorkloadChecks(config)[5][2] /\ ~WorkloadChecks(config)[6][2]
    BY Unrefused
  <2> QED BY <2>1 DEF WorkloadChecks
<1>2. ps \in Seq(Participant) /\ config.scenario.routing \in Seq(RoutingAssertion)
  BY DEF AppConfig, ScenarioConfig
<1>3. ASSUME NEW i \in DOMAIN ps, NEW j \in DOMAIN ps
      PROVE  IsSafeId(ps[i].id) /\ (ps[i].id = ps[j].id => i = j)
  BY <1>1 DEF BadIds, ById, DuplicateIn
\* RoleOf picks the one of that name
<1>4. ASSUME NEW id, Known(config, id)
      PROVE  Plays(id, {RoleOf(config, id)}) /\ RoleOf(config, id) \in Roles
  <2> DEFINE all == {ps[i] : i \in DOMAIN ps}
             p == CHOOSE q \in all : q.id = id
  <2>1. \E q \in all : q.id = id
    BY <1>4 DEF Known
  <2>2. p \in all /\ p.id = id
    BY <2>1
  <2>3. RoleOf(config, id) = p.role
    BY DEF RoleOf
  <2> HIDE DEF p
  <2>4. PICK i \in DOMAIN ps : p = ps[i]
    BY <2>2
  <2>5. ps[i] \in Participant
    BY <1>2
  <2>6. ps[i].id = id /\ ps[i].role = RoleOf(config, id)
    BY <2>2, <2>3, <2>4
  <2>7. RoleOf(config, id) \in Roles
    BY <2>5, <2>6 DEF Participant
  <2>8. Plays(id, {RoleOf(config, id)})
    BY <2>6 DEF Plays
  <2> QED BY <2>7, <2>8
\* more roles to play are as good
<1>5. ASSUME NEW id, NEW few, NEW more, few \subseteq more, Plays(id, few) PROVE Plays(id, more)
  BY <1>5 DEF Plays
<1>6. ASSUME NEW n \in DOMAIN config.scenario.routing
      PROVE  LET a == config.scenario.routing[n] IN
             /\ Plays(a.sender, {"send_only", "send_receive"})
             /\ \A i \in DOMAIN a.receivers : Plays(a.receivers[i], {"receive_only", "send_receive"})
             /\ \A i \in DOMAIN a.forbidden : Plays(a.forbidden[i], {"receive_only", "send_receive"})
  <2> DEFINE a == config.scenario.routing[n]
             both == a.receivers \o a.forbidden
  <2>1. ~BadAssertion(config, a) /\ a.receivers \in Seq(Ids) /\ a.forbidden \in Seq(Ids)
    <3>1. a \in RoutingAssertion
      BY <1>2
    <3>2. ~BadAssertion(config, a)
      BY <1>1 DEF BadRouting
    <3> QED BY <3>1, <3>2 DEF RoutingAssertion
  <2>2. Known(config, a.sender) /\ RoleOf(config, a.sender) # "receive_only"
    BY <2>1 DEF BadAssertion
  <2>3. \A i \in DOMAIN both : Known(config, both[i]) /\ RoleOf(config, both[i]) # "send_only"
    BY <2>1 DEF BadAssertion
  <2>4. Plays(a.sender, {"send_only", "send_receive"})
    <3>1. Plays(a.sender, {RoleOf(config, a.sender)}) /\ RoleOf(config, a.sender) \in {"send_only", "send_receive"}
      BY <1>4, <2>2 DEF Roles
    <3>2. {RoleOf(config, a.sender)} \subseteq {"send_only", "send_receive"}
      BY <3>1
    <3> QED BY <1>5, <3>1, <3>2
  <2>5. ASSUME NEW id, Known(config, id), RoleOf(config, id) # "send_only"
        PROVE  Plays(id, {"receive_only", "send_receive"})
    <3>1. Plays(id, {RoleOf(config, id)}) /\ RoleOf(config, id) \in {"receive_only", "send_receive"}
      BY <1>4, <2>5 DEF Roles
    <3>2. {RoleOf(config, id)} \subseteq {"receive_only", "send_receive"}
      BY <3>1
    <3> QED BY <1>5, <3>1, <3>2
  <2>6. \A i \in DOMAIN a.receivers : i \in DOMAIN both /\ both[i] = a.receivers[i]
    BY <2>1, ConcatTwo
  <2>7. \A i \in DOMAIN a.forbidden :
            Len(a.receivers) + i \in DOMAIN both /\ both[Len(a.receivers) + i] = a.forbidden[i]
    BY <2>1, ConcatTwo
  <2> HIDE DEF both, a
  <2>8. \A i \in DOMAIN a.receivers : Plays(a.receivers[i], {"receive_only", "send_receive"})
    BY <2>3, <2>5, <2>6
  <2>9. \A i \in DOMAIN a.forbidden : Plays(a.forbidden[i], {"receive_only", "send_receive"})
    BY <2>3, <2>5, <2>7
  <2> QED BY <2>4, <2>8, <2>9 DEF a
<1> QED BY <1>3, <1>6 DEF CastIsPlayable

\* Whatever the file says and the options add or replace, nothing is dialed outside of
\* the guard rails, by run, smoke or validate --connect (safety.rs, main.rs): those of
\* docs/safety.md, but that invalid events are let into staging with the option for
\* them, which docs/scenarios.md:13 and README.md:11 say and docs/safety.md:7 excludes.
THEOREM NothingOutsideTheRails == Spec => []GuardRails
<1>1. LaunchInv => GuardRails
  <2> SUFFICES ASSUME LaunchInv, Dialing PROVE GuardRails
    BY DEF GuardRails
  <2> DEFINE o == request.options
  <2>1. config \in AppConfig /\ warned /\ Refusal(config, o) = "none"
    BY DEF LaunchInv, Asked, Dialing, Cleared
  <2>2. Count(config) \in Nat
    BY <2>1, ParticipantsAre
  <2>3. config.run.interval \in Nat /\ config.run.duration \in Nat
        /\ config.run.period \in Int /\ config.scenario.invalid.maxEvents \in Int
        /\ config.scenario.invalid.maxEvents >= -1
        /\ config.environment \in Environments
    BY <2>1, ConfigurationAssumption
       DEF AppConfig, Run, Durations, Optional, None, ScenarioConfig, U32
  <2>4. /\ config.acknowledged
        /\ \/ config.host \in config.allowHosts
           \/ config.environment = "local" /\ config.host \in Loopback
        /\ config.environment = "production" =>
            /\ o.allowProduction /\ config.run.profile = "smoke"
            /\ Count(config) <= 3 /\ config.run.duration <= QuarterHour
            /\ config.run.interval >= HalfMinute /\ ~Disruptive(config)
        /\ config.run.profile \in {"stress", "spike", "soak"} => LocalOrTemporary(config)
        /\ Disruptive(config) =>
            config.environment # "staging" /\ config.environment # "production"
        /\ config.scenario.invalid.enabled =>
            /\ LocalOrTemporary(config) \/ (config.environment = "staging" /\ o.allowInvalid)
            /\ config.scenario.invalid.maxEvents \notin {None, 0}
            /\ config.run.interval >= OneSecond
    BY <2>1, <2>2, <2>3, GuardsHold
  <2>5. Len(tasks) \in Nat /\ Len(tasks) <= Count(config)
    <3>1. CASE Running
      <4>1. Scheduled
        BY <3>1 DEF LaunchInv
      <4>2. Len(tasks) = Count(config)
        BY <2>1, <4>1, TasksAre
      <4> QED BY <2>2, <4>2
    <3>2. CASE ~Running
      <4>1. tasks = << >>
        BY <3>2 DEF LaunchInv
      <4> QED BY <2>2, <4>1
    <3> QED BY <3>1, <3>2
  <2>6. Cadence \in Int /\ Cadence >= config.run.interval
    BY <2>3 DEF Cadence, EmissionInterval
  <2>7. HalfMinute \in Nat /\ OneSecond \in Nat
    BY ConfigurationAssumption DEF HalfMinute, OneSecond
  <2>8. Authorized
    BY <2>1, <2>4 DEF Authorized
  <2>9. ProductionIsGentle
    <3> SUFFICES ASSUME config.environment = "production" PROVE ProductionIsGentle
      BY DEF ProductionIsGentle
    <3>1. Len(tasks) <= 3 /\ Cadence >= HalfMinute
      BY <2>2, <2>3, <2>4, <2>5, <2>6, <2>7
    <3>2. ~config.scenario.invalid.enabled
      BY <2>4 DEF LocalOrTemporary
    <3> QED BY <2>4, <3>1, <3>2 DEF ProductionIsGentle
  <2>10. StressStaysHome
    BY <2>3, <2>4 DEF StressStaysHome, LocalOrTemporary, Environments
  <2>11. InvalidIsBounded
    <3>1. config.scenario.invalid.enabled => config.scenario.invalid.maxEvents > 0
      BY <2>3, <2>4 DEF None
    <3>2. config.scenario.invalid.enabled => Cadence >= OneSecond
      BY <2>3, <2>4, <2>6, <2>7
    <3> QED BY <2>4, <3>1, <3>2 DEF InvalidIsBounded
  <2>12. CastIsPlayable
    BY <2>1, PlayersAre
  <2> QED BY <2>8, <2>9, <2>10, <2>11, <2>12 DEF GuardRails
<1> QED BY <1>1, InitLaunch, NextLaunch, PTL DEF Spec

-----------------------------------------------------------------------------
(* How many have started by a time. *)

Early(n, d, t) == {i \in 1..n : d[i] <= t}

LEMMA EarlyIs ==
    ASSUME NEW n \in Nat, NEW d, NEW t
    PROVE  /\ IsFiniteSet(Early(n, d, t)) /\ Cardinality(Early(n, d, t)) \in Nat
           /\ Cardinality(Early(n, d, t)) <= n
<1>1. IsFiniteSet(1..n) /\ Cardinality(1..n) = n
  <2>1. IsFiniteSet(1..n) /\ Cardinality(1..n) = IF 1 > n THEN 0 ELSE n - 1 + 1
    BY FS_Interval
  <2> QED BY <2>1
<1>2. Early(n, d, t) \in SUBSET (1..n)
  BY DEF Early
<1>3. IsFiniteSet(Early(n, d, t)) /\ Cardinality(Early(n, d, t)) <= Cardinality(1..n)
  BY <1>1, <1>2, FS_Subset
<1> QED BY <1>1, <1>3, FS_CardinalityType

\* If the first m are the early ones, there are m of them.
LEMMA FirstOnes ==
    ASSUME NEW n \in Nat, NEW d, NEW t, NEW m \in 0..n,
           \A i \in 1..n : d[i] <= t <=> i <= m
    PROVE  Cardinality(Early(n, d, t)) = m
<1>1. Early(n, d, t) = 1..m
  BY DEF Early
<1>2. Cardinality(1..m) = IF 1 > m THEN 0 ELSE m - 1 + 1
  BY FS_Interval
<1> QED BY <1>1, <1>2

\* If the first m are early, there are at least m of them.
LEMMA AtLeast ==
    ASSUME NEW n \in Nat, NEW d, NEW t, NEW m \in 0..n,
           \A i \in 1..m : d[i] <= t
    PROVE  Cardinality(Early(n, d, t)) >= m
<1>1. 1..m \in SUBSET Early(n, d, t)
  BY DEF Early
<1>2. Cardinality(1..m) = IF 1 > m THEN 0 ELSE m - 1 + 1
  BY FS_Interval
<1>3. Cardinality(1..m) <= Cardinality(Early(n, d, t)) /\ Cardinality(Early(n, d, t)) \in Nat
  BY <1>1, EarlyIs, FS_Subset
<1>4. Cardinality(1..m) = m
  BY <1>2
<1> QED BY <1>3, <1>4

\* With c early ones, the c-th or a later one is early.
LEMMA LateOne ==
    ASSUME NEW n \in Nat, NEW d, NEW t, Cardinality(Early(n, d, t)) # 0
    PROVE  \E i \in 1..n : d[i] <= t /\ Cardinality(Early(n, d, t)) <= i
<1> DEFINE c == Cardinality(Early(n, d, t))
<1>1. c \in Nat /\ c # 0
  BY EarlyIs
<1>2. ASSUME \A i \in 1..n : d[i] <= t => i < c
      PROVE  FALSE
  <2>1. Early(n, d, t) \in SUBSET (1..(c - 1))
    <3> HIDE DEF c
    <3> QED BY <1>1, <1>2 DEF Early
  <2>2. IsFiniteSet(1..(c - 1)) /\ Cardinality(1..(c - 1)) = c - 1
    <3> HIDE DEF c
    <3> DEFINE m == c - 1
    <3>1. m \in Nat
      BY <1>1
    <3> HIDE DEF m
    <3>2. IsFiniteSet(1..m) /\ Cardinality(1..m) = IF 1 > m THEN 0 ELSE m - 1 + 1
      BY <3>1, FS_Interval
    <3>3. IsFiniteSet(1..m) /\ Cardinality(1..m) = m
      BY <3>1, <3>2
    <3> QED BY <3>3 DEF m
  <2>3. c <= Cardinality(1..(c - 1))
    BY <2>1, <2>2, FS_Subset
  <2> HIDE DEF c
  <2> QED BY <1>1, <2>2, <2>3
<1>3. \E i \in 1..n : d[i] <= t /\ ~(i < c)
  BY <1>2
<1> HIDE DEF c
<1>4. \E i \in 1..n : d[i] <= t /\ c <= i
  BY <1>1, <1>3
<1> QED BY <1>4 DEF c

\* A permutation changes nothing in how many there are.
LEMMA Shuffled ==
    ASSUME NEW n \in Nat, NEW d, NEW t, NEW p \in [1..n -> 1..n],
           \A i, j \in 1..n : p[i] = p[j] => i = j
    PROVE  Cardinality(Early(n, [i \in 1..n |-> d[p[i]]], t)) = Cardinality(Early(n, d, t))
<1> DEFINE A == Early(n, [i \in 1..n |-> d[p[i]]], t)
           B == Early(n, d, t)
           q == [i \in A |-> p[i]]
<1>1. \A j \in 1..n : \E i \in 1..n : p[i] = j
  <2>1. p \in Injection(1..n, 1..n)
    BY DEF Injection, IsInjective
  <2>2. IsFiniteSet(1..n)
    BY FS_Interval
  <2>3. p \in Surjection(1..n, 1..n)
    BY <2>1, <2>2, FS_Injection
  <2> QED BY <2>3 DEF Surjection
<1>2. A \subseteq 1..n /\ \A i \in 1..n : i \in A <=> d[p[i]] <= t
  BY DEF Early
<1>3. B \subseteq 1..n /\ \A j \in 1..n : j \in B <=> d[j] <= t
  BY DEF Early
<1>4. IsFiniteSet(A)
  BY EarlyIs
<1> HIDE DEF A, B
<1>5. q \in [A -> B]
  BY <1>2, <1>3
<1>6. \A i, j \in A : q[i] = q[j] => i = j
  BY <1>2
<1>7. \A j \in B : \E i \in A : q[i] = j
  BY <1>1, <1>2, <1>3
<1>8. q \in Bijection(A, B)
  BY <1>5, <1>6, <1>7 DEF Bijection, Injection, Surjection, IsInjective
<1>9. ExistsBijection(A, B)
  BY <1>8 DEF ExistsBijection
<1>10. Cardinality(B) = Cardinality(A)
  BY <1>4, <1>9, FS_Bijection
<1> QED BY <1>10 DEF A, B

LEMMA Products ==
    /\ \A x, y \in Nat : x * y \in Nat /\ x * y = y * x
    /\ \A x, y, z \in Nat : x <= y => z * x <= z * y
    /\ \A x, y, z \in Nat : z * x < z * y => x < y
    /\ \A x, z \in Nat : z * (x + 1) = z * x + z
OBVIOUS

\* The linear ramp: who starts when.
LEMMA LinearStarts ==
    ASSUME NEW n \in Nat, n # 0, NEW ramp \in Nat
    PROVE  LET d == LinearDelays(n, ramp) IN
           /\ Cardinality(Early(n, d, ramp)) = n
           /\ \A k \in 1..n : Cardinality(Early(n, d, (ramp * (k - 1)) \div n)) >= k
           /\ \A t \in Nat : (Cardinality(Early(n, d, t)) - 1) * ramp < (t + 1) * n
<1> DEFINE d == LinearDelays(n, ramp)
<1>1. d \in [1..n -> Nat] /\ \A i \in 1..n : d[i] = (ramp * (i - 1)) \div n
  BY LinearIs
<1> HIDE DEF d
<1>2. ASSUME NEW i \in 1..n
      PROVE  n * d[i] <= ramp * (i - 1) /\ ramp * (i - 1) < n * d[i] + n
  <2>1. i - 1 \in Nat /\ ramp * (i - 1) \in Nat
    <3>1. i - 1 \in Nat
      OBVIOUS
    <3> QED BY <3>1, Products
  <2> QED BY <1>1, <2>1, Division
<1>3. ASSUME NEW i \in 1..n, NEW k \in 1..n, i <= k PROVE d[i] <= d[k]
  <2>1. i - 1 \in Nat /\ k - 1 \in Nat /\ i - 1 <= k - 1 /\ d[i] \in Nat /\ d[k] \in Nat
    BY <1>1, <1>3
  <2>2. ramp * (i - 1) <= ramp * (k - 1) /\ n * (d[k] + 1) = n * d[k] + n
    BY <2>1, Products
  <2>3. n * d[i] <= ramp * (i - 1) /\ ramp * (k - 1) < n * d[k] + n
    BY <1>2
  <2>4. n * d[i] \in Nat /\ ramp * (i - 1) \in Nat /\ ramp * (k - 1) \in Nat /\ n * d[k] \in Nat
    BY <2>1, Products
  <2>5. n * d[i] < n * (d[k] + 1)
    <3> DEFINE w == n * d[i]
               x == ramp * (i - 1)
               y == ramp * (k - 1)
               z == n * d[k]
    <3>1. w <= x /\ x <= y /\ y < z + n /\ w \in Nat /\ x \in Nat /\ y \in Nat /\ z \in Nat
      BY <2>2, <2>3, <2>4
    <3>2. w < z + n
      <4> HIDE DEF w, x, y, z
      <4> QED BY <3>1
    <3> QED BY <2>2, <3>2
  <2>6. d[i] < d[k] + 1
    <3>1. d[k] + 1 \in Nat
      BY <2>1
    <3> QED BY <2>1, <2>5, <3>1, Products
  <2> QED BY <2>1, <2>6
<1>4. ASSUME NEW i \in 1..n PROVE d[i] <= ramp
  <2>1. i - 1 \in Nat /\ i - 1 <= n /\ d[i] \in Nat
    BY <1>1
  <2>2. ramp * (i - 1) <= ramp * n /\ n * d[i] <= ramp * (i - 1) /\ ramp * n = n * ramp
    BY <1>2, <2>1, Products
  <2>3. n * d[i] \in Nat /\ ramp * (i - 1) \in Nat /\ ramp * n \in Nat
    BY <2>1, Products
  <2>4. n * d[i] <= n * ramp
    BY <2>2, <2>3
  <2>5. n * (ramp + 1) = n * ramp + n /\ n * ramp \in Nat /\ ramp + 1 \in Nat
    BY Products
  <2>6. n * d[i] < n * (ramp + 1)
    <3> DEFINE x == n * d[i]
               y == n * ramp
    <3>1. x <= y /\ x \in Nat /\ y \in Nat
      BY <2>3, <2>4, <2>5
    <3>2. x < y + n
      <4> HIDE DEF x, y
      <4> QED BY <3>1
    <3> QED BY <2>5, <3>2
  <2>7. d[i] < ramp + 1
    BY <2>1, <2>5, <2>6, Products
  <2> QED BY <2>1, <2>7
<1>5. Cardinality(Early(n, d, ramp)) = n
  <2>1. n \in 0..n /\ \A i \in 1..n : d[i] <= ramp <=> i <= n
    BY <1>4
  <2> QED BY <2>1, FirstOnes
<1>6. ASSUME NEW k \in 1..n
      PROVE  Cardinality(Early(n, d, (ramp * (k - 1)) \div n)) >= k
  <2>1. d[k] = (ramp * (k - 1)) \div n
    BY <1>1
  <2>2. k \in 0..n /\ \A i \in 1..k : i \in 1..n /\ i <= k
    OBVIOUS
  <2>3. \A i \in 1..k : d[i] <= d[k]
    BY <1>3, <2>2
  <2>4. Cardinality(Early(n, d, d[k])) >= k
    BY <2>2, <2>3, AtLeast
  <2> QED BY <2>1, <2>4
<1>7. ASSUME NEW t \in Nat
      PROVE  (Cardinality(Early(n, d, t)) - 1) * ramp < (t + 1) * n
  <2> DEFINE c == Cardinality(Early(n, d, t))
  <2>1. c \in Nat
    BY EarlyIs
  <2>2. (t + 1) * n = n * t + n /\ n * t \in Nat
    <3>1. t + 1 \in Nat
      OBVIOUS
    <3> QED BY <3>1, Products
  <2>3. CASE c = 0
    <3>1. (c - 1) * ramp = 0 - ramp
      BY <2>3
    <3>2. 0 - ramp < n * t + n
      <4> DEFINE x == n * t
      <4>1. x \in Nat
        BY <2>2
      <4> HIDE DEF x
      <4> QED BY <4>1
    <3> QED BY <2>2, <3>1, <3>2
  <2>4. CASE c # 0
    <3>1. PICK i \in 1..n : d[i] <= t /\ c <= i
      BY <2>4, LateOne
    <3> HIDE DEF c
    <3>2. /\ i - 1 \in Nat /\ c - 1 \in Nat /\ c - 1 <= i - 1 /\ d[i] \in Nat
      BY <1>1, <2>1, <2>4, <3>1
    <3>3. /\ (c - 1) * ramp = ramp * (c - 1) /\ ramp * (c - 1) <= ramp * (i - 1)
          /\ n * d[i] <= n * t
          /\ ramp * (c - 1) \in Nat /\ ramp * (i - 1) \in Nat /\ n * d[i] \in Nat
      BY <3>1, <3>2, Products
    <3>4. ramp * (i - 1) < n * d[i] + n
      BY <1>2
    <3>5. (c - 1) * ramp < n * t + n
      <4> DEFINE u == (c - 1) * ramp
                 v == ramp * (c - 1)
                 w == ramp * (i - 1)
                 x == n * d[i]
                 y == n * t
      <4>1. /\ u = v /\ v <= w /\ w < x + n /\ x <= y
            /\ v \in Nat /\ w \in Nat /\ x \in Nat /\ y \in Nat
        BY <2>2, <3>3, <3>4
      <4>2. u < y + n
        <5> HIDE DEF u, v, w, x, y
        <5> QED BY <4>1
      <4> QED BY <4>2
    <3>6. (c - 1) * ramp < (t + 1) * n
      BY <2>2, <3>5
    <3> QED BY <3>6 DEF c
  <2> QED BY <2>3, <2>4
<1> QED BY <1>5, <1>6, <1>7 DEF d

\* The step ramp: who starts when.
LEMMA StepStarts ==
    ASSUME NEW n \in Nat, NEW steps \in Steps, ~BadSteps(n, steps), NEW t \in Nat
    PROVE  LET reached == {steps[i].clients : i \in {j \in DOMAIN steps : steps[j].at <= t}} IN
           Cardinality(Early(n, StepDelays(n, steps), t)) =
                IF \A i \in DOMAIN steps : steps[i].at <= t THEN n
                ELSE CHOOSE x \in reached \cup {0} : \A m \in reached : m <= x
<1> DEFINE d == StepDelays(n, steps)
           last == Len(steps)
           reached == {steps[i].clients : i \in {j \in DOMAIN steps : steps[j].at <= t}}
<1>1. \A j \in 1..n : StartsAt(steps, j, d[j])
  BY StepDelaysAre
<1>2. /\ last \in Nat /\ DOMAIN steps = 1..last
      /\ \A i \in DOMAIN steps : steps[i].at \in Nat /\ steps[i].clients \in Nat
  BY StepIs
<1>3. /\ \A i \in DOMAIN steps : steps[i].clients <= n
      /\ \A i, j \in DOMAIN steps :
            i <= j => steps[i].at <= steps[j].at /\ steps[i].clients <= steps[j].clients
  BY StepsAreOrdered
<1> HIDE DEF d, last
<1>4. last # 0 => last \in DOMAIN steps /\ \A i \in DOMAIN steps : i <= last
  BY <1>2
<1>5. CASE \A i \in DOMAIN steps : steps[i].at <= t
  <2>1. ASSUME NEW j \in 1..n PROVE d[j] <= t
    <3>1. StartsAt(steps, j, d[j])
      BY <1>1
    <3>2. CASE last = 0
      BY <3>1, <3>2 DEF StartsAt, last
    <3>3. CASE last # 0
      <4>1. \E k \in DOMAIN steps : d[j] = steps[k].at
        BY <1>4, <3>1, <3>3 DEF StartsAt, Brings, last
      <4> QED BY <1>5, <4>1
    <3> QED BY <3>2, <3>3
  <2>2. n \in 0..n /\ \A j \in 1..n : d[j] <= t <=> j <= n
    BY <2>1
  <2>3. Cardinality(Early(n, d, t)) = n
    BY <2>2, FirstOnes
  <2> QED BY <1>5, <2>3 DEF d
<1>6. CASE ~(\A i \in DOMAIN steps : steps[i].at <= t)
  <2>1. last # 0 /\ ~(steps[last].at <= t)
    <3>1. PICK i \in DOMAIN steps : ~(steps[i].at <= t)
      BY <1>6
    <3>2. last # 0
      BY <1>2, <3>1
    <3>3. last \in DOMAIN steps /\ steps[i].at <= steps[last].at
      BY <1>3, <1>4, <3>2
    <3>4. steps[i].at \in Nat /\ steps[last].at \in Nat
      BY <1>2, <3>3
    <3> QED BY <3>1, <3>2, <3>3, <3>4
  <2>2. ASSUME NEW j \in 1..n
        PROVE  d[j] <= t <=> \E k \in DOMAIN steps : steps[k].at <= t /\ j <= steps[k].clients
    <3>1. \/ \E k \in DOMAIN steps : Brings(steps, k, j) /\ d[j] = steps[k].at
          \/ steps[last].clients < j /\ d[j] = steps[last].at
      <4>1. StartsAt(steps, j, d[j]) /\ last # 0
        BY <1>1, <2>1
      <4> QED BY <4>1 DEF StartsAt, last
    <3>2. ASSUME NEW k \in DOMAIN steps, Brings(steps, k, j), d[j] = steps[k].at
          PROVE  d[j] <= t <=> \E i \in DOMAIN steps : steps[i].at <= t /\ j <= steps[i].clients
      <4>1. d[j] <= t => steps[k].at <= t /\ j <= steps[k].clients
        BY <3>2 DEF Brings
      <4>2. ASSUME NEW i \in DOMAIN steps, steps[i].at <= t, j <= steps[i].clients
            PROVE  d[j] <= t
        <5>1. k <= i
          <6>1. CASE k = 1
            BY <1>2, <6>1
          <6>2. CASE k # 1 /\ i < k
            <7>1. k - 1 \in DOMAIN steps /\ i <= k - 1
              BY <1>2, <6>2
            <7>2. steps[i].clients <= steps[k - 1].clients /\ steps[k - 1].clients < j
              BY <1>3, <3>2, <6>2, <7>1 DEF Brings
            <7>3. steps[i].clients \in Nat /\ steps[k - 1].clients \in Nat
              BY <1>2, <7>1
            <7> QED BY <4>2, <7>2, <7>3
          <6> QED BY <1>2, <6>1, <6>2
        <5>2. steps[k].at <= steps[i].at
          BY <1>3, <5>1
        <5>3. steps[k].at \in Nat /\ steps[i].at \in Nat
          BY <1>2
        <5> QED BY <3>2, <4>2, <5>2, <5>3
      <4> QED BY <4>1, <4>2
    <3>3. ASSUME steps[last].clients < j, d[j] = steps[last].at
          PROVE  d[j] <= t <=> \E i \in DOMAIN steps : steps[i].at <= t /\ j <= steps[i].clients
      <4>1. ~(d[j] <= t)
        BY <2>1, <3>3
      <4>2. ASSUME NEW i \in DOMAIN steps, j <= steps[i].clients PROVE FALSE
        <5>1. last \in DOMAIN steps /\ steps[i].clients <= steps[last].clients
          BY <1>3, <1>4, <2>1
        <5>2. steps[i].clients \in Nat /\ steps[last].clients \in Nat
          BY <1>2, <5>1
        <5> QED BY <3>3, <4>2, <5>1, <5>2
      <4> QED BY <4>1, <4>2
    <3> QED BY <3>1, <3>2, <3>3
  <2>3. reached \in SUBSET Nat /\ \A m \in reached : m <= n
    BY <1>2, <1>3
  <2>4. \A j \in 1..n : d[j] <= t <=> \E m \in reached : j <= m
    BY <2>2
  <2> HIDE DEF reached
  <2>5. \E x \in reached \cup {0} : \A m \in reached : m <= x
    <3> DEFINE gaps == {n - m : m \in reached \cup {0}}
    <3>1. gaps \in SUBSET Nat /\ gaps # {}
      BY <2>3
    <3>2. \E g \in gaps : \A h \in gaps : g <= h
      <4> HIDE DEF gaps
      <4> QED BY <3>1, LeastNat
    <3>3. PICK x \in reached \cup {0} : \A h \in gaps : n - x <= h
      BY <3>2
    <3>4. ASSUME NEW m \in reached PROVE m <= x
      <4>1. n - x <= n - m
        BY <3>3
      <4>2. m \in Nat /\ x \in Nat
        BY <2>3
      <4> QED BY <4>1, <4>2
    <3> QED BY <3>4
  <2> DEFINE x == CHOOSE y \in reached \cup {0} : \A m \in reached : m <= y
  <2>6. x \in reached \cup {0} /\ \A m \in reached : m <= x
    BY <2>5
  <2>7. x \in 0..n
    <3> HIDE DEF x
    <3> QED BY <2>3, <2>6
  <2>8. \A j \in 1..n : d[j] <= t <=> j <= x
    <3> HIDE DEF x
    <3>1. ASSUME NEW j \in 1..n, NEW m \in reached, j <= m PROVE j <= x
      <4>1. m <= x /\ m \in Nat
        BY <2>3, <2>6
      <4> QED BY <2>7, <3>1, <4>1
    <3>2. ASSUME NEW j \in 1..n, j <= x PROVE x \in reached
      BY <2>6, <2>7, <3>2
    <3> QED BY <2>4, <3>1, <3>2
  <2>9. Cardinality(Early(n, d, t)) = x
    <3> HIDE DEF x
    <3> QED BY <2>7, <2>8, FirstOnes
  <2> QED BY <1>6, <2>9 DEF d, reached
<1> QED BY <1>5, <1>6

\* Participants that the policy accepts have names of their own.
LEMMA NamesDiffer ==
    ASSUME NEW c \in AppConfig, NEW o, Refusal(c, o) = "none"
    PROVE  /\ Count(c) = c.run.clients /\ Count(c) <= c.run.maxClients
           /\ \A i, j \in 1..Count(c) :
                Participants(c)[i].id = Participants(c)[j].id => i = j
<1>1. ~WorkloadChecks(c)[1][2] /\ ~WorkloadChecks(c)[3][2] /\ ~WorkloadChecks(c)[5][2]
  BY Unrefused
<1>2. /\ ~(c.participants # << >> /\ Count(c) # c.run.clients)
      /\ ~(Count(c) > c.run.maxClients) /\ ~BadIds(c)
  BY <1>1 DEF WorkloadChecks
<1>3. c.run.clients \in U32 /\ c.run.maxClients \in Nat /\ Count(c) \in Nat
      /\ DOMAIN Participants(c) = 1..Count(c)
  BY ConfigurationAssumption, ParticipantsAre DEF AppConfig, Run, U32
<1>4. Count(c) = c.run.clients /\ Count(c) <= c.run.maxClients
  BY <1>2, <1>3 DEF Count
<1>5. ASSUME NEW i \in 1..Count(c), NEW j \in 1..Count(c),
             Participants(c)[i].id = Participants(c)[j].id
      PROVE  i = j
  <2>1. CASE c.participants # << >>
    <3>1. Participants(c) = c.participants
      BY <2>1 DEF Participants
    <3>2. i \in DOMAIN c.participants /\ j \in DOMAIN c.participants
      BY <1>3, <3>1
    <3>3. DOMAIN ById(c) = DOMAIN c.participants /\ ById(c)[i] = ById(c)[j]
      BY <1>5, <3>1, <3>2 DEF ById
    <3> QED BY <1>2, <3>2, <3>3 DEF BadIds, DuplicateIn
  <2>2. CASE c.participants = << >>
    <3>1. i \in 1..c.run.clients /\ j \in 1..c.run.clients
      BY <1>4
    <3>2. ClientId(i) = ClientId(j)
      BY <1>5, <2>2, <3>1 DEF Participants
    <3>3. i \in 1..MaxU32 /\ j \in 1..MaxU32
      BY <1>3, <3>1, ConfigurationAssumption DEF U32
    <3> QED BY <3>2, <3>3, ConfigurationAssumption
  <2> QED BY <2>1, <2>2
<1> QED BY <1>4, <1>5

\* No participant is lost between the list of participants and the schedule, and a ramp
\* starts as many by each time as it says (scheduler.rs, the spawn loop of
\* scenarios.rs), for any number of clients and any steps.
THEOREM RampsAreFollowed == Spec => []RampFollowed
<1>1. LaunchInv => RampFollowed
  <2> SUFFICES ASSUME LaunchInv, Running, Dialing PROVE RampFollowed
    BY DEF RampFollowed
  <2> DEFINE n == Count(config)
             s == config.scheduler
  <2>1. config \in AppConfig /\ Refusal(config, request.options) = "none" /\ Scheduled
    BY DEF LaunchInv, Asked, Dialing, Cleared
  <2>2. n \in Nat /\ Len(Participants(config)) = n
    BY <2>1, ParticipantsAre
  <2>3. n # 0
    <3>1. ~WorkloadChecks(config)[2][2]
      BY <2>1, Unrefused
    <3> QED BY <3>1 DEF WorkloadChecks
  <2>4. s.strategy = "step" => ~BadSteps(n, s.steps)
    BY <2>1, <2>2 DEF Scheduled
  <2>5. s.rampUp \in Nat /\ s.steps \in Steps
    BY <2>1 DEF AppConfig, Scheduler, Steps, Durations
  <2>6. PICK d \in StartDelays(n, s) :
            /\ d \in [1..n -> Nat]
            /\ Len(tasks) = n /\ DOMAIN tasks = 1..n
            /\ \A i \in 1..n :
                tasks[i].participant = Participants(config)[i].id /\ tasks[i].delay = d[i]
    BY <2>1, TasksAre
  <2> HIDE DEF n, s
  <2>7. AllSpawned
    <3>1. /\ n = config.run.clients /\ n <= config.run.maxClients
          /\ \A i, j \in 1..n :
                Participants(config)[i].id = Participants(config)[j].id => i = j
      BY <2>1, NamesDiffer DEF n
    <3> QED BY <2>6, <3>1 DEF AllSpawned
  <2>8. \A t : StartedBy(t) = Cardinality(Early(n, d, t))
    <3>1. \A t : {i \in DOMAIN tasks : tasks[i].delay <= t} = Early(n, d, t)
      BY <2>6 DEF Early
    <3> QED BY <3>1 DEF StartedBy
  <2>9. \A t \in Times : t \in Nat
    <3>1. \A i \in DOMAIN tasks : tasks[i].delay \in Nat
      BY <2>6
    <3>2. \A i \in DOMAIN s.steps : s.steps[i].at \in Nat
      BY <2>5, StepIs
    <3> QED BY <3>1, <3>2 DEF Times, s
  <2>10. ASSUME s.strategy = "immediate" PROVE StartedBy(0) = Len(tasks)
    <3>1. d = Repeat(0, n)
      BY <2>6, <2>10 DEF StartDelays
    <3>2. n \in 0..n /\ \A i \in 1..n : d[i] <= 0 <=> i <= n
      BY <2>2, <3>1 DEF Repeat
    <3>3. Cardinality(Early(n, d, 0)) = n
      BY <2>2, <3>2, FirstOnes
    <3> QED BY <2>6, <2>8, <3>3
  <2>11. ASSUME s.strategy = "step" PROVE StepsFollowed
    <3> SUFFICES ASSUME NEW t \in Times PROVE StartedBy(t) = StepTarget(t)
      BY DEF StepsFollowed
    <3>1. d = StepDelays(n, s.steps) /\ ~BadSteps(n, s.steps)
      BY <2>4, <2>6, <2>11 DEF StartDelays
    <3>2. t \in Nat
      BY <2>9
    <3>3. LET steps   == s.steps
              reached == {steps[i].clients : i \in {j \in DOMAIN steps : steps[j].at <= t}}
          IN  Cardinality(Early(n, d, t)) =
                IF \A i \in DOMAIN steps : steps[i].at <= t THEN n
                ELSE CHOOSE x \in reached \cup {0} : \A m \in reached : m <= x
      BY <2>2, <2>5, <3>1, <3>2, StepStarts
    <3> QED BY <2>6, <2>8, <3>3 DEF StepTarget, s
  <2>12. ASSUME s.strategy \in {"linear", "randomized"} PROVE SpreadEvenly
    <3> DEFINE even == LinearDelays(n, s.rampUp)
    <3>1. \A t : Cardinality(Early(n, d, t)) = Cardinality(Early(n, even, t))
      <4>1. CASE s.strategy = "linear"
        <5>1. d = even
          BY <2>6, <4>1 DEF StartDelays
        <5> QED BY <5>1
      <4>2. CASE s.strategy = "randomized"
        <5>1. PICK p \in [1..n -> 1..n] :
                /\ d = [i \in 1..n |-> even[p[i]]]
                /\ \A i, j \in 1..n : p[i] = p[j] => i = j
          BY <2>6, <4>2 DEF StartDelays
        <5> HIDE DEF even
        <5>2. ASSUME NEW t
              PROVE  Cardinality(Early(n, [i \in 1..n |-> even[p[i]]], t))
                        = Cardinality(Early(n, even, t))
          <6>1. \A i, j \in 1..n : p[i] = p[j] => i = j
            BY <5>1
          <6> QED BY <2>2, <6>1, Shuffled, Zenon
        <5> QED BY <5>1, <5>2
      <4> QED BY <2>12, <4>1, <4>2
    <3>2. /\ Cardinality(Early(n, even, s.rampUp)) = n
          /\ \A k \in 1..n : Cardinality(Early(n, even, (s.rampUp * (k - 1)) \div n)) >= k
          /\ \A t \in Nat : (Cardinality(Early(n, even, t)) - 1) * s.rampUp < (t + 1) * n
      BY <2>2, <2>3, <2>5, LinearStarts
    <3> HIDE DEF even
    <3>3. \A t : StartedBy(t) = Cardinality(Early(n, even, t))
      BY <2>8, <3>1
    <3>4. /\ StartedBy(s.rampUp) = n
          /\ \A k \in 1..n : StartedBy((s.rampUp * (k - 1)) \div n) >= k
          /\ \A t \in Times : (StartedBy(t) - 1) * s.rampUp < (t + 1) * n
      BY <2>9, <3>2, <3>3
    <3> QED BY <2>6, <3>4 DEF SpreadEvenly, s
  <2> QED BY <2>7, <2>10, <2>11, <2>12 DEF RampFollowed, s
<1> QED BY <1>1, InitLaunch, NextLaunch, PTL DEF Spec

-----------------------------------------------------------------------------
(* Backoffs. *)

\* Power is a recursive function; that there is one is shown by its first values.
LEMMA PowerIs ==
    Power = [n \in U32 |-> IF n = 0 THEN 1 ELSE Least(2 * Power[n - 1], MaxU32)]
<1> DEFINE UpTo(n, g) == g = [i \in 0..n |-> IF i = 0 THEN 1 ELSE Least(2 * g[i - 1], MaxU32)]
           Missing == {n \in U32 : ~ \E g : UpTo(n, g)}
<1>1. MaxU32 \in Nat /\ U32 = 0..MaxU32
  BY ConfigurationAssumption DEF U32
<1>2. ASSUME NEW m \in Missing, \A n \in Missing : m <= n
      PROVE  FALSE
  <2>1. m # 0
    <3>1. UpTo(0, [i \in 0..0 |-> 1])
      OBVIOUS
    <3> QED BY <1>2, <3>1
  <2>2. m \in U32 /\ m \in Nat /\ m - 1 \in U32 /\ ~(m <= m - 1)
    <3> HIDE DEF UpTo
    <3> QED BY <1>1, <1>2, <2>1
  <2>3. PICK g : UpTo(m - 1, g)
    <3> HIDE DEF UpTo
    <3> QED BY <1>2, <2>2
  <2> DEFINE h == [i \in 0..m |-> IF i = 0 THEN 1 ELSE Least(2 * g[i - 1], MaxU32)]
  <2>4. ASSUME NEW i \in 0..m, i # 0 PROVE h[i - 1] = g[i - 1]
    <3>1. i - 1 \in 0..(m - 1) /\ i - 1 \in 0..m
      BY <2>2, <2>4
    <3> QED BY <2>3, <3>1
  <2>5. UpTo(m, h)
    BY <2>4
  <2> QED BY <1>2, <2>2, <2>5
<1>3. Missing = {}
  <2>1. Missing \in SUBSET Nat
    <3> HIDE DEF UpTo
    <3> QED BY <1>1
  <2> HIDE DEF Missing
  <2> QED BY <1>2, <2>1, LeastNat
<1>4. \E g : UpTo(MaxU32, g)
  <2> HIDE DEF UpTo
  <2>1. MaxU32 \in U32
    BY <1>1
  <2> QED BY <1>3, <2>1
<1> QED BY <1>1, <1>4 DEF Power

LEMMA PowersGrow ==
    /\ \A n \in U32 : Power[n] \in Nat /\ 1 <= Power[n] /\ Power[n] <= MaxU32
    /\ \A n \in U32 : n # 0 => n - 1 \in U32 /\ Power[n - 1] <= Power[n]
<1>1. MaxU32 \in Nat /\ 1 <= MaxU32 /\ U32 = 0..MaxU32
  BY ConfigurationAssumption DEF U32
<1> DEFINE Good(n) == Power[n] \in Nat /\ 1 <= Power[n] /\ Power[n] <= MaxU32
           Wrong == {n \in U32 : ~Good(n)}
<1>2. Power[0] = 1
  <2>1. 0 \in U32
    BY <1>1
  <2> QED BY <2>1, PowerIs
<1>3. ASSUME NEW n \in U32, n # 0
      PROVE  n - 1 \in U32 /\ Power[n] = Least(2 * Power[n - 1], MaxU32)
  <2>1. Power[n] = Least(2 * Power[n - 1], MaxU32)
    BY <1>3, PowerIs
  <2> QED BY <1>1, <1>3, <2>1
<1>4. ASSUME NEW m \in Wrong, \A n \in Wrong : m <= n
      PROVE  FALSE
  <2>1. m # 0
    BY <1>1, <1>2
  <2>2. m \in U32 /\ m - 1 \in U32 /\ m - 1 \notin Wrong
    <3> HIDE DEF Good
    <3>1. m \in U32
      OBVIOUS
    <3>2. m - 1 \in U32 /\ ~(m <= m - 1)
      BY <1>1, <2>1, <3>1
    <3> QED BY <1>4, <3>1, <3>2
  <2>3. Power[m] = Least(2 * Power[m - 1], MaxU32) /\ Good(m - 1)
    BY <1>3, <2>1, <2>2
  <2>4. Good(m)
    BY <1>1, <2>3 DEF Least
  <2> QED BY <2>4
<1>5. Wrong = {}
  <2>1. Wrong \in SUBSET Nat
    <3> HIDE DEF Good
    <3> QED BY <1>1
  <2> HIDE DEF Wrong
  <2> QED BY <1>4, <2>1, LeastNat
<1>6. \A n \in U32 : Good(n)
  BY <1>5
<1>7. ASSUME NEW n \in U32, n # 0 PROVE n - 1 \in U32 /\ Power[n - 1] <= Power[n]
  <2>1. n - 1 \in U32 /\ Power[n] = Least(2 * Power[n - 1], MaxU32)
    BY <1>3, <1>7
  <2>2. Power[n - 1] \in Nat /\ Power[n - 1] <= MaxU32
    BY <1>6, <2>1
  <2> QED BY <1>1, <2>1, <2>2 DEF Least
<1> QED BY <1>6, <1>7

\* What a backoff may be.
LEMMA BackoffIs ==
    ASSUME NEW c \in AppConfig, NEW a \in 1..c.reconnect.attempts,
           NEW b \in ReconnectDelays(c.reconnect, a),
           c.reconnect.min <= c.reconnect.max
    PROVE  LET r == c.reconnect IN
           /\ BackoffBase(r, a) \in Nat
           /\ r.min <= BackoffBase(r, a) /\ BackoffBase(r, a) <= r.max
           /\ b \in Nat /\ b <= 200 * r.max
           /\ r.jitter = 0 => b = BackoffBase(r, a) * 100
<1> DEFINE lo == c.reconnect.min
           hi == c.reconnect.max
           base == BackoffBase(c.reconnect, a)
           j == Least(c.reconnect.jitter, 100)
<1>1. lo \in Nat /\ hi \in Nat /\ lo <= hi /\ c.reconnect.jitter \in Nat
      /\ a - 1 \in U32
  BY ReconnectIs, ConfigurationAssumption DEF U32
<1>2. base = Least(lo * Power[a - 1], hi)
  BY DEF BackoffBase
<1>3. base \in Nat /\ lo <= base /\ base <= hi
  <2> DEFINE p == Power[a - 1]
  <2>1. p \in Nat /\ 1 <= p
    BY <1>1, PowersGrow
  <2> HIDE DEF lo, hi, base, p
  <2>2. lo * p \in Nat /\ lo * 1 <= lo * p
    BY <1>1, <2>1, Products
  <2>3. base = Least(lo * p, hi)
    BY <1>2 DEF p
  <2> QED BY <1>1, <2>2, <2>3 DEF Least
<1>4. j \in 0..100 /\ (c.reconnect.jitter = 0 => j = 0)
  BY <1>1 DEF Least
<1>5. PICK f \in {100 - j, 100, 100 + j} : b = base * f
  BY DEF ReconnectDelays
<1> HIDE DEF lo, hi, base, j
<1>6. f \in 0..200 /\ (j = 0 => f = 100)
  BY <1>4, <1>5
<1>7. b \in Nat /\ b <= 200 * hi
  <2>1. f \in Nat /\ base * f = f * base /\ base * f \in Nat
    BY <1>3, <1>6, Products
  <2>2. f * base <= f * hi /\ hi * f <= hi * 200 /\ f * hi = hi * f /\ 200 * hi = hi * 200
    BY <1>1, <1>3, <1>6, <2>1, Products
  <2>3. f * hi \in Nat /\ 200 * hi \in Nat
    BY <1>1, <2>1, Products
  <2> QED BY <1>5, <2>1, <2>2, <2>3
<1> QED BY <1>3, <1>4, <1>5, <1>6, <1>7 DEF lo, hi, base

\* No later attempt waits less than an earlier one, before the jitter.
LEMMA BasesGrow ==
    ASSUME NEW c \in AppConfig, NEW a \in 1..c.reconnect.attempts, a + 1 <= c.reconnect.attempts
    PROVE  BackoffBase(c.reconnect, a) <= BackoffBase(c.reconnect, a + 1)
<1> DEFINE lo == c.reconnect.min
           hi == c.reconnect.max
           p == Power[a - 1]
           q == Power[a]
<1>1. lo \in Nat /\ hi \in Nat /\ a \in U32 /\ a - 1 \in U32 /\ a # 0 /\ (a + 1) - 1 = a
  BY ReconnectIs, ConfigurationAssumption DEF U32
<1>2. p \in Nat /\ q \in Nat /\ p <= q
  BY <1>1, PowersGrow
<1>3. BackoffBase(c.reconnect, a) = Least(lo * p, hi)
  BY DEF BackoffBase
<1>4. BackoffBase(c.reconnect, a + 1) = Least(lo * q, hi)
  BY <1>1 DEF BackoffBase
<1> HIDE DEF lo, hi, p, q
<1>5. lo * p \in Nat /\ lo * q \in Nat /\ lo * p <= lo * q
  BY <1>1, <1>2, Products
<1> QED BY <1>1, <1>3, <1>4, <1>5 DEF Least

\* Retries never close in on the server: backoffs are within their bounds and, without
\* jitter, do not shrink, however many attempts there are (reconnect_delay).
THEOREM BackoffsGrow == Spec => BackoffGrows
<1>1. ASSUME LaunchInv, [Next]_vars, attempt' # attempt
      PROVE  LET r == config.reconnect IN
             /\ attempt' = attempt + 1 /\ attempt' <= r.attempts
             /\ backoff' <= 200 * r.max
             /\ r.jitter = 0 => backoff' \in (100 * r.min)..(100 * r.max) /\ backoff' >= backoff
  <2> DEFINE r == config.reconnect
  <2>1. Backoff
    BY <1>1 DEF Next, Merge, MergePanics, Check, Validate, DeadlinePanics, ScheduleFails, Spawn,
                Dial, GiveUp, Terminated, vars
  <2>2. /\ stage = "failed" /\ attempt' = attempt + 1 /\ attempt < r.attempts
        /\ backoff' \in ReconnectDelays(r, attempt')
    BY <2>1 DEF Backoff
  <2>3. config \in AppConfig /\ r.enabled /\ Refusal(config, request.options) = "none" /\ attempt \in Nat
        /\ IF attempt = 0 THEN backoff = 0 ELSE backoff \in ReconnectDelays(r, attempt)
    BY <1>1, <2>2 DEF LaunchInv, Paced, Asked, Cleared
  <2>4. r.min \in Nat /\ r.max \in Nat /\ r.attempts \in Nat
    BY <2>3, ReconnectIs
  <2>5. r.min <= r.max
    <3>1. ~WorkloadChecks(config)[8][2]
      BY <2>3, Unrefused
    <3>2. ~(r.min > r.max)
      BY <2>3, <3>1 DEF WorkloadChecks, BadBounds
    <3> QED BY <2>4, <3>2
  <2>6. attempt + 1 \in 1..r.attempts /\ (attempt # 0 => attempt \in 1..r.attempts)
    BY <2>2, <2>3, <2>4
  <2>7. LET base == BackoffBase(r, attempt + 1) IN
        /\ base \in Nat /\ r.min <= base /\ base <= r.max
        /\ backoff' \in Nat /\ backoff' <= 200 * r.max
        /\ r.jitter = 0 => backoff' = base * 100
    BY <2>2, <2>3, <2>5, <2>6, BackoffIs
  <2>8. r.jitter = 0 => backoff' >= backoff
    <3>1. CASE attempt = 0
      BY <2>3, <2>7, <3>1
    <3>2. CASE attempt # 0
      <4>1. /\ BackoffBase(r, attempt) \in Nat
            /\ r.jitter = 0 => backoff = BackoffBase(r, attempt) * 100
        BY <2>3, <2>5, <2>6, <3>2, BackoffIs
      <4>2. BackoffBase(r, attempt) <= BackoffBase(r, attempt + 1)
        <5>1. attempt \in 1..r.attempts /\ attempt + 1 <= r.attempts
          BY <2>6, <3>2, <2>4
        <5> QED BY <2>3, <5>1, BasesGrow
      <4> QED BY <2>7, <4>1, <4>2
    <3> QED BY <3>1, <3>2
  <2>9. r.jitter = 0 => backoff' \in (100 * r.min)..(100 * r.max)
    <3> HIDE DEF r
    <3> QED BY <2>4, <2>7
  <2>10. attempt' <= r.attempts
    BY <2>2, <2>3, <2>4
  <2> QED BY <2>2, <2>7, <2>8, <2>9, <2>10
<1>2. LaunchInv /\ [Next]_vars =>
        [attempt' # attempt =>
          LET r == config.reconnect IN
            /\ attempt' = attempt + 1 /\ attempt' <= r.attempts
            /\ backoff' <= 200 * r.max
            /\ r.jitter = 0 => backoff' \in (100 * r.min)..(100 * r.max) /\ backoff' >= backoff]_vars
  BY <1>1
<1> QED BY <1>2, InitLaunch, NextLaunch, PTL DEF Spec, BackoffGrows
================================================================================
