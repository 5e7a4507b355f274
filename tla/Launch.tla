-------------------------------- MODULE Launch --------------------------------
(***************************************************************************)
(* From the command line to the first bytes: main.rs reads a configuration,*)
(* merges the options into it and lets run, smoke or validate have it; the *)
(* safety policy is asked; the schedule is made and the participants are   *)
(* spawned; connection.rs opens a session, or says why it could not.       *)
(*                                                                         *)
(* Scenario has the participants' interplay. Here they are independent,    *)
(* and one of them, who, is followed.                                      *)
(***************************************************************************)
EXTENDS SafetyPolicy, Pacing

CONSTANTS
    Readable,       \* files that exist and parse
    Paired,         \* <<certificate, key>> pairs that belong together
    MaxInstant      \* the longest duration that can be added to an Instant

VARIABLES
    request,        \* [command, file, args, options]; never changes
    config,         \* the AppConfig as it is being made, then used
    stage,          \* how far the command has come
    warned,         \* the authorization banner was displayed
    tasks,          \* spawned participants, each with its delay
    who,            \* the one that is followed
    attempt,        \* its attempt
    backoff,        \* its last backoff
    session         \* how its last dial ended

vars == <<request, config, stage, warned, tasks, who, attempt, backoff, session>>

NoSession == [result |-> "none", cert |-> NoFile]

Final == {"refused", "valid", "panicked", "open", "ended"}

\* What the command line may ask for, and of which file.
Args == [server : Hosts \cup {Absent}, environment : Environments \cup {Absent},
         profile : Profiles \cup {Absent}, clients : Optional(U32), maxClients : Optional(U32),
         duration : {<< >>} \cup (Nat \X Units), interval : {<< >>} \cup (Nat \X Units),
         period : Optional(Nat), acknowledge : BOOLEAN]

Requests == [command : {"run", "smoke", "validate", "preflight"}, file : AppConfig,
             args : Args, options : [allowProduction : BOOLEAN, allowInvalid : BOOLEAN]]

Start ==
    /\ config = request.file
    /\ stage = "parsed" /\ warned = FALSE
    /\ tasks = << >> /\ who = Absent
    /\ attempt = 0 /\ backoff = 0
    /\ session = NoSession

Init == request \in Requests /\ Start

Running == request.command \in {"run", "smoke"}

-----------------------------------------------------------------------------
(* main.rs. *)

\* An argument that is not given is Absent, None or << >>.
GivenName(arg, else)   == IF arg = Absent THEN else ELSE arg
GivenNumber(arg, else) == IF arg = None THEN else ELSE arg

\* A duration is <<number, unit>>, and their product may wrap.
GivenDuration(arg, else) == IF arg = << >> THEN else ELSE Wrapped(arg[1], arg[2])

\* apply_overrides, and the profile that smoke forces.
Overridden(c, a) ==
    [c EXCEPT
        !.host = GivenName(a.server, @),
        !.environment = GivenName(a.environment, @),
        !.run = [profile |-> IF request.command = "smoke" THEN "smoke"
                             ELSE GivenName(a.profile, @.profile),
                 clients |-> GivenNumber(a.clients, @.clients),
                 maxClients |-> GivenNumber(a.maxClients, @.maxClients),
                 duration |-> GivenDuration(a.duration, @.duration),
                 interval |-> GivenDuration(a.interval, @.interval),
                 period |-> GivenNumber(a.period, @.period)],
        !.acknowledged = @ \/ a.acknowledge]

TooLarge(a) == \E d \in {a.duration, a.interval} : d # << >> /\ Overflows(d[1], d[2])

\* run: the configuration is complete, and the banner shown.
Merge ==
    /\ Running /\ stage = "parsed"
    /\ config' = Overridden(config, request.args)
    /\ stage' = "merged" /\ warned' = TRUE
    /\ UNCHANGED <<request, tasks, who, attempt, backoff, session>>

\* A debug build stops at a product that overflows.
MergePanics ==
    /\ Running /\ stage = "parsed" /\ TooLarge(request.args)
    /\ stage' = "panicked"
    /\ UNCHANGED <<request, config, warned, tasks, who, attempt, backoff, session>>

\* (slip: what is checked is the file)
CheckFile ==
    /\ stage = "merged"
    /\ stage' = IF Refusal(request.file, request.options) = "none" THEN "accepted" ELSE "refused"
    /\ UNCHANGED <<request, config, warned, tasks, who, attempt, backoff, session>>

\* execute, and again run_fixed_positions_with_lifecycle: validate_with_options
Check ==
    /\ stage = "merged"
    /\ stage' = IF Refusal(config, request.options) = "none" THEN "accepted" ELSE "refused"
    /\ UNCHANGED <<request, config, warned, tasks, who, attempt, backoff, session>>

AllAllowed == [allowProduction |-> TRUE, allowInvalid |-> TRUE]

\* validate: the policy is asked as if all were authorized and allowed; with
\* --connect it is asked again as things are, before the one dial.
Validate ==
    /\ ~Running /\ stage = "parsed"
    /\ LET sound == Refusal([config EXCEPT !.acknowledged = TRUE], AllAllowed) = "none"
           dials == request.command = "preflight"
       IN  IF sound /\ dials /\ Refusal(config, request.options) = "none"
           THEN /\ stage' = "preflight" /\ warned' = TRUE
                /\ who' = Participants(config)[1].id
           ELSE /\ stage' = IF sound /\ ~dials THEN "valid" ELSE "refused"
                /\ UNCHANGED <<warned, who>>
    /\ UNCHANGED <<request, config, tasks, attempt, backoff, session>>

-----------------------------------------------------------------------------
(* run_fixed_positions_with_lifecycle, up to its spawn loop. *)

\* start_delays answers Err
ScheduleRefused ==
    /\ config.scheduler.strategy = "step"
    /\ BadSteps(Len(Participants(config)), config.scheduler.steps)

\* Instant + Duration may overflow, where the deadline of the run is computed, first
\* of all, and where ReadinessBarrier::new computes its own, after the schedule.
DeadlinePanics ==
    /\ stage = "accepted"
    /\ \/ config.run.duration > MaxInstant
       \/ config.synchronization.timeout > MaxInstant /\ ~ScheduleRefused
    /\ stage' = "panicked"
    /\ UNCHANGED <<request, config, warned, tasks, who, attempt, backoff, session>>

ScheduleFails ==
    /\ stage = "accepted" /\ config.run.duration <= MaxInstant
    /\ ScheduleRefused
    /\ stage' = "refused"
    /\ UNCHANGED <<request, config, warned, tasks, who, attempt, backoff, session>>

Schedule(s, t) == [i \in 1..Least(Len(s), Len(t)) |-> [participant |-> s[i].id, delay |-> t[i]]]

\* All tasks are spawned; any one of them is followed.
Spawn ==
    /\ stage = "accepted" /\ ~ScheduleRefused
    /\ config.run.duration <= MaxInstant /\ config.synchronization.timeout <= MaxInstant
    /\ \E delays \in StartDelays(Len(Participants(config)), config.scheduler) :
            tasks' = Schedule(Participants(config), delays)
    /\ \E i \in DOMAIN Participants(config) : who' = Participants(config)[i].id
    /\ stage' = "dialing"
    /\ UNCHANGED <<request, config, warned, attempt, backoff, session>>

-----------------------------------------------------------------------------
(* connection.rs. *)

\* (slip: half a client identity is taken for none)
IdentityFaultLenient(tls) ==
    CASE NoFile \in {tls.cert, tls.key} -> "none"
      [] tls.cert \notin Readable -> "client_certificate_load_failed"
      [] tls.key \notin Readable  -> "client_key_load_failed"
      [] <<tls.cert, tls.key>> \notin Paired -> "tls_configuration_failed"
      [] OTHER -> "none"

\* The client's own certificate and key: both, and they fit, or neither.
IdentityFault(tls) ==
    CASE tls.cert = NoFile /\ tls.key = NoFile -> "none"
      [] (tls.cert = NoFile) # (tls.key = NoFile) -> "tls_configuration_failed"
      [] OTHER ->
            CASE tls.cert \notin Readable -> "client_certificate_load_failed"
              [] tls.key \notin Readable  -> "client_key_load_failed"
              [] <<tls.cert, tls.key>> \notin Paired -> "tls_configuration_failed"
              [] OTHER -> "none"

\* build_tls_config: what is wrong with the files, if anything is.
MaterialFault(tls) ==
    CASE tls.ca = NoFile       -> "tls_configuration_failed"
      [] tls.ca \notin Readable -> "ca_load_failed"
      [] OTHER                 -> IdentityFault(tls)

\* connect: TCP first, then the server's name, which must be a host name, then the
\* files, then the handshake.
ConnectResults(tls) ==
    {"tcp_connect_failed"} \cup
        IF ~tls.enabled THEN {"clear"}
        ELSE {"tls_configuration_failed"} \cup
            IF MaterialFault(tls) # "none" THEN {MaterialFault(tls)}
            ELSE {"tls", "tls_handshake_failed"}

Established == session.result \in {"clear", "tls"}

Dial ==
    /\ stage \in {"dialing", "preflight"}
    /\ LET tls == ForParticipant(config.tls, who) IN
        \E r \in ConnectResults(tls) :
            /\ session' = [result |-> r, cert |-> IF r = "tls" THEN tls.cert ELSE NoFile]
            /\ stage' = IF r \in {"clear", "tls"} THEN "open"
                        ELSE IF Running /\ config.reconnect.enabled THEN "failed" ELSE "ended"
    /\ UNCHANGED <<request, config, warned, tasks, who, attempt, backoff>>

\* The attempts are spent.
GiveUp ==
    /\ stage = "failed" /\ attempt >= config.reconnect.attempts
    /\ stage' = "ended"
    /\ UNCHANGED <<request, config, warned, tasks, who, attempt, backoff, session>>

Backoff ==
    /\ stage = "failed" /\ attempt < config.reconnect.attempts
    /\ attempt' = attempt + 1
    /\ backoff' \in ReconnectDelays(config.reconnect, attempt')
    /\ stage' = "dialing"
    /\ UNCHANGED <<request, config, warned, tasks, who, session>>

Terminated == stage \in Final /\ UNCHANGED vars

Next ==
    \/ Merge \/ MergePanics \/ Check \/ Validate
    \/ DeadlinePanics \/ ScheduleFails \/ Spawn
    \/ Dial \/ GiveUp \/ Backoff
    \/ Terminated

Spec == Init /\ [][Next]_vars

-----------------------------------------------------------------------------
Dialing == stage \in {"dialing", "preflight", "failed", "open", "ended"}

(***************************************************************************)
(* What docs/safety.md and docs/scenarios.md promise of a command that     *)
(* opens connections, in terms of what it is about to do: how many tasks   *)
(* there are, and how far apart their events will be. Where the two do not *)
(* agree, on invalid events in staging, it is docs/scenarios.md and the    *)
(* README that are followed: docs/safety.md keeps them to local and        *)
(* temporary environments without exception, and the program does not.     *)
(***************************************************************************)
Authorized ==
    /\ warned /\ config.acknowledged
    /\ \/ config.host \in config.allowHosts
       \/ config.environment = "local" /\ config.host \in Loopback

Cadence == EmissionInterval(config.run)

ProductionIsGentle ==
    config.environment = "production" =>
        /\ request.options.allowProduction
        /\ config.run.profile = "smoke"
        /\ Len(tasks) <= 3
        /\ config.run.duration <= QuarterHour
        /\ Cadence >= HalfMinute
        /\ ~Disruptive(config) /\ ~config.scenario.invalid.enabled

StressStaysHome ==
    config.run.profile \in {"stress", "spike", "soak"} \/ Disruptive(config) => LocalOrTemporary(config)

\* docs/scenarios.md:13 and README.md:11; docs/safety.md:7 knows no staging exception.
InvalidIsBounded ==
    config.scenario.invalid.enabled =>
        /\ LocalOrTemporary(config)
              \/ (config.environment = "staging" /\ request.options.allowInvalid)
        /\ config.scenario.invalid.maxEvents > 0
        /\ Cadence >= OneSecond

\* Somebody of this name is there, and its role is one of these.
Plays(id, roles) ==
    \E i \in DOMAIN config.participants :
        config.participants[i].id = id /\ config.participants[i].role \in roles

\* Aliases are plain names and each is given once; who is to be seen sending sends, and
\* who is to see it, or not to, reads.
CastIsPlayable ==
    /\ \A i, j \in DOMAIN config.participants :
            /\ IsSafeId(config.participants[i].id)
            /\ config.participants[i].id = config.participants[j].id => i = j
    /\ \A n \in DOMAIN config.scenario.routing :
            LET a == config.scenario.routing[n] IN
            /\ Plays(a.sender, {"send_only", "send_receive"})
            /\ \A i \in DOMAIN a.receivers : Plays(a.receivers[i], {"receive_only", "send_receive"})
            /\ \A i \in DOMAIN a.forbidden : Plays(a.forbidden[i], {"receive_only", "send_receive"})

\* Whatever the file says and the options add or replace, nothing is dialed outside
\* of the guard rails, nor before the participants and their routing are validated.
GuardRails ==
    Dialing =>
        Authorized /\ ProductionIsGentle /\ StressStaysHome /\ InvalidIsBounded /\ CastIsPlayable

\* Every participant has a task, once.
AllSpawned ==
    /\ Len(tasks) = config.run.clients
    /\ Len(tasks) <= config.run.maxClients
    /\ \A i, j \in DOMAIN tasks : tasks[i].participant = tasks[j].participant => i = j

StartedBy(t) == Cardinality({i \in DOMAIN tasks : tasks[i].delay <= t})

\* The clients that a step ramp wants at time t: those of the last step reached, and
\* all when there is none left to come.
StepTarget(t) ==
    LET steps   == config.scheduler.steps
        reached == {steps[i].clients : i \in {j \in DOMAIN steps : steps[j].at <= t}}
    IN  IF \A i \in DOMAIN steps : steps[i].at <= t THEN Len(tasks)
        ELSE CHOOSE n \in reached \cup {0} : \A m \in reached : m <= n

Times == {tasks[i].delay : i \in DOMAIN tasks}
            \cup {config.scheduler.steps[i].at : i \in DOMAIN config.scheduler.steps}

\* As many have started by each time as the steps reached by then want.
StepsFollowed == \A t \in Times : StartedBy(t) = StepTarget(t)

\* All have started within ramp_up, the k-th no later than at its place in an even
\* spread, and no more by any time than an even spread has by then.
SpreadEvenly ==
    LET ramp == config.scheduler.rampUp
        n    == Len(tasks)
    IN  /\ StartedBy(ramp) = n
        /\ \A k \in 1..n : StartedBy((ramp * (k - 1)) \div n) >= k
        /\ \A t \in Times : t < ramp => (StartedBy(t) - 1) * ramp < (t + 1) * n

\* No participant is lost between the schedule and the list of participants, and a
\* ramp starts as many by each time as it says: the steps' targets, or an even spread
\* within ramp_up, in whatever order.
RampFollowed ==
    LET strategy == config.scheduler.strategy IN
    Running /\ Dialing =>
        /\ AllSpawned
        /\ strategy = "immediate" => StartedBy(0) = Len(tasks)
        /\ strategy = "step" => StepsFollowed
        /\ strategy \in {"linear", "randomized"} => SpreadEvenly

\* A session is in the clear only if the configuration says so; with TLS the server's
\* certificate was held against a CA, and a configuration that names a client
\* identity, in whatever way, is never followed without it or with another's.
TlsHonoured ==
    Established =>
        /\ (session.result = "clear") <=> ~config.tls.enabled
        /\ config.tls.enabled =>
            /\ config.tls.ca \in Readable
            /\ HasTemplates(config.tls) => session.cert = OwnFile("cert", who)
            /\ config.tls.cert # NoFile \/ config.tls.key # NoFile =>
                    session.cert = config.tls.cert /\ session.cert # NoFile

\* Retries never close in on the server: without jitter a backoff is between its
\* minimum and its maximum and no shorter than the one before, however many attempts
\* there were; jitter at most doubles it. There are no more of them than configured.
BackoffGrows ==
    [][attempt' # attempt =>
        LET r == config.reconnect IN
            /\ attempt' = attempt + 1 /\ attempt' <= r.attempts
            /\ backoff' <= 200 * r.max
            /\ r.jitter = 0 => backoff' \in (100 * r.min)..(100 * r.max) /\ backoff' >= backoff]_vars
===============================================================================
