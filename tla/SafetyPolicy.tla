----------------------------- MODULE SafetyPolicy -----------------------------
(***************************************************************************)
(* safety.rs: the checks a configuration passes before anything dials, in  *)
(* the order the code makes them. Each check is named for its SafetyError  *)
(* and says when it refuses; the first that does is the answer.            *)
(***************************************************************************)
EXTENDS Configuration

OneSecond   == Second
TenSeconds  == 10 * Second      \* the period of a max_rate of 0.1
HalfMinute  == 30 * Second
QuarterHour == 15 * 60 * Second

Count(c) == IF c.participants = << >> THEN c.run.clients ELSE Len(c.participants)

LocalOrTemporary(c) == c.environment \in {"local", "temporary"}

Disruptive(c) ==
    \/ c.scenario.slowConnect \/ c.scenario.abruptDisconnect
    \/ \E i \in DOMAIN c.participants : c.participants[i].slow

\* A rate above that whose period is p.
FasterThan(c, p) == c.run.period # None /\ c.run.period < p

-----------------------------------------------------------------------------
(* validate_participants_and_routing, validate_synchronization *)

DuplicateIn(seq) == \E i, j \in DOMAIN seq : i # j /\ seq[i] = seq[j]

ById(c) == [i \in DOMAIN c.participants |-> c.participants[i].id]

Known(c, id) == \E i \in DOMAIN c.participants : c.participants[i].id = id

RoleOf(c, id) == (CHOOSE p \in {c.participants[i] : i \in DOMAIN c.participants} : p.id = id).role

BadIds(c) == DuplicateIn(ById(c)) \/ \E i \in DOMAIN c.participants : ~IsSafeId(ById(c)[i])

BadAssertion(c, a) ==
    \/ ~Known(c, a.sender) \/ RoleOf(c, a.sender) = "receive_only"
    \/ a.receivers \o a.forbidden = << >>
    \/ \E i \in DOMAIN (a.receivers \o a.forbidden) :
        LET id == (a.receivers \o a.forbidden)[i]
        IN  ~Known(c, id) \/ RoleOf(c, id) = "send_only"

BadRouting(c) == \E i \in DOMAIN c.scenario.routing : BadAssertion(c, c.scenario.routing[i])

BadSynchronization(c) ==
    LET ids == c.synchronization.waitForReady IN
    \/ ids = << >> /\ c.synchronization.timeout # None
    \/ ids # << >> /\ (c.participants = << >> \/ c.synchronization.timeout = None)
    \/ DuplicateIn(ids)
    \/ \E i \in DOMAIN ids : ~Known(c, ids[i])

BadBounds(c) ==
    \/ 0 \in {c.run.duration, c.run.interval, c.synchronization.timeout,
              c.timeouts.connect, c.timeouts.tlsHandshake, c.timeouts.read, c.timeouts.write}
    \/ c.run.period = BadRate
    \/ c.reconnect.enabled /\ (\/ 0 \in {c.reconnect.min, c.reconnect.max}
                               \/ c.reconnect.min > c.reconnect.max)

BadTemplates(c) == \E i \in DOMAIN Participants(c) : ~ResolvesFor(c.tls, Participants(c)[i].id)

-----------------------------------------------------------------------------
\* validate_workload
WorkloadChecks(c) ==
    LET production == c.environment = "production" IN
    << <<"ParticipantCountMismatch", c.participants # << >> /\ Count(c) # c.run.clients>>,
       <<"NoParticipants", Count(c) = 0>>,
       <<"ClientLimit", Count(c) > c.run.maxClients>>,
       <<"InvalidRoutingAssertion", c.participants = << >> /\ c.scenario.routing # << >> >>,
       <<"InvalidParticipantId", BadIds(c)>>,
       <<"InvalidRoutingAssertion", BadRouting(c)>>,
       <<"InvalidSynchronization", BadSynchronization(c)>>,
       <<"InvalidBounds", BadBounds(c)>>,
       <<"UnsupportedWorkload", c.scenario.kind # "position" \/ c.scenario.movement # "fixed">>,
       <<"UnsupportedOption", c.scheduler.rampDown # 0>>,
       <<"InvalidTlsTemplates", BadTemplates(c)>>,
       <<"EnvironmentProfileNotAllowed",
            \/ ~LocalOrTemporary(c) /\ c.run.profile \in {"stress", "spike", "soak"}
            \/ c.environment = "staging" /\ Disruptive(c)>>,
       <<"ProductionProfile", production /\ c.run.profile # "smoke">>,
       <<"ProductionClients", production /\ (Count(c) > 3 \/ c.run.maxClients > 3)>>,
       <<"ProductionDuration", production /\ c.run.duration > QuarterHour>>,
       <<"ProductionRate",
            production /\ (c.run.interval < HalfMinute \/ FasterThan(c, TenSeconds))>>,
       <<"SlowClientNotAllowed", production /\ Disruptive(c)>>,
       <<"InvalidEventLimit",
            c.scenario.invalid.enabled /\ (\/ c.scenario.invalid.maxEvents \in {None, 0}
                                           \/ FasterThan(c, OneSecond)
                                           \/ c.run.interval < OneSecond)>> >>

\* validate_with_options: these, then validate_workload, then what an option permits.
TargetChecks(c) ==
    << <<"AuthorizationRequired", ~c.acknowledged>>,
       <<"HostNotAllowed",
            /\ ~(c.environment = "local" /\ c.host \in Loopback)
            /\ c.host \notin c.allowHosts>> >>

OptionChecks(c, o) ==
    << <<"ProductionNotAllowed", c.environment = "production" /\ ~o.allowProduction>>,
       <<"InvalidEventsNotAllowed",
            /\ c.scenario.invalid.enabled
            /\ ~LocalOrTemporary(c)
            /\ ~(c.environment = "staging" /\ o.allowInvalid)>> >>

Checks(c, o) == TargetChecks(c) \o WorkloadChecks(c) \o OptionChecks(c, o)

Refusing(c, o) == {i \in DOMAIN Checks(c, o) : Checks(c, o)[i][2]}

\* The SafetyError, or "none".
Refusal(c, o) ==
    IF Refusing(c, o) = {} THEN "none"
    ELSE Checks(c, o)[CHOOSE i \in Refusing(c, o) : \A j \in Refusing(c, o) : i <= j][1]
===============================================================================
