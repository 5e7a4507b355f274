---------------------------- MODULE Configuration ----------------------------
(***************************************************************************)
(* config.rs: what an AppConfig may hold once it has been read, as far as  *)
(* the safety policy, the schedule and the connections look at it. Names   *)
(* of hosts, files and participants are members of small sets; durations   *)
(* are counted in fractions of a second; an f64 max_rate is its period.    *)
(***************************************************************************)
EXTENDS Integers, Sequences, FiniteSets

CONSTANTS
    Hosts, Loopback,    \* hosts, and those that is_loopback recognises
    Ids, UnsafeIds,     \* aliases, and those that are empty or no plain ASCII name
    Files,              \* certificate and key files named by a configuration
    Second,             \* a second, in the units that durations are counted in
    MaxU32, MaxU64,     \* u32::MAX and u64::MAX
    ClientId(_)         \* client-0, client-1, ... of a run without explicit participants

ASSUME ConfigurationAssumption ==
    /\ Loopback \subseteq Hosts /\ UnsafeIds \subseteq Ids
    /\ MaxU32 \in Nat \ {0} /\ MaxU64 \in Nat /\ Second \in Nat \ {0}
    /\ \A i, j \in 1..MaxU32 : ClientId(i) = ClientId(j) => i = j

None == -1          \* an absent Option<Duration> or Option<u32>
BadRate == 0        \* a max_rate that is not finite and positive, or whose period is not
Absent == "absent"  \* an absent template, argument or alias
NoFile == << >>     \* an absent path; a path is a tuple, see OwnFile

Durations == Nat
U32 == 0..MaxU32
Optional(S) == S \cup {None}

Environments == {"local", "staging", "temporary", "production"}

Profiles == {"smoke", "functional", "load", "stress", "spike", "soak", "reconnect"}

Tls == [enabled : BOOLEAN, ca : Files \cup {NoFile},
        cert : Files \cup {NoFile}, key : Files \cup {NoFile},
        certTemplate : {Absent, "fixed", "placeholder"},
        keyTemplate  : {Absent, "fixed", "placeholder"}]

Run == [profile : Profiles, clients : U32, maxClients : U32,
        duration : Durations, interval : Durations, period : Optional(Nat)]

Scheduler == [strategy : {"immediate", "linear", "step", "randomized"},
              rampUp : Durations, rampDown : Durations,
              steps : Seq([at : Durations, clients : U32])]

Reconnect == [enabled : BOOLEAN, min : Durations, max : Durations,
              attempts : U32, jitter : Nat]

Timeouts == [connect : Durations, tlsHandshake : Durations,
             read : Durations, write : Durations]

Roles == {"send_only", "receive_only", "send_receive"}

\* slow: read_delay or pause_read_for is given
Participant == [id : Ids, role : Roles, slow : BOOLEAN]

Synchronization == [waitForReady : Seq(Ids), timeout : Optional(Durations)]

RoutingAssertion == [sender : Ids, receivers : Seq(Ids), forbidden : Seq(Ids)]

ScenarioConfig ==
    [kind : {"position", "marker", "chat"},
     movement : {"fixed", "random_walk", "line", "circle", "route", "geojson_route"},
     routing : Seq(RoutingAssertion),
     invalid : [enabled : BOOLEAN, maxEvents : Optional(U32)],
     slowConnect : BOOLEAN, abruptDisconnect : BOOLEAN]

AppConfig ==
    [acknowledged : BOOLEAN, environment : Environments, allowHosts : SUBSET Hosts,
     host : Hosts, tls : Tls, run : Run, scheduler : Scheduler, reconnect : Reconnect,
     timeouts : Timeouts, participants : Seq(Participant),
     synchronization : Synchronization, scenario : ScenarioConfig]

-----------------------------------------------------------------------------
(* parse_duration of config.rs saturates; that of main.rs multiplies as the  *)
(* build does: wrapping in release, panicking in debug.                      *)

Units == {"s", "m", "h"}

Unit(u) == CASE u = "s" -> 1 [] u = "m" -> 60 [] u = "h" -> 3600

Overflows(n, u) == n * Unit(u) > MaxU64

Saturated(n, u) == Second * IF Overflows(n, u) THEN MaxU64 ELSE n * Unit(u)

Wrapped(n, u) == Second * ((n * Unit(u)) % (MaxU64 + 1))

\* is_safe_participant_id
IsSafeId(id) == id \notin UnsafeIds

\* The certificate and key of a participant: its own, if there are templates.
OwnFile(kind, id) == <<kind, id>>

HasTemplates(tls) == tls.certTemplate # Absent \/ tls.keyTemplate # Absent

\* TlsConfig::for_participant answers Ok
ResolvesFor(tls, id) ==
    HasTemplates(tls) =>
        /\ tls.certTemplate = "placeholder" /\ tls.keyTemplate = "placeholder"
        /\ tls.cert = NoFile /\ tls.key = NoFile
        /\ IsSafeId(id)

ForParticipant(tls, id) ==
    IF HasTemplates(tls)
    THEN [tls EXCEPT !.cert = OwnFile("cert", id), !.key = OwnFile("key", id),
                     !.certTemplate = Absent, !.keyTemplate = Absent]
    ELSE tls

-----------------------------------------------------------------------------
\* participants (scenarios.rs)
Participants(c) ==
    IF c.participants # << >> THEN c.participants
    ELSE [i \in 1..c.run.clients |->
            [id |-> ClientId(i), role |-> "send_receive", slow |-> FALSE]]
===============================================================================
