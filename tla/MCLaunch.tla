------------------------------- MODULE MCLaunch -------------------------------
(***************************************************************************)
(* Requests: from a sound one for each environment and command, all that   *)
(* differ from it in one or two places, with values on each side of every  *)
(* bound that the policy draws.                                            *)
(***************************************************************************)
EXTENDS Launch, TLC

Ca    == <<"ca">>
Cert  == <<"cert">>
Key   == <<"key">>
Other == <<"other key">>
Lost  == <<"lost">>

AllFiles == {Ca, Cert, Key, Other, Lost}

\* client-0, ..
Client(i) == <<"zero", "one", "two", "three", "four", "five", "six">>[i]

Named == {"ann", "bob", "cid", "../x"}
AllIds == Named \cup {Client(i) : i \in 1..MaxU32}

Owned(kind) == {OwnFile(kind, id) : id \in AllIds}

AllReadable == (AllFiles \ {Lost}) \cup Owned("cert") \cup Owned("key")
AllPairs    == {<<Cert, Key>>} \cup {<<OwnFile("cert", id), OwnFile("key", id)>> : id \in AllIds}

Person(id, role) == [id |-> id, role |-> role, slow |-> FALSE]

Cast == <<Person("ann", "send_receive"), Person("bob", "send_only"), Person("cid", "receive_only")>>

Route == [sender |-> "ann", receivers |-> <<"cid">>, forbidden |-> << >>]

Sound(environment, people) ==
    [acknowledged |-> TRUE, environment |-> environment,
     allowHosts |-> {"listed"}, host |-> "listed",
     tls |-> [enabled |-> TRUE, ca |-> Ca, cert |-> NoFile, key |-> NoFile,
              certTemplate |-> Absent, keyTemplate |-> Absent],
     run |-> [profile |-> "smoke", clients |-> 3, maxClients |-> 3,
              duration |-> 15 * 60 * Second, interval |-> 30 * Second, period |-> None],
     scheduler |-> [strategy |-> "linear", rampUp |-> 5 * Second, rampDown |-> 0, steps |-> << >>],
     reconnect |-> [enabled |-> TRUE, min |-> 1, max |-> 5, attempts |-> 2, jitter |-> 0],
     timeouts |-> [connect |-> 1, tlsHandshake |-> 1, read |-> 1, write |-> 1],
     participants |-> people,
     synchronization |-> [waitForReady |-> << >>, timeout |-> None],
     scenario |-> [kind |-> "position", movement |-> "fixed", routing |-> << >>,
                   invalid |-> [enabled |-> FALSE, maxEvents |-> 1],
                   slowConnect |-> FALSE, abruptDisconnect |-> FALSE]]

NoArgs ==
    [server |-> Absent, environment |-> Absent, profile |-> Absent, clients |-> None,
     maxClients |-> None, duration |-> << >>, interval |-> << >>, period |-> None,
     acknowledge |-> FALSE]

SoundRequests ==
    [command : {"run", "smoke", "validate", "preflight"},
     file : {Sound(e, people) : e \in Environments, people \in {Cast, << >>}},
     args : {NoArgs}, options : {AllAllowed}]

TwoSteps(a, b) == <<[at |-> 1, clients |-> a], [at |-> 3, clients |-> b]>>

\* Requests that differ from q in one place of the file that run, scheduler, ... fill.
Edits(q) ==
    LET ps == q.file.participants IN
         {[q EXCEPT !.file.acknowledged = FALSE]}
    \cup {[q EXCEPT !.file.host = h] : h \in {"loop", "other"}}
    \cup {[q EXCEPT !.file.tls.enabled = FALSE]}
    \cup {[q EXCEPT !.file.tls.ca = f] : f \in {NoFile, Lost}}
    \cup {[q EXCEPT !.file.tls.cert = f] : f \in {Cert, Lost}}
    \cup {[q EXCEPT !.file.tls.key = f] : f \in {Key, Other, Lost}}
    \cup {[q EXCEPT !.file.tls.certTemplate = t] : t \in {"fixed", "placeholder"}}
    \cup {[q EXCEPT !.file.tls.keyTemplate = "placeholder"]}
    \cup {[q EXCEPT !.file.run.profile = p] : p \in {"load", "stress"}}
    \cup {[q EXCEPT !.file.run.clients = n] : n \in {0, 2, 4}}
    \cup {[q EXCEPT !.file.run.maxClients = n] : n \in {2, 4}}
    \cup {[q EXCEPT !.file.run.duration = d] : d \in {0, 15 * 60 * Second + 1, MaxInstant + 1}}
    \cup {[q EXCEPT !.file.run.interval = d] : d \in {0, 1, 30 * Second - 1}}
    \cup {[q EXCEPT !.file.run.period = p] : p \in {BadRate, 1, 10 * Second, 60 * Second}}
    \cup {[q EXCEPT !.file.scheduler.strategy = x] : x \in {"immediate", "step", "randomized"}}
    \cup {[q EXCEPT !.file.scheduler.steps = x] : x \in {TwoSteps(1, 2), TwoSteps(2, 3), TwoSteps(2, 1), TwoSteps(1, 4)}}
    \cup {[q EXCEPT !.file.scheduler.rampDown = 1]}
    \cup {[q EXCEPT !.file.reconnect.enabled = FALSE]}
    \cup {[q EXCEPT !.file.reconnect.min = d] : d \in {0, 6}}
    \cup {[q EXCEPT !.file.reconnect.max = 60]}
    \cup {[q EXCEPT !.file.reconnect.attempts = n] : n \in {0, 5}}
    \cup {[q EXCEPT !.file.reconnect.jitter = j] : j \in {20, 150}}
    \cup {[q EXCEPT !.file.timeouts.write = 0]}
    \cup {[q EXCEPT !.file.participants = x] : x \in IF Len(ps) < 3 THEN {} ELSE
            {<<ps[1], ps[2], ps[2]>>, <<ps[1], ps[2]>>, <<ps[1], ps[2], Person("../x", "send_only")>>,
             <<ps[1], ps[2], [ps[3] EXCEPT !.slow = TRUE]>>}}
    \cup {[q EXCEPT !.file.synchronization.waitForReady = x] : x \in {<<"ann">>, <<"zero">>}}
    \cup {[q EXCEPT !.file.synchronization.timeout = d] : d \in {0, 1, MaxInstant + 1}}
    \cup {[q EXCEPT !.file.scenario.kind = "chat"]}
    \cup {[q EXCEPT !.file.scenario.routing = <<x>>] : x \in
            {Route, [Route EXCEPT !.sender = "cid"], [Route EXCEPT !.receivers = <<"bob">>],
             [Route EXCEPT !.forbidden = <<"bob">>], [Route EXCEPT !.receivers = << >>]}}
    \cup {[q EXCEPT !.file.scenario.invalid.enabled = TRUE]}
    \cup {[q EXCEPT !.file.scenario.invalid.maxEvents = n] : n \in {None, 0}}
    \cup {[q EXCEPT !.file.scenario.abruptDisconnect = TRUE]}
    \cup {[q EXCEPT !.args.server = h] : h \in {"loop", "other"}}
    \cup {[q EXCEPT !.args.environment = "production"]}
    \cup {[q EXCEPT !.args.profile = p] : p \in {"load", "stress"}}
    \cup {[q EXCEPT !.args.clients = n] : n \in {2, 4}}
    \cup {[q EXCEPT !.args.maxClients = 4]}
    \cup {[q EXCEPT !.args.duration = d] : d \in {<<16, "m">>, <<19, "h">>}}
    \cup {[q EXCEPT !.args.interval = <<1, "s">>]}
    \cup {[q EXCEPT !.args.period = p] : p \in {1, 10 * Second}}
    \cup {[q EXCEPT !.args.acknowledge = TRUE]}
    \cup {[q EXCEPT !.options.allowProduction = FALSE], [q EXCEPT !.options.allowInvalid = FALSE]}

MCInit ==
    /\ \E q \in SoundRequests :
        \/ request = q
        \/ \E one \in Edits(q) : request = one \/ request \in Edits(one)
    /\ Start

MCSpec == MCInit /\ [][Next]_vars
===============================================================================
