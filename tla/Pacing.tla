-------------------------------- MODULE Pacing --------------------------------
(***************************************************************************)
(* When things happen: start_delays and step_delays (scheduler.rs), and    *)
(* emission_interval and reconnect_delay (scenarios.rs).                   *)
(***************************************************************************)
EXTENDS Configuration, SequencesExt

Repeat(x, n) == [i \in 1..n |-> x]

\* step_delays answers Err
BadSteps(n, steps) ==
    \E i \in DOMAIN steps :
        \/ steps[i].clients > n
        \/ i > 1 /\ (steps[i].at < steps[i-1].at \/ steps[i].clients < steps[i-1].clients)

\* The clients that step i adds to those before it.
Added(steps, i) == steps[i].clients - IF i = 1 THEN 0 ELSE steps[i-1].clients

\* (slip: who is left over starts at once)
StepDelaysEager(n, steps) ==
    FlattenSeq([i \in DOMAIN steps |-> Repeat(steps[i].at, Added(steps, i))])
        \o Repeat(0, n - IF steps = << >> THEN 0 ELSE steps[Len(steps)].clients)

\* step_delays: who is left over starts with the last step.
StepDelays(n, steps) ==
    LET last == Len(steps)
        left == n - IF last = 0 THEN 0 ELSE steps[last].clients
    IN  FlattenSeq([i \in DOMAIN steps |-> Repeat(steps[i].at, Added(steps, i))])
            \o Repeat(IF last = 0 THEN 0 ELSE steps[last].at, left)

LinearDelays(n, rampUp) == [i \in 1..n |-> (rampUp * (i - 1)) \div n]

\* start_delays: all that it may answer, the shuffle being any permutation.
StartDelays(n, s) ==
    CASE s.strategy = "immediate"  -> {Repeat(0, n)}
      [] s.strategy = "linear"     -> {LinearDelays(n, s.rampUp)}
      [] s.strategy = "step"       -> {StepDelays(n, s.steps)}
      [] s.strategy = "randomized" ->
            {[i \in 1..n |-> LinearDelays(n, s.rampUp)[p[i]]] :
                p \in {f \in [1..n -> 1..n] : \A i, j \in 1..n : f[i] = f[j] => i = j}}

-----------------------------------------------------------------------------
Least(a, b) == IF a < b THEN a ELSE b

\* max_rate lengthens the interval, and never shortens it.
EmissionInterval(run) ==
    IF run.period > run.interval THEN run.period ELSE run.interval

\* (slip: the multiplier wraps)
BackoffBaseWrapping(r, attempt) ==
    Least(r.min * (2^(attempt - 1) % (MaxU32 + 1)), r.max)

\* 2_u32.saturating_pow
Power[n \in U32] == IF n = 0 THEN 1 ELSE Least(2 * Power[n - 1], MaxU32)

\* The backoff before the jitter.
BackoffBase(r, attempt) == Least(r.min * Power[attempt - 1], r.max)

\* reconnect_delay: the ends and the middle of the range the jitter is drawn from,
\* in hundredths. It is applied after max_backoff has been.
ReconnectDelays(r, attempt) ==
    LET jitter == Least(r.jitter, 100)
    IN  {BackoffBase(r, attempt) * factor : factor \in {100 - jitter, 100, 100 + jitter}}
===============================================================================
