------------------------------ MODULE Thresholds ------------------------------
(***************************************************************************)
(* thresholds.rs: evaluate, on what Metrics::snapshot read. A rate limit is *)
(* a fraction <<n, d>>; NotSet stands for None. Latencies are in units of   *)
(* the recorder, whose least value is 1: 0 stands for an empty histogram.  *)
(***************************************************************************)
EXTENDS Integers

CONSTANTS
    NotSet,     \* an abort threshold that is not configured
    Limits,     \* config.abort
    U32Max      \* u32::MAX

ASSUME ThresholdsAssumption ==
    /\ {Limits.connectionErrorRate, Limits.messageErrorRate} \subseteq {NotSet} \cup (Int \X (Nat \ {0}))
    /\ {Limits.minSamples, Limits.maxDropped} \subseteq {NotSet} \cup Nat
    /\ U32Max \in Nat

\* The counters evaluate looks at, in the order in which snapshot loads them.
LoadOrder == <<"attempts", "failures", "sent", "dropped", "timeouts">>

Counters == {LoadOrder[i] : i \in DOMAIN LoadOrder}

Percentiles == {"p95", "p99"}

Criteria == {"ConnectionErrorRate", "MessageErrorRate", "P95Latency", "P99Latency", "DroppedMessages"}

Larger(a, b) == IF a >= b THEN a ELSE b

Clamped(n) == IF n > U32Max THEN U32Max ELSE n

\* ratio(errors, total) > limit; ratio is 0 where there is nothing to divide by. Nothing
\* validates the limit, which may be negative.
RateExceeds(errors, total, limit) ==
    /\ limit # NotSet
    /\ IF total = 0 THEN limit[1] < 0
       ELSE Clamped(errors) * limit[2] > limit[1] * Clamped(total)

EnoughSamples(s) ==
    Larger(s.attempts, s.sent) >= IF Limits.minSamples = NotSet THEN 1 ELSE Limits.minSamples

ConnectionsFail(s) == RateExceeds(s.failures, s.attempts, Limits.connectionErrorRate)

\* A timed-out batch is in both terms.
MessagesFail(s) == RateExceeds(s.timeouts + s.dropped, s.sent, Limits.messageErrorRate)

\* A percentile of an empty histogram is None, which exceeds nothing.
TooSlow(s, p) == Limits[p] # NotSet /\ s[p] > Limits[p]

TooManyDropped(s) == Limits.maxDropped # NotSet /\ s.dropped > Limits.maxDropped

\* (slip: the number of samples is not asked for)
EvaluateUnsampled(s) ==
    IF ConnectionsFail(s) THEN "ConnectionErrorRate"
    ELSE IF MessagesFail(s) THEN "MessageErrorRate"
    ELSE IF TooSlow(s, "p95") THEN "P95Latency"
    ELSE IF TooSlow(s, "p99") THEN "P99Latency"
    ELSE IF TooManyDropped(s) THEN "DroppedMessages" ELSE "none"

\* The criterion that evaluate reports, the first in its order, or "none".
Evaluate(s) ==
    CASE ~EnoughSamples(s)  -> "none"
      [] EnoughSamples(s) /\ ConnectionsFail(s) -> "ConnectionErrorRate"
      [] OTHER ->
            IF MessagesFail(s) THEN "MessageErrorRate"
            ELSE IF TooSlow(s, "p95") THEN "P95Latency"
            ELSE IF TooSlow(s, "p99") THEN "P99Latency"
            ELSE IF TooManyDropped(s) THEN "DroppedMessages" ELSE "none"
===============================================================================
