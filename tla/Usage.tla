-------------------------------- MODULE Usage --------------------------------
(***************************************************************************)
(* What the Prometheus strategy computes from the measurements of one      *)
(* service: KServiceUsage and GetResults.                                  *)
(*                                                                         *)
(* A measurement is the ratio of the 95th to the 50th percentile of the    *)
(* request latencies, in quarters, one per minute, oldest first; NaN       *)
(* stands for every value that is no number (NaN, an infinity, text that   *)
(* does not parse).  Decay and limits are in quarters too.  What the code  *)
(* holds in a float32 is a fraction [num, den] here; the code's rounding   *)
(* may move a share by one.                                                *)
(***************************************************************************)
EXTENDS Integers, Sequences, FiniteSetsExt

CONSTANT NaN

(* The annotations of a service; one that is missing or does not parse has *)
(* a default.  Nothing checks the values that parse.                       *)
Settings == [decay : Int, soft : Int, hard : Int]
DefaultSettings == [decay |-> 3, soft |-> 7, hard |-> 16]

Numbers(points) == {i \in DOMAIN points : points[i] # NaN}

(* UpdateWithPercentileRatio: a value that is no number is replaced by the *)
(* last number before it, or left out if there is none.                    *)
Latencies(points) ==
    LET numbers == Numbers(points)
        first   == Min(numbers)
        LastNumber(i) == Max({j \in numbers : j <= i})
    IN  IF numbers = {} THEN <<>>
        ELSE [i \in 1 .. (Len(points) - first + 1) |-> points[LastNumber(i + first - 1)]]

(* One iteration of the loop in FinalizeKServiceMetrics.  Everything it    *)
(* adds up is a multiple of 1 / one, a quarter of what it was before.      *)
NothingAdded == [latency |-> 0, weights |-> 0, weight |-> 1, one |-> 1]

AddLatency(sums, latency, decay) ==
    [latency |-> 4 * (sums.latency + sums.weight * latency),
     weights |-> 4 * (sums.weights + sums.weight),
     weight  |-> sums.weight * decay,
     one     |-> 4 * sums.one]

(* The loop goes from the newest latency, of weight 1, to the oldest: what *)
(* it has added up after each number of iterations.                        *)
Sums(latencies, decay) ==
    LET n == Len(latencies)
        sums[k \in 0..n] ==
            IF k = 0 THEN NothingAdded
            ELSE AddLatency(sums[k - 1], latencies[n + 1 - k], decay)
    IN  sums

UndividedMutant(latencies, decay) ==
    LET total == Sums(latencies, decay)[Len(latencies)]
    IN  [num |-> total.latency, den |-> total.one]

(* FinalizeKServiceMetrics: the weighted mean of the latencies, 0 if there *)
(* are none.  It is not divided if the weights do not add up to more than  *)
(* 0, which takes a negative decay.                                        *)
RequestLatency(latencies, decay) ==
    LET total == Sums(latencies, decay)[Len(latencies)]
    IN  [num |-> total.latency,
         den |-> IF total.weights > 0 THEN total.weights ELSE total.one]

UncappedMutant(latency, soft, hard) ==
    IF latency.num < soft * latency.den THEN 0
    ELSE (100 * (latency.num - soft * latency.den)) \div (latency.den * (hard - soft))

NoSoftLimitMutant(latency, soft, hard) ==
    IF latency.num >= hard * latency.den THEN 100
    ELSE (100 * latency.num) \div (latency.den * hard)

(* The share GetResults asks for: none below the soft limit, everything    *)
(* from the hard limit on, and in proportion between them.                 *)
DesiredTraffic(latency, soft, hard) ==
    IF latency.num < soft * latency.den THEN 0
    ELSE IF latency.num >= hard * latency.den THEN 100
    ELSE (100 * (latency.num - soft * latency.den)) \div (latency.den * (hard - soft))

DesiredShare(points, settings) ==
    DesiredTraffic(RequestLatency(Latencies(points), settings.decay),
                   settings.soft, settings.hard)

==============================================================================
