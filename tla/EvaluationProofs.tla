-------------------------- MODULE EvaluationProofs --------------------------
(***************************************************************************)
(* Theorems about the offloading loop.  Of listServices: runs get exactly  *)
(* what was listed and no call leaves a goroutine behind, for any set of   *)
(* services and any interleaving of the three goroutines.  Of whole        *)
(* evaluations: the same, panics included; shares come from completed      *)
(* measurements of their own run, rise only with load and return to 0 when *)
(* it is over; the latency they follow is a mean of what was measured, for *)
(* series of any length; and the strategy asks for percentages, whatever   *)
(* was measured and annotated.                                             *)
(***************************************************************************)
EXTENDS Evaluation, WellFoundedInduction, TLAPS

------------------------------------------------------------------------------
(* The goroutines of listServices.                                         *)

Busy == {"list", "push", "report"}

(* How far the producer is tells what has been listed and collected:       *)
(* nothing, and the context not cancelled, before its list is received;    *)
(* that list after.                                                        *)
(* The consumer lives while the loop waits for it, the producer at most    *)
(* until the loop has returned, unless the manager ends.                   *)
Collected ==
    /\ producer \in Busy => collected = <<>> /\ ~cancelled
    /\ producer \in {"list", "report"} => listed = {}
    /\ producer \notin Busy /\ loop \in {"collect", "select"} => collected = <<listed>>

Alive ==
    /\ consumer # "ended" => loop = "collect"
    /\ loop \in {"wait", "run", "exited"} /\ producer \in Busy => stopped

IInv == TypeOK /\ Collected /\ Alive /\ RunsOnWhatWasListed /\ NoLeak

(* The union of no list and of one list.                                   *)
LEMMA ItemsOf == /\ Items(<<>>) = {}
                 /\ \A S : Items(<<S>>) = S
BY DEF Items

(* The initial state satisfies the invariant.                              *)
LEMMA InitInv == Init => IInv
<1> SUFFICES ASSUME Init PROVE IInv
  OBVIOUS
<1> QED
  BY DEF Init, IInv, TypeOK, Collected, Alive, RunsOnWhatWasListed, NoLeak, Busy

(* Every step keeps it.                                                    *)
LEMMA NextInv == IInv /\ [Next]_vars => IInv'
<1> SUFFICES ASSUME IInv, [Next]_vars PROVE IInv'
  OBVIOUS
<1> USE DEF IInv, TypeOK, Collected, Alive, RunsOnWhatWasListed, NoLeak, Busy
<1>1. CASE Stop
  BY <1>1 DEF Stop, callVars
<1>2. CASE TimerFires
  BY <1>2 DEF TimerFires, callVars
<1>3. CASE CallList
  BY <1>3 DEF CallList
<1>4. CASE Exit
  BY <1>4 DEF Exit, callVars
<1>5. CASE ReturnServices
  <2>1. given' = listed \/ (stopped /\ given' = {})
    <3>1. CASE producer \in Busy
      BY <1>5, <3>1, ItemsOf DEF ReturnServices, ContextDone
    <3>2. CASE producer \notin Busy
      BY <1>5, <3>2, ItemsOf DEF ReturnServices
    <3> QED
      BY <3>1, <3>2
  <2>2. producer \in Busy => stopped
    BY <1>5 DEF ReturnServices, ContextDone
  <2> QED
    BY <1>5, <2>1, <2>2 DEF ReturnServices, callVars
<1>6. CASE ReturnError
  BY <1>6 DEF ReturnError
<1>7. CASE Run
  BY <1>7 DEF Run, callVars
<1>8. CASE List
  BY <1>8 DEF List
<1>9. CASE ListFails
  BY <1>9 DEF ListFails
<1>10. CASE Push
  <2>1. collected' = <<listed>>
    BY <1>10 DEF Push
  <2> QED
    BY <1>10, <2>1 DEF Push
<1>11. CASE Cancel
  BY <1>11 DEF Cancel
<1>12. CASE Finish
  BY <1>12 DEF Finish
<1>13. CASE Announce
  BY <1>13 DEF Announce
<1>14. CASE UNCHANGED vars
  BY <1>14 DEF vars, callVars
<1> QED
  BY <1>1, <1>2, <1>3, <1>4, <1>5, <1>6, <1>7, <1>8, <1>9, <1>10, <1>11, <1>12, <1>13, <1>14
     DEF Next, Listing

(* A run gets exactly the listed services (listServices and Start).        *)
THEOREM RunsComplete == Spec => []RunsOnWhatWasListed
BY InitInv, NextInv, PTL DEF Spec, IInv

(* No goroutine of listServices is left blocked while the manager runs.    *)
THEOREM NoGoroutineLeak == Spec => []NoLeak
BY InitInv, NextInv, PTL DEF Spec, IInv

------------------------------------------------------------------------------
(* Whole evaluations.                                                      *)

(* While the strategy is at work usage holds measurements, and GetResults  *)
(* is reached with those of this run, complete.                            *)
IsUsage(u) == u = [pods |-> u.pods, series |-> u.series, complete |-> u.complete]

Measured ==
    /\ step # "idle" => IsUsage(usage)
    /\ step = "results" => cluster = usage /\ usage.complete

EvaluationInv == IInv /\ Measured

(* Evaluations do to the loop what ListServices says, unless they panic.   *)
LEMMA EvaluationStep == EvaluationNext => [Next]_vars \/ QueryPanics
<1> SUFFICES ASSUME EvaluationNext, ~QueryPanics PROVE [Next]_vars
  OBVIOUS
<1>1. CASE Listing /\ UNCHANGED <<series, strategy, share>>
  BY <1>1 DEF Next
<1>2. CASE \E s \in Services : Measure(s) \/ SeriesEnds(s)
  BY <1>2 DEF Measure, SeriesEnds
<1>3. CASE EmptyRun \/ QueryAborted \/ ExecuteFails \/ ApplyResults
  BY <1>3 DEF EmptyRun, QueryAborted, ExecuteFails, ApplyResults, EndRun, Next
<1>4. CASE Execute \/ UpdateNodesUsage \/ UpdatePodsUsage \/ (\E s \in Services : AddPod(s))
  BY <1>4 DEF Execute, UpdateNodesUsage, UpdatePodsUsage, AddPod
<1>5. CASE Query \/ QueryAnswered \/ QueryUnavailable
  BY <1>5 DEF Query, QueryAnswered, QueryUnavailable
<1> QED
  BY <1>1, <1>2, <1>3, <1>4, <1>5 DEF EvaluationNext, Strategy

(* A panic leaves nothing of the loop behind.                              *)
LEMMA PanicInv == IInv /\ QueryPanics => IInv'
BY DEF QueryPanics, IInv, TypeOK, Collected, Alive, RunsOnWhatWasListed, NoLeak, Busy

(* Every step of the evaluation keeps the invariant.                       *)
LEMMA LoopInv == IInv /\ [EvaluationNext]_evaluationVars => IInv'
<1> SUFFICES ASSUME IInv, [EvaluationNext]_evaluationVars PROVE IInv'
  OBVIOUS
<1>1. CASE EvaluationNext
  BY <1>1, EvaluationStep, NextInv, PanicInv
<1>2. CASE UNCHANGED evaluationVars
  BY <1>2, NextInv DEF evaluationVars
<1> QED
  BY <1>1, <1>2

(* Only an answered query leads to the results.                            *)
LEMMA MeasuredInv == Measured /\ [EvaluationNext]_evaluationVars => Measured'
<1> SUFFICES ASSUME Measured, [EvaluationNext]_evaluationVars PROVE Measured'
  OBVIOUS
<1> USE DEF Measured, IsUsage
<1>1. CASE UNCHANGED strategy
  BY <1>1 DEF strategy
<1>2. CASE EmptyRun \/ QueryAborted \/ ExecuteFails \/ ApplyResults \/ QueryPanics
  BY <1>2 DEF EmptyRun, QueryAborted, ExecuteFails, ApplyResults, EndRun, QueryPanics
<1>3. CASE Execute
  BY <1>3 DEF Execute, NoUsage
<1>4. CASE UpdateNodesUsage \/ UpdatePodsUsage \/ Query \/ QueryUnavailable
  BY <1>4 DEF UpdateNodesUsage, UpdatePodsUsage, Query, QueryUnavailable
<1>5. ASSUME NEW s \in Services, AddPod(s) PROVE Measured'
  BY <1>5 DEF AddPod
<1>6. CASE QueryAnswered
  BY <1>6 DEF QueryAnswered
<1>7. CASE \E s \in Services : Measure(s) \/ SeriesEnds(s)
  BY <1>1, <1>7 DEF Measure, SeriesEnds
<1> QED
  BY <1>1, <1>2, <1>3, <1>4, <1>5, <1>6, <1>7 DEF EvaluationNext, Strategy, evaluationVars

(* So it does at first with all of the evaluation's variables.             *)
LEMMA EvaluationInitInv == EvaluationInit => EvaluationInv
BY InitInv DEF EvaluationInit, EvaluationInv, Measured

(* And at every step of them.                                              *)
LEMMA EvaluationNextInv == EvaluationInv /\ [EvaluationNext]_evaluationVars => EvaluationInv'
BY LoopInv, MeasuredInv DEF EvaluationInv

(* A share is changed by ApplyResults, or lost with the process.           *)
LEMMA ShareChanges ==
    Measured /\ [EvaluationNext]_evaluationVars
        => (share' # share /\ step # "query"
              => step = "results" /\ cluster = usage /\ cluster.complete)
<1> SUFFICES ASSUME Measured, [EvaluationNext]_evaluationVars, share' # share, step # "query"
             PROVE step = "results" /\ cluster = usage /\ cluster.complete
  OBVIOUS
<1>1. ApplyResults
  BY DEF EvaluationNext, Strategy, evaluationVars, Measure, SeriesEnds, EmptyRun, Execute,
         UpdateNodesUsage, UpdatePodsUsage, AddPod, Query, QueryAnswered, QueryUnavailable,
         QueryAborted, ExecuteFails, QueryPanics
<1> QED
  BY <1>1 DEF ApplyResults, Measured

(* A run gets exactly the listed services (listServices, Start and run).   *)
THEOREM EvaluationsComplete == EvaluationSpec => []RunsOnWhatWasListed
BY EvaluationInitInv, EvaluationNextInv, PTL DEF EvaluationSpec, EvaluationInv, IInv

(* No goroutine of listServices is left blocked while the manager runs,    *)
(* through any number of evaluations.                                      *)
THEOREM EvaluationsLeakNothing == EvaluationSpec => []NoLeak
BY EvaluationInitInv, EvaluationNextInv, PTL DEF EvaluationSpec, EvaluationInv, IInv

(* Failed and half-done measurements never reach a share (Execute and      *)
(* GetResults), for any services, annotations and series.                  *)
THEOREM SharesMeasured == EvaluationSpec => SharesFromThisRun
<1>1. EvaluationSpec => []EvaluationInv
  BY EvaluationInitInv, EvaluationNextInv, PTL DEF EvaluationSpec
<1>2. EvaluationInv /\ [EvaluationNext]_evaluationVars
        => [share' # share /\ step # "query" =>
              step = "results" /\ cluster = usage /\ cluster.complete]_evaluationVars
  BY ShareChanges DEF EvaluationInv
<1> QED
  BY <1>1, <1>2, PTL DEF EvaluationSpec, SharesFromThisRun

(* Quotients of natural numbers.                                           *)
LEMMA Quotient ==
    ASSUME NEW a \in Nat, NEW b \in Nat, b > 0, a < 100 * b
    PROVE  (a \div b) \in 0..99
<1> DEFINE q == a \div b
<1>1. q \in Int /\ b * q <= a /\ a < b * (q + 1)
  OBVIOUS
<1>2. q >= 0
  <2>1. SUFFICES ASSUME q <= -1 PROVE FALSE
    BY <1>1
  <2>2. b * (q + 1) <= 0
    BY <1>1, <2>1
  <2> QED
    BY <1>1, <2>2
<1>3. q <= 99
  <2>1. SUFFICES ASSUME q >= 100 PROVE FALSE
    BY <1>1
  <2>2. b * q >= b * 100
    BY <1>1, <2>1
  <2> QED
    BY <1>1, <2>2
<1> QED
  BY <1>1, <1>2, <1>3

(* GetResults asks for a percentage whatever latency was measured and      *)
(* whatever limits are annotated, crossed or negative ones included: what  *)
(* WorkOffload assumes of the shares it is given.                          *)
THEOREM DesiredTrafficIsPercent ==
    ASSUME NEW num \in Int, NEW den \in Nat \ {0}, NEW soft \in Int, NEW hard \in Int
    PROVE  DesiredTraffic([num |-> num, den |-> den], soft, hard) \in Percent
<1> DEFINE over == 100 * (num - soft * den)
           range == den * (hard - soft)
<1>1. CASE num < soft * den
  BY <1>1 DEF DesiredTraffic, Percent
<1>2. CASE num >= soft * den /\ num >= hard * den
  BY <1>2 DEF DesiredTraffic, Percent
<1>3. CASE num >= soft * den /\ num < hard * den
  <2>1. soft * den \in Int /\ hard * den \in Int
    OBVIOUS
  <2>2. range = hard * den - soft * den
    OBVIOUS
  <2>3. over \in Nat /\ range \in Nat /\ range > 0 /\ over < 100 * range
    BY <1>3, <2>1, <2>2
  <2>4. (over \div range) \in 0..99
    BY <2>3, Quotient
  <2>5. DesiredTraffic([num |-> num, den |-> den], soft, hard) = over \div range
    BY <1>3 DEF DesiredTraffic
  <2> QED
    BY <2>4, <2>5 DEF Percent
<1> QED
  BY <1>1, <1>2, <1>3

(* A larger fraction has a larger quotient.                                *)
LEMMA QuotientGrows ==
    ASSUME NEW a \in Nat, NEW b \in Nat \ {0}, NEW c \in Nat, NEW d \in Nat \ {0},
           a * d <= c * b
    PROVE  (a \div b) <= (c \div d)
<1> DEFINE q == a \div b
           r == c \div d
<1>1. q \in Int /\ b * q <= a
  OBVIOUS
<1>2. r \in Int /\ c < d * (r + 1)
  OBVIOUS
<1>3. SUFFICES ASSUME r + 1 <= q PROVE FALSE
  BY <1>1, <1>2
<1>4. d * (r + 1) <= d * q
  BY <1>2, <1>1, <1>3
<1>5. c + 1 <= d * q
  BY <1>1, <1>2, <1>4
<1>6. b * (c + 1) <= b * (d * q)
  BY <1>1, <1>5
<1>7. b * (d * q) = d * (b * q)
  BY <1>1
<1>8. d * (b * q) <= d * a
  BY <1>1
<1> QED
  BY <1>1, <1>6, <1>7, <1>8

(* A limit that a latency has reached is reached by every larger one.      *)
LEMMA LimitReached ==
    ASSUME NEW n1 \in Int, NEW d1 \in Nat \ {0}, NEW n2 \in Int, NEW d2 \in Nat \ {0},
           n1 * d2 <= n2 * d1, NEW limit \in Int, n1 >= limit * d1
    PROVE  n2 >= limit * d2
<1>1. SUFFICES ASSUME n2 + 1 <= limit * d2 PROVE FALSE
  OBVIOUS
<1>2. (n2 + 1) * d1 <= (limit * d2) * d1
  BY <1>1
<1>3. (limit * d1) * d2 <= n1 * d2
  OBVIOUS
<1>4. (limit * d2) * d1 = (limit * d1) * d2
  OBVIOUS
<1>5. (n2 + 1) * d1 = n2 * d1 + d1
  OBVIOUS
<1> QED
  BY <1>2, <1>3, <1>4, <1>5

(* A slower service is never asked to offload less (GetResults): the share *)
(* grows with the latency, whatever limits are annotated, crossed or       *)
(* negative ones included, and the truncation of the division does not     *)
(* change that.                                                            *)
THEOREM DesiredTrafficGrows ==
    ASSUME NEW n1 \in Int, NEW d1 \in Nat \ {0}, NEW n2 \in Int, NEW d2 \in Nat \ {0},
           n1 * d2 <= n2 * d1, NEW soft \in Int, NEW hard \in Int
    PROVE  DesiredTraffic([num |-> n1, den |-> d1], soft, hard)
             <= DesiredTraffic([num |-> n2, den |-> d2], soft, hard)
<1> DEFINE T1 == DesiredTraffic([num |-> n1, den |-> d1], soft, hard)
           T2 == DesiredTraffic([num |-> n2, den |-> d2], soft, hard)
<1>1. T1 \in 0..100 /\ T2 \in 0..100
  BY DesiredTrafficIsPercent DEF Percent
<1> SUFFICES T1 <= T2
  OBVIOUS
<1>2. CASE n1 < soft * d1
  <2>1. T1 = 0
    BY <1>2 DEF DesiredTraffic
  <2> HIDE DEF T1, T2
  <2> QED
    BY <1>1, <2>1
<1>3. CASE n1 >= soft * d1 /\ n2 >= hard * d2
  <2>1. n2 >= soft * d2
    BY <1>3, LimitReached
  <2>2. T2 = 100
    BY <1>3, <2>1 DEF DesiredTraffic
  <2> HIDE DEF T1, T2
  <2> QED
    BY <1>1, <2>2
<1>4. CASE n1 >= soft * d1 /\ n2 < hard * d2
  <2> DEFINE a == 100 * (n1 - soft * d1)
             b == d1 * (hard - soft)
             c == 100 * (n2 - soft * d2)
             d == d2 * (hard - soft)
  <2>1. n1 < hard * d1
    BY <1>4, LimitReached
  <2>2. n2 >= soft * d2
    BY <1>4, LimitReached
  <2>3. T1 = a \div b /\ T2 = c \div d
    BY <1>4, <2>1, <2>2 DEF DesiredTraffic
  <2>4. a \in Nat /\ c \in Nat
    BY <1>4, <2>2
  <2>5. hard - soft \in Nat \ {0}
    <3>1. SUFFICES ASSUME hard <= soft PROVE FALSE
      OBVIOUS
    <3>2. hard * d1 <= soft * d1
      BY <3>1
    <3> QED
      BY <3>2, <2>1, <1>4
  <2>6. b \in Nat \ {0} /\ d \in Nat \ {0}
    BY <2>5
  <2>7. a * d <= c * b
    <3> DEFINE k == hard - soft
    <3>1. (n1 - soft * d1) * d2 <= (n2 - soft * d2) * d1
      <4>1. (n1 - soft * d1) * d2 = n1 * d2 - soft * d1 * d2
        OBVIOUS
      <4>2. (n2 - soft * d2) * d1 = n2 * d1 - soft * d1 * d2
        OBVIOUS
      <4> QED
        BY <4>1, <4>2
    <3> DEFINE x == (n1 - soft * d1) * d2
               y == (n2 - soft * d2) * d1
    <3>2. a * d = 100 * (x * k) /\ c * b = 100 * (y * k)
      OBVIOUS
    <3>3. x \in Int /\ y \in Int /\ k \in Nat
      BY <2>5
    <3>4. x <= y
      BY <3>1
    <3> HIDE DEF x, y, k
    <3>5. x * k <= y * k
      BY <3>3, <3>4
    <3> HIDE DEF a, b, c, d
    <3> QED
      BY <3>2, <3>3, <3>5
  <2> HIDE DEF a, b, c, d
  <2>8. (a \div b) <= (c \div d)
    BY <2>4, <2>6, <2>7, QuotientGrows
  <2> QED
    BY <2>3, <2>8
<1> QED
  BY <1>2, <1>3, <1>4

------------------------------------------------------------------------------
(* Induction.                                                              *)

(* Induction over the natural numbers, for a set of them: the library's    *)
(* well-founded induction without its operator parameter.                  *)
LEMMA SetInduction ==
    ASSUME NEW T, 0 \in T, \A n \in Nat : n \in T => n + 1 \in T
    PROVE  Nat \subseteq T
<1> DEFINE rest == Nat \ T
<1>1. SUFFICES ASSUME rest # {} PROVE FALSE
  OBVIOUS
<1>2. PICK x \in rest : \A y \in rest : ~ (<<y, x>> \in OpToRel(<, Nat))
  <2>1. rest \subseteq Nat
    OBVIOUS
  <2> HIDE DEF rest
  <2> QED
    BY <1>1, <2>1, NatLessThanWellFounded, WFMin
<1>3. x \in Nat /\ x # 0
  OBVIOUS
<1>4. x - 1 \in Nat /\ x - 1 \notin T
  BY <1>3
<1>5. <<x - 1, x>> \in OpToRel(<, Nat)
  BY <1>3, <1>4 DEF OpToRel
<1> QED
  BY <1>2, <1>4, <1>5

(* A set of natural numbers has a smallest one.                            *)
LEMMA MinOfNat ==
    ASSUME NEW S, S \subseteq Nat, S # {}
    PROVE  Min(S) \in S /\ \A y \in S : Min(S) <= y
<1>1. PICK x \in S : \A y \in S : ~ (<<y, x>> \in OpToRel(<, Nat))
  BY NatLessThanWellFounded, WFMin
<1>2. \A y \in S : x <= y
  <2> SUFFICES ASSUME NEW y \in S, y < x PROVE FALSE
    OBVIOUS
  <2>1. <<y, x>> \in OpToRel(<, Nat)
    BY DEF OpToRel
  <2> QED
    BY <1>1, <2>1
<1> QED
  BY <1>2 DEF Min

(* And a largest one, if it has a bound.                                   *)
LEMMA MaxOfNat ==
    ASSUME NEW S, S \subseteq Nat, S # {}, NEW b \in Nat, \A y \in S : y <= b
    PROVE  Max(S) \in S /\ \A y \in S : y <= Max(S)
<1> DEFINE R == {b - y : y \in S}
<1>1. R \subseteq Nat /\ R # {}
  <2>1. \A y \in S : b - y \in Nat
    OBVIOUS
  <2> QED
    BY <2>1
<1>2. Min(R) \in R /\ \A z \in R : Min(R) <= z
  <2> HIDE DEF R
  <2> QED
    BY <1>1, MinOfNat
<1>3. PICK x \in S : Min(R) = b - x
  BY <1>2
<1>4. \A y \in S : x >= y
  <2> SUFFICES ASSUME NEW y \in S PROVE x >= y
    OBVIOUS
  <2>1. b - x <= b - y
    BY <1>2, <1>3
  <2>2. x \in Nat /\ y \in Nat
    OBVIOUS
  <2> QED
    BY <2>1, <2>2
<1> DEFINE m == CHOOSE x_1 \in S : \A y \in S : x_1 >= y
<1>5. m \in S /\ \A y \in S : m >= y
  BY <1>4
<1>6. Max(S) = m
  BY DEF Max
<1>7. \A y \in S : m \in Nat /\ y \in Nat
  BY <1>5
<1> QED
  BY <1>5, <1>6, <1>7

------------------------------------------------------------------------------
(* The loop of FinalizeKServiceMetrics.                                    *)

(* The equation that defines the first m iterations of Sums.               *)
IsSums(f, m, latencies, decay) ==
    f = [k \in 0..m |-> IF k = 0 THEN NothingAdded
                        ELSE AddLatency(f[k - 1], latencies[Len(latencies) + 1 - k], decay)]

(* It has a solution.                                                      *)
LEMMA SumsExist ==
    ASSUME NEW latencies, Len(latencies) \in Nat, NEW decay, NEW m \in Nat
    PROVE  \E f : IsSums(f, m, latencies, decay)
<1> DEFINE T == {k \in Nat : \E f : IsSums(f, k, latencies, decay)}
<1>1. 0 \in T
  <2> DEFINE f0 == [k \in 0..0 |-> NothingAdded]
  <2>1. IsSums(f0, 0, latencies, decay)
    BY DEF IsSums
  <2> QED
    BY <2>1
<1>2. ASSUME NEW n \in Nat, n \in T PROVE n + 1 \in T
  <2>1. PICK f : IsSums(f, n, latencies, decay)
    BY <1>2
  <2> DEFINE last == AddLatency(f[n], latencies[Len(latencies) + 1 - (n + 1)], decay)
             g == [k \in 0..(n + 1) |-> IF k = n + 1 THEN last ELSE f[k]]
  <2>2. ASSUME NEW k \in 0..(n + 1)
        PROVE  g[k] = IF k = 0 THEN NothingAdded
                      ELSE AddLatency(g[k - 1], latencies[Len(latencies) + 1 - k], decay)
    <3>1. CASE k = 0
      BY <3>1, <2>1 DEF IsSums
    <3>2. CASE k \in 1..n
      <4>1. k \in 0..n /\ k - 1 \in 0..n
        BY <3>2
      <4>2. g[k] = f[k] /\ g[k - 1] = f[k - 1]
        BY <4>1
      <4>3. f[k] = AddLatency(f[k - 1], latencies[Len(latencies) + 1 - k], decay)
        BY <2>1, <3>2, <4>1 DEF IsSums
      <4> QED
        BY <3>2, <4>2, <4>3
    <3>3. CASE k = n + 1
      <4>1. k - 1 = n /\ g[k - 1] = f[n] /\ g[k] = last
        BY <3>3
      <4> QED
        BY <3>3, <4>1
    <3> QED
      BY <3>1, <3>2, <3>3
  <2>3. IsSums(g, n + 1, latencies, decay)
    BY <2>2 DEF IsSums
  <2> HIDE DEF g
  <2> QED
    BY <2>3
<1>3. Nat \subseteq T
  <2> HIDE DEF T
  <2> QED
    BY <1>1, <1>2, SetInduction
<1> QED
  BY <1>3

(* So Sums is one.                                                         *)
LEMMA SumsEquation ==
    ASSUME NEW latencies, Len(latencies) \in Nat, NEW decay
    PROVE  IsSums(Sums(latencies, decay), Len(latencies), latencies, decay)
<1>1. \E f : IsSums(f, Len(latencies), latencies, decay)
  BY SumsExist
<1>2. Sums(latencies, decay) = CHOOSE f : IsSums(f, Len(latencies), latencies, decay)
  BY DEF Sums, IsSums
<1> QED
  BY <1>1, <1>2

(* Products of numbers that are not negative.                              *)
LEMMA ProductNat == ASSUME NEW a \in Nat, NEW b \in Nat PROVE a * b \in Nat
OBVIOUS

(* A product grows with a factor.                                          *)
LEMMA ProductGrows ==
    ASSUME NEW w \in Nat, NEW a \in Int, NEW b \in Int, a <= b
    PROVE  w * a <= w * b
OBVIOUS

SumsType == [latency : Int, weights : Int, weight : Int, one : Nat \ {0}]

(* The loop adds up numbers, whatever the decay.                           *)
LEMMA SumsTyped ==
    ASSUME NEW latencies \in Seq(Int), NEW decay \in Int
    PROVE  \A k \in 0..Len(latencies) : Sums(latencies, decay)[k] \in SumsType
<1> DEFINE n == Len(latencies)
           f == Sums(latencies, decay)
           T == {k \in Nat : k <= n => f[k] \in SumsType}
<1>1. n \in Nat
  OBVIOUS
<1>2. \A k \in 0..n : f[k] = IF k = 0 THEN NothingAdded
                             ELSE AddLatency(f[k - 1], latencies[n + 1 - k], decay)
  <2>1. IsSums(f, n, latencies, decay)
    BY <1>1, SumsEquation
  <2> HIDE DEF f
  <2> QED
    BY <2>1 DEF IsSums
<1> HIDE DEF f
<1>3. 0 \in T
  BY <1>1, <1>2 DEF NothingAdded, SumsType
<1>4. ASSUME NEW k \in Nat, k \in T PROVE k + 1 \in T
  <2> SUFFICES ASSUME k + 1 <= n PROVE f[k + 1] \in SumsType
    OBVIOUS
  <2>1. f[k] \in SumsType
    BY <1>4
  <2>2. f[k + 1] = AddLatency(f[k], latencies[n - k], decay)
    BY <1>1, <1>2
  <2> DEFINE a == f[k].latency
             b == f[k].weights
             w == f[k].weight
             x == latencies[n - k]
  <2>3. x \in Int
    BY <1>1
  <2>4. a \in Int /\ b \in Int /\ w \in Int /\ f[k].one \in Nat \ {0}
    BY <2>1 DEF SumsType
  <2>5. w * x \in Int /\ w * decay \in Int
    BY <2>3, <2>4
  <2> DEFINE added == w * x
             next == w * decay
             one == f[k].one
  <2>6. f[k + 1] = [latency |-> 4 * (a + added), weights |-> 4 * (b + w),
                    weight |-> next, one |-> 4 * one]
    BY <2>2 DEF AddLatency
  <2> HIDE DEF a, b, w, x, added, next, one
  <2>7. added \in Int /\ next \in Int /\ one \in Nat \ {0}
    BY <2>4, <2>5 DEF added, next, one
  <2>8. 4 * (a + added) \in Int /\ 4 * (b + w) \in Int /\ 4 * one \in Nat \ {0}
    BY <2>4, <2>7
  <2> QED
    BY <2>6, <2>7, <2>8 DEF SumsType
<1>5. Nat \subseteq T
  <2> HIDE DEF T
  <2> QED
    BY <1>3, <1>4, SetInduction
<1> QED
  BY <1>1, <1>5 DEF f

(* The sums of a weighted mean of numbers between lo and hi.               *)
Between(sums, lo, hi) ==
    /\ sums.weight >= 0 /\ sums.weights >= 0
    /\ sums.weights * lo <= sums.latency /\ sums.latency <= sums.weights * hi

(* That is what they are if the decay is not negative: no weight is then,  *)
(* and the newest latency has the weight 1.                                *)
LEMMA SumsBetween ==
    ASSUME NEW latencies \in Seq(Int), NEW decay \in Nat, NEW lo \in Int, NEW hi \in Int,
           \A i \in 1..Len(latencies) : lo <= latencies[i] /\ latencies[i] <= hi
    PROVE  /\ \A k \in 0..Len(latencies) : Between(Sums(latencies, decay)[k], lo, hi)
           /\ \A k \in 1..Len(latencies) : Sums(latencies, decay)[k].weights > 0
<1> DEFINE n == Len(latencies)
           f == Sums(latencies, decay)
           T == {k \in Nat : k <= n => /\ Between(f[k], lo, hi)
                                       /\ k > 0 => f[k].weights > 0
                                       /\ k = 0 => f[k].weight > 0}
<1>1. n \in Nat
  OBVIOUS
<1>2. \A k \in 0..n : f[k] = IF k = 0 THEN NothingAdded
                             ELSE AddLatency(f[k - 1], latencies[n + 1 - k], decay)
  <2>1. IsSums(f, n, latencies, decay)
    BY <1>1, SumsEquation
  <2> HIDE DEF f
  <2> QED
    BY <2>1 DEF IsSums
<1>0. \A k \in 0..n : f[k] \in SumsType
  BY SumsTyped
<1> HIDE DEF f
<1>3. 0 \in T
  <2>1. f[0] = NothingAdded
    BY <1>1, <1>2
  <2> QED
    BY <2>1 DEF NothingAdded, Between
<1>4. ASSUME NEW k \in Nat, k \in T PROVE k + 1 \in T
  <2> SUFFICES ASSUME k + 1 <= n PROVE /\ Between(f[k + 1], lo, hi)
                                       /\ f[k + 1].weights > 0
    OBVIOUS
  <2> DEFINE a == f[k].latency
             b == f[k].weights
             w == f[k].weight
             x == latencies[n - k]
  <2>1. Between(f[k], lo, hi) /\ (k > 0 => f[k].weights > 0) /\ (k = 0 => f[k].weight > 0)
    BY <1>4
  <2>2. f[k + 1] = AddLatency(f[k], x, decay)
    BY <1>1, <1>2
  <2>3. x \in Int /\ lo <= x /\ x <= hi
    BY <1>1
  <2>4. a \in Int /\ b \in Int /\ w \in Int
    BY <1>0, <1>1 DEF SumsType
  <2>5. b >= 0 /\ w >= 0 /\ b * lo <= a /\ a <= b * hi /\ b + w > 0
    <3>1. b >= 0 /\ w >= 0 /\ b * lo <= a /\ a <= b * hi
      BY <2>1 DEF Between
    <3>2. b > 0 \/ w > 0
      BY <2>1
    <3> HIDE DEF a, b, w
    <3> QED
      BY <2>4, <3>1, <3>2
  <2>6. /\ f[k + 1].latency = 4 * (a + w * x)
        /\ f[k + 1].weights = 4 * (b + w)
        /\ f[k + 1].weight = w * decay
    BY <2>2 DEF AddLatency
  <2> HIDE DEF a, b, w, x, n
  <2>7. w * lo <= w * x /\ w * x <= w * hi
    BY <2>3, <2>4, <2>5, ProductGrows
  <2>8. (4 * (b + w)) * lo = 4 * (b * lo) + 4 * (w * lo)
    BY <2>4
  <2>9. (4 * (b + w)) * hi = 4 * (b * hi) + 4 * (w * hi)
    BY <2>4
  <2>10. w * decay >= 0
    BY <2>4, <2>5, ProductNat
  <2>11. w * x \in Int /\ w * lo \in Int /\ w * hi \in Int /\ b * lo \in Int /\ b * hi \in Int
    BY <2>3, <2>4
  <2>12. /\ 4 * (b * lo) + 4 * (w * lo) <= 4 * (a + w * x)
         /\ 4 * (a + w * x) <= 4 * (b * hi) + 4 * (w * hi)
    BY <2>4, <2>5, <2>7, <2>11
  <2> DEFINE latency == 4 * (a + w * x)
             weights == 4 * (b + w)
             weight == w * decay
  <2>13. weights * lo <= latency /\ latency <= weights * hi
    BY <2>8, <2>9, <2>12
  <2>14. weights \in Int /\ weights > 0 /\ weight >= 0
    BY <2>4, <2>5, <2>10
  <2>15. f[k + 1].latency = latency /\ f[k + 1].weights = weights /\ f[k + 1].weight = weight
    BY <2>6
  <2> HIDE DEF latency, weights, weight
  <2> QED
    BY <2>13, <2>14, <2>15 DEF Between
<1>5. Nat \subseteq T
  <2> HIDE DEF T
  <2> QED
    BY <1>3, <1>4, SetInduction
<1> QED
  BY <1>1, <1>5 DEF f

(* The result of the loop is a fraction, whatever the decay.               *)
LEMMA RequestLatencyTyped ==
    ASSUME NEW latencies \in Seq(Int), NEW decay \in Int
    PROVE  LET mean == RequestLatency(latencies, decay)
           IN  /\ mean = [num |-> mean.num, den |-> mean.den]
               /\ mean.num \in Int /\ mean.den \in Nat \ {0}
<1> DEFINE total == Sums(latencies, decay)[Len(latencies)]
<1>1. total \in SumsType
  BY SumsTyped
<1> HIDE DEF total
<1>2. RequestLatency(latencies, decay)
        = [num |-> total.latency,
           den |-> IF total.weights > 0 THEN total.weights ELSE total.one]
  BY DEF RequestLatency, total
<1> QED
  BY <1>1, <1>2 DEF SumsType

(* A weighted mean lies between the bounds of what it is a mean of.        *)
LEMMA MeanBetween ==
    ASSUME NEW latencies \in Seq(Int), latencies # <<>>, NEW decay \in Nat,
           NEW lo \in Int, NEW hi \in Int,
           \A i \in 1..Len(latencies) : lo <= latencies[i] /\ latencies[i] <= hi
    PROVE  LET mean == RequestLatency(latencies, decay)
           IN  lo * mean.den <= mean.num /\ mean.num <= hi * mean.den
<1> DEFINE total == Sums(latencies, decay)[Len(latencies)]
<1>1. total \in SumsType
  BY SumsTyped
<1>2. Len(latencies) \in 1..Len(latencies) /\ Len(latencies) \in 0..Len(latencies)
  OBVIOUS
<1>3. Between(total, lo, hi) /\ total.weights > 0
  <2>1. /\ \A k \in 0..Len(latencies) : Between(Sums(latencies, decay)[k], lo, hi)
        /\ \A k \in 1..Len(latencies) : Sums(latencies, decay)[k].weights > 0
    BY SumsBetween
  <2> QED
    BY <1>2, <2>1
<1> HIDE DEF total
<1>4. RequestLatency(latencies, decay) = [num |-> total.latency, den |-> total.weights]
  BY <1>3 DEF RequestLatency, total
<1>5. total.weights * lo = lo * total.weights /\ total.weights * hi = hi * total.weights
  BY <1>1 DEF SumsType
<1> QED
  BY <1>3, <1>4, <1>5 DEF Between

------------------------------------------------------------------------------
(* Points and latencies.                                                   *)

(* The ratios among the points of a series.                                *)
Measures(points) == {points[i] : i \in Numbers(points)}

(* Numbers are natural numbers; none of them is NaN.                       *)
LEMMA NumbersAre ==
    ASSUME NEW points \in Seq(Points)
    PROVE  /\ Numbers(points) \subseteq 1..Len(points)
           /\ Measures(points) \subseteq Ratios
           /\ Measures(points) \subseteq Nat
           /\ Measures(points) = {} <=> Numbers(points) = {}
<1>1. DOMAIN points = 1..Len(points) /\ \A i \in 1..Len(points) : points[i] \in Points
  OBVIOUS
<1>2. Numbers(points) \subseteq 1..Len(points)
  BY <1>1 DEF Numbers
<1>3. Measures(points) \subseteq Ratios
  <2> SUFFICES ASSUME NEW i \in Numbers(points) PROVE points[i] \in Ratios
    BY DEF Measures
  <2>1. points[i] # NaN
    BY DEF Numbers
  <2> QED
    BY <1>1, <1>2, <2>1 DEF Points
<1>4. Ratios \subseteq Nat
  BY EvaluationAssumption
<1> QED
  BY <1>2, <1>3, <1>4 DEF Measures

(* What is appended for a point is one of the numbers; something is unless *)
(* there is none.                                                          *)
LEMMA LatenciesAre ==
    ASSUME NEW points \in Seq(Points)
    PROVE  /\ Latencies(points) \in Seq(Measures(points))
           /\ Latencies(points) = <<>> <=> Numbers(points) = {}
<1> DEFINE numbers == Numbers(points)
           first == Min(numbers)
           Before(i) == {j \in numbers : j <= i}
<1>1. numbers \subseteq 1..Len(points) /\ Len(points) \in Nat
  BY NumbersAre
<1>2. CASE numbers = {}
  BY <1>2 DEF Latencies
<1>3. CASE numbers # {}
  <2>1. first \in numbers
    <3>1. numbers \subseteq Nat
      BY <1>1
    <3> HIDE DEF numbers
    <3> QED
      BY <1>3, <3>1, MinOfNat
  <2> DEFINE m == Len(points) - first + 1
  <2>2. m \in Nat /\ m >= 1 /\ first \in Nat
    BY <1>1, <2>1
  <2>3. ASSUME NEW i \in 1..m PROVE Max(Before(i + first - 1)) \in numbers
    <3> DEFINE k == i + first - 1
    <3>1. k \in Nat /\ first <= k
      BY <2>2
    <3> HIDE DEF k, first
    <3>2. Before(k) \subseteq Nat /\ first \in Before(k)
      <4>1. numbers \subseteq Nat
        BY <1>1
      <4> HIDE DEF numbers
      <4>2. first \in Before(k)
        BY <2>1, <3>1
      <4>3. Before(k) \subseteq numbers
        OBVIOUS
      <4> QED
        BY <4>1, <4>2, <4>3
    <3> HIDE DEF numbers
    <3>3. \A y \in Before(k) : y <= k
      OBVIOUS
    <3>4. Max(Before(k)) \in Before(k)
      <4> HIDE DEF Before
      <4> QED
        BY <3>1, <3>2, <3>3, MaxOfNat
    <3> QED
      BY <3>4 DEF k
  <2>4. Latencies(points) = [i \in 1..m |-> points[Max(Before(i + first - 1))]]
    BY <1>3 DEF Latencies
  <2>5. \A i \in 1..m : points[Max(Before(i + first - 1))] \in Measures(points)
    BY <2>3 DEF Measures
  <2> HIDE DEF m, first, Before
  <2>6. Latencies(points) \in Seq(Measures(points))
    BY <2>2, <2>4, <2>5
  <2>7. Len(Latencies(points)) = m
    BY <2>2, <2>4
  <2> QED
    BY <1>3, <2>2, <2>6, <2>7
<1> QED
  BY <1>2, <1>3

(* The numbers of a series are bounded: there are finitely many.           *)
LEMMA MeasuresBounded ==
    ASSUME NEW points \in Seq(Points)
    PROVE  \E b \in Nat : \A y \in Measures(points) : y <= b
<1> DEFINE Bounds(b, k) == \A i \in Numbers(points) : i <= k => points[i] <= b
           T == {k \in Nat : \E b \in Nat : Bounds(b, k)}
<1>1. Numbers(points) \subseteq 1..Len(points) /\ Len(points) \in Nat
  BY NumbersAre
<1>2. \A i \in Numbers(points) : points[i] \in Nat
  BY NumbersAre DEF Measures
<1>3. 0 \in T
  <2>1. Bounds(0, 0)
    BY <1>1
  <2> QED
    BY <2>1
<1>4. ASSUME NEW k \in Nat, k \in T PROVE k + 1 \in T
  <2>1. PICK b \in Nat : Bounds(b, k)
    BY <1>4
  <2>2. CASE k + 1 \in Numbers(points)
    <3> DEFINE c == IF points[k + 1] > b THEN points[k + 1] ELSE b
    <3>1. c \in Nat /\ b <= c /\ points[k + 1] <= c
      BY <1>2, <2>2
    <3> HIDE DEF c
    <3>2. ASSUME NEW i \in Numbers(points), i <= k + 1 PROVE points[i] <= c
      <4>1. CASE i = k + 1
        BY <4>1, <3>1
      <4>2. CASE i # k + 1
        <5>1. i <= k
          BY <1>1, <3>2, <4>2
        <5> QED
          BY <5>1, <1>2, <2>1, <3>1
      <4> QED
        BY <4>1, <4>2
    <3>3. Bounds(c, k + 1)
      BY <3>2
    <3> QED
      BY <3>1, <3>3
  <2>3. CASE k + 1 \notin Numbers(points)
    <3>1. Bounds(b, k + 1)
      <4> SUFFICES ASSUME NEW i \in Numbers(points), i <= k + 1 PROVE points[i] <= b
        OBVIOUS
      <4>1. i <= k
        BY <1>1, <2>3
      <4> QED
        BY <4>1, <2>1
    <3> QED
      BY <3>1
  <2> QED
    BY <2>2, <2>3
<1>5. Nat \subseteq T
  <2> HIDE DEF T
  <2> QED
    BY <1>3, <1>4, SetInduction
<1>6. PICK b \in Nat : Bounds(b, Len(points))
  BY <1>1, <1>5
<1> QED
  BY <1>1, <1>6 DEF Measures

------------------------------------------------------------------------------
(* What the strategy asks for.                                             *)

(* The latencies of a series are numbers.                                  *)
LEMMA LatenciesTyped ==
    ASSUME NEW points \in Seq(Points)
    PROVE  Latencies(points) \in Seq(Int)
<1>1. Latencies(points) \in Seq(Measures(points)) /\ Measures(points) \subseteq Int
  BY LatenciesAre, NumbersAre
<1> HIDE DEF Measures
<1> QED
  BY <1>1

(* Whatever was measured and annotated, a percentage is asked for.         *)
LEMMA DesiredShareIsPercent ==
    ASSUME NEW points \in Seq(Points), NEW settings \in Settings
    PROVE  DesiredShare(points, settings) \in Percent
<1> DEFINE mean == RequestLatency(Latencies(points), settings.decay)
<1>1. settings.decay \in Int /\ settings.soft \in Int /\ settings.hard \in Int
  BY DEF Settings
<1>2. mean = [num |-> mean.num, den |-> mean.den] /\ mean.num \in Int /\ mean.den \in Nat \ {0}
  BY <1>1, LatenciesTyped, RequestLatencyTyped
<1>3. DesiredShare(points, settings) = DesiredTraffic(mean, settings.soft, settings.hard)
  BY DEF DesiredShare
<1> HIDE DEF mean
<1>4. DesiredTraffic([num |-> mean.num, den |-> mean.den], settings.soft, settings.hard)
        \in Percent
  BY <1>1, <1>2, DesiredTrafficIsPercent
<1> QED
  BY <1>2, <1>3, <1>4

(* The mean of a series lies between any bounds of its numbers.            *)
LEMMA MeasuredBetween ==
    ASSUME NEW points \in Seq(Points), Numbers(points) # {}, NEW decay \in Nat,
           NEW lo \in Int, NEW hi \in Int, \A y \in Measures(points) : lo <= y /\ y <= hi
    PROVE  LET mean == RequestLatency(Latencies(points), decay)
           IN  lo * mean.den <= mean.num /\ mean.num <= hi * mean.den
<1> DEFINE latencies == Latencies(points)
<1>1. latencies \in Seq(Measures(points)) /\ latencies # <<>> /\ latencies \in Seq(Int)
  BY LatenciesAre, LatenciesTyped
<1> HIDE DEF latencies
<1>2. \A i \in 1..Len(latencies) : latencies[i] \in Measures(points)
  BY <1>1
<1>3. \A i \in 1..Len(latencies) : lo <= latencies[i] /\ latencies[i] <= hi
  BY <1>2
<1>4. LET mean == RequestLatency(latencies, decay)
      IN  lo * mean.den <= mean.num /\ mean.num <= hi * mean.den
  BY <1>1, <1>3, MeanBetween
<1> QED
  BY <1>4 DEF latencies

(* A service all of whose latencies are below its soft limit is asked to   *)
(* offload nothing (GetResults), however the latencies vary, whatever is   *)
(* missing, and whatever its hard limit.                                   *)
THEOREM CalmAsksForNothing ==
    ASSUME NEW points \in Seq(Points), NEW settings \in Settings,
           settings.decay >= 0, settings.soft > 0,
           \A i \in Numbers(points) : points[i] < settings.soft
    PROVE  DesiredShare(points, settings) = 0
<1> DEFINE mean == RequestLatency(Latencies(points), settings.decay)
           soft == settings.soft
<1>1. settings.decay \in Nat /\ soft \in Int /\ settings.hard \in Int
  BY DEF Settings
<1>2. mean.num \in Int /\ mean.den \in Nat \ {0}
  BY <1>1, LatenciesTyped, RequestLatencyTyped
<1>3. mean.num < soft * mean.den
  <2>1. CASE Numbers(points) = {}
    <3>1. Latencies(points) = <<>>
      BY <2>1, LatenciesAre
    <3>2. mean.num = 0
      <4>1. IsSums(Sums(<<>>, settings.decay), Len(<<>>), <<>>, settings.decay)
        BY SumsEquation
      <4>2. Sums(<<>>, settings.decay)[0] = NothingAdded
        BY <4>1 DEF IsSums
      <4> QED
        BY <3>1, <4>2 DEF RequestLatency, NothingAdded
    <3> HIDE DEF mean, soft
    <3>3. soft * mean.den > 0
      <4>1. soft \in Nat \ {0}
        BY <1>1 DEF soft
      <4> QED
        BY <1>2, <4>1
    <3> QED
      BY <3>2, <3>3
  <2>2. CASE Numbers(points) # {}
    <3>1. \A y \in Measures(points) : y \in Nat /\ 0 <= y /\ y <= soft - 1
      BY <1>1, NumbersAre DEF Measures
    <3>2. mean.num <= (soft - 1) * mean.den
      BY <1>1, <2>2, <3>1, MeasuredBetween
    <3> HIDE DEF mean, soft
    <3>3. (soft - 1) * mean.den = soft * mean.den - mean.den /\ soft * mean.den \in Int
      BY <1>1, <1>2
    <3> QED
      BY <1>2, <3>2, <3>3
  <2> QED
    BY <2>1, <2>2
<1> QED
  BY <1>3 DEF DesiredShare, DesiredTraffic

(* One all of whose latencies have reached both limits is asked to offload *)
(* everything.                                                             *)
THEOREM OverloadAsksForEverything ==
    ASSUME NEW points \in Seq(Points), Numbers(points) # {}, NEW settings \in Settings,
           settings.decay >= 0,
           \A i \in Numbers(points) : points[i] >= settings.soft /\ points[i] >= settings.hard
    PROVE  DesiredShare(points, settings) = 100
<1> DEFINE mean == RequestLatency(Latencies(points), settings.decay)
           soft == settings.soft
           hard == settings.hard
<1>1. settings.decay \in Nat /\ soft \in Int /\ hard \in Int
  BY DEF Settings
<1>2. mean.num \in Int /\ mean.den \in Nat \ {0}
  BY <1>1, LatenciesTyped, RequestLatencyTyped
<1>3. PICK b \in Nat : \A y \in Measures(points) : y <= b
  BY MeasuresBounded
<1>4. \A y \in Measures(points) : soft <= y /\ hard <= y
  <2>1. Measures(points) \subseteq Nat
    BY NumbersAre
  <2> QED
    BY <1>1, <2>1 DEF Measures
<1>5. soft * mean.den <= mean.num /\ hard * mean.den <= mean.num
  BY <1>1, <1>3, <1>4, MeasuredBetween
<1>6. soft * mean.den \in Int /\ hard * mean.den \in Int
  BY <1>1, <1>2
<1> QED
  BY <1>2, <1>5, <1>6 DEF DesiredShare, DesiredTraffic

(* Two series of latencies with the same decay have the same weights, and  *)
(* the slower one adds up to no less.                                      *)
Slower(sums1, sums2) ==
    /\ sums1.weight = sums2.weight /\ sums1.weights = sums2.weights
    /\ sums1.one = sums2.one /\ sums1.weight >= 0
    /\ sums1.latency <= sums2.latency

LEMMA SumsSlower ==
    ASSUME NEW l1 \in Seq(Int), NEW l2 \in Seq(Int), Len(l1) = Len(l2), NEW decay \in Nat,
           \A i \in 1..Len(l1) : l1[i] <= l2[i]
    PROVE  \A k \in 0..Len(l1) : Slower(Sums(l1, decay)[k], Sums(l2, decay)[k])
<1> DEFINE n == Len(l1)
           f == Sums(l1, decay)
           g == Sums(l2, decay)
           T == {k \in Nat : k <= n => Slower(f[k], g[k])}
<1>1. n \in Nat
  OBVIOUS
<1>0. \A i \in 1..n : l1[i] \in Int /\ l2[i] \in Int /\ l1[i] <= l2[i]
  OBVIOUS
<1>2. \A k \in 0..n : f[k] = IF k = 0 THEN NothingAdded
                             ELSE AddLatency(f[k - 1], l1[n + 1 - k], decay)
  <2>1. IsSums(f, n, l1, decay)
    BY <1>1, SumsEquation
  <2> HIDE DEF f
  <2> QED
    BY <2>1 DEF IsSums
<1>3. \A k \in 0..n : g[k] = IF k = 0 THEN NothingAdded
                             ELSE AddLatency(g[k - 1], l2[n + 1 - k], decay)
  <2>1. IsSums(g, n, l2, decay)
    BY <1>1, SumsEquation
  <2> HIDE DEF g
  <2> QED
    BY <2>1 DEF IsSums
<1>4. \A k \in 0..n : f[k] \in SumsType /\ g[k] \in SumsType
  BY SumsTyped
<1> HIDE DEF f, g
<1>5. 0 \in T
  <2>1. f[0] = NothingAdded /\ g[0] = NothingAdded
    BY <1>1, <1>2, <1>3
  <2> QED
    BY <2>1 DEF NothingAdded, Slower
<1>6. ASSUME NEW k \in Nat, k \in T PROVE k + 1 \in T
  <2> SUFFICES ASSUME k + 1 <= n PROVE Slower(f[k + 1], g[k + 1])
    OBVIOUS
  <2> DEFINE a == f[k].latency
             c == g[k].latency
             w == f[k].weight
             x == l1[n - k]
             y == l2[n - k]
  <2>1. Slower(f[k], g[k]) /\ f[k] \in SumsType /\ g[k] \in SumsType
    BY <1>1, <1>4, <1>6
  <2>0. k + 1 \in 0..n /\ k + 1 # 0 /\ (k + 1) - 1 = k /\ n + 1 - (k + 1) = n - k /\ n - k \in 1..n
    BY <1>1
  <2>2. f[k + 1] = AddLatency(f[k], x, decay) /\ g[k + 1] = AddLatency(g[k], y, decay)
    <3> HIDE DEF n
    <3> QED
      BY <1>2, <1>3, <2>0
  <2>3. x \in Int /\ y \in Int /\ x <= y
    <3> HIDE DEF n
    <3> QED
      BY <1>0, <2>0
  <2>4. a \in Int /\ c \in Int /\ a <= c /\ w \in Nat /\ w = g[k].weight
    BY <2>1 DEF Slower, SumsType
  <2>5. /\ f[k + 1].latency = 4 * (a + w * x) /\ g[k + 1].latency = 4 * (c + w * y)
        /\ f[k + 1].weights = g[k + 1].weights /\ f[k + 1].one = g[k + 1].one
        /\ f[k + 1].weight = w * decay /\ g[k + 1].weight = w * decay
    BY <2>1, <2>2, <2>4 DEF AddLatency, Slower
  <2> HIDE DEF a, c, w, x, y, n
  <2>6. w * x <= w * y /\ w * x \in Int /\ w * y \in Int
    BY <2>3, <2>4, ProductGrows
  <2>7. 4 * (a + w * x) <= 4 * (c + w * y)
    <3> DEFINE wx == w * x
               wy == w * y
    <3>1. wx <= wy /\ wx \in Int /\ wy \in Int
      BY <2>6
    <3> HIDE DEF wx, wy
    <3>2. 4 * (a + wx) <= 4 * (c + wy)
      BY <2>4, <3>1
    <3> QED
      BY <3>2 DEF wx, wy
  <2>8. w * decay >= 0
    BY <2>4, ProductNat
  <2> QED
    BY <2>5, <2>7, <2>8 DEF Slower
<1>7. Nat \subseteq T
  <2> HIDE DEF T
  <2> QED
    BY <1>5, <1>6, SetInduction
<1> QED
  BY <1>1, <1>7 DEF f, g

(* So does its mean, with the same denominator.                            *)
LEMMA MeanSlower ==
    ASSUME NEW l1 \in Seq(Int), NEW l2 \in Seq(Int), Len(l1) = Len(l2), NEW decay \in Nat,
           \A i \in 1..Len(l1) : l1[i] <= l2[i]
    PROVE  /\ RequestLatency(l1, decay).den = RequestLatency(l2, decay).den
           /\ RequestLatency(l1, decay).num <= RequestLatency(l2, decay).num
<1>1. Slower(Sums(l1, decay)[Len(l1)], Sums(l2, decay)[Len(l2)])
  <2>1. Len(l1) \in 0..Len(l1)
    OBVIOUS
  <2> QED
    BY <2>1, SumsSlower
<1> QED
  BY <1>1 DEF Slower, RequestLatency

(* Latencies are filled up alike for series with the same points missing.  *)
LEMMA LatenciesSlower ==
    ASSUME NEW p1 \in Seq(Points), NEW p2 \in Seq(Points), Len(p1) = Len(p2),
           Numbers(p1) = Numbers(p2), \A i \in Numbers(p1) : p1[i] <= p2[i]
    PROVE  /\ Len(Latencies(p1)) = Len(Latencies(p2))
           /\ \A i \in 1..Len(Latencies(p1)) : Latencies(p1)[i] <= Latencies(p2)[i]
<1> DEFINE numbers == Numbers(p1)
           first == Min(numbers)
           Last(i) == Max({j \in numbers : j <= i + first - 1})
           m == Len(p1) - first + 1
<1>1. CASE numbers = {}
  BY <1>1 DEF Latencies
<1>2. CASE numbers # {}
  <2>1. /\ Latencies(p1) = [i \in 1..m |-> p1[Last(i)]]
        /\ Latencies(p2) = [i \in 1..m |-> p2[Last(i)]]
    BY <1>2 DEF Latencies
  <2>2. numbers \subseteq 1..Len(p1) /\ numbers \subseteq Nat /\ Len(p1) \in Nat
    BY NumbersAre
  <2>3. first \in numbers
    <3> HIDE DEF numbers
    <3> QED
      BY <1>2, <2>2, MinOfNat
  <2>4. m \in Nat /\ first \in Nat
    BY <2>2, <2>3
  <2>5. ASSUME NEW i \in 1..m PROVE Last(i) \in numbers
    <3> DEFINE k == i + first - 1
               before == {j \in numbers : j <= k}
    <3>1. k \in Nat /\ first <= k
      BY <2>4
    <3>2. before \subseteq numbers /\ (\A y \in before : y <= k)
      OBVIOUS
    <3>3. first \in before
      BY <2>3, <3>1
    <3>4. Last(i) = Max(before)
      OBVIOUS
    <3>5. before \subseteq Nat
      BY <2>2, <3>2
    <3> HIDE DEF before, k, numbers, Last
    <3> QED
      BY <3>1, <3>2, <3>3, <3>4, <3>5, MaxOfNat
  <2> HIDE DEF Last, m, numbers
  <2>6. Len(Latencies(p1)) = m /\ Len(Latencies(p2)) = m
    BY <2>1, <2>4
  <2>7. \A i \in 1..m : p1[Last(i)] <= p2[Last(i)]
    BY <2>5 DEF numbers
  <2> QED
    BY <2>1, <2>4, <2>6, <2>7
<1> QED
  BY <1>1, <1>2

(* A service that is slower in every minute is never asked to offload      *)
(* less: neither the decay, nor the points that are filled up, nor the     *)
(* mean turn the order round (UpdateWithPercentileRatio,                   *)
(* FinalizeKServiceMetrics, GetResults).                                   *)
THEOREM SlowerAsksForMore ==
    ASSUME NEW p1 \in Seq(Points), NEW p2 \in Seq(Points), Len(p1) = Len(p2),
           Numbers(p1) = Numbers(p2), \A i \in Numbers(p1) : p1[i] <= p2[i],
           NEW settings \in Settings, settings.decay >= 0
    PROVE  DesiredShare(p1, settings) <= DesiredShare(p2, settings)
<1> DEFINE mean1 == RequestLatency(Latencies(p1), settings.decay)
           mean2 == RequestLatency(Latencies(p2), settings.decay)
<1>1. settings.decay \in Nat /\ settings.soft \in Int /\ settings.hard \in Int
  BY DEF Settings
<1>2. /\ mean1 = [num |-> mean1.num, den |-> mean1.den]
      /\ mean1.num \in Int /\ mean1.den \in Nat \ {0}
      /\ mean2 = [num |-> mean2.num, den |-> mean2.den]
      /\ mean2.num \in Int /\ mean2.den \in Nat \ {0}
  BY <1>1, LatenciesTyped, RequestLatencyTyped
<1>3. mean1.den = mean2.den /\ mean1.num <= mean2.num
  <2>1. /\ Len(Latencies(p1)) = Len(Latencies(p2))
        /\ \A i \in 1..Len(Latencies(p1)) : Latencies(p1)[i] <= Latencies(p2)[i]
    BY LatenciesSlower
  <2> QED
    BY <1>1, <2>1, LatenciesTyped, MeanSlower
<1>4. /\ DesiredShare(p1, settings) = DesiredTraffic(mean1, settings.soft, settings.hard)
      /\ DesiredShare(p2, settings) = DesiredTraffic(mean2, settings.soft, settings.hard)
  BY DEF DesiredShare
<1> HIDE DEF mean1, mean2
<1>5. mean1.num * mean2.den <= mean2.num * mean1.den
  BY <1>2, <1>3
<1>6. DesiredTraffic([num |-> mean1.num, den |-> mean1.den], settings.soft, settings.hard)
        <= DesiredTraffic([num |-> mean2.num, den |-> mean2.den], settings.soft, settings.hard)
  BY <1>1, <1>2, <1>5, DesiredTrafficGrows
<1> QED
  BY <1>2, <1>4, <1>6

------------------------------------------------------------------------------
(* What the variables of an evaluation hold.                               *)

(* Every variable keeps its type.                                          *)
SeriesTyped  == series \in [Services -> Seq(Points) \cup {None}]
UsageTyped   == usage \in Measurements \cup {None}
ClusterTyped == cluster \in Measurements \cup {None}
SharesTyped  == share \in [Services -> Percent]
StepTyped ==
    /\ step \in {"idle", "nodes", "pods", "pod", "query", "results"}
    /\ todo \subseteq Services
    /\ tries \in 0..Attempts
    /\ step # "idle" => loop = "run" /\ usage # None

DataTyped == SeriesTyped /\ UsageTyped /\ ClusterTyped /\ SharesTyped /\ StepTyped

(* None is no measurements; those a run starts with are.                   *)
LEMMA NoneAssumed == None \notin Measurements /\ NoUsage \in Measurements
BY EvaluationAssumption DEF NoUsage, Measurements

(* A point more, and the oldest out of the window: a series still.         *)
LEMMA LatestTyped ==
    ASSUME NEW points \in Seq(Points), NEW point \in Points
    PROVE  Latest(Append(points, point)) \in Seq(Points)
<1> DEFINE longer == Append(points, point)
<1>1. longer \in Seq(Points) /\ longer # <<>>
  OBVIOUS
<1> HIDE DEF longer
<1>2. Tail(longer) \in Seq(Points)
  BY <1>1
<1> QED
  BY <1>1, <1>2 DEF Latest, longer

(* Prometheus: the series.                                                 *)
LEMMA MeasureTyped ==
    ASSUME SeriesTyped, NEW s \in Services, Measure(s) \/ SeriesEnds(s)
    PROVE  SeriesTyped'
<1>1. CASE Measure(s)
  <2>1. PICK point \in Points :
          series' = [series EXCEPT
                       ![s] = Latest(Append(IF @ = None THEN <<>> ELSE @, point))]
    BY <1>1 DEF Measure, Points
  <2> DEFINE points == IF series[s] = None THEN <<>> ELSE series[s]
  <2>2. points \in Seq(Points)
    BY DEF SeriesTyped
  <2>3. Latest(Append(points, point)) \in Seq(Points)
    BY <2>2, LatestTyped
  <2> DEFINE latest == Latest(Append(points, point))
  <2>4. series' = [series EXCEPT ![s] = latest]
    BY <2>1 DEF SeriesTyped
  <2> HIDE DEF latest
  <2> QED
    BY <2>3, <2>4 DEF SeriesTyped, latest
<1>2. CASE SeriesEnds(s)
  BY <1>2 DEF SeriesEnds, SeriesTyped
<1> QED
  BY <1>1, <1>2

(* Execute: the measurements.                                              *)
LEMMA UsageStaysTyped ==
    ASSUME SeriesTyped, UsageTyped, ClusterTyped, StepTyped,
           [EvaluationNext]_evaluationVars
    PROVE  UsageTyped' /\ ClusterTyped' /\ (usage # None /\ step' # "idle" => usage' # None)
<1> USE DEF UsageTyped, ClusterTyped
<1>1. CASE UNCHANGED <<usage, cluster>> \/ (UNCHANGED cluster /\ EndRun)
  BY <1>1 DEF EndRun
<1>2. CASE Execute
  BY <1>2, NoneAssumed DEF Execute
<1>3. ASSUME NEW s \in Services, AddPod(s)
      PROVE  UsageTyped' /\ ClusterTyped' /\ (usage # None => usage' # None)
  <2>1. usage \in Measurements
    BY <1>3 DEF AddPod, StepTyped
  <2>2. PICK found \in SUBSET {s} : usage' = [usage EXCEPT !.pods = @ \cup found]
    BY <1>3 DEF AddPod
  <2>3. usage' \in Measurements
    BY <2>1, <2>2 DEF Measurements
  <2> QED
    BY <1>3, <2>3, NoneAssumed DEF AddPod
<1>4. CASE QueryAnswered
  <2>1. usage \in Measurements
    BY <1>4 DEF QueryAnswered, StepTyped
  <2>2. [usage EXCEPT !.series = series, !.complete = TRUE] \in Measurements
    BY <2>1 DEF Measurements, SeriesTyped
  <2> QED
    BY <1>4, <2>2, NoneAssumed DEF QueryAnswered
<1>5. CASE QueryPanics
  BY <1>5 DEF QueryPanics
<1>6. CASE UNCHANGED strategy \/ (\E s \in Services : Measure(s) \/ SeriesEnds(s))
  BY <1>1, <1>6 DEF strategy, Measure, SeriesEnds
<1>7. CASE EmptyRun \/ QueryAborted \/ ExecuteFails \/ ApplyResults
  BY <1>1, <1>7 DEF EmptyRun, QueryAborted, ExecuteFails, ApplyResults
<1>8. CASE UpdateNodesUsage \/ UpdatePodsUsage \/ Query \/ QueryUnavailable
  BY <1>1, <1>8 DEF UpdateNodesUsage, UpdatePodsUsage, Query, QueryUnavailable
<1> QED
  BY <1>2, <1>3, <1>4, <1>5, <1>6, <1>7, <1>8 DEF EvaluationNext, Strategy, evaluationVars

(* GetResults and run: the shares.                                         *)
LEMMA NewShareTyped ==
    ASSUME SharesTyped, cluster \in Measurements, NEW s \in Services
    PROVE  NewShare(s) \in Percent
<1>1. Limits[s] \in Settings
  BY EvaluationAssumption
<1> DEFINE points == IF cluster.series[s] = None THEN <<>> ELSE cluster.series[s]
<1>2. points \in Seq(Points)
  BY DEF Measurements
<1>3. DesiredShare(points, Limits[s]) \in Percent
  BY <1>1, <1>2, DesiredShareIsPercent
<1> QED
  BY <1>3 DEF NewShare, SharesTyped

(* Shares stay percentages.                                                *)
LEMMA SharesStayTyped ==
    ASSUME SharesTyped, UsageTyped, StepTyped, Measured, [EvaluationNext]_evaluationVars
    PROVE  SharesTyped'
<1>1. CASE UNCHANGED share
  BY <1>1 DEF SharesTyped
<1>2. CASE ApplyResults
  <2>1. cluster \in Measurements
    BY <1>2 DEF ApplyResults, UsageTyped, StepTyped, Measured
  <2>2. \A s \in Services : (IF s \in given THEN NewShare(s) ELSE share[s]) \in Percent
    BY <2>1, NewShareTyped DEF SharesTyped
  <2> QED
    BY <1>2, <2>2 DEF ApplyResults, SharesTyped
<1>3. CASE QueryPanics
  BY <1>3 DEF QueryPanics, SharesTyped, Percent
<1> QED
  BY <1>1, <1>2, <1>3
     DEF EvaluationNext, Strategy, evaluationVars, Measure, SeriesEnds, EmptyRun, Execute,
         UpdateNodesUsage, UpdatePodsUsage, AddPod, Query, QueryAnswered, QueryUnavailable,
         QueryAborted, ExecuteFails

(* The strategy is at work only in a run, and only one listing after the   *)
(* other gets to a run.                                                    *)
LEMMA StepStaysTyped ==
    ASSUME StepTyped, [EvaluationNext]_evaluationVars,
           usage # None /\ step' # "idle" => usage' # None
    PROVE  StepTyped'
<1> USE DEF StepTyped
<1>1. CASE Listing /\ UNCHANGED <<series, strategy, share>>
  BY <1>1 DEF strategy, Listing, Stop, TimerFires, CallList, Exit, ReturnServices, ReturnError,
              List, ListFails, Push, Cancel, Finish, Announce
<1>2. CASE UNCHANGED evaluationVars \/ (\E s \in Services : Measure(s) \/ SeriesEnds(s))
  BY <1>2 DEF evaluationVars, vars, strategy, Measure, SeriesEnds
<1>3. CASE EmptyRun \/ QueryAborted \/ ExecuteFails \/ ApplyResults \/ QueryPanics
  BY <1>3, EvaluationAssumption
     DEF EmptyRun, QueryAborted, ExecuteFails, ApplyResults, EndRun, QueryPanics
<1>4. CASE Execute
  BY <1>4, NoneAssumed DEF Execute, vars
<1>5. CASE UpdateNodesUsage \/ UpdatePodsUsage \/ (\E s \in Services : AddPod(s))
  BY <1>5 DEF UpdateNodesUsage, UpdatePodsUsage, AddPod, vars
<1>6. CASE Query \/ QueryAnswered \/ QueryUnavailable
  BY <1>6, EvaluationAssumption DEF Query, QueryAnswered, QueryUnavailable, vars
<1> QED
  BY <1>1, <1>2, <1>3, <1>4, <1>5, <1>6 DEF EvaluationNext, Strategy

(* The series change only where they are measured.                         *)
LEMMA SeriesStaysTyped ==
    ASSUME SeriesTyped, [EvaluationNext]_evaluationVars
    PROVE  SeriesTyped'
<1>1. CASE UNCHANGED series
  BY <1>1 DEF SeriesTyped
<1>2. CASE \E s \in Services : Measure(s) \/ SeriesEnds(s)
  BY <1>2, MeasureTyped
<1> QED
  BY <1>1, <1>2
     DEF EvaluationNext, Strategy, evaluationVars, EmptyRun, Execute, UpdateNodesUsage,
         UpdatePodsUsage, AddPod, Query, QueryAnswered, QueryUnavailable, QueryAborted,
         ExecuteFails, ApplyResults, QueryPanics

(* The whole invariant of an evaluation, at first and after every step.    *)
TypedInv == EvaluationInv /\ DataTyped

LEMMA TypedInitInv == EvaluationInit => TypedInv
<1> SUFFICES ASSUME EvaluationInit PROVE DataTyped
  BY EvaluationInitInv DEF TypedInv
<1> QED
  BY EvaluationAssumption
     DEF EvaluationInit, DataTyped, SeriesTyped, UsageTyped, ClusterTyped, SharesTyped,
         StepTyped, Percent

LEMMA TypedNextInv == TypedInv /\ [EvaluationNext]_evaluationVars => TypedInv'
<1> SUFFICES ASSUME TypedInv, [EvaluationNext]_evaluationVars PROVE TypedInv'
  OBVIOUS
<1>1. SeriesTyped /\ UsageTyped /\ ClusterTyped /\ SharesTyped /\ StepTyped /\ Measured
  BY DEF TypedInv, DataTyped, EvaluationInv
<1>2. EvaluationInv'
  BY EvaluationNextInv DEF TypedInv
<1>3. SeriesTyped'
  BY <1>1, SeriesStaysTyped
<1>4. UsageTyped' /\ ClusterTyped' /\ (usage # None /\ step' # "idle" => usage' # None)
  BY <1>1, UsageStaysTyped
<1>5. SharesTyped'
  BY <1>1, SharesStayTyped
<1>6. StepTyped'
  BY <1>1, <1>4, StepStaysTyped
<1> QED
  BY <1>2, <1>3, <1>4, <1>5, <1>6 DEF TypedInv, DataTyped

(* It says what the type invariant says.                                   *)
LEMMA TypedInvTypes == TypedInv => EvaluationTypeOK
BY DEF TypedInv, EvaluationInv, IInv, DataTyped, SeriesTyped, UsageTyped, ClusterTyped,
       SharesTyped, StepTyped, EvaluationTypeOK

(* Every variable keeps its type, and every share is a percentage, for any *)
(* services, annotations and measurements (GetResults, run).               *)
THEOREM EvaluationsTyped == EvaluationSpec => []EvaluationTypeOK
BY TypedInitInv, TypedNextInv, TypedInvTypes, PTL DEF EvaluationSpec

(* The smallest and the largest of the numbers of a series are among them. *)
LEMMA MeasuresHaveBounds ==
    ASSUME NEW points \in Seq(Points), Measures(points) # {}
    PROVE  /\ Min(Measures(points)) \in Nat /\ Max(Measures(points)) \in Nat
           /\ \A y \in Measures(points) :
                Min(Measures(points)) <= y /\ y <= Max(Measures(points))
<1> DEFINE measures == Measures(points)
<1>1. measures \subseteq Nat
  BY NumbersAre
<1>2. PICK b \in Nat : \A y \in measures : y <= b
  BY MeasuresBounded
<1> HIDE DEF measures
<1>3. Min(measures) \in measures /\ \A y \in measures : Min(measures) <= y
  BY <1>1, MinOfNat DEF measures
<1>4. Max(measures) \in measures /\ \A y \in measures : y <= Max(measures)
  BY <1>1, <1>2, MaxOfNat DEF measures
<1> QED
  BY <1>1, <1>3, <1>4 DEF measures

(* What is kept of Prometheus' answers is measured by a mean.              *)
LEMMA ClusterMeasured == ClusterTyped => LatencyMeasured
<1> SUFFICES ASSUME ClusterTyped, NEW s \in Services,
                    cluster # None, cluster.series[s] # None, Limits[s].decay \in 0..4,
                    Measures(cluster.series[s]) # {}
             PROVE  LET points  == cluster.series[s]
                        latency == RequestLatency(Latencies(points), Limits[s].decay)
                    IN  /\ Min(Measures(points)) * latency.den <= latency.num
                        /\ latency.num <= Max(Measures(points)) * latency.den
  BY DEF LatencyMeasured, Measures
<1> DEFINE points == cluster.series[s]
<1>1. points \in Seq(Points)
  BY DEF ClusterTyped, Measurements
<1> DEFINE lo == Min(Measures(points))
           hi == Max(Measures(points))
           decay == Limits[s].decay
<1>2. decay \in Nat
  OBVIOUS
<1> HIDE DEF points, decay
<1>3. lo \in Nat /\ hi \in Nat /\ \A y \in Measures(points) : lo <= y /\ y <= hi
  BY <1>1, MeasuresHaveBounds DEF points
<1>4. Numbers(points) # {}
  BY <1>1, NumbersAre DEF points
<1> HIDE DEF lo, hi
<1>5. LET mean == RequestLatency(Latencies(points), decay)
      IN  lo * mean.den <= mean.num /\ mean.num <= hi * mean.den
  BY <1>1, <1>2, <1>3, <1>4, MeasuredBetween
<1> QED
  BY <1>5 DEF points, decay, lo, hi

(* The latency that is compared with the limits is a mean of what was      *)
(* measured (FinalizeKServiceMetrics), for any window and any points,      *)
(* missing ones included.                                                  *)
THEOREM LatenciesMeasured == EvaluationSpec => []LatencyMeasured
<1>1. TypedInv => LatencyMeasured
  BY ClusterMeasured DEF TypedInv, DataTyped
<1> QED
  BY <1>1, TypedInitInv, TypedNextInv, PTL DEF EvaluationSpec

(* A service with a share above 0 to come has been measured at its limit.  *)
LEMMA LoadMeasured ==
    ASSUME cluster \in Measurements, NEW s \in Services,
           Limits[s].decay \in 0..4, Limits[s].soft > 0, InUsage(s), NewShare(s) > 0
    PROVE  /\ cluster.series[s] # None
           /\ \E i \in Numbers(cluster.series[s]) : cluster.series[s][i] >= Limits[s].soft
<1> DEFINE points == IF cluster.series[s] = None THEN <<>> ELSE cluster.series[s]
<1>1. points \in Seq(Points)
  BY DEF Measurements
<1>2. Limits[s] \in Settings
  BY EvaluationAssumption
<1>3. NewShare(s) = DesiredShare(points, Limits[s])
  BY DEF NewShare
<1> HIDE DEF points
<1>4. ~ \A i \in Numbers(points) : points[i] < Limits[s].soft
  <2>1. SUFFICES ASSUME \A i \in Numbers(points) : points[i] < Limits[s].soft PROVE FALSE
    OBVIOUS
  <2>2. DesiredShare(points, Limits[s]) = 0
    <3>1. Limits[s].decay >= 0
      OBVIOUS
    <3> QED
      BY <1>1, <1>2, <2>1, <3>1, CalmAsksForNothing
  <2> QED
    BY <1>3, <2>2
<1>5. PICK i \in Numbers(points) : points[i] >= Limits[s].soft
  <2>1. \A i \in Numbers(points) : points[i] \in Nat
    BY <1>1, NumbersAre DEF Measures
  <2>2. Limits[s].soft \in Int
    BY <1>2 DEF Settings
  <2> QED
    BY <1>4, <2>1, <2>2
<1>6. points # <<>>
  BY <1>5 DEF Numbers
<1> QED
  BY <1>5, <1>6 DEF points

(* A share rises when a run applies its results.                           *)
LEMMA RisesInRun ==
    ASSUME TypedInv, [EvaluationNext]_evaluationVars, NEW s \in Services,
           share'[s] > share[s]
    PROVE  /\ AppliedTo(s) /\ NewShare(s) > 0
           /\ cluster = usage /\ cluster \in Measurements
<1>1. UsageTyped /\ SharesTyped /\ StepTyped /\ Measured
  BY DEF TypedInv, DataTyped, EvaluationInv
<1>2. share[s] \in 0..100
  BY <1>1 DEF SharesTyped, Percent
<1>3. ~ QueryPanics
  <2>1. SUFFICES ASSUME QueryPanics PROVE FALSE
    OBVIOUS
  <2>2. share'[s] = 0
    BY <2>1 DEF QueryPanics
  <2> QED
    BY <1>2, <2>2
<1>4. share' # share
  BY <1>2
<1>5. ApplyResults
  BY <1>3, <1>4
     DEF EvaluationNext, Strategy, evaluationVars, Measure, SeriesEnds, EmptyRun, Execute,
         UpdateNodesUsage, UpdatePodsUsage, AddPod, Query, QueryAnswered, QueryUnavailable,
         QueryAborted, ExecuteFails
<1>6. cluster = usage /\ cluster \in Measurements
  BY <1>1, <1>5 DEF ApplyResults, UsageTyped, StepTyped, Measured
<1>7. share'[s] = IF s \in given THEN NewShare(s) ELSE share[s]
  BY <1>5 DEF ApplyResults
<1>8. s \in given /\ NewShare(s) > share[s]
  BY <1>2, <1>7
<1>9. InUsage(s)
  <2>1. SUFFICES ASSUME ~ InUsage(s) PROVE FALSE
    OBVIOUS
  <2>2. NewShare(s) = share[s]
    BY <2>1 DEF NewShare
  <2> QED
    BY <1>2, <1>8, <2>2
<1>10. NewShare(s) > 0
  <2>1. NewShare(s) \in Percent
    BY <1>1, <1>6, NewShareTyped
  <2> QED
    BY <1>2, <1>8, <2>1 DEF Percent
<1> QED
  BY <1>5, <1>6, <1>8, <1>9, <1>10 DEF AppliedTo

(* So a service whose share rises has been measured at its limit.          *)
LEMMA RisesWithLoad ==
    ASSUME TypedInv, [EvaluationNext]_evaluationVars, NEW s \in Services,
           share'[s] > share[s], Limits[s].decay \in 0..4, Limits[s].soft > 0
    PROVE  /\ s \in given /\ usage.series[s] # None
           /\ \E i \in Numbers(usage.series[s]) : usage.series[s][i] >= Limits[s].soft
<1>1. AppliedTo(s) /\ NewShare(s) > 0 /\ cluster = usage /\ cluster \in Measurements
  BY RisesInRun
<1>2. s \in given /\ InUsage(s)
  BY <1>1 DEF AppliedTo
<1>3. /\ cluster.series[s] # None
      /\ \E i \in Numbers(cluster.series[s]) : cluster.series[s][i] >= Limits[s].soft
  BY <1>1, <1>2, LoadMeasured
<1> QED
  BY <1>1, <1>2, <1>3

(* Only load moves requests to the cloud (GetResults, run): no earlier     *)
(* run, missing point or restart makes a share rise, for any services,     *)
(* window and hard limit.                                                  *)
THEOREM LoadRaises == EvaluationSpec => OnlyLoadRaises
<1>1. EvaluationSpec => []TypedInv
  BY TypedInitInv, TypedNextInv, PTL DEF EvaluationSpec
<1>2. TypedInv /\ [EvaluationNext]_evaluationVars
        => [\A s \in Services :
              share'[s] > share[s] /\ Limits[s].decay \in 0..4 /\ Limits[s].soft > 0 =>
                /\ s \in given /\ usage.series[s] # None
                /\ \E i \in Numbers(usage.series[s]) :
                     usage.series[s][i] >= Limits[s].soft]_evaluationVars
  BY RisesWithLoad
<1> QED
  BY <1>1, <1>2, PTL DEF EvaluationSpec, OnlyLoadRaises

------------------------------------------------------------------------------
(* Offloading ends with the load.                                          *)

(* The results that are about to be applied come from calm measurements.   *)
CalmResults(s) == step = "results" => CalmSeries(s, cluster.series[s])

(* In calm times a run that gets to its results does so with calm ones.    *)
LEMMA CalmStays ==
    ASSUME Measured, [EvaluationNext]_evaluationVars, NEW s \in Services,
           CalmSeries(s, series[s]), CalmResults(s)
    PROVE  CalmResults(s)'
<1> USE DEF CalmResults, CalmSeries
<1>1. CASE UNCHANGED <<step, cluster>>
  BY <1>1
<1>2. CASE step' # "results"
  BY <1>2
<1>3. CASE QueryAnswered
  <2>1. /\ cluster' = [usage EXCEPT !.series = series, !.complete = TRUE]
        /\ usage = [pods |-> usage.pods, series |-> usage.series, complete |-> usage.complete]
    BY <1>3 DEF QueryAnswered, Measured, IsUsage
  <2>2. cluster'.series = series
    BY <2>1
  <2> QED
    BY <2>2
<1> QED
  BY <1>1, <1>2, <1>3
     DEF EvaluationNext, Strategy, evaluationVars, strategy, Measure, SeriesEnds, EmptyRun,
         EndRun, Execute, UpdateNodesUsage, UpdatePodsUsage, AddPod, Query, QueryUnavailable,
         QueryAborted, ExecuteFails, ApplyResults, QueryPanics

(* The results of an earlier time are gone once they are applied.          *)
LEMMA AppliedForgets ==
    ASSUME NEW s \in Services, <<AppliedTo(s)>>_evaluationVars
    PROVE  CalmResults(s)'
BY DEF AppliedTo, ApplyResults, EndRun, CalmResults

(* Calm results give the service its traffic back.                         *)
LEMMA CalmReturns ==
    ASSUME TypedInv, NEW s \in Services, <<AppliedTo(s)>>_evaluationVars, CalmResults(s),
           Limits[s].decay \in 0..4, Limits[s].soft > 0
    PROVE  share'[s] = 0
<1>1. ApplyResults /\ s \in given /\ InUsage(s)
  BY DEF AppliedTo
<1>2. cluster = usage /\ cluster \in Measurements
  BY <1>1 DEF TypedInv, DataTyped, EvaluationInv, ApplyResults, UsageTyped, StepTyped, Measured
<1>3. share'[s] = NewShare(s)
  BY <1>1 DEF ApplyResults
<1>4. NewShare(s) \in 0..100
  BY <1>2, NewShareTyped DEF TypedInv, DataTyped, Percent
<1>5. SUFFICES ASSUME NewShare(s) > 0 PROVE FALSE
  BY <1>3, <1>4
<1>6. PICK i \in Numbers(cluster.series[s]) : cluster.series[s][i] >= Limits[s].soft
  BY <1>1, <1>2, <1>5, LoadMeasured
<1>7. cluster.series[s] # None
  BY <1>1, <1>2, <1>5, LoadMeasured
<1>8. cluster.series[s][i] < Limits[s].soft
  BY <1>1, <1>6, <1>7 DEF CalmResults, CalmSeries, ApplyResults
<1>9. cluster.series[s][i] \in Nat /\ Limits[s].soft \in Int
  <2>1. cluster.series[s] \in Seq(Points)
    BY <1>2, <1>7 DEF Measurements
  <2>2. Limits[s] \in Settings
    BY EvaluationAssumption
  <2> QED
    BY <1>6, <2>1, <2>2, NumbersAre DEF Measures, Settings
<1> QED
  BY <1>6, <1>8, <1>9

(* And nothing else takes it away.                                         *)
LEMMA ReturnedStays ==
    ASSUME TypedInv, [EvaluationNext]_evaluationVars, NEW s \in Services, CalmResults(s),
           Limits[s].decay \in 0..4, Limits[s].soft > 0, share[s] = 0
    PROVE  share'[s] = 0
<1>1. SUFFICES ASSUME share'[s] # 0 PROVE FALSE
  OBVIOUS
<1>2. share'[s] \in 0..100
  <2>1. TypedInv'
    BY TypedNextInv
  <2> QED
    BY <2>1 DEF TypedInv, DataTyped, SharesTyped, Percent
<1>3. share'[s] > share[s] /\ share' # share
  BY <1>1, <1>2
<1>4. AppliedTo(s)
  BY <1>3, RisesInRun
<1>5. <<AppliedTo(s)>>_evaluationVars
  BY <1>3, <1>4 DEF evaluationVars
<1> QED
  BY <1>1, <1>5, CalmReturns

(* Offloading ends with the load (the whole loop: measurements, GetResults *)
(* and run), for any services, window and hard limits: runs that go        *)
(* through are all the fairness it takes.                                  *)
THEOREM OffloadingStops == EvaluationSpec => OffloadingEnds
<1> SUFFICES ASSUME NEW s \in Services, Limits[s].decay \in 0..4, Limits[s].soft > 0
             PROVE  EvaluationSpec =>
                      (<>[]CalmSeries(s, series[s]) /\ []<><<AppliedTo(s)>>_evaluationVars
                         => <>[](share[s] = 0))
  BY DEF OffloadingEnds
<1>1. EvaluationSpec => []TypedInv
  BY TypedInitInv, TypedNextInv, PTL DEF EvaluationSpec
<1>2. TypedInv /\ [EvaluationNext]_evaluationVars /\ CalmSeries(s, series[s]) /\ CalmResults(s)
        => CalmResults(s)'
  BY CalmStays DEF TypedInv, EvaluationInv
<1>3. <<AppliedTo(s)>>_evaluationVars => CalmResults(s)'
  BY AppliedForgets
<1>4. TypedInv /\ <<AppliedTo(s)>>_evaluationVars /\ CalmResults(s) => (share[s] = 0)'
  BY CalmReturns
<1>5. TypedInv /\ [EvaluationNext]_evaluationVars /\ CalmResults(s) /\ share[s] = 0
        => (share[s] = 0)'
  BY ReturnedStays
<1> QED
  BY <1>1, <1>2, <1>3, <1>4, <1>5, PTL DEF EvaluationSpec

==============================================================================
