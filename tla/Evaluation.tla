----------------------------- MODULE Evaluation -----------------------------
(***************************************************************************)
(* A whole evaluation: the loop of EdgeWorkOffload gets its services from  *)
(* listServices (ListServices), has PrometheusStrategy measure the cluster *)
(* (Execute, with the Prometheus client) and sets the shares GetResults    *)
(* asks for (Usage).  The loop is closed: the share that is offloaded      *)
(* decides whether the edge has requests left to measure.                  *)
(*                                                                         *)
(* The services have traffic-inertia 0, so their share is what the last    *)
(* result asked for; WorkOffload has the blending, the store and the way   *)
(* of a share into the service.  The CPU and memory of nodes and pods,     *)
(* which the strategy adds up and only logs, are left out.                 *)
(***************************************************************************)
EXTENDS ListServices, Usage

CONSTANTS
    Ratios,    \* latency ratios the load of a service may lead to, in quarters
    Limits,    \* Limits[s]: the decay and the limits annotated on the service
    Window,    \* bound: how many points of a series a query returns
    Attempts,  \* how often a query is tried; the code leaves it at 1
    None       \* no series, no measurements

Points == Ratios \cup {NaN}
Measurements == [pods     : SUBSET Services,
                 series   : [Services -> Seq(Points) \cup {None}],
                 complete : BOOLEAN]

ASSUME EvaluationAssumption ==
    /\ Ratios \subseteq Nat
    /\ Limits \in [Services -> Settings]
    /\ Window \in Nat \ {0}
    /\ Attempts \in Nat \ {0}
    /\ NaN \notin Int
    /\ None \notin Seq(Points) /\ None \notin Measurements

VARIABLES
    series,   \* series[s]: the points Prometheus has on s, or None
    step,     \* of Execute: "idle", "nodes", "pods", "pod", "query", "results"
    todo,     \* services whose pods the strategy has still to read
    tries,    \* how often the query has been tried
    usage,    \* the measurements of this run, or None
    cluster,  \* those the strategy has kept (s.cluster), or None
    share     \* share[s]: the share of s that is offloaded

strategy == <<step, todo, tries, usage, cluster>>
evaluationVars == <<vars, series, strategy, share>>

Percent == 0..100

NoUsage == [pods |-> {}, series |-> [s \in Services |-> None], complete |-> FALSE]

EvaluationInit ==
    /\ Init
    /\ series = [s \in Services |-> None]
    /\ step = "idle"
    /\ todo = {}
    /\ tries = 0
    /\ usage = None
    /\ cluster = None
    /\ share = [s \in Services |-> 0]

------------------------------------------------------------------------------
(* The cluster.                                                            *)

(* The oldest of too many points leaves the window.                        *)
Latest(points) == IF Len(points) > Window THEN Tail(points) ELSE points

(* A minute passes: Prometheus has one more point.  Without requests at    *)
(* the edge, because there are none or all are offloaded, it is 0 / 0; a   *)
(* service that has never had one has no series.                           *)
Measure(s) ==
    /\ \E point \in IF share[s] = 100 THEN {NaN} ELSE Ratios \cup {NaN} :
          /\ series[s] = None => point # NaN
          /\ series' = [series EXCEPT
                          ![s] = Latest(Append(IF @ = None THEN <<>> ELSE @, point))]
    /\ UNCHANGED <<vars, strategy, share>>

(* The activator has forgotten about s, or restarted.                      *)
SeriesEnds(s) ==
    /\ series[s] # None /\ Numbers(series[s]) = {}
    /\ series' = [series EXCEPT ![s] = None]
    /\ UNCHANGED <<vars, strategy, share>>

------------------------------------------------------------------------------
(* Execute and GetResults.                                                 *)

(* The run is over, with or without a result.                              *)
EndRun ==
    /\ Run
    /\ step' = "idle"
    /\ todo' = {}
    /\ tries' = 0
    /\ usage' = None

(* No services found, will skip this run.                                  *)
EmptyRun ==
    /\ given = {}
    /\ EndRun
    /\ UNCHANGED <<series, cluster, share>>

Execute ==
    /\ loop = "run" /\ step = "idle" /\ given # {}
    /\ step' = "nodes"
    /\ usage' = NoUsage
    /\ UNCHANGED <<vars, series, todo, tries, cluster, share>>

(* The nodes and their metrics.                                            *)
UpdateNodesUsage ==
    /\ step = "nodes"
    /\ step' = "pods"
    /\ UNCHANGED <<vars, series, todo, tries, usage, cluster, share>>

(* The pod metrics of a namespace name some pods; then each is looked up.  *)
UpdatePodsUsage ==
    /\ step = "pods"
    /\ step' = "pod"
    /\ todo' \in SUBSET Services
    /\ UNCHANGED <<vars, series, tries, usage, cluster, share>>

(* A pod that is in the cache is added, one that is not is skipped: pods   *)
(* come and go, and the metrics server and the cache notice on their own.  *)
AddPod(s) ==
    /\ step = "pod" /\ s \in todo
    /\ todo' = todo \ {s}
    /\ \E found \in SUBSET {s} : usage' = [usage EXCEPT !.pods = @ \cup found]
    /\ UNCHANGED <<vars, series, step, tries, cluster, share>>

Query ==
    /\ step = "pod" /\ todo = {}
    /\ step' = "query"
    /\ tries' = 1
    /\ UNCHANGED <<vars, series, todo, usage, cluster, share>>

(* The measurements are complete: they replace those of the last run.      *)
QueryAnswered ==
    /\ step = "query"
    /\ usage' = [usage EXCEPT !.series = series, !.complete = TRUE]
    /\ cluster' = usage'
    /\ step' = "results"
    /\ UNCHANGED <<vars, series, todo, tries, share>>

(* 503, and some time to recover; the last try's error ends the run.       *)
QueryUnavailable ==
    /\ step = "query" /\ tries < Attempts
    /\ tries' = tries + 1
    /\ UNCHANGED <<vars, series, step, todo, usage, cluster, share>>

ErrorIgnoredMutant ==
    /\ \/ step \in {"nodes", "pods", "query"}
       \/ step = "pod" /\ todo # {}
    /\ cluster' = usage
    /\ step' = "results"
    /\ UNCHANGED <<vars, series, todo, tries, usage, share>>

(* Any of the calls returns an error: the run is skipped.                  *)
ExecuteFails ==
    /\ \/ step \in {"nodes", "pods", "query"}
       \/ step = "pod" /\ todo # {}
    /\ EndRun
    /\ UNCHANGED <<series, cluster, share>>

BackgroundMutant == FALSE

(* The calls are made with the manager's context, and have no timeout of   *)
(* their own.                                                              *)
CallContextDone == stopped

QueryAborted ==
    /\ step = "query" /\ CallContextDone
    /\ EndRun
    /\ UNCHANGED <<series, cluster, share>>

InUsage(s) == s \in cluster.pods \/ cluster.series[s] # None

PreserveUnmeasuredMutant(s) ==
    IF cluster.series[s] # None /\ Numbers(cluster.series[s]) # {}
    THEN DesiredShare(cluster.series[s], Limits[s]) ELSE share[s]

(* GetResults, and run, which sets what it asks for.  A service with pods  *)
(* and no series has a latency of 0; one that has neither is not in the    *)
(* usage, and its share is preserved.                                      *)
NewShare(s) ==
    IF InUsage(s)
    THEN DesiredShare(IF cluster.series[s] = None THEN <<>> ELSE cluster.series[s], Limits[s])
    ELSE share[s]

ApplyResults ==
    /\ step = "results"
    /\ share' = [s \in Services |-> IF s \in given THEN NewShare(s) ELSE share[s]]
    /\ EndRun
    /\ UNCHANGED <<series, cluster>>

(* A response of 400 or 422, or one with a malformed point, panics in the  *)
(* loop's goroutine: the controller process ends and, unless it was told   *)
(* to stop, another one starts with an empty store.                        *)
QueryPanics ==
    /\ step = "query"
    /\ loop' = IF stopped THEN "exited" ELSE "wait"
    /\ producer' = "ended" /\ consumer' = "ended"
    /\ timer' = FALSE /\ cancelled' = FALSE /\ leaked' = FALSE
    /\ listed' = {} /\ collected' = <<>> /\ given' = {}
    /\ step' = "idle" /\ todo' = {} /\ tries' = 0
    /\ usage' = None /\ cluster' = None
    /\ share' = [s \in Services |-> 0]
    /\ UNCHANGED <<stopped, series>>

------------------------------------------------------------------------------
Strategy ==
    \/ EmptyRun \/ Execute \/ UpdateNodesUsage \/ UpdatePodsUsage
    \/ \E s \in Services : AddPod(s)
    \/ Query \/ QueryAnswered \/ QueryUnavailable \/ QueryAborted
    \/ ExecuteFails \/ QueryPanics
    \/ ApplyResults

EvaluationNext ==
    \/ Listing /\ UNCHANGED <<series, strategy, share>>
    \/ \E s \in Services : Measure(s) \/ SeriesEnds(s)
    \/ Strategy

(* Besides what ListServices assumes: minutes pass, the caches and the API *)
(* server answer, with a success or an error, and a cancelled request      *)
(* returns.  Nothing obliges Prometheus to answer.                         *)
EvaluationFairness ==
    /\ Fairness
    /\ \A s \in Services : WF_evaluationVars(Measure(s)) /\ WF_evaluationVars(AddPod(s))
    /\ WF_evaluationVars(EmptyRun) /\ WF_evaluationVars(Execute)
    /\ WF_evaluationVars(UpdateNodesUsage) /\ WF_evaluationVars(UpdatePodsUsage)
    /\ WF_evaluationVars(Query) /\ WF_evaluationVars(QueryAborted)
    /\ WF_evaluationVars(ApplyResults)

EvaluationSpec == EvaluationInit /\ [][EvaluationNext]_evaluationVars /\ EvaluationFairness

------------------------------------------------------------------------------
(* Properties.                                                             *)

(* Every variable keeps its type, and the strategy is at work only in a    *)
(* run.  A share is a percentage whatever the annotations say.             *)
EvaluationTypeOK ==
    /\ TypeOK
    /\ series \in [Services -> Seq(Points) \cup {None}]
    /\ step \in {"idle", "nodes", "pods", "pod", "query", "results"}
    /\ todo \subseteq Services
    /\ tries \in 0..Attempts
    /\ usage \in Measurements \cup {None}
    /\ cluster \in Measurements \cup {None}
    /\ share \in [Services -> Percent]
    /\ step # "idle" => loop = "run" /\ usage # None

(* A run that fails half way has no effect: a share changes only as the    *)
(* measurements completed in that very run say, never by half of them or   *)
(* by those of an earlier run.                                             *)
SharesFromThisRun ==
    [][share' # share /\ step # "query" =>
         step = "results" /\ cluster = usage /\ cluster.complete]_evaluationVars

(* The latency that is compared with the limits lies between the smallest  *)
(* and the largest ratio measured, however many points are missing, as     *)
(* long as the annotated decay is at most 1 and not negative.              *)
LatencyMeasured ==
    \A s \in Services :
        cluster # None /\ cluster.series[s] # None /\ Limits[s].decay \in 0..4 =>
            LET points  == cluster.series[s]
                numbers == {points[i] : i \in Numbers(points)}
                latency == RequestLatency(Latencies(points), Limits[s].decay)
            IN  numbers # {} => /\ Min(numbers) * latency.den <= latency.num
                                /\ latency.num <= Max(numbers) * latency.den

(* Only load moves requests to the cloud: a share rises only in a run that *)
(* measured the service at its soft limit or above, whatever earlier runs  *)
(* measured or asked for, as long as the annotated decay is at most 1 and  *)
(* not negative and the soft limit is above 0.                             *)
OnlyLoadRaises ==
    [][\A s \in Services :
         share'[s] > share[s] /\ Limits[s].decay \in 0..4 /\ Limits[s].soft > 0 =>
           /\ s \in given /\ usage.series[s] # None
           /\ \E i \in Numbers(usage.series[s]) :
                usage.series[s][i] >= Limits[s].soft]_evaluationVars

(* The loop always comes back to its timer, unless a listing has failed or *)
(* Prometheus does not answer a query.                                     *)
OnlySilenceBlocks == OnlyFailureBlocks \/ <>[](step = "query")

(* Offloading ends with the load: a service whose edge requests are fast   *)
(* again, or gone, for good gets all its traffic back, although a service  *)
(* that is offloaded completely has no requests left that could show it,   *)
(* as long as runs that deal with it go through: it is in their list, and  *)
(* has pods or a series in the measurements.                               *)
CalmSeries(s, points) ==
    points # None => \A i \in Numbers(points) : points[i] < Limits[s].soft

AppliedTo(s) == ApplyResults /\ s \in given /\ InUsage(s)

OffloadingEnds ==
    \A s \in Services :
        Limits[s].decay \in 0..4 /\ Limits[s].soft > 0 =>
            (<>[]CalmSeries(s, series[s]) /\ []<><<AppliedTo(s)>>_evaluationVars
                => <>[](share[s] = 0))

==============================================================================
