# knative-edge in TLA+

knative-edge connects an edge Kubernetes cluster to a cloud one. It copies
Knative Services, ConfigMaps, Secrets and Namespaces from the cloud to the edge
and, for services that ask for it, sends a part of their traffic back to the
cloud when the edge is overloaded. This directory holds TLA+ models of its
controllers, configurations that check them with TLC, and proofs checked with
TLAPS.

`PROJECT.json` lists the components, the runs, for each definition the source
lines it models, the mutants that show each property can fail, the hazards and
the theorems. Line numbers below refer to `src/`.

## 1. The system

| part | source | state | operations |
|---|---|---|---|
| One-way mirroring | `pkg/controllers/edge/mirroring_reconciler.go`, `predicate.go`, `cache.go` | two informer caches (remote scoped to the controller's environments, local to managed objects), a work queue | `Reconcile`: create, update or delete the local copy; event filters |
| ConfigMap, Secret, Namespace controllers | `configmap_controller.go` and siblings | none of their own | `kindMerger` (replaces the annotations of the copy) |
| Service controller | `kservice_controller.go`, `kservice_reconciler.go`, `kconfiguration_reconciler.go`, `utils/controllers.go` | the proxy's Configuration, the traffic targets and annotations of the Service | `kindMerger` (keeps annotations), two preprocessors, a watch of Configurations |
| Offloading loop | `pkg/workoffload/runnable.go` | the list of one run | list services, execute the strategy, recover and update shares |
| Traffic store | `pkg/workoffload/store/store.go` | shares with a time to live, in memory | `Set`, `Get`, cleanup |
| Strategy and usage | `pkg/workoffload/prometheus/strategy.go`, `usage/` | the usage of the last complete measurement | `Execute` (nodes, pods, query), latency arithmetic, `GetResults` |
| Prometheus client | `pkg/workoffload/prometheus/client` | none | `Query`, `QueryWithRetry` |
| Operator | `pkg/controllers/operator/knativeedge_reconciler.go` | remote connections, copied secret, deployment, status of the KnativeEdge | `reconcileCluster`, `reconcileSecret`, `reconcileDeployment` |
| Edge proxy process | `cmd/proxy/main.go` | its environment | `handler`: refuse, or forward to the cloud |
| Processes | `cmd/controller`, `cmd/operator` | flags | start and stop |

**How they interact.** The operator turns a KnativeEdge and the EdgeCluster it
names into a deployment of the controller. The controller runs the four mirror
controllers and the offloading loop in one process. The loop lists the labelled
services from the manager's cache, asks the strategy, and sets shares in the
store; the Service reconciler reads the store, splits the traffic of the local
service between its latest revision and the proxy's Configuration and records
the share in an annotation, from which a lost store item is to be recovered.
The share closes a loop of its own: requests that are sent to the cloud are not
measured at the edge. Proxies know the cloud by the environment of their
revision. Everything else goes through the two API servers, optimistic concurrency,
watches and the work queue.

**What is hard.** Decisions are taken on caches that lag; the mirror recognises
its own updates by a version kept in an annotation, so a wrong match loses a
wakeup; calls fail after they were carried out, and processes restart with other
environments or images while a write is on its way; the loop, the store's
cleanup and the reconciler share the store without a transaction; three
unbuffered channels tie a producer, a consumer and the loop together; an evaluation makes
four kinds of calls that fail, stay unanswered or panic; what the operator has
applied is remembered only as generations.

**What makes each part correct.**

- Mirroring: a name with nothing left to do is in sync; the copy converges once
  users stop; objects that are not managed are not overwritten; a copy never
  goes back to an older version; nothing is deleted that the cloud has not
  withdrawn; the controller does not feed itself.
- Service controller: the split that is in force is the one recorded and comes
  to be what the store says; the Configuration goes with the label; refused
  updates happen only for known reasons; requests that are split off reach the
  cloud.
- Offloading: a share is a percentage, moves towards what the metrics call for
  and no further, settles there, and survives a restart.
- Evaluation: a run works on what was listed, nobody is left blocked, the loop
  ends when the manager does and stops for nothing but a failed listing or a
  silent Prometheus; half a measurement decides nothing; only load starts
  offloading, and it ends with the load.
- Operator: the status never claims what was not applied; the deployment and
  the secret follow their inputs and go when the KnativeEdge goes; nothing but a
  remote cluster that does not answer, or a kubeconfig that crashes the process,
  holds the worker.

## 2. The modules

| module | models | constants that pick the variant |
|---|---|---|
| `Mirror` | one mirror controller, both API servers as it meets them, both watches, restarts | `KeepAnnotations` = FALSE: ConfigMap/Secret/Namespace, TRUE: Service |
| `OneWayMirror` | what mirroring promises: an abstract specification without caches, queues and faults | |
| `MirrorHistory` | `Mirror` with a history variable, and the refinement mapping to `OneWayMirror` | |
| `EdgeProxy` | the two preprocessors of one Service, the Configuration, Knative's defaults and validation, the environments of its revisions | `Fixed`: fixed-traffic annotations; `RemoteUrl`: the controller's flag |
| `ProxyProcess` | the proxy process: its environment and what it answers (operators) | |
| `WorkOffload` | the loop's `run`, the store, the reads and writes of the reconciler | `Inertia`: the traffic-inertia annotations |
| `ListServices` | `Start` and `listServices`: the loop, producer and consumer goroutines and their channels | |
| `Usage` | from the points of a series and the annotations to the share called for (operators) | |
| `Evaluation` | `ListServices` and `Usage` composed with the strategy's calls, the Prometheus client and the load | `Limits`: the annotations; `Attempts` |
| `Operator` | the operator for one KnativeEdge, the garbage collector, two clusters | `Owned`, `Recreated` |
| `MirrorProofs`; on top of it `MirrorHistoryProofs` and `MirrorWakeupProofs`, on that `MirrorWritesProofs` | theorems about `Mirror`, and the refinement | `CopiesAssumption`: the abstract module's |
| `EdgeProxyProofs`, `WorkOffloadProofs`, `EvaluationProofs` (with `ListServices`), `OperatorProofs` | theorems about the module of that name | |
| `MC*` | budgets and symmetry for TLC | |

### Mirror

`remote`, `local` are the objects in the API servers, with the opaque resource
versions as numbers per name (`remoteRv`, `localRv`); `remoteEvents`,
`localEvents` are what a watch has still to deliver; `remoteCache`,
`localCache` the informer caches, already scoped (`EnvScoped`, `ManagedScoped`
are `EnvScopedCache` and `ManagedScopedCache`). `queue` is the work queue,
`delayed` its rate-limited part, `current`, `remoteRead`, `pending` the
reconciliation under way, `inflight` a request of a stopped controller.

`Begin` dequeues and reads the remote object, `ReadLocal` reads the local one
and decides (`Decide` is the body of `Reconcile` up to its calls),
`WriteAccepted`, `WriteRefused` and `WriteFails` are the outcomes of the call.
`NotChangedOnCreate`, `NotChangedOnUpdate`, `LocalEventPasses` and
`RemoteEventPasses` are the predicates. `RelistRemote`/`RelistLocal` are a broken
watch: the informer reports one change from what it held to what is there.
`Resync` replays cached objects. `Restart` starts a controller with other
environments.

Abstractions: a cache change and its handlers are one step, and dequeueing is
one step with the remote read (both only touch what the worker reads next); the
caches have synced before the worker runs, as controller-runtime ensures;
resource versions count per name, and only equality and (in properties) order
are used. Users never mark an object of their own as managed.

### OneWayMirror and MirrorHistory

`OneWayMirror` has one variable per cluster: `history`, the states of each object
in the cloud, and `copy`, what the edge holds. Its steps publish and retract in
the cloud, let users of the edge touch what they find, propagate *some* published
version over nothing or over a managed copy that is not newer, and withdraw.
`MirrorHistory` adds to `Mirror` the variable `history` (a history variable: it
restricts nothing) and maps `copy` to the local object (`Copy`) and `touches` to
the user operations spent. `MirrorsOneWay` is the abstract specification under
that mapping. The abstract `Withdraw` is weak on purpose, because the code may
delete on old news; `DeletionsWarranted` says when a running controller does.

### EdgeProxy

`Begin` is `Reconcile` up to the preprocessors, with `MergeService` the
`kindMerger`; `ReadConfiguration` and `ConfigCall` are
`reconcileKConfiguration`; `WithoutProxy` and `WithProxy` are
`reconcileKService`; `ServiceCall` is the mirror's write. `Defaulted` and `Valid`
are the parts of Knative's webhook the controller depends on. Delivery of remote
changes is `Mirror`'s subject, so `remote` here is the remote cache; local events
may or may not queue the service (`DeliverLocal` allows both, `Mirror` says
when); timers and queue are one flag, `due`. `revisions` is the remote host in the
environment of each generation of the Configuration: a revision never changes,
so a later host needs a later revision. Since nothing deletes the Configuration
of a service that is deleted in the cloud, `Init` may have one left from an
earlier service of the same name (`Leftover`). The fixed-traffic annotation is any
integer: what the controller may try to write (`WrittenService`) is more than what
Knative stores (`LocalService`).

`ProxyProcess` is the process of `cmd/proxy`. It keeps nothing between requests,
so `Answer` (the handler, applied to the environment, the readability of the body
and the status of the cloud) is all of it; `RequestsReachCloud` applies it to the
revision that the traffic is split to.

### WorkOffload

One run is `StartRun`, `Recover` for each service, `StartApply`, `ApplyGet` and
`ApplySet` for each, `EndRun`. Get and set are separate steps, as the store's lock is
released in between. `Blend` is the weighted mean with its truncation, on
quarters in place of float32: the two agree for inertias that are multiples of 1/4 and
small enough for float32 products with a share to be exact. `ParseFloat` takes any
number, so an inertia may be negative, and `Extreme` stands for NaN, infinities and
numbers whose blend does not fit in an int64: Go leaves the result of that
conversion to the platform, and on those the images are built for (`Makefile:111`) it
ends at 0 or 100 after the clamp. The results of the strategy share the address of one loop
variable (`pkg/workoffload/prometheus/strategy.go:250`), so `ApplySet` uses the
inertia of the last listed service. The reconciler is reduced to the read of the
store and the write of the share (`EdgeProxy` has the rest), the fixed-traffic
annotation is left to `EdgeProxy`. Time is a flag `expired` on an item. A failing
strategy is a run that is skipped (`SkipRun`); a failing listing leaves the loop
`blocked` until the controller restarts (`ListingFails`; `ListServices` shows why).

### ListServices

Program counters for three goroutines; an unbuffered send and its receive are
one step; a `select` with several ready cases may take any. The manager's client
reads from a cache, which returns the whole list at once, so there is one page.

### Usage and Evaluation

`Usage` is the way of the measurements of one service to a share: `Latencies`
(`UpdateWithPercentileRatio`: points that are no number repeat the last one),
`RequestLatency` (`FinalizeKServiceMetrics`: the decaying mean, as a fraction) and
`DesiredTraffic` (`GetResults`). `Sums` is the code's loop, newest latency first,
and `AddLatency` one iteration of it; everything it adds up is a multiple of
1 / `one`, which each iteration makes a quarter, so that no fractions are needed. A
decay above 1 lets the weights grow until a float32 overflows, which the fractions
do not: properties about the mean have the hypothesis that it is at most 1. Ratios,
decay and limits are in quarters; the code's float32 rounding may move a share by one.

`Evaluation` extends `ListServices`: while the loop is at "run", `step` walks
through `Execute` (nodes, pods of every namespace, each pod, the query),
`GetResults` and the setting of shares. Every call may fail (`ExecuteFails`), a 503
is retried up to `Attempts` times (`QueryUnavailable`; the queries of the program
leave it at one), the query may stay unanswered, be aborted with the manager's
context, or panic (`QueryPanics`), which restarts the process with an empty store.
`cluster` is the usage the strategy keeps from its last complete measurement.
`Measure` closes the loop: a service that is offloaded completely has no requests
at the edge and measures 0 / 0. `QueryAnswered`, `Execute`'s end and the
assignment to `s.cluster` are one step, since nothing else reads them. The
services have traffic-inertia 0 and the share is set directly: blending, store and
reconciler are `WorkOffload`'s subject.

### Operator

`edge`, `kubeconfig` and `cluster` are given by users (KnativeEdge, referenced
secret, EdgeCluster), `secret` and `deployment` are made by the operator;
`edgeCache`, `secretCache`, `deploymentCache` are its caches, `connection` its
entry in `remoteClusters` with the cache behind it. `Begin`/`ReadFails` are
`Reconcile` and `reconcileCluster` up to the point where it has to connect;
`Connected` and `ConnectFails` are the outcomes of `cluster.New`, which asks the
remote cluster for its API and may never return, and `Panics` is what happens to a
kubeconfig that parses but names no usable context or cluster (`Incomplete`; one that
is missing or does not parse is `Garbled`): the process ends and starts again.
`ReconcileSecret` and `SecretCall` are
`reconcileSecret`, `ReadCluster`, `ReconcileDeployment` and `DeploymentCall`
`reconcileDeployment`, `StatusCall` `updateEdgeStatus`. Calls carry the version
that was read; refusals requeue. Resource versions and uids are opaque, so a new
one is any that nobody holds; that makes the state space finite although stale
caches and the garbage collector may go round as long as they like. `image` is a
number that a restart may raise or lower.

Abstractions: one KnativeEdge, whose referenced secret is not the system secret
itself; every kubeconfig that is usable leads to the same cloud cluster; reading
the KnativeEdge and reading the referenced secret are one step; `SetFields` on a new
connection (`knativeedge_reconciler.go:199`) does not fail.

## 3. The runs

| run | question | result |
|---|---|---|
| `MirrorDisturbed` | every disturbance at once: `NoWriteLoop`, `ManagedVersions`, `UnmanagedUntouched`, `NoRegress` | holds |
| `MirrorConfigMap` | no lost wakeup (`SettledInSync`) and `Convergence` when the merger drops annotations | holds |
| `MirrorService` | with failing calls and resyncs, when the merger keeps annotations: `SettledInSync`; `DeletionsWarranted`; is it a `OneWayMirror` (`MirrorsOneWay`)? | holds |
| `OffloadPair` | two services in one run, with inertias of -100 and 0.25: `TypeOK`, `NeverOvershoots` | holds |
| `OffloadSettles` | a run `ComesCloser` to what was measured; the applied share `Settles` within the rounding error unless a listing fails | holds |
| `OffloadRestart` | is a share taken up again after a restart (`ShareKept`)? | violated |
| `Evaluation` | whole evaluations: `RunsOnWhatWasListed`, `NoLeak`, `LatencyMeasured`, `SharesFromThisRun`, `OnlyLoadRaises`, `StopEndsLoop`, `OnlySilenceBlocks`, `OffloadingEnds` | holds |
| `ListFailure` | does a failed listing skip the run (`FailureSkipsRun`)? | violated |
| `ProxyTraffic` | `SplitRecorded`, `RefusalsExplained`, `SplitComes`, `RequestsReachCloud`, `ConfigurationGoes` | holds |
| `ProxyLabelRemoved` | does the proxy's target go with the label (`TargetGoes`)? | violated |
| `Operator` | `QuietMeansCurrent`, `DeploymentFollows`, `WorkerReturns`, `DependentsGo` | holds |
| `OperatorSecret` | does the copied kubeconfig follow (`KubeconfigFollows`)? | violated |

What the four violated ones show:

- `OffloadRestart`: `kservice_reconciler.go:82` and `runnable.go:231` take the
  parsed annotation when parsing *failed*. After a restart the share in force is
  replaced by 0.
- `ListFailure`: after an error `listServices` waits for ever: the producer on
  `errChan`, the consumer on a context only the producer cancels, the loop on
  the consumer (`runnable.go:139`). Offloading stops until the process ends.
- `ProxyLabelRemoved`: `RemoveEdgeProxyTarget` leaves the other target below 100
  percent (`utils/controllers.go:82`). The API server refuses the update, every
  retry too, and the traffic keeps a target whose Configuration is gone.
- `OperatorSecret`: Secrets have no generation, so the comparison at
  `knativeedge_reconciler.go:264` (and `:136`) never sees a difference. A
  KnativeEdge created before its kubeconfig gets an empty copy that stays empty.

### Bounds

All disturbances are counted down in `left`; each configuration gives the budgets.

- Mirror: one name (names share only the queue, and are otherwise handled
  independently), two environments, two values of data, two remote versions; of the
  disturbances (user operation, fault, restart, relist, resync) any two in
  `MirrorDisturbed`, any two of one user operation, restart and relist in
  `MirrorConfigMap`, and any three of one of each in `MirrorService` (`Total`), in
  any order. A lost wakeup or a late write needs a
  version and two of them, such as a failing call and an edit, or a restart and a
  late write. `RelistLocal` and replacing users are in `MirrorDisturbed` only:
  for `SettledInSync` they are a known limit of the filter (section 7).
- WorkOffload: two services show the shared inertia. In `OffloadPair` one of them has
  an inertia of -100, which throws every share but the one called for to one end of
  the clamp or the other (and so keeps the shares few), the other one of 0.25, to
  which `NeverOvershoots` applies; either may get the load, which calls for 60, and as
  runs take the inertia of either, shares move up and down. One expiry, one failure
  of the listing or of the strategy and one restart meet a run at any of its steps.
  `OffloadSettles` and `OffloadRestart` have one service with the default of 0.75; in
  `OffloadSettles` two shifts of load meet the same disturbances. `Extreme` inertias
  are left to the theorems.
- EdgeProxy: one host or none, one share besides 0, no fixed share or one of 120,
  any three outside changes (`Total`) out of two remote ones (label on, label off; a
  host that comes later), and one of everything else; with and without a leftover
  Configuration. `RemoteUrl` is absolute: any other value refuses every request.
- Evaluation: one service (services meet only in the list, whose size is
  `ListServices`' subject, and in the aliasing that `WorkOffload` has), a fast and a
  slow ratio on either side of the default limits, so that shares are 0 and 100
  or, through the decaying mean of two points, between; a window of two points
  lets a number, NaN after it, NaN alone and an ended series occur; two attempts.
  Nothing is counted down: evaluations, failures and panics go on for ever.
- Operator: two values of the deployment's arguments and two of the
  environments, and any three outside changes (`Total`) out of two user
  operations on the KnativeEdge, a change of the EdgeCluster, one of the
  kubeconfig, a deletion and an edit of what was made, a failing call or read, and a
  restart. Connections fail, and the operator panics, without a bound. The kubeconfig and the EdgeCluster may be there from the start. Three
  changes are a KnativeEdge with something that happens to it twice, or a
  deployment deleted and its successor edited; longer sequences are left to the
  proof of `QuietMeansCurrent`, which has no bound.

Deadlock checking is off: every one of these systems comes to rest when the
outside does nothing more (and the loop of `ListServices` ends with its manager).
Resting in a wrong state is what `SettledInSync` and the liveness properties rule out.

### Fairness

Weak fairness of the worker's steps, of timers and of watch delivery: the worker
goroutine always runs again, client-go redelivers, and requeued requests come
back from the rate limiter. In `Mirror` taking a given name off the queue is
strongly fair because the queue is first in first out. Resyncs are not fair in
`Mirror` (10 hours apart by default, nothing may depend on them) and are fair in
`Operator`, where the program sets them to one minute
(`cmd/operator/main.go:96`). `Operator` also takes the garbage collector to be
fair, and the process to be started again after a panic. The remote cluster is not
fair, neither in `Connected` nor in `DeliverCluster`: `DeploymentFollows` and
`KubeconfigFollows` have the hypothesis `Answers` (again and again it
lets itself be asked for its API, it refuses only for a while, and again and again
the connection is gone or its cache is filled and current), and `WorkerReturns` says
what happens without it. In
`Evaluation` minutes pass and the API servers answer, with success or failure;
Prometheus need not (`QueryAnswered`, `ExecuteFails` and `QueryPanics` are not
fair), and `OffloadingEnds` has the hypothesis that runs keep applying results to the
service (`AppliedTo`: it is in their list and their measurements); it uses no
other fairness. In `ListServices` the loop's exit is
strongly fair: a `select` chooses at random among ready cases. Users, faults,
restarts, relists and expiries are never fair.

## 4. The proofs

All for every value of the constants, under the named assumptions of the
modules (types of the constants, `None` different from everything else).

`MirrorProofs`
- `TypeCorrect` (`TypeOK`): the invariant is `TInv`, which adds that a pending
  write names the current request. The types are split into those of the
  local API server, of the remote one and of the controller, so that each
  action is concerned with one part.
- `VersionsManaged` (`ManagedVersions`): every version in the local cache, in an
  undelivered event or in an update being sent is one the API server gave out,
  and if the object still has it the object is managed. Kept by writes since
  they give out a larger version, by deliveries since they move an event into
  the cache, by decisions since an update carries the cached version.
- `UnmanagedSafe` (`UnmanagedUntouched`): from `ManagedVersions`. An accepted
  update names the present version of the object, hence a managed object; a
  create needs that there is none. Type correctness alone is not enough: without
  the history in `ManagedVersions` nothing excludes that a cached version is that
  of an unmanaged object.
- `ForwardOnly` (`NoRegress`). The invariant `OInv` adds to `ManagedVersions` the order
  of the remote watch (`RemoteOrdered`: what is cached is not newer than any event
  still to come, what is to come not newer than the object), that every version at
  the edge, read or about to be written is one the watch will not go below
  (`HeldBehind`), and that what the worker is about to write is not older than the
  copy or than what a late write would make of it (`WritesAhead`). The last part is
  what makes it inductive: two writers may be under way at once, the worker and a
  request of a stopped controller, and the version check alone does not order them.

`MirrorHistoryProofs`
- `ImplementsOneWayMirror` (`MirrorsOneWay`): `HistorySpec` implements
  `OneWayMirror!Spec` under the mapping. The initial states map to initial states,
  and each step to one abstract step or a stutter: `CloudStep` (publish, retract),
  `TouchStep` (users), `MirrorStep` (accepted writes, late and failing ones too).
  Needed from `HInv`: all that is read was published with its data
  (`ReadsGenuine`, `WritesGenuine`), no unpublished name has a managed object
  (`ManagedPublished`), and `OInv` for the versions.
- `NoHastyDeletion` (`DeletionsWarranted`) from `AbsenceWarranted`: when the cache has no
  object, or an event is about to take it away, every version that may be at the
  edge by then was withdrawn in the cloud after it was published.

`MirrorWakeupProofs`
- `NoLostWakeup` (`SettledInSync`) under `Filterable`: the local watch does not relist
  and users do not replace a copy without its annotations. These two let a user's
  edit pass for the mirror's own (section 7); the runs that check the property
  leave them out for the same reason. The invariant `WInv` adds to `OInv`:
  - `Watched`: what the remote cache and its events lead to is what the cloud
    publishes for the environments. `Agreed`: no two objects with the same name
    and version differ, so that comparing versions compares data.
  - `Marked`: the last-generation annotation names an older version than the
    object's own, and whatever is about to be written has the version it replaces
    written down and the data of the remote version it names.
  - `Continued`: the local cache and its events lead to the object; if no event from
    some point on is going to enqueue a request, what comes after that point are
    the mirror's own updates, which are faithful and go forward. This is what
    makes it safe that the filter drops them.
  - `Reading`: what the worker read, or decided from it, is what the remote cache
    has, or its name is queued again.
  - `Attended`: a name is queued, delayed or under way, or an event will enqueue it,
    or the copy is what the cache shows.

  `Attended` is the property without the quiescence, and needs all the others: a
  worker that finds nothing to do looked at two caches of different age
  (`ShownRead`), and a late write of a stopped controller may land on a copy
  nobody looks at any more (`ShownUpdated`, where `ForwardOnly`'s invariant is needed).

`MirrorWritesProofs`
- `NoFeedback` (`NoWriteLoop`), for either kind of merger, any number of disturbances and
  relists and without a hypothesis. The argument is an account for each name: four
  for a version of the cloud's object, three for a disturbance. What is held
  against it (`Weight`, `Gap`) are the versions the edge has given out, one for each
  request that is queued, delayed or in hand, for each event of the cloud and for
  each event of the edge that will enqueue a request (`Reports`), for a cloud object
  that may still be deleted, for a late write (`LateCost`), and for a name that has no
  copy or whose cloud object the worker does not see (`Absence`): an object that is
  created enqueues a request once more. A name may become absent again and again
  through stale reads, so an absence that comes back is paid from a version that
  is out of sight for good (`Floor`, `FloorMoves`). The invariant `LInv` adds to `OInv`:
  - `Allowed`: for some floor, all of this is within the account. A sum over events is
    not needed: an event costs one, and the first event of the edge nothing if the
    filter drops it.
  - `Sequenced`, `Followed`, `Signed`: both watches lead forward to what there is, and an
    update that is under way names the version it was decided on. So when one is
    accepted no event is outstanding and its own event is the first and is
    dropped (`UpdateSilent`): the point of the last-generation annotation.
  - `ReadScoped`, `Watched`, `Agreed`: a worker that has read an object does not delete.

  `WriteEdge` shows that the request that is taken pays for its write; the lemmas
  `BalancedCloud`, `BalancedEdge`, `BalancedWorker`, `BalancedLate` do the other actions,
  `AllowedPublished` and `AllowedRestarted` those that move the floor.

`EdgeProxyProofs`
- `PercentagesStored` (`TypeOK`), `ShareRecorded` (`SplitRecorded`) and `RefusalsKnown`
  (`RefusalsExplained`) from `EInv`: the recorded share is the split's wherever the
  service is held, in the server, the cache, the reconciler's hands or a call
  (`SplitsRecorded`; split and annotation are set together and no merge separates
  them); what is stored has passed the webhook (`StoredAdmitted`); until it is split
  the merged service has the traffic it was read with (`TrafficKept`), so a refusal
  comes from a fixed share that is no percentage, a first revision that is not ready,
  or a label gone from a service that was split.

`WorkOffloadProofs`
- `SharesArePercentages` (`TypeOK`) for any number of services and any inertia,
  negative and `Extreme` ones included, from `ClampRange`.
- `NoOvershoot` (`NeverOvershoots`) from `LoopInv`: what was read from the store
  is still its value when it is set, unless the cleanup took it away. This rests
  on the loop being the only writer between get and set, and it is what fails if a
  second writer is added. `BlendBetween` is the arithmetic: a weighted mean,
  rounded down, is between its arguments. That needs an inertia from 0 to 1 in the
  run at hand; other services may have any, and the theorem does not assume that
  annotations are sensible.
- `RunsComeCloser` (`ComesCloser`), also from `LoopInv`: with an inertia from 0 to 3/4 a
  run moves the stored share strictly towards what was measured, or leaves it within
  the rounding error (`BlendCloser`). `ShareSettles` counts: as long as the
  measurements ask for the same share, 100 runs bring any share to within the error,
  where it stays (`BlendStays`), by induction over the runs (`SetInduction`). These
  are the steps behind `Settles`; that runs do happen is what fairness adds.

`EvaluationProofs`
- `RunsComplete` (`RunsOnWhatWasListed`) and `NoGoroutineLeak` (`NoLeak`) from
  `Collected` (how far the producer is tells what was collected) and `Alive`
  (which goroutines live while the loop is where).
- `EvaluationsComplete` (`RunsOnWhatWasListed`) and `EvaluationsLeakNothing`
  (`NoLeak`): `EvaluationStep` shows that a step of `Evaluation` is a step of
  `ListServices`, a stutter or a panic, so the invariant
  carries over; `PanicInv` is the one new case.
- `SharesMeasured` (`SharesFromThisRun`) from `Measured`: the results are reached
  with the usage of this run, complete.
- `DesiredTrafficIsPercent` and `DesiredTrafficGrows`: for every latency and any
  limits, crossed and negative ones included, `GetResults` asks for a percentage
  (what `WorkOffload` assumes of it) and never for less when the latency is higher.
  `Quotient` and `QuotientGrows` are the arithmetic of the truncating division.
- The loop of `FinalizeKServiceMetrics`, by induction over its iterations
  (`SetInduction`, from the library's `WFMin`): `Sums` is a recursive function, so
  first `SumsExist` and `SumsEquation` show that its equation has a solution; then
  `SumsTyped` (numbers, whatever the decay), `SumsBetween` (with a decay that is not
  negative: a weighted mean lies between its arguments) and `SumsSlower` (the mean
  keeps the order). `LatenciesAre` and `LatenciesSlower` are the filling up of missing
  points, `MeasuresBounded` says that a series has a largest number.
- `CalmAsksForNothing`, `OverloadAsksForEverything` and `SlowerAsksForMore` are what
  follows for a share, for series of any length: all below the soft limit means none,
  all at both limits means everything, and slower in every minute never means less.
- `EvaluationsTyped` (`EvaluationTypeOK`) and `LatenciesMeasured` (`LatencyMeasured`)
  from `TypedInv`, which adds to the invariant above what every variable holds
  (`DataTyped`); they hold for any services, annotations, window and points.
- `LoadRaises` (`OnlyLoadRaises`) from the same invariant: a share that rises does so
  in `ApplyResults`, with the measurements of that run (`Measured`), and these are not
  calm (`CalmAsksForNothing`). With a soft limit of 0 a service without requests is
  offloaded, with a negative decay the mean may lie outside of what was measured.
- `OffloadingStops` (`OffloadingEnds`), a liveness property. Its hypothesis is about
  actions (results are applied to the service again and again) and not about
  fairness, so it needs no ENABLED, only four facts about steps and temporal logic:
  once what is measured stays calm, results that are calm stay so (`CalmStays`), a
  run that applies its results leaves none that are not (`AppliedForgets`), the next
  one sets the share to 0 (`CalmReturns`), and there it stays (`ReturnedStays`).

`OperatorProofs`
- `TypesHold` (`TypeOK`): the invariant `TInv` adds what each step of a reconciliation
  has in hand, such as a kubeconfig that parses where it connects (`Working`).
- `StatusTrusted` (`QuietMeansCurrent`). The reconciler compares generations only, so
  the invariant `SInv` has to say what stands behind each number wherever it is
  held: every cached or read KnativeEdge and EdgeCluster is one that was, none
  newer than the present one, and equal to it if its version or generation is
  (`EdgesForward`, `ClustersForward`); nothing that is read after a status was
  written is older than what the status claims (`Claims`), or a stale read could
  write an old deployment under a status that stays; a call under way carries
  what was read, and a status about to be written is true if it will be accepted
  (`Writing`); and the deployment, unless it was edited or deleted, is what the
  status claims (`Content`). The property has the hypothesis `GenerationsGrow`, which
  the first proof attempt forced (section 7). The run has three changes, the
  theorem any number.

TLC only:

- liveness (`Convergence`, `Settles`, `SplitComes`, `ConfigurationGoes`,
  `RequestsReachCloud`, `StopEndsLoop`, `OnlySilenceBlocks`, `DeploymentFollows`,
  `WorkerReturns`, `DependentsGo`), except `OffloadingEnds`: these follow from
  weak or strong fairness, whose definition has ENABLED, which is out of the prover's reach.

Every safety invariant and every action property that a run checks is stated by a
theorem of `PROJECT.json`, except those of the runs that expect a violation, which
are false.

## 5. What is not modelled

- The CPU, memory and pressure figures of nodes, pods and services: the strategy
  adds them up and only logs them. (The percentages of a service are always 0:
  `updateKServiceUsage` finalises them before `Execute` finalises the cluster
  capacities they are divided by.)
- The text of queries and of JSON; headers, bodies and the outgoing HTTP proxy of
  the proxy process; flags, probes, leader election (one instance at a time).
- Several KnativeEdges on the operator's one worker: `WorkerReturns` shows for one
  of them when the worker is held or the process crashes, which is then so for all.
- The spelling of the offload label: the reconciler takes "true" in any case, the
  loop's selector only "true" (`kservice_controller.go:62`).
- API types, manifests, generated code, end-to-end scripts. Of the vendored
  libraries only what the program relies on: relist and resync of informers,
  requeueing, owner references, traffic defaults and validation.
- The operator's other panic: a KnativeEdge without `spec.prometheus`
  (`knativeedge_reconciler.go:522`). The one at `:162` is `Panics` of `Operator`.
- Finite inertias that are no multiple of a quarter, or so large that float32 rounds.

## 6. Plan

Done, checked and proved about: every module of section 2, `MirrorHistory`'s
refinement of `OneWayMirror` included; `ProxyProcess` is checked with `EdgeProxy`.
Next:

1. Several KnativeEdges: equal names in different namespaces, one connection taken
   over by another.

## 7. Known limits met while modelling

- If the local watch relists after both an own write and a user's edit, the
  filter takes the single reported update for its own, and the edit stays until
  the next resync (`predicate.go:51`).
- A delete of the mirror carries no precondition, so an object from which the
  managed label was just taken can still be deleted (`mirroring_reconciler.go:170`).
- With an `EdgeCluster` deleted and created again (`Recreated` = TRUE)
  generations start over and the deployment may keep the old environments
  (`knativeedge_reconciler.go:383`).
- A deployment that is deleted, made again and then edited may also come back to
  the generation the status holds, with what was edited: the edit stays until
  something else changes (`knativeedge_reconciler.go:383`). This showed when the
  proof of `QuietMeansCurrent` could not be completed; `Deletion` and `Edit` are
  separate disturbances since, and `GenerationsGrow` excludes both together.
- `knativeedge_reconciler.go:162` uses the result of `ClientConfig()`, which is nil when
  the kubeconfig parses but names no usable context or cluster, before the error is
  checked at `:166`. The operator ends with a panic, for all KnativeEdges, as often as
  it is started, until the kubeconfig is changed; the event at `:167` that should
  report it is never recorded. `WorkerReturns` names this as an exception, and TLC
  finds it violated without that.
- The entry of a deleted KnativeEdge stays in `remoteClusters`, with its goroutine and
  its caches, and one created under the same name takes it over
  (`knativeedge_reconciler.go:189`).
- When `cluster.New` fails the operator goes on without the kubeconfig it has read and
  makes an empty copy, which stays empty (`knativeedge_reconciler.go:180`, `:264`);
  the deployment follows all the same once a connection is made.
- An inertia outside of 0 to 1 is accepted and lets a share overshoot: -0.5 takes it
  from 0 past 60 to 90 (`pkg/workoffload/runnable.go:260`).
- With a KnativeEdge outside the system namespace (`Owned` = FALSE) secret and
  deployment survive it (`:474`).
- The operator passes `clusterHostnameOrIp`, documented as a host name or an address
  (`pkg/apis/operator/v1alpha1/knativeedge_types.go:29`), as the remote URL
  (`knativeedge_reconciler.go:518`). The proxy parses a bare host as the path of a
  URL, finds no scheme, and answers every request with 502: `RequestsReachCloud`
  fails with `RemoteUrl` = "bare".
- The proxy reads `REMOTE_TIMEOUT` and `BIND_ADDRESS`, applies neither, and calls the
  cloud without a timeout (`cmd/proxy/main.go:155`, `:197`).
- The Prometheus client panics on 400 and 422 and on a point with less than two
  elements (`client.go:75`, `types.go:90`), which ends the controller process, and has
  no timeout. Both are actions of `Evaluation`.
- A Configuration is left behind when the remote service is deleted, and nothing
  deletes it (`kconfiguration_reconciler.go:91`).
- `hazards` in `PROJECT.json` has the complete list, with the properties that
  cover each.
