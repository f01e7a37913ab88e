------------------------------ MODULE EdgeProxy ------------------------------
(***************************************************************************)
(* The edge proxy of one service offered for compute offloading: what      *)
(* KServiceReconciler adds to the mirroring of a service.  In every        *)
(* reconciliation it keeps a Configuration of the proxy                    *)
(* (reconcileKConfiguration) and splits the traffic of the local service   *)
(* between its latest revision and the proxy's (reconcileKService); then   *)
(* the mirror writes the service.  Knative makes revisions ready, fills in *)
(* the default traffic and refuses traffic that does not add up.           *)
(*                                                                         *)
(* Mirror has the delivery of remote changes: here remote is what the      *)
(* remote cache holds.  Timers and the work queue are one flag, due.       *)
(***************************************************************************)
EXTENDS Integers, Sequences, ProxyProcess

CONSTANTS
    Hosts,    \* values of the remote URL's host
    Shares,   \* shares the traffic store may hold
    Fixed,    \* values of the fixed-traffic annotation, None: it is not there
    RemoteUrl, \* the controller's remote-url flag
    Budget    \* bound: how often each kind of outside change happens, and all together

Changes == {"remote", "store", "status", "fault", "restart", "all"}
Percent == 0..100

ASSUME EdgeProxyAssumption ==
    /\ Shares \subseteq Percent
    /\ Fixed \subseteq Int \cup {None}
    /\ RemoteUrl \in Urls
    /\ Budget \in [Changes -> Nat]
    /\ None \notin Int
    /\ None \notin Hosts

RemoteService == [offload : BOOLEAN, host : Hosts \cup {None}, fixed : Fixed \cup {None},
                  rv : Nat]

(* A target of the edge proxy; the revision None is the empty name.        *)
ProxyTarget(Percentages) ==
    [revision : Nat \cup {None}, tag : Nat, percent : Percentages]

(* latest is the percentage of the latest-revision target, None: no target.*)
(* rv is 0 as long as the service has not been created.                    *)
ServiceWith(Percentages) ==
    [rv : Nat, generation : Nat, lastRemote : Nat, offload : BOOLEAN,
     host : Hosts \cup {None}, fixed : Fixed \cup {None}, share : Percentages \cup {None},
     latest : Percentages \cup {None}, proxy : ProxyTarget(Percentages) \cup {None}]

LocalService == ServiceWith(Percent)

(* What the controller may try to write: nothing checks the fixed-traffic  *)
(* annotation.                                                             *)
Splits == Percent \cup UNION {{fixed, 100 - fixed} : fixed \in Fixed \ {None}}
WrittenService == ServiceWith(Splits)

Configuration == [rv : Nat, generation : Nat, host : Hosts \cup {None},
                  serviceGeneration : Nat, ready : Nat \cup {None}]

Calls == [op : {"create", "update", "delete"}, obj : WrittenService \cup Configuration]

ASSUME NoneIsNoRecord ==
    None \notin RemoteService \cup WrittenService \cup Configuration \cup ProxyTarget(Splits) \cup Calls

VARIABLES
    remote,      \* the service in the remote cache, or None
    store,       \* the share the traffic store holds for the service, or None
    local,       \* the service in the edge cluster, or None
    localCache,  \* the same in the controller's cache
    config,      \* the Configuration of the edge proxy, or None
    configCache, \* the same in the controller's cache
    revisions,   \* the host in the proxies' environment, by generation of the Configuration
    rvs,         \* the last resource version given to "remote", "local", "config"
    due,         \* is a reconciliation queued, or a timer for one running?
    at,          \* "idle", "configuration", "configCall", "service", "serviceCall"
    read,        \* the local service the reconciliation has read, or None
    copy,        \* the merged service it is working on, or None
    again,       \* has a preprocessor asked for another reconciliation?
    call,        \* the API call it is about to make, or None
    left         \* left[c]: how many more changes of kind c may happen

outside == <<remote, store, left>>
deployment == <<config, revisions>>
work == <<due, at, read, copy, again, call>>
vars == <<outside, local, localCache, deployment, configCache, rvs, work>>

Spend(c) ==
    /\ left[c] > 0 /\ left["all"] > 0
    /\ left' = [left EXCEPT ![c] = @ - 1, !["all"] = @ - 1]

------------------------------------------------------------------------------
(* What a reconciliation computes.                                         *)

NewService == [rv |-> 0, generation |-> 0, lastRemote |-> 0, offload |-> FALSE,
               host |-> None, fixed |-> None, share |-> None, latest |-> None, proxy |-> None]

KeptLabelMutant(rem, loc) ==
    [loc EXCEPT !.offload = @ \/ rem.offload,
                !.host = IF rem.host = None THEN @ ELSE rem.host,
                !.fixed = IF rem.fixed = None THEN @ ELSE rem.fixed,
                !.lastRemote = rem.rv]

(* kindMerger, and UpdateLastRemoteGenerationAnnotation.  Labels are       *)
(* replaced; annotations that the remote service has are set, none is      *)
(* ever taken away.  The traffic is not touched.                           *)
MergeService(rem, loc) ==
    [loc EXCEPT !.offload = rem.offload,
                !.host = IF rem.host = None THEN @ ELSE rem.host,
                !.fixed = IF rem.fixed = None THEN @ ELSE rem.fixed,
                !.lastRemote = rem.rv]

NewConfiguration == [rv |-> 0, generation |-> 0, host |-> None, serviceGeneration |-> 0,
                     ready |-> None]

BuiltOnceMutant(cfg, service) ==
    [cfg EXCEPT !.host = IF cfg.rv = 0 THEN service.host ELSE @,
                !.serviceGeneration = service.generation]

BuildConfiguration(cfg, service) ==
    [cfg EXCEPT !.host = service.host, !.serviceGeneration = service.generation]

(* The traffic annotation is parsed only for its error (see Recovered of   *)
(* WorkOffload): a share that can be parsed is not taken up.               *)
TrafficSplit(service) ==
    IF service.fixed # None THEN service.fixed ELSE IF store # None THEN store ELSE 0

LatestOnlyMutant(service, cfg) ==
    [service EXCEPT !.latest = 100,
                    !.share = TrafficSplit(service),
                    !.proxy = [revision |-> cfg.ready, tag |-> cfg.generation,
                               percent |-> TrafficSplit(service)]]

ReversedMutant(service, cfg) ==
    [service EXCEPT !.latest = TrafficSplit(service) - 100,
                    !.share = TrafficSplit(service),
                    !.proxy = [revision |-> cfg.ready, tag |-> cfg.generation,
                               percent |-> TrafficSplit(service)]]

UnrecordedMutant(service, cfg) ==
    [service EXCEPT !.latest = 100 - TrafficSplit(service),
                    !.proxy = [revision |-> cfg.ready, tag |-> cfg.generation,
                               percent |-> TrafficSplit(service)]]

Split(service, cfg) ==
    [service EXCEPT !.latest = 100 - TrafficSplit(service),
                    !.share = TrafficSplit(service),
                    !.proxy = [revision |-> cfg.ready, tag |-> cfg.generation,
                               percent |-> TrafficSplit(service)]]

UnreadyMutant(service, cfg) == cfg # None

(* The traffic is split if the Configuration exists and, unless the        *)
(* service already has a proxy target, has a revision.                     *)
CanSplit(service, cfg) == cfg # None /\ (service.proxy # None \/ cfg.ready # None)

RemoveEdgeProxyTarget(service) == [service EXCEPT !.proxy = None]

------------------------------------------------------------------------------
(* The API server of the edge cluster and Knative's webhook.               *)

TrafficOf(service) == <<service.latest, service.proxy>>

Defaulted(service) ==
    IF service.latest = None /\ service.proxy = None THEN [service EXCEPT !.latest = 100]
                                                     ELSE service

Percentage(percent) == IF percent = None THEN 0 ELSE percent

Valid(service) ==
    /\ Percentage(service.latest) \in Percent
    /\ Percentage(service.latest)
         + (IF service.proxy = None THEN 0 ELSE service.proxy.percent) = 100
    /\ service.proxy # None =>
          service.proxy.percent \in Percent /\ service.proxy.revision # None

(* Store a service; its generation counts the changes of its traffic.      *)
StoreService(service) ==
    /\ rvs' = [rvs EXCEPT !.local = @ + 1]
    /\ local' = [service EXCEPT !.rv = rvs.local + 1,
                                !.generation =
                                    IF local = None THEN 1
                                    ELSE IF TrafficOf(service) = TrafficOf(local)
                                         THEN local.generation ELSE local.generation + 1]

(* Its revisions go with a Configuration.                                  *)
DeleteConfiguration == config' = None /\ revisions' = <<>>

(* The status of a Configuration is not written by its updates.  A new     *)
(* generation has a revision of its own, which is never changed.           *)
StoreConfiguration(cfg) ==
    /\ revisions' = IF config = None THEN <<cfg.host>>
                    ELSE IF cfg.host = config.host THEN revisions
                    ELSE Append(revisions, cfg.host)
    /\ rvs' = [rvs EXCEPT !.config = @ + 1]
    /\ config' = [cfg EXCEPT !.rv = rvs.config + 1,
                             !.generation = IF config = None THEN 1
                                            ELSE IF cfg.host = config.host
                                                 THEN config.generation
                                                 ELSE config.generation + 1,
                             !.ready = IF config = None THEN None ELSE config.ready]

------------------------------------------------------------------------------
(* Nothing owns or deletes the Configuration of a service that is deleted  *)
(* in the cloud: one may be there from an earlier service of this name.    *)
Leftover(host) ==
    [rv |-> 1, generation |-> 1, host |-> host, serviceGeneration |-> 1, ready |-> 1]

Init ==
    /\ remote = None
    /\ store = None
    /\ local = None
    /\ localCache = None
    /\ \/ config = None /\ revisions = <<>>
       \/ \E host \in Hosts : config = Leftover(host) /\ revisions = <<host>>
    /\ configCache = config
    /\ rvs = [remote |-> 0, local |-> 0, config |-> IF config = None THEN 0 ELSE 1]
    /\ due = (config # None)
    /\ at = "idle"
    /\ read = None
    /\ copy = None
    /\ again = FALSE
    /\ call = None
    /\ left = Budget

(* The remote service is created, changed (label, URL, annotation) or      *)
(* deleted, and the remote watch queues the service.                       *)
RemoteChanges ==
    /\ Spend("remote")
    /\ \/ remote # None /\ remote' = None /\ UNCHANGED rvs
       \/ /\ \E offload \in BOOLEAN, host \in Hosts \cup {None}, fixed \in Fixed :
                remote' = [offload |-> offload, host |-> host, fixed |-> fixed,
                           rv |-> rvs.remote + 1]
          /\ rvs' = [rvs EXCEPT !.remote = @ + 1]
    /\ due' = TRUE
    /\ UNCHANGED <<store, local, localCache, deployment, configCache,
                   at, read, copy, again, call>>

(* The offloading loop sets another share, or the item expires.            *)
StoreChanges ==
    /\ Spend("store")
    /\ store' \in (Shares \cup {None}) \ {store}
    /\ UNCHANGED <<remote, local, localCache, deployment, configCache, rvs, work>>

(* Knative creates the revision of the Configuration's generation.         *)
RevisionReady ==
    /\ config # None /\ config.ready # config.generation
    /\ config' = [config EXCEPT !.ready = config.generation, !.rv = rvs.config + 1]
    /\ rvs' = [rvs EXCEPT !.config = @ + 1]
    /\ UNCHANGED <<outside, local, localCache, configCache, revisions, work>>

(* Knative updates the status of the service.                              *)
StatusChanges ==
    /\ local # None
    /\ Spend("status")
    /\ local' = [local EXCEPT !.rv = rvs.local + 1]
    /\ rvs' = [rvs EXCEPT !.local = @ + 1]
    /\ UNCHANGED <<remote, store, localCache, deployment, configCache, work>>

(* The local watch, which may queue the service (see Mirror).              *)
DeliverLocal ==
    /\ localCache # local
    /\ localCache' = local
    /\ due' \in {due, TRUE}
    /\ UNCHANGED <<outside, local, deployment, configCache, rvs, at, read, copy, again, call>>

(* LatestReadyRevisionChangedPredicate; creations and deletions pass too.  *)
LatestReadyRevisionChanged(old, new) == old = None \/ new = None \/ old.ready # new.ready

DeliverConfig ==
    /\ configCache # config
    /\ configCache' = config
    /\ due' = (due \/ LatestReadyRevisionChanged(configCache, config))
    /\ UNCHANGED <<outside, local, localCache, deployment, rvs, at, read, copy, again, call>>

------------------------------------------------------------------------------
(* A reconciliation.                                                       *)

Finish(requeue) ==
    /\ at' = "idle"
    /\ due' = (due \/ requeue)
    /\ read' = None
    /\ copy' = None
    /\ again' = FALSE
    /\ call' = None

(* The remote and the local service are read.                              *)
Begin ==
    /\ at = "idle" /\ due
    /\ due' = FALSE
    /\ again' = FALSE
    /\ IF remote = None
       THEN IF localCache = None
            THEN UNCHANGED <<at, read, copy, call>>
            ELSE /\ at' = "serviceCall"
                 /\ read' = localCache /\ copy' = localCache
                 /\ call' = [op |-> "delete", obj |-> localCache]
       ELSE /\ at' = "configuration"
            /\ read' = localCache
            /\ copy' = MergeService(remote, IF localCache = None THEN NewService ELSE localCache)
            /\ UNCHANGED call
    /\ UNCHANGED <<outside, local, localCache, deployment, configCache, rvs>>

(* reconcileKConfiguration.                                                *)
ReadConfiguration ==
    /\ at = "configuration"
    /\ LET cfg == configCache
           built == BuildConfiguration(IF cfg = None THEN NewConfiguration ELSE cfg, copy)
           Do(op, obj) == /\ at' = "configCall"
                          /\ call' = [op |-> op, obj |-> obj]
                          /\ UNCHANGED again
           Nothing(ask) == /\ at' = "service"
                           /\ again' = (again \/ ask)
                           /\ UNCHANGED call
       IN  CASE copy.rv = 0 -> Nothing(TRUE)
             [] copy.rv # 0 /\ copy.offload /\ cfg = None -> Do("create", built)
             [] copy.rv # 0 /\ copy.offload /\ cfg # None ->
                    IF built # cfg THEN Do("update", built) ELSE Nothing(FALSE)
             [] copy.rv # 0 /\ ~copy.offload /\ cfg = None -> Nothing(FALSE)
             [] copy.rv # 0 /\ ~copy.offload /\ cfg # None -> Do("delete", cfg)
    /\ UNCHANGED <<outside, local, localCache, deployment, configCache, rvs, due, read, copy>>

(* The second preprocessor follows, unless the call failed otherwise than  *)
(* with a conflict.                                                        *)
ToService(ask) ==
    /\ at' = "service"
    /\ again' = (again \/ ask)
    /\ call' = None
    /\ UNCHANGED <<due, read, copy>>

ConfigCall ==
    /\ at = "configCall"
    /\ CASE call.op = "create" ->
              IF config = None THEN StoreConfiguration(call.obj) /\ ToService(TRUE)
                               ELSE UNCHANGED <<deployment, rvs>> /\ Finish(TRUE)
         [] call.op = "update" ->
              IF config = None THEN UNCHANGED <<deployment, rvs>> /\ Finish(TRUE)
              ELSE IF config.rv # call.obj.rv THEN UNCHANGED <<deployment, rvs>> /\ ToService(TRUE)
              ELSE StoreConfiguration(call.obj) /\ ToService(TRUE)
         [] call.op = "delete" ->
              DeleteConfiguration /\ UNCHANGED rvs /\ ToService(FALSE)
    /\ UNCHANGED <<outside, local, localCache, configCache>>

(* The mirror's write, with the service the preprocessors made.            *)
ToWrite(service, ask) ==
    IF read = None \/ service # read
    THEN /\ at' = "serviceCall"
         /\ call' = [op |-> IF read = None THEN "create" ELSE "update", obj |-> service]
         /\ again' = (again \/ ask)
         /\ UNCHANGED <<due, read, copy>>
    ELSE Finish(again \/ ask)

(* reconcileKService without the offload label: the Configuration is       *)
(* deleted, the target removed.                                            *)
WithoutProxy ==
    /\ at = "service" /\ ~copy.offload
    /\ IF configCache = None THEN UNCHANGED deployment ELSE DeleteConfiguration
    /\ ToWrite(RemoveEdgeProxyTarget(copy), FALSE)
    /\ UNCHANGED <<outside, local, localCache, configCache, rvs>>

(* reconcileKService with the label; every path asks for another           *)
(* reconciliation in some seconds.                                         *)
WithProxy ==
    /\ at = "service" /\ copy.offload
    /\ ToWrite(IF CanSplit(copy, configCache) THEN Split(copy, configCache) ELSE copy, TRUE)
    /\ UNCHANGED <<outside, local, localCache, deployment, configCache, rvs>>

(* A refused or failing call is retried, except the deletion of a service  *)
(* that does not exist.                                                    *)
ServiceCall ==
    /\ at = "serviceCall"
    /\ CASE call.op = "create" ->
              IF local = None /\ Valid(Defaulted(call.obj))
              THEN StoreService(Defaulted(call.obj)) /\ Finish(again)
              ELSE UNCHANGED <<local, rvs>> /\ Finish(TRUE)
         [] call.op = "update" ->
              IF local # None /\ local.rv = call.obj.rv /\ Valid(Defaulted(call.obj))
              THEN StoreService(Defaulted(call.obj)) /\ Finish(again)
              ELSE UNCHANGED <<local, rvs>> /\ Finish(TRUE)
         [] call.op = "delete" ->
              local' = None /\ UNCHANGED rvs /\ Finish(again)
    /\ UNCHANGED <<outside, localCache, deployment, configCache>>

(* A call (the deletion in WithoutProxy included) fails for another reason *)
(* and is not carried out.                                                 *)
CallFails ==
    /\ \/ at \in {"configCall", "serviceCall"}
       \/ at = "service" /\ ~copy.offload /\ configCache # None
    /\ Spend("fault")
    /\ Finish(TRUE)
    /\ UNCHANGED <<remote, store, local, localCache, deployment, configCache, rvs>>

Restart ==
    /\ Spend("restart")
    /\ store' = None
    /\ localCache' = local
    /\ configCache' = config
    /\ at' = "idle" /\ read' = None /\ copy' = None /\ again' = FALSE /\ call' = None
    /\ due' = (remote # None \/ local # None \/ config # None)
    /\ UNCHANGED <<remote, local, deployment, rvs>>

Next ==
    \/ RemoteChanges \/ StoreChanges \/ RevisionReady \/ StatusChanges
    \/ DeliverLocal \/ DeliverConfig
    \/ Begin \/ ReadConfiguration \/ ConfigCall \/ WithoutProxy \/ WithProxy \/ ServiceCall
    \/ CallFails \/ Restart

Spec == Init /\ [][Next]_vars

(* The watches deliver, Knative makes revisions ready, and the worker runs *)
(* whatever its queue and its timers hold.                                 *)
Fairness ==
    /\ WF_vars(RevisionReady) /\ WF_vars(DeliverLocal) /\ WF_vars(DeliverConfig)
    /\ WF_vars(Begin)
    /\ WF_vars(ReadConfiguration) /\ WF_vars(ConfigCall)
    /\ WF_vars(WithoutProxy \/ WithProxy) /\ WF_vars(ServiceCall)

FairSpec == Spec /\ Fairness

------------------------------------------------------------------------------
(* Properties.                                                             *)

(* Every variable keeps its type: above all, no service is ever split into *)
(* anything but percentages.  A Configuration has a revision per generation.*)
TypeOK ==
    /\ remote \in RemoteService \cup {None}
    /\ store \in Percent \cup {None}
    /\ {local, localCache, read, copy} \subseteq LocalService \cup {None}
    /\ {config, configCache} \subseteq Configuration \cup {None}
    /\ revisions \in Seq(Hosts \cup {None})
    /\ Len(revisions) = IF config = None THEN 0 ELSE config.generation
    /\ rvs \in [{"remote", "local", "config"} -> Nat]
    /\ due \in BOOLEAN
    /\ at \in {"idle", "configuration", "configCall", "service", "serviceCall"}
    /\ again \in BOOLEAN
    /\ call \in Calls \cup {None}
    /\ left \in [Changes -> Nat]

(* The annotation that is to survive a restart is the share in force: it   *)
(* and the two percentages of a split service always agree.                *)
SplitRecorded ==
    local # None /\ local.proxy # None
        => local.share = local.proxy.percent /\ local.latest = 100 - local.share

(* The webhook refuses a write of the controller in three cases only: the  *)
(* offload label is gone while the proxy still has a share, which nobody   *)
(* gives back to the latest revision; a service that is already split has  *)
(* a Configuration whose first revision is not ready yet; or the           *)
(* fixed-traffic annotation is no percentage.                              *)
RefusalsExplained ==
    at = "serviceCall" /\ call.op # "delete" /\ ~Valid(Defaulted(call.obj))
        => IF call.obj.offload
           THEN \/ call.obj.fixed \notin Percent \cup {None}
                \/ read # None /\ read.proxy # None /\ call.obj.proxy.revision = None
           ELSE read # None /\ read.proxy # None /\ read.proxy.percent > 0

Offloaded == remote # None /\ remote.offload

(* Once nothing changes any more a service with the offload label is split *)
(* between its latest revision and the newest one of the proxy, as the     *)
(* store or the fixed-traffic annotation says: after restarts, conflicts,  *)
(* failing calls, and proxies deleted and created again.  Unless the       *)
(* annotation is no percentage: then every write of the service is refused.*)
FixedShare == MergeService(remote, IF local = None THEN NewService ELSE local).fixed

Splittable == Offloaded /\ FixedShare \in Percent \cup {None}

SplitInForce ==
    /\ local # None /\ config # None
    /\ config.ready = config.generation
    /\ config.host = local.host
    /\ local.latest = 100 - TrafficSplit(local)
    /\ local.proxy = [revision |-> config.ready, tag |-> config.generation,
                      percent |-> TrafficSplit(local)]

SplitComes == <>[](Splittable => SplitInForce)

(* Once nothing changes any more the requests that are split off are given *)
(* to proxies that know the remote host, and get the answer of the cloud:  *)
(* none is left to a revision from before the host was known or changed.   *)
(* That takes a remote URL that is absolute; every request is refused with *)
(* the mere host name the operator passes on.                              *)
Reaches ==
    /\ local # None /\ local.proxy # None
    /\ local.proxy.revision \in DOMAIN revisions
    /\ \A status \in {"ok", "not found"} :
          Answer([url |-> RemoteUrl, host |-> revisions[local.proxy.revision]], TRUE, status)
             = [status |-> status, to |-> remote.host]

RequestsReachCloud ==
    RemoteUrl = "absolute" => <>[](Splittable /\ remote.host # None => Reaches)

(* Once nothing changes any more a service without the label has no proxy  *)
(* Configuration left, whatever the caches showed when it was deleted.     *)
ConfigurationGoes == <>[](remote # None /\ ~Offloaded => config = None)

(* What the test "should delete edge proxy route" expects once the label   *)
(* is removed: no proxy target in the traffic of the mirrored service.     *)
TargetGoes ==
    <>[](remote # None /\ ~Offloaded => local # None /\ local.proxy = None)

==============================================================================
