--------------------------- MODULE EdgeProxyProofs ---------------------------
(***************************************************************************)
(* Theorems about EdgeProxy, for every value of its constants.             *)
(***************************************************************************)
EXTENDS EdgeProxy, TLAPS

(* What a reconciliation has in hand at each of its steps; only a split    *)
(* may write something else than percentages.                              *)
Working ==
    /\ at # "idle" => copy # None
    /\ at = "configCall" => call # None /\ call.obj \in Configuration
    /\ at = "serviceCall" => /\ call # None /\ call.obj \in WrittenService
                             /\ call.obj.proxy = None => call.obj \in LocalService

(* The share of a split service is written down in its annotation.         *)
Recorded(service) ==
    service # None /\ service.proxy # None =>
        service.share = service.proxy.percent /\ service.latest = 100 - service.share

SplitsRecorded ==
    /\ Recorded(local) /\ Recorded(localCache) /\ Recorded(read) /\ Recorded(copy)
    /\ at = "serviceCall" => Recorded(call.obj)

(* What is stored has passed the webhook.                                  *)
Admitted(service) == service # None => Valid(service)

StoredAdmitted == Admitted(local) /\ Admitted(localCache) /\ Admitted(read)

(* Until it is split the merged service has the traffic it was read with.  *)
TrafficKept ==
    copy # None => TrafficOf(copy) = IF read = None THEN <<None, None>> ELSE TrafficOf(read)

EInv == TypeOK /\ Working /\ SplitsRecorded /\ StoredAdmitted /\ TrafficKept
               /\ RefusalsExplained

------------------------------------------------------------------------------
(* Services and Configurations.                                            *)

(* A merge gives no service another traffic.                               *)
LEMMA MergeKeeps ==
    ASSUME NEW rem \in RemoteService, NEW loc \in LocalService
    PROVE  LET merged == MergeService(rem, loc)
           IN  /\ merged \in LocalService
               /\ merged.latest = loc.latest /\ merged.proxy = loc.proxy
               /\ merged.share = loc.share /\ merged # None
<1>1. MergeService(rem, loc) \in LocalService
  BY ZenonT(30) DEF MergeService, RemoteService, LocalService, ServiceWith
<1>2. MergeService(rem, loc) \in WrittenService
  <2>1. Percent \subseteq Splits
    BY DEF Splits
  <2> QED BY <1>1, <2>1 DEF LocalService, WrittenService, ServiceWith, ProxyTarget
<1>3. MergeService(rem, loc) # None
  BY <1>2, NoneIsNoRecord
<1> QED BY <1>1, <1>3 DEF MergeService, LocalService, ServiceWith

(* A stored service can be written back.                                   *)
LEMMA LocalIsWritten == LocalService \subseteq WrittenService
<1>1. Percent \subseteq Splits
  BY DEF Splits
<1> QED BY <1>1 DEF LocalService, WrittenService, ServiceWith, ProxyTarget

(* So is one that is new.                                                  *)
LEMMA NewServiceType == NewService \in LocalService
BY DEF NewService, LocalService, ServiceWith

(* The share and what is left of the traffic.                              *)
LEMMA TrafficSplitType ==
    ASSUME TypeOK, NEW service \in LocalService
    PROVE  /\ TrafficSplit(service) \in Int
           /\ TrafficSplit(service) \in Splits /\ 100 - TrafficSplit(service) \in Splits
           /\ service.fixed \in Percent \cup {None} => TrafficSplit(service) \in Percent
<1>1. store \in Percent \cup {None} /\ service.fixed \in Fixed \cup {None}
  BY DEF TypeOK, LocalService, ServiceWith
<1>2. CASE service.fixed # None
  <2>1. TrafficSplit(service) = service.fixed /\ service.fixed \in Fixed \ {None}
    BY <1>1, <1>2 DEF TrafficSplit
  <2>2. service.fixed \in Int
    BY <2>1, EdgeProxyAssumption
  <2> QED BY <2>1, <2>2 DEF Splits
<1>3. CASE service.fixed = None
  <2>1. TrafficSplit(service) \in Percent
    BY <1>1, <1>3 DEF TrafficSplit, Percent
  <2>2. 100 - TrafficSplit(service) \in Percent /\ TrafficSplit(service) \in Int
    BY <2>1 DEF Percent
  <2> QED BY <2>1, <2>2 DEF Splits
<1> QED BY <1>2, <1>3

(* A split service.                                                        *)
LEMMA SplitType ==
    ASSUME TypeOK, NEW service \in LocalService, NEW cfg \in Configuration
    PROVE  LET split == Split(service, cfg)
           IN  /\ split \in WrittenService
               /\ split.proxy # None /\ split.proxy.revision = cfg.ready
               /\ split.proxy.percent = TrafficSplit(service)
               /\ split.share = TrafficSplit(service)
               /\ split.latest = 100 - TrafficSplit(service)
               /\ split.offload = service.offload /\ split.fixed = service.fixed
<1> DEFINE target == [revision |-> cfg.ready, tag |-> cfg.generation,
                      percent |-> TrafficSplit(service)]
<1>1. /\ TrafficSplit(service) \in Splits /\ 100 - TrafficSplit(service) \in Splits
  BY TrafficSplitType
<1>2. target \in ProxyTarget(Splits)
  BY <1>1 DEF Configuration, ProxyTarget
<1>3. target # None
  BY <1>2, NoneIsNoRecord
<1>4. service \in WrittenService
  BY LocalIsWritten
<1>5. target.revision = cfg.ready /\ target.percent = TrafficSplit(service)
  OBVIOUS
<1>6. Split(service, cfg) = [service EXCEPT !.latest = 100 - TrafficSplit(service),
                                            !.share = TrafficSplit(service), !.proxy = target]
  BY DEF Split
<1> HIDE DEF target
<1> QED BY <1>1, <1>2, <1>3, <1>4, <1>5, <1>6 DEF WrittenService, ServiceWith

(* The webhook's default touches nothing but an empty traffic.             *)
LEMMA DefaultedKeeps ==
    ASSUME NEW service \in WrittenService
    PROVE  LET stored == Defaulted(service)
           IN  /\ stored \in WrittenService /\ stored # None
               /\ stored.proxy = service.proxy /\ stored.share = service.share
               /\ stored.latest = IF service.latest = None /\ service.proxy = None THEN 100
                                  ELSE service.latest
               /\ service \in LocalService => stored \in LocalService
<1>1. 100 \in Percent /\ 100 \in Splits
  BY DEF Percent, Splits
<1>2. Defaulted(service) \in WrittenService
  BY <1>1 DEF Defaulted, WrittenService, ServiceWith
<1>3. Defaulted(service) # None
  BY <1>2, NoneIsNoRecord
<1>4. service \in LocalService => Defaulted(service) \in LocalService
  BY <1>1 DEF Defaulted, LocalService, ServiceWith
<1> QED BY <1>2, <1>3, <1>4 DEF Defaulted, WrittenService, ServiceWith

(* The API server stores percentages, recorded and admitted.               *)
LEMMA ServiceStored ==
    ASSUME TypeOK, NEW service \in WrittenService, service.proxy = None => service \in LocalService,
           Recorded(service), Valid(Defaulted(service)), StoreService(Defaulted(service))
    PROVE  /\ local' \in LocalService
           /\ rvs' \in [{"remote", "local", "config"} -> Nat]
           /\ Recorded(local') /\ Admitted(local')
<1> DEFINE stored == Defaulted(service)
<1>1. /\ stored \in WrittenService /\ stored # None
      /\ stored.proxy = service.proxy /\ stored.share = service.share
      /\ stored.latest = IF service.latest = None /\ service.proxy = None THEN 100
                         ELSE service.latest
      /\ service \in LocalService => stored \in LocalService
  BY DefaultedKeeps
<1>2. service # None
  BY NoneIsNoRecord
<1>3. Recorded(stored) /\ Valid(stored) /\ StoreService(stored)
  BY <1>1, <1>2 DEF Recorded
<1> HIDE DEF stored
<1>4. stored \in LocalService
  <2>1. CASE service.proxy = None
    BY <1>1, <2>1
  <2>2. CASE service.proxy # None
    <3>1. stored.proxy # None /\ stored.proxy \in ProxyTarget(Splits)
          /\ stored.latest \in Splits \cup {None}
      BY <1>1, <2>2 DEF WrittenService, ServiceWith
    <3>2. stored.proxy.percent \in Percent /\ stored.latest \in Percent \cup {None}
      BY <1>3, <3>1 DEF Valid, Percentage
    <3>3. stored.share \in Percent
      BY <1>1, <1>3, <3>1, <3>2 DEF Recorded
    <3>4. stored.proxy \in ProxyTarget(Percent)
      BY <3>1, <3>2 DEF ProxyTarget
    <3> QED BY <1>1, <3>2, <3>3, <3>4 DEF WrittenService, LocalService, ServiceWith
  <2> QED BY <2>1, <2>2
<1>5. rvs \in [{"remote", "local", "config"} -> Nat] /\ local \in LocalService \cup {None}
  BY DEF TypeOK
<1>6. /\ rvs' \in [{"remote", "local", "config"} -> Nat]
      /\ \E rv, generation \in Nat :
            local' = [stored EXCEPT !.rv = rv, !.generation = generation]
  <2> DEFINE generation == IF local = None THEN 1
                           ELSE IF TrafficOf(stored) = TrafficOf(local)
                                THEN local.generation ELSE local.generation + 1
  <2>1. /\ rvs' = [rvs EXCEPT !.local = @ + 1]
        /\ local' = [stored EXCEPT !.rv = rvs.local + 1, !.generation = generation]
    BY <1>3 DEF StoreService
  <2>2. generation \in Nat
    <3>1. local # None => local.generation \in Nat
      BY <1>5 DEF LocalService, ServiceWith
    <3> QED BY <3>1
  <2>3. rvs.local + 1 \in Nat /\ [rvs EXCEPT !.local = @ + 1] \in [{"remote", "local", "config"} -> Nat]
    BY <1>5
  <2> HIDE DEF generation
  <2> QED BY <2>1, <2>2, <2>3
<1>7. /\ local' \in LocalService
      /\ local'.proxy = stored.proxy /\ local'.share = stored.share
      /\ local'.latest = stored.latest
  BY <1>4, <1>6 DEF LocalService, ServiceWith
<1>8. local' # None
  BY <1>7, LocalIsWritten, NoneIsNoRecord
<1> QED BY <1>1, <1>3, <1>6, <1>7, <1>8 DEF Recorded, Admitted, Valid

(* A Configuration has a revision per generation, also when it is stored.  *)
ConfigurationTypes ==
    /\ config \in Configuration \cup {None}
    /\ revisions \in Seq(Hosts \cup {None})
    /\ Len(revisions) = IF config = None THEN 0 ELSE config.generation
    /\ rvs \in [{"remote", "local", "config"} -> Nat]

(* The API server keeps that.                                              *)
LEMMA ConfigurationStored ==
    ASSUME ConfigurationTypes, NEW cfg \in Configuration, StoreConfiguration(cfg)
    PROVE  ConfigurationTypes'
<1> DEFINE S == Hosts \cup {None}
           generation == IF config = None THEN 1
                         ELSE IF cfg.host = config.host THEN config.generation
                                                        ELSE config.generation + 1
           ready == IF config = None THEN None ELSE config.ready
<1>1. /\ revisions' = IF config = None THEN <<cfg.host>>
                      ELSE IF cfg.host = config.host THEN revisions
                      ELSE Append(revisions, cfg.host)
      /\ rvs' = [rvs EXCEPT !.config = @ + 1]
      /\ config' = [cfg EXCEPT !.rv = rvs.config + 1, !.generation = generation,
                               !.ready = ready]
  BY DEF StoreConfiguration
<1>2. generation \in Nat /\ ready \in Nat \cup {None} /\ rvs.config + 1 \in Nat
  BY DEF ConfigurationTypes, Configuration
<1>3. revisions \in Seq(S) /\ cfg.host \in S
  BY DEF ConfigurationTypes, Configuration
<1>4. config # None => Len(revisions) = config.generation
  BY DEF ConfigurationTypes
<1>5. revisions' \in Seq(S) /\ Len(revisions') = generation
  <2> HIDE DEF S
  <2>1. CASE config = None
    <3>1. revisions' = <<cfg.host>> /\ generation = 1
      BY <1>1, <2>1
    <3> QED BY <1>3, <3>1
  <2>2. CASE config # None /\ cfg.host = config.host
    BY <1>1, <1>3, <1>4, <2>2
  <2>3. CASE config # None /\ cfg.host # config.host
    <3>1. revisions' = Append(revisions, cfg.host) /\ generation = config.generation + 1
      BY <1>1, <2>3
    <3> QED BY <1>3, <1>4, <2>3, <3>1
  <2> QED BY <2>1, <2>2, <2>3
<1> HIDE DEF generation, ready
<1>6. config' \in Configuration /\ config'.generation = generation
  BY <1>1, <1>2 DEF Configuration
<1>7. config' # None
  BY <1>6, NoneIsNoRecord
<1>8. rvs' \in [{"remote", "local", "config"} -> Nat]
  BY <1>1 DEF ConfigurationTypes
<1> QED BY <1>5, <1>6, <1>7, <1>8 DEF ConfigurationTypes

------------------------------------------------------------------------------
(* The steps.                                                              *)

(* The invariant holds at first.                                           *)
LEMMA EInvInit == Init => EInv
<1> SUFFICES ASSUME Init PROVE EInv
  OBVIOUS
<1>1. TypeOK
  <2>1. /\ config \in Configuration \cup {None}
        /\ revisions \in Seq(Hosts \cup {None})
        /\ Len(revisions) = IF config = None THEN 0 ELSE config.generation
    <3>1. CASE config = None /\ revisions = <<>>
      BY <3>1
    <3>2. ASSUME NEW host \in Hosts, config = Leftover(host), revisions = <<host>>
          PROVE  /\ config \in Configuration /\ config.generation = 1
                 /\ revisions \in Seq(Hosts \cup {None}) /\ Len(revisions) = 1
      BY <3>2 DEF Leftover, Configuration
    <3> QED BY <3>1, <3>2, NoneIsNoRecord DEF Init
  <2>2. rvs \in [{"remote", "local", "config"} -> Nat] /\ due \in BOOLEAN
    BY DEF Init
  <2>3. left \in [Changes -> Nat]
    BY EdgeProxyAssumption DEF Init
  <2>4. /\ remote = None /\ store = None /\ local = None /\ localCache = None
        /\ read = None /\ copy = None /\ configCache = config
        /\ at = "idle" /\ again \in BOOLEAN /\ call = None
    BY DEF Init
  <2> QED BY <2>1, <2>2, <2>3, <2>4 DEF TypeOK
<1>2. /\ Working /\ SplitsRecorded /\ StoredAdmitted /\ TrafficKept /\ RefusalsExplained
  BY DEF Init, Working, SplitsRecorded, Recorded, StoredAdmitted, Admitted, TrafficKept,
         RefusalsExplained
<1> QED BY <1>1, <1>2 DEF EInv

(* The work in hand stays as it is.                                        *)
Resting == UNCHANGED <<at, read, copy, again, call>>

(* Then only the services and the types matter.                            *)
LEMMA RestingKeeps ==
    ASSUME EInv, Resting, TypeOK', Recorded(local)', Recorded(localCache)',
           Admitted(local)', Admitted(localCache)'
    PROVE  EInv'
BY DEF EInv, Resting, Working, SplitsRecorded, StoredAdmitted, TrafficKept,
       RefusalsExplained, Recorded, Admitted, TrafficOf, Valid, Defaulted

(* The cloud, the store, Knative and the watches leave it alone.           *)
LEMMA EInvOutside ==
    ASSUME EInv,
           RemoteChanges \/ StoreChanges \/ RevisionReady \/ StatusChanges
             \/ DeliverLocal \/ DeliverConfig
    PROVE  EInv'
<1>1. /\ TypeOK /\ Recorded(local) /\ Recorded(localCache)
      /\ Admitted(local) /\ Admitted(localCache)
  BY DEF EInv, SplitsRecorded, StoredAdmitted
<1>2. Resting
  BY DEF RemoteChanges, StoreChanges, RevisionReady, StatusChanges, DeliverLocal,
         DeliverConfig, Resting, work
<1>3. \A d \in Changes : Spend(d) => left' \in [Changes -> Nat]
  BY SMTT(30), <1>1 DEF TypeOK, Spend, Changes
<1>4. CASE RemoteChanges
  <2>1. left' \in [Changes -> Nat]
    BY <1>3, <1>4 DEF RemoteChanges, Changes
  <2>2. remote' \in RemoteService \cup {None} /\ rvs' \in [{"remote", "local", "config"} -> Nat]
    BY <1>1, <1>4 DEF RemoteChanges, TypeOK, RemoteService
  <2>3. UNCHANGED <<store, local, localCache, deployment, configCache>> /\ due' = TRUE
    BY <1>4 DEF RemoteChanges
  <2>4. TypeOK'
    BY <1>1, <1>2, <2>1, <2>2, <2>3 DEF TypeOK, deployment, Resting
  <2> QED BY <1>1, <1>2, <2>3, <2>4, RestingKeeps DEF Recorded, Admitted, Valid
<1>5. CASE StoreChanges
  <2>1. left' \in [Changes -> Nat]
    BY <1>3, <1>5 DEF StoreChanges, Changes
  <2>2. store' \in Percent \cup {None}
    BY <1>5, EdgeProxyAssumption DEF StoreChanges
  <2>3. UNCHANGED <<remote, local, localCache, deployment, configCache, rvs, due>>
    BY <1>5 DEF StoreChanges, work
  <2>4. TypeOK'
    BY <1>1, <1>2, <2>1, <2>2, <2>3 DEF TypeOK, deployment, Resting
  <2> QED BY <1>1, <1>2, <2>3, <2>4, RestingKeeps DEF Recorded, Admitted, Valid
<1>6. CASE RevisionReady
  <2>1. UNCHANGED <<remote, store, left, local, localCache, configCache, revisions, due>>
    BY <1>6 DEF RevisionReady, outside, work
  <2>2. /\ config # None /\ config \in Configuration
        /\ config' = [config EXCEPT !.ready = config.generation, !.rv = rvs.config + 1]
        /\ rvs' = [rvs EXCEPT !.config = @ + 1]
    BY <1>1, <1>6 DEF RevisionReady, TypeOK
  <2>3. /\ rvs.config + 1 \in Nat
        /\ rvs' \in [{"remote", "local", "config"} -> Nat]
    <3>1. rvs \in [{"remote", "local", "config"} -> Nat]
      BY <1>1 DEF TypeOK
    <3> QED BY <2>2, <3>1
  <2>4. config' \in Configuration /\ config'.generation = config.generation
    BY <2>2, <2>3 DEF Configuration
  <2>5. config' # None
    BY <2>4, NoneIsNoRecord
  <2>6. TypeOK'
    BY <1>1, <1>2, <2>1, <2>2, <2>3, <2>5, <2>4 DEF TypeOK, Resting
  <2> QED BY <1>1, <1>2, <2>1, <2>6, RestingKeeps DEF Recorded, Admitted, Valid
<1>7. CASE StatusChanges
  <2>1. left' \in [Changes -> Nat]
    BY <1>3, <1>7 DEF StatusChanges, Changes
  <2>2. UNCHANGED <<remote, store, localCache, deployment, configCache, due>>
    BY <1>7 DEF StatusChanges, work
  <2>3. /\ local # None /\ local \in LocalService
        /\ local' = [local EXCEPT !.rv = rvs.local + 1]
        /\ rvs' = [rvs EXCEPT !.local = @ + 1]
    BY <1>1, <1>7 DEF StatusChanges, TypeOK
  <2>4. /\ rvs.local + 1 \in Nat
        /\ rvs' \in [{"remote", "local", "config"} -> Nat]
    <3>1. rvs \in [{"remote", "local", "config"} -> Nat]
      BY <1>1 DEF TypeOK
    <3> QED BY <2>3, <3>1
  <2>5. /\ local' \in LocalService
        /\ local'.proxy = local.proxy /\ local'.share = local.share
        /\ local'.latest = local.latest
    BY <2>3, <2>4 DEF LocalService, ServiceWith
  <2>6. TypeOK'
    BY <1>1, <1>2, <2>1, <2>2, <2>5, <2>4 DEF TypeOK, deployment, Resting
  <2> QED BY <1>1, <1>2, <2>2, <2>3, <2>5, <2>6, RestingKeeps DEF Recorded, Admitted, Valid
<1>8. CASE DeliverLocal
  <2>1. UNCHANGED <<remote, store, left, local, deployment, configCache, rvs>>
    BY <1>8 DEF DeliverLocal, outside
  <2>2. localCache' = local /\ due' \in BOOLEAN
    BY <1>1, <1>8 DEF DeliverLocal, TypeOK
  <2>3. TypeOK'
    BY <1>1, <1>2, <2>1, <2>2 DEF TypeOK, deployment, Resting
  <2> QED BY <1>1, <1>2, <2>1, <2>2, <2>3, RestingKeeps DEF Recorded, Admitted, Valid
<1>9. CASE DeliverConfig
  <2>1. /\ UNCHANGED <<remote, store, left, local, localCache, deployment, rvs>>
        /\ configCache' = config
    BY <1>9 DEF DeliverConfig, outside
  <2>2. due' \in BOOLEAN
    BY <1>1, <1>9 DEF DeliverConfig, TypeOK, LatestReadyRevisionChanged
  <2>3. TypeOK'
    BY <1>1, <1>2, <2>1, <2>2 DEF TypeOK, deployment, Resting
  <2> QED BY <1>1, <1>2, <2>1, <2>3, RestingKeeps DEF Recorded, Admitted, Valid
<1> QED BY <1>4, <1>5, <1>6, <1>7, <1>8, <1>9

(* Between reconciliations only the services and the types matter.         *)
LEMMA IdleKeeps ==
    ASSUME TypeOK', at' = "idle", read' = None, copy' = None,
           Recorded(local)', Recorded(localCache)', Admitted(local)', Admitted(localCache)'
    PROVE  EInv'
BY DEF EInv, Working, SplitsRecorded, StoredAdmitted, TrafficKept, RefusalsExplained,
       Recorded, Admitted

(* A reconciliation begins with the traffic it has read.                   *)
LEMMA EInvBegin == EInv /\ Begin => EInv'
<1> SUFFICES ASSUME EInv, Begin PROVE EInv'
  OBVIOUS
<1>1. /\ TypeOK /\ Working /\ Recorded(local) /\ Recorded(localCache)
      /\ Admitted(local) /\ Admitted(localCache) /\ TrafficKept /\ RefusalsExplained
      /\ Recorded(read) /\ Recorded(copy) /\ Admitted(read)
  BY DEF EInv, SplitsRecorded, StoredAdmitted
<1>2. /\ UNCHANGED <<remote, store, left, local, localCache, config, revisions, configCache, rvs>>
      /\ due' = FALSE /\ again' = FALSE /\ at = "idle"
  BY DEF Begin, outside, deployment
<1>3. localCache \in LocalService \cup {None} /\ remote \in RemoteService \cup {None}
  BY <1>1 DEF TypeOK
<1>4. CASE remote = None /\ localCache = None
  <2>1. UNCHANGED <<at, read, copy, call>>
    BY <1>4 DEF Begin
  <2>2. TypeOK'
    BY <1>1, <1>2, <2>1 DEF TypeOK
  <2> QED BY <1>1, <1>2, <2>1, <2>2 DEF EInv, Working, SplitsRecorded, StoredAdmitted,
             TrafficKept, RefusalsExplained, Recorded, Admitted, TrafficOf, Valid
<1>5. CASE remote = None /\ localCache # None
  <2> DEFINE d == [op |-> "delete", obj |-> localCache]
  <2>1. at' = "serviceCall" /\ read' = localCache /\ copy' = localCache /\ call' = d
    BY <1>5 DEF Begin
  <2>2. localCache \in LocalService /\ localCache \in WrittenService
    BY <1>3, <1>5, LocalIsWritten
  <2>3. d \in Calls /\ d # None /\ d.op = "delete" /\ d.obj = localCache
    BY <2>2, NoneIsNoRecord DEF Calls
  <2> HIDE DEF d
  <2>4. TypeOK'
    BY <1>1, <1>2, <2>1, <2>2, <2>3 DEF TypeOK
  <2>5. Working' /\ RefusalsExplained'
    BY <1>5, <2>1, <2>2, <2>3 DEF Working, RefusalsExplained
  <2>6. SplitsRecorded' /\ StoredAdmitted' /\ TrafficKept'
    BY <1>1, <1>2, <1>5, <2>1, <2>3 DEF SplitsRecorded, StoredAdmitted, TrafficKept, Recorded,
       Admitted, Valid, TrafficOf
  <2> QED BY <2>4, <2>5, <2>6 DEF EInv
<1>6. CASE remote # None
  <2> DEFINE loc == IF localCache = None THEN NewService ELSE localCache
             merged == MergeService(remote, loc)
  <2>1. at' = "configuration" /\ read' = localCache /\ copy' = merged /\ call' = call
    BY <1>6 DEF Begin
  <2>2. loc \in LocalService /\ remote \in RemoteService
    BY <1>3, <1>6, NewServiceType
  <2>3. /\ loc.latest = IF localCache = None THEN None ELSE localCache.latest
        /\ loc.proxy = IF localCache = None THEN None ELSE localCache.proxy
        /\ loc.share = IF localCache = None THEN None ELSE localCache.share
    BY DEF NewService
  <2> HIDE DEF loc
  <2>4. /\ merged \in LocalService
        /\ merged.latest = loc.latest /\ merged.proxy = loc.proxy
        /\ merged.share = loc.share /\ merged # None
    BY <2>2, MergeKeeps
  <2> HIDE DEF merged
  <2>5. TypeOK'
    BY <1>1, <1>2, <2>1, <2>4 DEF TypeOK
  <2>6. Working' /\ RefusalsExplained'
    BY <2>1, <2>4 DEF Working, RefusalsExplained
  <2>7. Recorded(merged)
    BY <1>1, <2>3, <2>4 DEF Recorded
  <2>8. SplitsRecorded' /\ StoredAdmitted'
    BY <1>1, <1>2, <2>1, <2>7 DEF SplitsRecorded, StoredAdmitted, Recorded, Admitted, Valid
  <2>9. TrafficKept'
    BY <2>1, <2>3, <2>4 DEF TrafficKept, TrafficOf
  <2> QED BY <2>5, <2>6, <2>8, <2>9 DEF EInv
<1> QED BY <1>4, <1>5, <1>6

(* The first preprocessor decides what becomes of the Configuration.       *)
LEMMA EInvReadConfiguration == EInv /\ ReadConfiguration => EInv'
<1> SUFFICES ASSUME EInv, ReadConfiguration PROVE EInv'
  OBVIOUS
<1> DEFINE base == IF configCache = None THEN NewConfiguration ELSE configCache
           built == BuildConfiguration(base, copy)
<1>1. TypeOK /\ Working /\ SplitsRecorded /\ StoredAdmitted /\ TrafficKept
  BY DEF EInv
<1>2. /\ UNCHANGED <<remote, store, left, local, localCache, config, revisions, configCache,
                     rvs, due, read, copy>>
      /\ at = "configuration"
  BY DEF ReadConfiguration, outside, deployment
<1>3. /\ configCache \in Configuration \cup {None} /\ again \in BOOLEAN
      /\ copy \in LocalService
  BY <1>1, <1>2 DEF TypeOK, Working
<1>4. built \in Configuration
  <2>1. base \in Configuration
    BY <1>3 DEF NewConfiguration, Configuration
  <2>2. copy.host \in Hosts \cup {None} /\ copy.generation \in Nat
    BY <1>3 DEF LocalService, ServiceWith
  <2> HIDE DEF base
  <2> QED BY <2>1, <2>2 DEF BuildConfiguration, Configuration
<1> HIDE DEF built, base
<1>5. \/ \E op \in {"create", "update", "delete"}, obj \in Configuration :
            at' = "configCall" /\ call' = [op |-> op, obj |-> obj] /\ again' = again
      \/ at' = "service" /\ call' = call /\ again' \in BOOLEAN
  <2>1. CASE copy.rv = 0
    BY <1>3, <2>1 DEF ReadConfiguration
  <2>2. CASE copy.rv # 0 /\ copy.offload /\ configCache = None
    BY <1>4, <2>2 DEF ReadConfiguration, built, base
  <2>3. CASE copy.rv # 0 /\ copy.offload /\ configCache # None
    BY <1>3, <1>4, <2>3 DEF ReadConfiguration, built, base
  <2>4. CASE copy.rv # 0 /\ ~copy.offload /\ configCache = None
    BY <1>3, <2>4 DEF ReadConfiguration
  <2>5. CASE copy.rv # 0 /\ ~copy.offload /\ configCache # None
    BY <1>3, <2>5 DEF ReadConfiguration
  <2>6. copy.offload \in BOOLEAN
    BY <1>3 DEF LocalService, ServiceWith
  <2> QED BY <2>1, <2>2, <2>3, <2>4, <2>5, <2>6
<1>6. /\ at' \in {"configCall", "service"} /\ again' \in BOOLEAN
      /\ call' \in Calls \cup {None}
      /\ at' = "configCall" => call' # None /\ call'.obj \in Configuration
  <2>1. ASSUME NEW op \in {"create", "update", "delete"}, NEW obj \in Configuration,
               call' = [op |-> op, obj |-> obj]
        PROVE  call' \in Calls /\ call' # None /\ call'.obj \in Configuration
    <3>1. call' \in Calls
      BY <2>1 DEF Calls
    <3> QED BY <2>1, <3>1, NoneIsNoRecord
  <2>2. call \in Calls \cup {None}
    BY <1>1 DEF TypeOK
  <2> QED BY <1>3, <1>5, <2>1, <2>2
<1>7. TypeOK'
  BY <1>1, <1>2, <1>6 DEF TypeOK
<1>8. Working' /\ RefusalsExplained'
  BY <1>1, <1>2, <1>6 DEF Working, RefusalsExplained
<1>9. SplitsRecorded' /\ StoredAdmitted' /\ TrafficKept'
  BY <1>1, <1>2, <1>6 DEF SplitsRecorded, StoredAdmitted, TrafficKept, Recorded, Admitted,
     Valid, TrafficOf
<1> QED BY <1>7, <1>8, <1>9 DEF EInv

(* Nothing is deleted or stored but a Configuration.                       *)
LEMMA EInvConfigCall == EInv /\ ConfigCall => EInv'
<1> SUFFICES ASSUME EInv, ConfigCall PROVE EInv'
  OBVIOUS
<1>1. /\ TypeOK /\ Working /\ SplitsRecorded /\ StoredAdmitted /\ TrafficKept
  BY DEF EInv
<1>2. /\ UNCHANGED <<remote, store, left, local, localCache, configCache>>
      /\ at = "configCall" /\ copy # None
      /\ call.obj \in Configuration /\ call \in Calls
  BY <1>1 DEF ConfigCall, outside, Working, TypeOK
<1>3. ConfigurationTypes
  BY <1>1 DEF TypeOK, ConfigurationTypes
<1>4. /\ \/ StoreConfiguration(call.obj)
         \/ (DeleteConfiguration /\ UNCHANGED rvs)
         \/ UNCHANGED <<deployment, rvs>>
      /\ ToService(TRUE) \/ ToService(FALSE) \/ Finish(TRUE)
  <2>1. call.op \in {"create", "update", "delete"}
    BY <1>2 DEF Calls
  <2>2. CASE call.op = "create"
    BY <2>2 DEF ConfigCall
  <2>3. CASE call.op = "update"
    BY <2>3 DEF ConfigCall
  <2>4. CASE call.op = "delete"
    BY <2>4 DEF ConfigCall
  <2> QED BY <2>1, <2>2, <2>3, <2>4
<1>5. ConfigurationTypes'
  <2>1. CASE StoreConfiguration(call.obj)
    BY <1>2, <1>3, <2>1, ConfigurationStored
  <2>2. CASE DeleteConfiguration /\ UNCHANGED rvs
    BY <1>3, <2>2 DEF DeleteConfiguration, ConfigurationTypes
  <2>3. CASE UNCHANGED <<deployment, rvs>>
    BY <1>3, <2>3 DEF deployment, ConfigurationTypes
  <2> QED BY <1>4, <2>1, <2>2, <2>3
<1>6. CASE Finish(TRUE)
  <2>1. at' = "idle" /\ due' \in BOOLEAN /\ read' = None /\ copy' = None
        /\ again' \in BOOLEAN /\ call' = None
    BY <1>1, <1>6 DEF Finish, TypeOK
  <2>2. TypeOK'
    BY <1>1, <1>2, <1>5, <2>1 DEF TypeOK, ConfigurationTypes
  <2> QED BY <1>1, <1>2, <2>1, <2>2, IdleKeeps DEF SplitsRecorded, StoredAdmitted, Recorded,
             Admitted, Valid
<1>7. CASE ToService(TRUE) \/ ToService(FALSE)
  <2>1. /\ at' = "service" /\ again' \in BOOLEAN /\ call' = None
        /\ UNCHANGED <<due, read, copy>>
    BY <1>1, <1>7 DEF ToService, TypeOK
  <2>2. TypeOK'
    BY <1>1, <1>2, <1>5, <2>1 DEF TypeOK, ConfigurationTypes
  <2>3. Working' /\ RefusalsExplained'
    BY <1>2, <2>1 DEF Working, RefusalsExplained
  <2>4. SplitsRecorded' /\ StoredAdmitted' /\ TrafficKept'
    BY <1>1, <1>2, <2>1 DEF SplitsRecorded, StoredAdmitted, TrafficKept, Recorded, Admitted,
       Valid, TrafficOf
  <2> QED BY <2>2, <2>3, <2>4 DEF EInv
<1> QED BY <1>4, <1>6, <1>7

(* Why the webhook refuses a service that is about to be written.          *)
Explained(service) ==
    IF service.offload
    THEN \/ service.fixed \notin Percent \cup {None}
         \/ read # None /\ read.proxy # None /\ service.proxy.revision = None
    ELSE read # None /\ read.proxy # None /\ read.proxy.percent > 0

(* The second preprocessor leaves the mirror with a service it may write.  *)
LEMMA ServiceDecided ==
    ASSUME EInv, at = "service", ConfigurationTypes',
           UNCHANGED <<remote, store, left, local, localCache, configCache>>,
           NEW service \in WrittenService, service.proxy = None => service \in LocalService,
           Recorded(service), ~Valid(Defaulted(service)) => Explained(service),
           NEW ask \in BOOLEAN, ToWrite(service, ask)
    PROVE  EInv'
<1>1. TypeOK /\ Working /\ SplitsRecorded /\ StoredAdmitted /\ TrafficKept
  BY DEF EInv
<1>2. CASE read = None \/ service # read
  <2> DEFINE op == IF read = None THEN "create" ELSE "update"
             d == [op |-> op, obj |-> service]
  <2>1. at' = "serviceCall" /\ call' = d /\ again' = (again \/ ask)
        /\ UNCHANGED <<due, read, copy>>
    BY <1>2 DEF ToWrite
  <2>2. d \in Calls /\ d.obj = service
    BY DEF Calls
  <2>3. d # None
    BY <2>2, NoneIsNoRecord
  <2> HIDE DEF d
  <2>4. again' \in BOOLEAN
    BY <1>1, <2>1 DEF TypeOK
  <2>5. TypeOK'
    BY <1>1, <2>1, <2>2, <2>4 DEF TypeOK, ConfigurationTypes
  <2>6. Working'
    BY <1>1, <2>1, <2>2, <2>3 DEF Working
  <2>7. SplitsRecorded' /\ StoredAdmitted' /\ TrafficKept'
    BY <1>1, <2>1, <2>2 DEF SplitsRecorded, StoredAdmitted, TrafficKept, Recorded, Admitted,
       Valid, TrafficOf
  <2>8. RefusalsExplained'
    <3>1. ~Valid(Defaulted(d.obj)) => Explained(d.obj)
      BY <2>2
    <3>2. call'.obj = service /\ read' = read
      BY <2>1, <2>2
    <3> QED BY <3>1, <2>2, <3>2 DEF RefusalsExplained, Explained, Valid, Defaulted
  <2> QED BY <2>5, <2>6, <2>7, <2>8 DEF EInv
<1>3. CASE ~(read = None \/ service # read)
  <2>1. at' = "idle" /\ due' \in BOOLEAN /\ read' = None /\ copy' = None
        /\ again' \in BOOLEAN /\ call' = None
    BY <1>1, <1>3 DEF ToWrite, Finish, TypeOK
  <2>2. TypeOK'
    BY <1>1, <2>1 DEF TypeOK, ConfigurationTypes
  <2> QED BY <1>1, <2>1, <2>2, IdleKeeps DEF SplitsRecorded, StoredAdmitted, Recorded,
             Admitted, Valid
<1> QED BY <1>2, <1>3

(* The merged service, while it has not been split, would be admitted.     *)
LEMMA MergedValid ==
    ASSUME EInv, copy # None
    PROVE  /\ copy \in LocalService /\ copy \in WrittenService /\ Recorded(copy)
           /\ Valid(Defaulted(copy))
           /\ copy.proxy # None => read # None /\ read.proxy = copy.proxy
                                   /\ read.latest = copy.latest /\ Valid(read)
           /\ (copy.latest = None /\ copy.proxy = None) \/ Valid(copy)
<1>1. TypeOK /\ SplitsRecorded /\ StoredAdmitted /\ TrafficKept
  BY DEF EInv
<1>2. copy \in LocalService /\ copy \in WrittenService /\ Recorded(copy)
  BY <1>1, LocalIsWritten DEF TypeOK, SplitsRecorded
<1>3. /\ read = None => copy.latest = None /\ copy.proxy = None
      /\ read # None => copy.latest = read.latest /\ copy.proxy = read.proxy /\ Valid(read)
  BY <1>1 DEF TrafficKept, TrafficOf, StoredAdmitted, Admitted
<1>4. (copy.latest = None /\ copy.proxy = None) \/ Valid(copy)
  BY <1>3 DEF Valid
<1>5. Valid(Defaulted(copy))
  <2>1. CASE copy.latest = None /\ copy.proxy = None
    <3>1. Defaulted(copy).latest = 100 /\ Defaulted(copy).proxy = None
      BY <1>2, <2>1 DEF Defaulted, LocalService, ServiceWith
    <3>2. 100 # None
      BY EdgeProxyAssumption
    <3> QED BY <3>1, <3>2 DEF Valid, Percentage, Percent
  <2>2. CASE ~(copy.latest = None /\ copy.proxy = None)
    BY <1>4, <2>2 DEF Defaulted
  <2> QED BY <2>1, <2>2
<1> QED BY <1>2, <1>3, <1>4, <1>5

(* Without the label the target is taken away, and only its share missed.  *)
LEMMA EInvWithoutProxy == EInv /\ WithoutProxy => EInv'
<1> SUFFICES ASSUME EInv, WithoutProxy PROVE EInv'
  OBVIOUS
<1> DEFINE service == RemoveEdgeProxyTarget(copy)
<1>1. /\ TypeOK /\ Working
      /\ at = "service" /\ ~copy.offload /\ copy # None
      /\ UNCHANGED <<remote, store, left, local, localCache, configCache, rvs>>
      /\ ToWrite(service, FALSE)
  BY DEF EInv, WithoutProxy, outside, Working
<1>2. ConfigurationTypes'
  <2>1. ConfigurationTypes
    BY <1>1 DEF TypeOK, ConfigurationTypes
  <2>2. CASE UNCHANGED deployment
    BY <1>1, <2>1, <2>2 DEF ConfigurationTypes, deployment
  <2>3. CASE DeleteConfiguration
    BY <1>1, <2>1, <2>3 DEF ConfigurationTypes, DeleteConfiguration
  <2> QED BY <2>2, <2>3 DEF WithoutProxy
<1>3. /\ copy \in LocalService
      /\ copy.proxy # None => read # None /\ read.proxy = copy.proxy
                              /\ read.latest = copy.latest /\ Valid(read)
      /\ (copy.latest = None /\ copy.proxy = None) \/ Valid(copy)
  BY <1>1, MergedValid
<1>4. /\ service \in LocalService /\ service.proxy = None /\ service.latest = copy.latest
      /\ service.offload = copy.offload
  BY <1>3 DEF RemoveEdgeProxyTarget, LocalService, ServiceWith
<1> HIDE DEF service
<1>5. service \in WrittenService /\ Recorded(service)
  BY <1>4, LocalIsWritten DEF Recorded
<1>6. ~Valid(Defaulted(service)) => Explained(service)
  <2> SUFFICES ASSUME ~Valid(Defaulted(service)) PROVE Explained(service)
    OBVIOUS
  <2>1. service.latest # None
    <3> SUFFICES ASSUME service.latest = None PROVE FALSE
      OBVIOUS
    <3>1. Defaulted(service).latest = 100 /\ Defaulted(service).proxy = None
      BY <1>4 DEF Defaulted, LocalService, ServiceWith
    <3>2. 100 # None
      BY EdgeProxyAssumption
    <3> QED BY <3>1, <3>2 DEF Valid, Percentage, Percent
  <2>2. Defaulted(service) = service
    BY <2>1 DEF Defaulted
  <2>3. Valid(copy)
    BY <1>3, <1>4, <2>1
  <2>4. copy.proxy # None /\ copy.proxy.percent # 0
    <3> SUFFICES ASSUME copy.proxy = None \/ copy.proxy.percent = 0 PROVE FALSE
      OBVIOUS
    <3>1. Percentage(copy.latest) \in Percent /\ Percentage(copy.latest) + 0 = 100
      BY <2>3 DEF Valid
    <3> QED BY <1>4, <2>2, <3>1 DEF Valid
  <2>5. copy.proxy.percent > 0
    BY <2>3, <2>4 DEF Valid, Percent
  <2> QED BY <1>1, <1>3, <1>4, <2>4, <2>5 DEF Explained
<1> QED BY <1>1, <1>2, <1>4, <1>5, <1>6, ServiceDecided

(* With the label a service that cannot be split yet is written unsplit.   *)
LEMMA EInvWithProxy == EInv /\ WithProxy => EInv'
<1> SUFFICES ASSUME EInv, WithProxy PROVE EInv'
  OBVIOUS
<1>1. /\ TypeOK /\ Working
      /\ at = "service" /\ copy.offload /\ copy # None
      /\ UNCHANGED <<remote, store, left, local, localCache, configCache, rvs>>
      /\ UNCHANGED deployment
  BY DEF EInv, WithProxy, outside, Working
<1>2. ConfigurationTypes'
  BY <1>1 DEF TypeOK, ConfigurationTypes, deployment
<1>3. /\ copy \in LocalService /\ copy \in WrittenService /\ Recorded(copy)
      /\ Valid(Defaulted(copy))
      /\ copy.proxy # None => read # None /\ read.proxy = copy.proxy
                              /\ read.latest = copy.latest /\ Valid(read)
  BY <1>1, MergedValid
<1>4. CASE ~CanSplit(copy, configCache)
  <2>1. ToWrite(copy, TRUE)
    BY <1>4 DEF WithProxy
  <2> QED BY <1>1, <1>2, <1>3, <2>1, ServiceDecided
<1>5. CASE CanSplit(copy, configCache)
  <2> DEFINE split == Split(copy, configCache)
  <2>1. ToWrite(split, TRUE)
    BY <1>5 DEF WithProxy
  <2>2. /\ configCache \in Configuration
        /\ copy.proxy # None \/ configCache.ready # None
    BY <1>1, <1>5 DEF CanSplit, TypeOK
  <2>3. /\ split \in WrittenService
        /\ split.proxy # None /\ split.proxy.revision = configCache.ready
        /\ split.proxy.percent = TrafficSplit(copy)
        /\ split.share = TrafficSplit(copy)
        /\ split.latest = 100 - TrafficSplit(copy)
        /\ split.offload = copy.offload /\ split.fixed = copy.fixed
    BY <1>1, <1>3, <2>2, SplitType
  <2>4. /\ TrafficSplit(copy) \in Int
        /\ copy.fixed \in Percent \cup {None} => TrafficSplit(copy) \in Percent
    BY <1>1, <1>3, TrafficSplitType
  <2> HIDE DEF split
  <2>5. Recorded(split)
    BY <2>3 DEF Recorded
  <2>6. ~Valid(Defaulted(split)) => Explained(split)
    <3> SUFFICES ASSUME ~Valid(Defaulted(split)), split.fixed \in Percent \cup {None}
                 PROVE  split.proxy.revision = None /\ copy.proxy # None
      BY <1>1, <1>3, <2>3 DEF Explained
    <3>1. ~Valid(split)
      BY <2>3 DEF Defaulted
    <3>2. /\ TrafficSplit(copy) \in Percent /\ 100 - TrafficSplit(copy) \in Percent
          /\ (100 - TrafficSplit(copy)) + TrafficSplit(copy) = 100
      BY <2>3, <2>4 DEF Percent
    <3>3. Percentage(split.latest) = 100 - TrafficSplit(copy)
      BY <2>3, <3>2, EdgeProxyAssumption DEF Percentage, Percent
    <3> QED BY <2>2, <2>3, <3>1, <3>2, <3>3 DEF Valid
  <2> QED BY <1>1, <1>2, <2>1, <2>3, <2>5, <2>6, ServiceDecided
<1> QED BY <1>4, <1>5

(* The API server stores what the webhook lets pass.                       *)
LEMMA EInvServiceCall == EInv /\ ServiceCall => EInv'
<1> SUFFICES ASSUME EInv, ServiceCall PROVE EInv'
  OBVIOUS
<1>1. /\ TypeOK /\ Working /\ SplitsRecorded /\ StoredAdmitted
      /\ at = "serviceCall"
      /\ UNCHANGED <<remote, store, left, localCache, config, revisions, configCache>>
  BY DEF EInv, ServiceCall, outside, deployment
<1>2. /\ call \in Calls /\ call.obj \in WrittenService
      /\ call.obj.proxy = None => call.obj \in LocalService
      /\ Recorded(call.obj)
  BY <1>1 DEF TypeOK, Working, SplitsRecorded
<1>3. /\ \/ Valid(Defaulted(call.obj)) /\ StoreService(Defaulted(call.obj))
         \/ UNCHANGED <<local, rvs>>
         \/ local' = None /\ UNCHANGED rvs
      /\ Finish(TRUE) \/ Finish(again)
  <2>1. call.op \in {"create", "update", "delete"}
    BY <1>2 DEF Calls
  <2>2. CASE call.op = "create"
    BY <2>2 DEF ServiceCall
  <2>3. CASE call.op = "update"
    BY <2>3 DEF ServiceCall
  <2>4. CASE call.op = "delete"
    BY <2>4 DEF ServiceCall
  <2> QED BY <2>1, <2>2, <2>3, <2>4
<1>4. /\ local' \in LocalService \cup {None}
      /\ rvs' \in [{"remote", "local", "config"} -> Nat]
      /\ Recorded(local') /\ Admitted(local')
  <2>1. CASE Valid(Defaulted(call.obj)) /\ StoreService(Defaulted(call.obj))
    BY <1>1, <1>2, <2>1, ServiceStored
  <2>2. CASE UNCHANGED <<local, rvs>>
    BY <1>1, <2>2 DEF TypeOK, SplitsRecorded, StoredAdmitted, Recorded, Admitted, Valid
  <2>3. CASE local' = None /\ UNCHANGED rvs
    BY <1>1, <2>3 DEF TypeOK, Recorded, Admitted
  <2> QED BY <1>3, <2>1, <2>2, <2>3
<1>5. /\ at' = "idle" /\ due' \in BOOLEAN /\ read' = None /\ copy' = None
      /\ again' \in BOOLEAN /\ call' = None
  BY <1>1, <1>3 DEF Finish, TypeOK
<1>6. TypeOK'
  BY <1>1, <1>4, <1>5 DEF TypeOK
<1> QED BY <1>1, <1>4, <1>5, <1>6, IdleKeeps DEF SplitsRecorded, StoredAdmitted, Recorded,
           Admitted, Valid

(* A failed call and a restart leave nothing in hand.                      *)
LEMMA EInvFailures == EInv /\ (CallFails \/ Restart) => EInv'
<1> SUFFICES ASSUME EInv, CallFails \/ Restart PROVE EInv'
  OBVIOUS
<1>1. TypeOK /\ SplitsRecorded /\ StoredAdmitted
  BY DEF EInv
<1>2. \A d \in Changes : Spend(d) => left' \in [Changes -> Nat]
  BY SMTT(30), <1>1 DEF TypeOK, Spend, Changes
<1>3. CASE CallFails
  <2>1. left' \in [Changes -> Nat]
    BY <1>2, <1>3 DEF CallFails, Changes
  <2>2. /\ UNCHANGED <<remote, store, local, localCache, deployment, configCache, rvs>>
        /\ at' = "idle" /\ due' \in BOOLEAN /\ read' = None /\ copy' = None
        /\ again' \in BOOLEAN /\ call' = None
    BY <1>1, <1>3 DEF CallFails, Finish, TypeOK
  <2>3. TypeOK'
    BY <1>1, <2>1, <2>2 DEF TypeOK, deployment
  <2> QED BY <1>1, <2>2, <2>3, IdleKeeps DEF SplitsRecorded, StoredAdmitted, Recorded,
             Admitted, Valid
<1>4. CASE Restart
  <2>1. left' \in [Changes -> Nat]
    BY <1>2, <1>4 DEF Restart, Changes
  <2>2. /\ UNCHANGED <<remote, local, deployment, rvs>>
        /\ store' = None /\ localCache' = local /\ configCache' = config
        /\ at' = "idle" /\ due' \in BOOLEAN /\ read' = None /\ copy' = None
        /\ again' \in BOOLEAN /\ call' = None
    BY <1>4 DEF Restart
  <2>3. TypeOK'
    BY <1>1, <2>1, <2>2 DEF TypeOK, deployment
  <2> QED BY <1>1, <2>2, <2>3, IdleKeeps DEF SplitsRecorded, StoredAdmitted, Recorded,
             Admitted, Valid
<1> QED BY <1>3, <1>4

------------------------------------------------------------------------------
(* The theorems.                                                           *)

(* Every step keeps the invariant.                                         *)
LEMMA EInvNext == EInv /\ [Next]_vars => EInv'
<1> SUFFICES ASSUME EInv, [Next]_vars PROVE EInv'
  OBVIOUS
<1>1. CASE RemoteChanges \/ StoreChanges \/ RevisionReady \/ StatusChanges
             \/ DeliverLocal \/ DeliverConfig
  BY <1>1, EInvOutside
<1>2. CASE UNCHANGED vars
  BY <1>2 DEF vars, outside, deployment, work, EInv, TypeOK, Working, SplitsRecorded,
     StoredAdmitted, TrafficKept, RefusalsExplained, Recorded, Admitted, TrafficOf, Valid,
     Defaulted
<1> QED BY <1>1, <1>2, EInvBegin, EInvReadConfiguration, EInvConfigCall, EInvWithoutProxy,
           EInvWithProxy, EInvServiceCall, EInvFailures DEF Next

(* The invariant holds in every reachable state.                           *)
LEMMA EInvHolds == Spec => []EInv
<1>1. Init => EInv
  BY EInvInit
<1>2. EInv /\ [Next]_vars => EInv'
  BY EInvNext
<1> QED BY <1>1, <1>2, PTL DEF Spec

(* Only percentages are ever stored, whatever the fixed-traffic annotation *)
(* holds and the store says; the proxy has a revision for each generation  *)
(* of its Configuration.  (reconcileKService; Knative's webhook.)          *)
THEOREM PercentagesStored == Spec => []TypeOK
<1>1. EInv => TypeOK
  BY DEF EInv
<1> QED BY <1>1, EInvHolds, PTL

(* The traffic annotation of a split service is the share in force,        *)
(* through conflicts, failing calls and restarts, so that a controller     *)
(* that starts again could take it up.  (reconcileKService.)               *)
THEOREM ShareRecorded == Spec => []SplitRecorded
<1>1. EInv => SplitRecorded
  BY DEF EInv, SplitsRecorded, SplitRecorded, Recorded
<1> QED BY <1>1, EInvHolds, PTL

(* Whenever Knative's webhook refuses what the controller writes, one of   *)
(* the three known cases is the reason.  (reconcileKService, and the edge  *)
(* proxy's target that RemoveEdgeProxyTarget takes away with its share.)   *)
THEOREM RefusalsKnown == Spec => []RefusalsExplained
<1>1. EInv => RefusalsExplained
  BY DEF EInv
<1> QED BY <1>1, EInvHolds, PTL
==============================================================================
