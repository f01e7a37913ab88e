---------------------------- MODULE OperatorProofs ----------------------------
(***************************************************************************)
(* Theorems about Operator, for every value of its constants.              *)
(***************************************************************************)
EXTENDS Operator, FiniteSetTheorems, TLAPS

(* What the API servers hold.                                              *)
ApiTypes ==
    /\ edge \in KnativeEdge \cup {None}
    /\ kubeconfig \in Data
    /\ cluster \in EdgeCluster \cup {None}
    /\ secret \in Secret \cup {None}
    /\ deployment \in Deployment \cup {None}

(* What the operator keeps between reconciliations.                        *)
CacheTypes ==
    /\ edgeCache \in KnativeEdge \cup {None}
    /\ secretCache \in Secret \cup {None}
    /\ deploymentCache \in Deployment \cup {None}
    /\ image \in Nat \ {0}
    /\ connection \in Connection \cup {None}

(* What a reconciliation has in hand at each of its steps.                 *)
Working ==
    /\ read \in KnativeEdge \cup {None}
    /\ refData \in Data
    /\ seen \in EdgeCluster \cup {None}
    /\ due \in BOOLEAN
    /\ at \in Steps
    /\ call \in Calls \cup {None}
    /\ at \notin {"idle", "secret"} => read # None
    /\ at = "connect" => refData \in Kubeconfigs \cup {Incomplete}
    /\ at = "secretCall" => call # None /\ call.op # "status" /\ call.obj \in Secret
    /\ at = "deploymentCall" => /\ call # None /\ call.obj \in Deployment
                                /\ (call.op = "delete") <=> read.deleting
    /\ at = "statusCall" => call # None /\ call.obj \in Status /\ ~read.deleting
    /\ at \in {"deployment", "deploymentCall", "statusCall"} => seen # None

(* Changes are only ever counted down.                                     *)
Counted == left \in [Changes -> Nat] /\ \A c \in Changes : left[c] <= Budget[c]

TInv == ApiTypes /\ CacheTypes /\ Working /\ Counted

(* The invariant says more than the types.                                 *)
LEMMA TInvTypes == TInv => TypeOK
BY DEF TInv, ApiTypes, CacheTypes, Working, Counted, TypeOK

------------------------------------------------------------------------------
(* The API server.                                                         *)

(* A fresh number is one nobody holds: there are more numbers than holders.*)
LEMMA FreshIsFresh ==
    ASSUME NEW S, IsFiniteSet(S)
    PROVE  Fresh(S) \in Nat /\ Fresh(S) \notin S
<1> DEFINE k == Cardinality(S)
<1>1. k \in Nat
  BY FS_CardinalityType
<1> HIDE DEF k
<1>2. \E n \in 1..(k + 1) : n \notin S
  <2>1. SUFFICES ASSUME 1..(k + 1) \subseteq S PROVE FALSE
    OBVIOUS
  <2>2. Cardinality(1..(k + 1)) = k + 1
    BY <1>1, FS_Interval
  <2>3. Cardinality(1..(k + 1)) <= k
    BY <2>1, FS_Subset DEF k
  <2> QED BY <1>1, <2>2, <2>3
<1>3. Fresh(S) = CHOOSE n \in 1..(k + 1) : n \notin S
  BY DEF Fresh, k
<1> QED BY <1>1, <1>2, <1>3

(* Three objects and one call are the most that hold a version.            *)
LEMMA FreshOfThree ==
    ASSUME NEW a, NEW b, NEW c, NEW S \in SUBSET {a, b, c}
    PROVE  Fresh(S) \in Nat /\ Fresh(S) \notin S
<1>1. IsFiniteSet({a})
  BY FS_Singleton
<1>2. IsFiniteSet({a} \cup {b})
  BY <1>1, FS_AddElement
<1>3. IsFiniteSet({a} \cup {b} \cup {c})
  BY <1>2, FS_AddElement
<1>4. {a} \cup {b} \cup {c} = {a, b, c}
  OBVIOUS
<1> QED BY <1>3, <1>4, FS_Subset, FreshIsFresh

(* A new KnativeEdge has a uid that nothing the operator has seen has.     *)
LEMMA UidIsFresh ==
    /\ FreshUid \in Nat
    /\ \A e \in {edge, edgeCache, read} \ {None} : e.uid # FreshUid
<1> DEFINE uids == {obj.uid : obj \in {edge, edgeCache, read} \ {None}}
           owners == {obj.owner : obj \in {secret, secretCache, deployment, deploymentCache} \ {None}}
           called == {obj.owner : obj \in InCall("secretCall") \cup InCall("deploymentCall")}
<1>1. IsFiniteSet(uids)
  <2>1. IsFiniteSet({edge.uid}) /\ IsFiniteSet({edge.uid} \cup {edgeCache.uid})
    BY FS_Singleton, FS_AddElement
  <2>2. IsFiniteSet({edge.uid} \cup {edgeCache.uid} \cup {read.uid})
    BY <2>1, FS_AddElement
  <2>3. uids \in SUBSET ({edge.uid} \cup {edgeCache.uid} \cup {read.uid})
    OBVIOUS
  <2> QED BY <2>2, <2>3, FS_Subset
<1>2. IsFiniteSet(owners)
  <2>1. IsFiniteSet({secret.owner}) /\ IsFiniteSet({secret.owner} \cup {secretCache.owner})
    BY FS_Singleton, FS_AddElement
  <2>2. IsFiniteSet({secret.owner} \cup {secretCache.owner} \cup {deployment.owner})
    BY <2>1, FS_AddElement
  <2>3. IsFiniteSet({secret.owner} \cup {secretCache.owner} \cup {deployment.owner}
                    \cup {deploymentCache.owner})
    BY <2>2, FS_AddElement
  <2>4. owners \in SUBSET ({secret.owner} \cup {secretCache.owner} \cup {deployment.owner}
                           \cup {deploymentCache.owner})
    OBVIOUS
  <2> QED BY <2>3, <2>4, FS_Subset
<1>3. IsFiniteSet(called)
  <2>1. IsFiniteSet({call.obj.owner})
    BY FS_Singleton
  <2>2. called \in SUBSET {call.obj.owner}
    BY DEF InCall
  <2> QED BY <2>1, <2>2, FS_Subset
<1>4. FreshUid = Fresh(uids \cup owners \cup called)
  BY DEF FreshUid
<1>5. \A e \in {edge, edgeCache, read} \ {None} : e.uid \in uids
  OBVIOUS
<1> HIDE DEF uids, owners, called
<1>6. IsFiniteSet(uids \cup owners)
  BY <1>1, <1>2, FS_Union
<1>7. IsFiniteSet(uids \cup owners \cup called)
  BY <1>3, <1>6, FS_Union
<1>8. Fresh(uids \cup owners \cup called) \in Nat
      /\ Fresh(uids \cup owners \cup called) \notin uids \cup owners \cup called
  BY <1>7, FreshIsFresh
<1> QED BY <1>4, <1>5, <1>8

(* What is stored of a KnativeEdge is what was written, under a version    *)
(* that names it.                                                          *)
LEMMA EdgeStored ==
    ASSUME TypeOK, NEW new \in KnativeEdge, StoreEdge(new)
    PROVE  /\ edge' \in KnativeEdge
           /\ edge'.uid = new.uid /\ edge'.generation = new.generation
           /\ edge'.conf = new.conf /\ edge'.secretRef = new.secretRef
           /\ edge'.deleting = new.deleting /\ edge'.status = new.status
           /\ edge' = edge \/ \A e \in {edge, edgeCache, read} \ {None} : e.rv # edge'.rv
<1>1. CASE Same(edge, new)
  <2>1. edge' = edge /\ edge # None /\ [new EXCEPT !.rv = edge.rv] = edge
    BY <1>1 DEF StoreEdge, Same
  <2>2. edge \in KnativeEdge
    BY <2>1 DEF TypeOK
  <2> QED BY <2>1, <2>2 DEF KnativeEdge
<1>2. CASE ~Same(edge, new)
  <2> DEFINE held == Versions({edge, edgeCache, read})
  <2>1. edge' = [new EXCEPT !.rv = Fresh(held)]
    BY <1>2 DEF StoreEdge
  <2>2. held \in SUBSET {edge.rv, edgeCache.rv, read.rv}
    BY DEF Versions
  <2>3. \A e \in {edge, edgeCache, read} \ {None} : e.rv \in held
    BY DEF Versions
  <2> HIDE DEF held
  <2>4. Fresh(held) \in Nat /\ Fresh(held) \notin held
    BY <2>2, FreshOfThree
  <2>5. /\ edge' \in KnativeEdge /\ edge'.rv = Fresh(held)
        /\ edge'.uid = new.uid /\ edge'.generation = new.generation
        /\ edge'.conf = new.conf /\ edge'.secretRef = new.secretRef
        /\ edge'.deleting = new.deleting /\ edge'.status = new.status
    BY <2>1, <2>4 DEF KnativeEdge
  <2> QED BY <2>3, <2>4, <2>5
<1> QED BY <1>1, <1>2

(* The same of a secret.                                                   *)
LEMMA SecretStored ==
    ASSUME TypeOK, NEW new \in Secret, StoreSecret(new)
    PROVE  secret' \in Secret /\ secret'.owner = new.owner
<1>1. CASE Same(secret, new)
  <2>1. secret' = secret /\ secret # None /\ [new EXCEPT !.rv = secret.rv] = secret
    BY <1>1 DEF StoreSecret, Same
  <2>2. secret \in Secret
    BY <2>1 DEF TypeOK
  <2> QED BY <2>1, <2>2 DEF Secret
<1>2. CASE ~Same(secret, new)
  <2> DEFINE held == Versions({secret, secretCache} \cup InCall("secretCall"))
  <2>1. secret' = [new EXCEPT !.rv = Fresh(held)]
    BY <1>2 DEF StoreSecret
  <2>2. held \in SUBSET {secret.rv, secretCache.rv, call.obj.rv}
    BY DEF Versions, InCall
  <2> HIDE DEF held
  <2>3. Fresh(held) \in Nat
    BY <2>2, FreshOfThree
  <2> QED BY <2>1, <2>3 DEF Secret
<1> QED BY <1>1, <1>2

(* A deployment keeps its generation only with what it runs.               *)
LEMMA DeploymentStored ==
    ASSUME TypeOK, NEW new \in Deployment, StoreDeployment(new)
    PROVE  /\ deployment' \in Deployment /\ deployment' # None
           /\ deployment'.conf = new.conf /\ deployment'.environments = new.environments
           /\ deployment'.owner = new.owner
           /\ deployment # None =>
                 /\ deployment'.generation >= deployment.generation
                 /\ deployment'.generation = deployment.generation =>
                       deployment.conf = new.conf /\ deployment.environments = new.environments
<1>1. deployment # None => deployment \in Deployment
  BY DEF TypeOK
<1>2. CASE Same(deployment, new)
  <2>1. deployment' = deployment /\ deployment # None
        /\ [new EXCEPT !.rv = deployment.rv] = deployment
    BY <1>2 DEF StoreDeployment, Same
  <2> QED BY <1>1, <2>1 DEF Deployment
<1>3. CASE ~Same(deployment, new)
  <2> DEFINE held == Versions({deployment, deploymentCache} \cup InCall("deploymentCall"))
  <2>1. deployment' = [new EXCEPT !.rv = Fresh(held), !.generation = NextGeneration(new)]
    BY <1>3 DEF StoreDeployment
  <2>2. held \in SUBSET {deployment.rv, deploymentCache.rv, call.obj.rv}
    BY DEF Versions, InCall
  <2> HIDE DEF held
  <2>3. Fresh(held) \in Nat
    BY <2>2, FreshOfThree
  <2>4. /\ NextGeneration(new) \in Nat
        /\ deployment # None =>
              /\ NextGeneration(new) >= deployment.generation
              /\ NextGeneration(new) = deployment.generation =>
                    Template(new) = Template(deployment)
    BY <1>1 DEF NextGeneration, Deployment
  <2>5. /\ deployment' \in Deployment /\ deployment'.generation = NextGeneration(new)
        /\ deployment'.conf = new.conf /\ deployment'.environments = new.environments
        /\ deployment'.owner = new.owner
    BY <2>1, <2>3, <2>4 DEF Deployment
  <2>6. deployment' # None
    BY <2>5, NoneIsNothing
  <2> QED BY <2>4, <2>5, <2>6 DEF Template
<1> QED BY <1>2, <1>3

------------------------------------------------------------------------------
(* Types.                                                                  *)

(* A change of one kind is counted once.                                   *)
LEMMA SpendCounts ==
    ASSUME Counted, NEW c \in Changes \ {"all"}, Spend(c)
    PROVE  Counted' /\ \A d \in Changes : left'[d] <= left[d] /\ left'[c] < Budget[c]
<1>1. left \in [Changes -> Nat] /\ "all" \in Changes /\ Budget \in [Changes -> Nat]
  BY OperatorAssumption DEF Counted, Changes
<1>2. /\ left[c] > 0 /\ left["all"] > 0
      /\ left' = [left EXCEPT ![c] = @ - 1, !["all"] = @ - 1]
  BY DEF Spend
<1>3. left' \in [Changes -> Nat]
  BY <1>1, <1>2
<1>4. ASSUME NEW d \in Changes
      PROVE  left'[d] <= left[d] /\ left'[d] <= Budget[d] /\ (d = c => left'[d] < Budget[d])
  <2>1. left[d] \in Nat /\ Budget[d] \in Nat /\ left[d] <= Budget[d]
    BY <1>1 DEF Counted
  <2>2. left'[d] = IF d \in {c, "all"} THEN left[d] - 1 ELSE left[d]
    BY <1>1, <1>2
  <2> QED BY <2>1, <2>2
<1> QED BY <1>3, <1>4 DEF Counted

(* The invariant holds at first.                                           *)
LEMMA TInvInit == Init => TInv
<1> SUFFICES ASSUME Init PROVE TInv
  OBVIOUS
<1>1. FirstCluster \in EdgeCluster
  BY OperatorAssumption DEF FirstCluster, EdgeCluster
<1>2. ApiTypes
  BY <1>1 DEF Init, ApiTypes
<1>3. CacheTypes
  BY DEF Init, CacheTypes
<1>4. Working
  BY DEF Init, Working, Data, Steps
<1>5. Counted
  BY OperatorAssumption DEF Init, Counted
<1> QED BY <1>2, <1>3, <1>4, <1>5 DEF TInv

(* What users, administrators and the garbage collector do.                *)
Outside ==
    \/ User \/ KubeconfigChanges \/ ClusterChanges \/ Deletion \/ Edit
    \/ CollectSecret \/ CollectDeployment \/ CollectEdge

(* Nobody outside stores an object of another type.                        *)
LEMMA TInvOutside == TInv /\ Outside => TInv'
<1> SUFFICES ASSUME TInv, Outside PROVE TInv'
  OBVIOUS
<1>1. ApiTypes /\ CacheTypes /\ Working /\ Counted /\ TypeOK
  BY TInvTypes DEF TInv
<1>2. UNCHANGED <<caches, image, connection, work>>
  BY DEF Outside, User, KubeconfigChanges, ClusterChanges, Deletion, Edit, CollectSecret,
         CollectDeployment, CollectEdge
<1>3. CacheTypes' /\ Working'
  BY <1>1, <1>2 DEF CacheTypes, Working, caches, work
<1>4. Counted'
  <2> DEFINE Kinds == Changes \ {"all"}
  <2>1. \A c \in Kinds : Spend(c) => Counted'
    BY <1>1, SpendCounts
  <2>2. "edge" \in Kinds /\ "kubeconfig" \in Kinds /\ "cluster" \in Kinds
        /\ "deletion" \in Kinds /\ "edit" \in Kinds
    BY DEF Changes
  <2> HIDE DEF Kinds
  <2>3. (\E c \in Kinds : Spend(c)) \/ UNCHANGED left
    BY <2>2 DEF Outside, User, KubeconfigChanges, ClusterChanges, Deletion, Edit, CollectSecret,
           CollectDeployment, CollectEdge
  <2>4. UNCHANGED left => Counted'
    BY <1>1 DEF Counted
  <2> QED BY <2>1, <2>3, <2>4
<1>5. ApiTypes'
  <2>1. CASE User
    <3>1. edge' \in KnativeEdge \cup {None}
      <4>1. CASE UserCreates
        <5> PICK conf \in Confs, ref \in BOOLEAN :
              StoreEdge([rv |-> 0, uid |-> FreshUid, generation |-> 1,
                         conf |-> conf, secretRef |-> ref, deleting |-> FALSE,
                         status |-> [deployment |-> 0, edge |-> 0, cluster |-> 0]])
          BY <4>1 DEF UserCreates
        <5> DEFINE new == [rv |-> 0, uid |-> FreshUid, generation |-> 1,
                           conf |-> conf, secretRef |-> ref, deleting |-> FALSE,
                           status |-> [deployment |-> 0, edge |-> 0, cluster |-> 0]]
        <5>1. new \in KnativeEdge
          BY UidIsFresh DEF KnativeEdge, Status
        <5> QED BY <1>1, <5>1, EdgeStored
      <4>2. CASE UserChanges
        <5> PICK conf \in Confs, ref \in BOOLEAN :
              StoreEdge([edge EXCEPT !.conf = conf, !.secretRef = ref, !.generation = @ + 1])
          BY <4>2 DEF UserChanges
        <5> DEFINE new == [edge EXCEPT !.conf = conf, !.secretRef = ref, !.generation = @ + 1]
        <5>1. edge \in KnativeEdge /\ edge.generation + 1 \in Nat
          BY <1>1, <4>2 DEF ApiTypes, UserChanges, KnativeEdge
        <5>2. new \in KnativeEdge
          BY <5>1 DEF KnativeEdge
        <5> QED BY <1>1, <5>2, EdgeStored
      <4>3. CASE UserDeletes
        <5> DEFINE new == [edge EXCEPT !.deleting = TRUE, !.generation = @ + 1]
        <5>1. edge \in KnativeEdge /\ edge.generation + 1 \in Nat
          BY <1>1, <4>3 DEF ApiTypes, UserDeletes, KnativeEdge
        <5>2. new \in KnativeEdge
          BY <5>1 DEF KnativeEdge
        <5> QED BY <1>1, <4>3, <5>2, EdgeStored DEF UserDeletes
      <4> QED BY <2>1, <4>1, <4>2, <4>3 DEF User
    <3> QED BY <1>1, <2>1, <3>1 DEF ApiTypes, User, made
  <2>2. CASE KubeconfigChanges
    BY <1>1, <2>2 DEF ApiTypes, KubeconfigChanges, made
  <2>3. CASE ClusterChanges
    <3>1. cluster' \in EdgeCluster \cup {None}
      BY <1>1, <2>3 DEF ApiTypes, ClusterChanges, EdgeCluster
    <3> QED BY <1>1, <2>3, <3>1 DEF ApiTypes, ClusterChanges, made
  <2>4. CASE Deletion
    BY <1>1, <2>4 DEF ApiTypes, Deletion, given
  <2>5. CASE Edit
    <3> DEFINE new == [deployment EXCEPT !.environments = None]
    <3>1. deployment \in Deployment
      BY <1>1, <2>5 DEF ApiTypes, Edit
    <3>2. new \in Deployment
      BY <3>1 DEF Deployment
    <3>3. deployment' \in Deployment
      BY <1>1, <2>5, <3>2, DeploymentStored DEF Edit
    <3> QED BY <1>1, <2>5, <3>3 DEF ApiTypes, Edit, given
  <2>6. CASE CollectSecret \/ CollectDeployment \/ CollectEdge
    BY <1>1, <2>6 DEF ApiTypes, CollectSecret, CollectDeployment, CollectEdge, given, made
  <2> QED BY <2>1, <2>2, <2>3, <2>4, <2>5, <2>6 DEF Outside
<1> QED BY <1>3, <1>4, <1>5 DEF TInv

(* The watches, timers and the goroutine of the connection.                *)
Watches ==
    \/ DeliverEdge \/ DeliverSecret \/ DeliverDeployment \/ Resync
    \/ StartConnection \/ DeliverCluster

(* What a watch brings has the type of what is stored.                     *)
LEMMA TInvWatches == TInv /\ Watches => TInv'
<1> SUFFICES ASSUME TInv, Watches PROVE TInv'
  OBVIOUS
<1>1. ApiTypes /\ CacheTypes /\ Working /\ Counted
  BY DEF TInv
<1>2. UNCHANGED <<edge, kubeconfig, cluster, secret, deployment, image, at, read, refData,
                  seen, call, left>>
  BY DEF Watches, DeliverEdge, DeliverSecret, DeliverDeployment, Resync, StartConnection,
         DeliverCluster, given, made, work
<1>3. ApiTypes' /\ Counted'
  BY <1>1, <1>2 DEF ApiTypes, Counted
<1>4. due' \in BOOLEAN
  BY <1>1 DEF Working, Watches, DeliverEdge, DeliverSecret, DeliverDeployment, Resync,
         StartConnection, DeliverCluster, work, HasOwner
<1>5. Working'
  BY <1>1, <1>2, <1>4 DEF Working
<1>6. CacheTypes'
  <2>1. CASE DeliverEdge
    BY <1>1, <2>1 DEF ApiTypes, CacheTypes, DeliverEdge
  <2>2. CASE DeliverSecret
    BY <1>1, <2>2 DEF ApiTypes, CacheTypes, DeliverSecret
  <2>3. CASE DeliverDeployment
    BY <1>1, <2>3 DEF ApiTypes, CacheTypes, DeliverDeployment
  <2>4. CASE Resync
    BY <1>1, <2>4 DEF CacheTypes, Resync, caches
  <2>5. CASE StartConnection
    <3>1. connection' \in Connection
      BY <1>1, <2>5 DEF CacheTypes, StartConnection, Connection
    <3> QED BY <1>1, <2>5, <3>1 DEF CacheTypes, StartConnection, caches
  <2>6. CASE DeliverCluster
    <3>1. connection' \in Connection
      BY <1>1, <2>6 DEF ApiTypes, CacheTypes, DeliverCluster, Connection
    <3> QED BY <1>1, <2>6, <3>1 DEF CacheTypes, DeliverCluster, caches
  <2> QED BY <2>1, <2>2, <2>3, <2>4, <2>5, <2>6 DEF Watches
<1> QED BY <1>3, <1>5, <1>6 DEF TInv

(* A reconciliation that ends leaves nothing in hand.                      *)
LEMMA FinishWorks ==
    ASSUME Working, NEW requeue \in BOOLEAN, Finish(requeue)
    PROVE  Working'
BY DEF Working, Finish, Steps, Data

(* reconcileCluster goes to connect only with a kubeconfig that parses,    *)
(* and keeps the connection or drops it.                                   *)
LEMMA ConnectsOrNot ==
    ASSUME TInv, NEW data \in Data, ReconcileCluster(data)
    PROVE  Working' /\ connection' \in {connection, None}
<1>1. CacheTypes /\ Working
  BY DEF TInv
<1>2. due' = FALSE /\ read' = edgeCache /\ seen' = seen /\ call' = call
  BY DEF ReconcileCluster
<1>3. connection' \in {connection, None} /\ refData' \in {None, data}
  BY DEF ReconcileCluster
<1>4. \/ at' = "secret"
      \/ at' = "connect" /\ refData' = data /\ Parses(data) /\ data # None /\ read' # None
  BY DEF ReconcileCluster, Refers
<1>5. data # None /\ Parses(data) => data \in Kubeconfigs \cup {Incomplete}
  BY DEF Data, Parses
<1>6. Working'
  BY <1>1, <1>2, <1>3, <1>4, <1>5 DEF CacheTypes, Working, Steps, Data
<1> QED BY <1>3, <1>6

(* A reconciliation begins with what the caches hold.                      *)
LEMMA TInvBegin == TInv /\ (Begin \/ ReadFails) => TInv'
<1> SUFFICES ASSUME TInv, Begin \/ ReadFails PROVE TInv'
  OBVIOUS
<1>1. ApiTypes /\ CacheTypes /\ Counted
  BY DEF TInv
<1>2. PICK data \in Data : ReconcileCluster(data)
  BY <1>1 DEF Begin, ReadFails, ApiTypes, Data
<1>3. Counted'
  <2>1. CASE Begin
    BY <1>1, <2>1 DEF Begin, Counted
  <2>2. CASE ReadFails
    BY <1>1, <2>2, SpendCounts DEF ReadFails, Changes
  <2> QED BY <2>1, <2>2
<1>4. UNCHANGED <<given, made, caches, image>>
  BY <1>2 DEF ReconcileCluster
<1>5. Working' /\ connection' \in Connection \cup {None}
  BY <1>1, <1>2, ConnectsOrNot DEF CacheTypes
<1> QED BY <1>1, <1>3, <1>4, <1>5 DEF TInv, ApiTypes, CacheTypes, given, made, caches

(* A new connection has a kubeconfig that leads to a cluster.              *)
LEMMA ConnectionMade ==
    ASSUME TInv, Connected
    PROVE  connection' \in Connection /\ connection'.cache = None
<1>1. refData \in Kubeconfigs /\ connection' = NewConnection(refData)
  BY DEF Connected, TInv, Working
<1> QED BY <1>1 DEF NewConnection, SecretGeneration, Connection

(* The remote cluster answers cluster.New, or refuses.                     *)
LEMMA TInvConnect == TInv /\ (Connected \/ ConnectFails) => TInv'
<1> SUFFICES ASSUME TInv, Connected \/ ConnectFails PROVE TInv'
  OBVIOUS
<1>1. ApiTypes /\ CacheTypes /\ Working /\ Counted
  BY DEF TInv
<1>2. /\ at' = "secret" /\ refData' \in {refData, None}
      /\ UNCHANGED <<given, made, caches, image, due, read, seen, call, left>>
  BY DEF Connected, ConnectFails
<1>3. Working'
  BY <1>1, <1>2 DEF Working, Steps, Data
<1>4. connection' \in Connection \cup {None}
  <2>1. CASE Connected
    BY <2>1, ConnectionMade
  <2>2. CASE ConnectFails
    BY <1>1, <2>2 DEF ConnectFails, CacheTypes
  <2> QED BY <2>1, <2>2
<1> QED BY <1>1, <1>2, <1>3, <1>4 DEF TInv, ApiTypes, CacheTypes, Counted, given, made, caches

(* An operator that starts reads objects of the types stored.              *)
LEMMA StartTypes ==
    ASSUME TInv, StartOver, image' \in Nat \ {0}
    PROVE  ApiTypes' /\ CacheTypes' /\ Working'
<1>1. ApiTypes
  BY DEF TInv
<1>2. UNCHANGED <<given, made>> /\ ApiTypes'
  BY <1>1 DEF StartOver, ApiTypes, given, made
<1>3. CacheTypes'
  BY <1>1 DEF StartOver, ApiTypes, CacheTypes
<1>4. Working'
  BY DEF StartOver, Working, Steps, Data, HasOwner
<1> QED BY <1>2, <1>3, <1>4

(* What is built keeps its type.                                           *)
LEMMA BuiltTypes ==
    ASSUME TInv, read # None
    PROVE  /\ \A old \in Secret : BuildSecret(old) \in Secret
           /\ \A old \in Deployment, ec \in EdgeCluster : BuildDeployment(old, ec) \in Deployment
           /\ NewSecret \in Secret /\ NewDeployment \in Deployment
<1>1. read \in KnativeEdge /\ refData \in Data /\ image \in Nat
  BY DEF TInv, Working, CacheTypes
<1>2. ASSUME NEW old \in Secret PROVE BuildSecret(old) \in Secret
  <2>1. Owner(old.owner) \in Nat \cup {None}
    BY <1>1 DEF Owner, Secret, KnativeEdge
  <2> QED BY <1>1, <2>1 DEF BuildSecret, Secret, SecretGeneration
<1>3. ASSUME NEW old \in Deployment, NEW ec \in EdgeCluster
      PROVE  BuildDeployment(old, ec) \in Deployment
  <2>1. Owner(old.owner) \in Nat \cup {None}
    BY <1>1 DEF Owner, Deployment, KnativeEdge
  <2>2. read.conf \in Confs /\ ec.environments \in Environments \cup {None}
    BY <1>1 DEF KnativeEdge, EdgeCluster
  <2> QED BY <1>1, <2>1, <2>2 DEF BuildDeployment, Deployment
<1>4. NewSecret \in Secret /\ NewDeployment \in Deployment
  BY DEF NewSecret, Secret, NewDeployment, Deployment, Data
<1> QED BY <1>2, <1>3, <1>4

(* A call is no null value.                                                *)
LEMMA CallTypes ==
    ASSUME NEW op \in {"create", "update", "delete", "status"},
           NEW obj \in Secret \cup Deployment \cup Status
    PROVE  [op |-> op, obj |-> obj] \in Calls /\ [op |-> op, obj |-> obj] # None
<1>1. [op |-> op, obj |-> obj] \in Calls
  BY DEF Calls
<1> QED BY <1>1, NoneIsNothing

(* The secret is written only by a reconciliation that has read a          *)
(* KnativeEdge.                                                            *)
LEMMA TInvSecret == TInv /\ (ReconcileSecret \/ SecretCall) => TInv'
<1> SUFFICES ASSUME TInv, ReconcileSecret \/ SecretCall PROVE TInv'
  OBVIOUS
<1>1. ApiTypes /\ CacheTypes /\ Working /\ Counted /\ TypeOK
  BY TInvTypes DEF TInv
<1>2. UNCHANGED <<given, deployment, caches, image, connection, left>>
  BY DEF ReconcileSecret, SecretCall, made
<1>3. CacheTypes' /\ Counted'
  BY <1>1, <1>2 DEF CacheTypes, Counted, caches
<1>4. ASSUME GoOn("cluster"), read # None PROVE Working'
  BY <1>1, <1>4 DEF GoOn, Working, Steps
<1>5. CASE ReconcileSecret
  <2>1. secret' = secret
    BY <1>5 DEF ReconcileSecret, made
  <2>2. ASSUME NEW op \in {"create", "update", "delete"}, NEW obj \in Secret, read # None,
               Make("secretCall", op, obj)
        PROVE  Working'
    <3> DEFINE d == [op |-> op, obj |-> obj]
    <3>1. d \in Calls /\ d # None /\ d.op = op /\ d.obj = obj
      BY CallTypes
    <3>2. call' = d /\ at' = "secretCall" /\ UNCHANGED <<due, read, refData, seen>>
      BY <2>2 DEF Make
    <3> HIDE DEF d
    <3> QED BY <1>1, <2>2, <3>1, <3>2 DEF Working, Steps
  <2>3. \/ Finish(TRUE)
        \/ /\ read # None
           /\ \/ GoOn("cluster")
              \/ Make("secretCall", "create", BuildSecret(NewSecret))
              \/ Make("secretCall", "update", BuildSecret(NewSecret))
              \/ /\ secretCache # None
                 /\ \/ Make("secretCall", "delete", secretCache)
                    \/ Make("secretCall", "update", BuildSecret(secretCache))
    BY <1>5 DEF ReconcileSecret
  <2>4. secretCache # None => secretCache \in Secret
    BY <1>1 DEF CacheTypes
  <2>5. read # None => BuildSecret(NewSecret) \in Secret
                       /\ \A old \in Secret : BuildSecret(old) \in Secret
    BY BuiltTypes
  <2>6. Finish(TRUE) => Working'
    BY <1>1, FinishWorks
  <2>7. Working'
    <3>1. CASE Finish(TRUE)
      BY <2>6, <3>1
    <3>2. CASE read # None /\ GoOn("cluster")
      BY <1>4, <3>2
    <3>3. CASE read # None /\ Make("secretCall", "create", BuildSecret(NewSecret))
      BY <2>2, <2>5, <3>3
    <3>4. CASE read # None /\ Make("secretCall", "update", BuildSecret(NewSecret))
      BY <2>2, <2>5, <3>4
    <3>5. CASE read # None /\ secretCache # None /\ Make("secretCall", "delete", secretCache)
      BY <2>2, <2>4, <3>5
    <3>6. CASE read # None /\ secretCache # None
                 /\ Make("secretCall", "update", BuildSecret(secretCache))
      BY <2>2, <2>4, <2>5, <3>6
    <3> QED BY <2>3, <3>1, <3>2, <3>3, <3>4, <3>5, <3>6
  <2> QED BY <1>1, <1>2, <1>3, <2>1, <2>7 DEF TInv, ApiTypes, given
<1>6. CASE SecretCall
  <2>1. at = "secretCall" /\ read # None /\ call.obj \in Secret
    BY <1>1, <1>6 DEF SecretCall, Working
  <2>2. /\ Finish(TRUE) \/ GoOn("cluster")
        /\ StoreSecret(call.obj) \/ secret' = secret \/ secret' = None
    <3>1. CASE call.op = "create"
      BY <1>6, <3>1 DEF SecretCall
    <3>2. CASE call.op = "update"
      BY <1>6, <3>2 DEF SecretCall
    <3>3. CASE call.op = "delete"
      BY <1>6, <3>3 DEF SecretCall
    <3>4. call.op \in {"create", "update", "delete"}
      BY <1>1, <1>6 DEF SecretCall, Working, Calls
    <3> QED BY <3>1, <3>2, <3>3, <3>4
  <2>3. secret' \in Secret \cup {None}
    BY <1>1, <2>1, <2>2, SecretStored DEF ApiTypes
  <2>4. Working'
    BY <1>1, <1>4, <2>1, <2>2, FinishWorks
  <2> QED BY <1>1, <1>2, <1>3, <2>3, <2>4 DEF TInv, ApiTypes, given
<1> QED BY <1>5, <1>6

(* The deployment is written, and its status made, only by one that has    *)
(* read an EdgeCluster, or needs none.                                     *)
LEMMA TInvDeployment ==
    TInv /\ (ReadCluster \/ ReconcileDeployment \/ DeploymentCall) => TInv'
<1> SUFFICES ASSUME TInv, ReadCluster \/ ReconcileDeployment \/ DeploymentCall PROVE TInv'
  OBVIOUS
<1>1. ApiTypes /\ CacheTypes /\ Working /\ Counted /\ TypeOK
  BY TInvTypes DEF TInv
<1>2. UNCHANGED <<given, secret, caches, image, connection, left>>
  BY DEF ReadCluster, ReconcileDeployment, DeploymentCall, made
<1>3. CacheTypes' /\ Counted'
  BY <1>1, <1>2 DEF CacheTypes, Counted, caches
<1>4. ASSUME Finish(TRUE) \/ Finish(FALSE) PROVE Working'
  BY <1>1, <1>4, FinishWorks
<1>5. read # None /\ read \in KnativeEdge /\ read.deleting \in BOOLEAN
  BY <1>1 DEF Working, ReadCluster, ReconcileDeployment, DeploymentCall, KnativeEdge
<1>6. CASE ReadCluster
  <2>1. deployment' = deployment
    BY <1>6 DEF ReadCluster, made
  <2>2. \/ Finish(TRUE) \/ Finish(FALSE)
        \/ /\ seen' = NoCluster \/ (connection # None /\ seen' = connection.cache /\ seen' # None)
           /\ at' = "deployment" /\ UNCHANGED <<due, read, refData, call>>
    BY <1>6 DEF ReadCluster
  <2>3. NoCluster \in EdgeCluster
    BY DEF NoCluster, EdgeCluster
  <2>4. connection # None => connection.cache \in EdgeCluster \cup {None}
    BY <1>1 DEF CacheTypes, Connection
  <2>5. NoCluster # None
    BY <2>3, NoneIsNothing
  <2>6. ASSUME seen' \in EdgeCluster, seen' # None, at' = "deployment",
               UNCHANGED <<due, read, refData, call>>
        PROVE  Working'
    BY <1>1, <1>5, <2>6 DEF Working, Steps
  <2>7. Working'
    BY <1>4, <2>2, <2>3, <2>4, <2>5, <2>6
  <2> QED BY <1>1, <1>2, <1>3, <2>1, <2>7 DEF TInv, ApiTypes, given
<1>7. CASE ReconcileDeployment
  <2>1. deployment' = deployment /\ at = "deployment" /\ seen # None
    BY <1>1, <1>7 DEF ReconcileDeployment, Working, made
  <2>2. seen \in EdgeCluster /\ (deploymentCache # None => deploymentCache \in Deployment)
    BY <1>1, <2>1 DEF Working, CacheTypes
  <2>3. ASSUME NEW op \in {"create", "update", "delete"}, NEW obj \in Deployment,
               (op = "delete") <=> read.deleting, Make("deploymentCall", op, obj)
        PROVE  Working'
    <3> DEFINE d == [op |-> op, obj |-> obj]
    <3>1. d \in Calls /\ d # None /\ d.op = op /\ d.obj = obj
      BY CallTypes
    <3>2. call' = d /\ at' = "deploymentCall" /\ UNCHANGED <<due, read, refData, seen>>
      BY <2>3 DEF Make
    <3> HIDE DEF d
    <3> QED BY <1>1, <1>5, <2>1, <2>3, <3>1, <3>2 DEF Working, Steps
  <2>4. BuildDeployment(NewDeployment, seen) \in Deployment
        /\ (deploymentCache # None => BuildDeployment(deploymentCache, seen) \in Deployment)
    BY <1>5, <2>2, BuiltTypes
  <2>5. CASE read.deleting
    <3>1. \/ Finish(TRUE)
          \/ (deploymentCache # None /\ Make("deploymentCall", "delete", deploymentCache))
      BY <1>7, <2>5 DEF ReconcileDeployment
    <3>2. Working'
      BY <1>4, <2>2, <2>3, <2>5, <3>1
    <3> QED BY <1>1, <1>2, <1>3, <2>1, <3>2 DEF TInv, ApiTypes, given
  <2>6. CASE ~read.deleting
    <3>1. \/ Finish(FALSE)
          \/ Make("deploymentCall", "create", BuildDeployment(NewDeployment, seen))
          \/ (deploymentCache # None
                /\ Make("deploymentCall", "update", BuildDeployment(deploymentCache, seen)))
      BY <1>7, <2>6 DEF ReconcileDeployment
    <3>2. Working'
      BY <1>4, <2>3, <2>4, <2>6, <3>1
    <3> QED BY <1>1, <1>2, <1>3, <2>1, <3>2 DEF TInv, ApiTypes, given
  <2> QED BY <2>5, <2>6
<1>8. CASE DeploymentCall
  <2>1. /\ at = "deploymentCall" /\ seen # None /\ call.obj \in Deployment
        /\ (call.op = "delete") <=> read.deleting
    BY <1>1, <1>8 DEF DeploymentCall, Working
  <2>2. seen \in EdgeCluster
    BY <1>1, <2>1 DEF Working
  <2>3. \/ (deployment' = None /\ Finish(FALSE))
        \/ (deployment' = deployment /\ Finish(TRUE))
        \/ /\ ~read.deleting
           /\ StoreDeployment(call.obj)
           /\ Make("statusCall", "status", Observed(deployment'.generation))
    BY <1>8, <2>1 DEF DeploymentCall
  <2>4. ASSUME ~read.deleting, StoreDeployment(call.obj),
               Make("statusCall", "status", Observed(deployment'.generation))
        PROVE  deployment' \in Deployment /\ Working'
    <3> DEFINE status == Observed(deployment'.generation)
               d == [op |-> "status", obj |-> status]
    <3>1. deployment' \in Deployment
      BY <1>1, <2>1, <2>4, DeploymentStored
    <3>2. status \in Status
      <4>1. deployment'.generation \in Nat /\ read.generation \in Nat /\ seen.generation \in Nat
        BY <1>5, <2>2, <3>1 DEF Deployment, KnativeEdge, EdgeCluster
      <4> QED BY <4>1 DEF Observed, Status
    <3> HIDE DEF status
    <3>3. d \in Calls /\ d # None /\ d.obj = status
      BY <3>2, CallTypes
    <3>4. call' = d /\ at' = "statusCall" /\ UNCHANGED <<due, read, refData, seen>>
      BY <2>4 DEF Make, status
    <3> HIDE DEF d
    <3>5. Working'
      BY <1>1, <1>5, <2>1, <2>4, <3>2, <3>3, <3>4 DEF Working, Steps
    <3> QED BY <3>1, <3>5
  <2>5. deployment' \in Deployment \cup {None} /\ Working'
    BY <1>1, <1>4, <2>3, <2>4 DEF ApiTypes
  <2> QED BY <1>1, <1>2, <1>3, <2>5 DEF TInv, ApiTypes, given
<1> QED BY <1>6, <1>7, <1>8

(* A status is written, a call fails, the operator starts again.           *)
LEMMA TInvEnds == TInv /\ (StatusCall \/ CallFails \/ Panics \/ Restart) => TInv'
<1> SUFFICES ASSUME TInv, StatusCall \/ CallFails \/ Panics \/ Restart PROVE TInv'
  OBVIOUS
<1>1. ApiTypes /\ CacheTypes /\ Working /\ Counted /\ TypeOK
  BY TInvTypes DEF TInv
<1>2. CASE StatusCall
  <2>1. /\ UNCHANGED <<kubeconfig, cluster, secret, deployment, caches, image, connection, left>>
        /\ Finish(TRUE) \/ Finish(FALSE)
    BY <1>2 DEF StatusCall, made
  <2>2. Working'
    BY <1>1, <2>1, FinishWorks
  <2>3. edge' \in KnativeEdge \cup {None}
    <3> DEFINE new == [edge EXCEPT !.status = call.obj]
    <3>1. CASE edge # None /\ StoreEdge(new)
      <4>1. call.obj \in Status /\ edge \in KnativeEdge
        BY <1>1, <1>2, <3>1 DEF StatusCall, Working, ApiTypes
      <4>2. new \in KnativeEdge
        BY <4>1 DEF KnativeEdge
      <4> QED BY <1>1, <3>1, <4>2, EdgeStored
    <3>2. CASE edge' = edge
      BY <1>1, <3>2 DEF ApiTypes
    <3> QED BY <1>2, <3>1, <3>2 DEF StatusCall
  <2> QED BY <1>1, <2>1, <2>2, <2>3 DEF TInv, ApiTypes, CacheTypes, Counted, caches
<1>3. CASE CallFails
  <2>1. UNCHANGED <<given, made, caches, image, connection>> /\ Finish(TRUE) /\ Spend("fault")
    BY <1>3 DEF CallFails
  <2>2. Working' /\ Counted'
    BY <1>1, <2>1, FinishWorks, SpendCounts DEF Changes
  <2> QED BY <1>1, <2>1, <2>2 DEF TInv, ApiTypes, CacheTypes, given, made, caches
<1>4. CASE Panics
  <2>1. StartOver /\ image' = image /\ left' = left
    BY <1>4 DEF Panics
  <2>2. ApiTypes' /\ CacheTypes' /\ Working'
    BY <1>1, <2>1, StartTypes DEF CacheTypes
  <2> QED BY <1>1, <2>1, <2>2 DEF TInv, Counted
<1>5. CASE Restart
  <2>1. Counted'
    BY <1>1, <1>5, SpendCounts DEF Restart, Changes
  <2>2. image' \in Nat \ {0}
    BY <1>1, <1>5 DEF Restart, CacheTypes
  <2>3. ApiTypes' /\ CacheTypes' /\ Working'
    BY <1>5, <2>2, StartTypes DEF Restart
  <2> QED BY <2>1, <2>3 DEF TInv
<1> QED BY <1>2, <1>3, <1>4, <1>5

(* Every step keeps the types.                                             *)
LEMMA TInvNext == TInv /\ [Next]_vars => TInv'
<1> SUFFICES ASSUME TInv, [Next]_vars PROVE TInv'
  OBVIOUS
<1>1. CASE UNCHANGED vars
  BY <1>1 DEF vars, given, made, caches, work, TInv, ApiTypes, CacheTypes, Working, Counted
<1>2. CASE Outside
  BY <1>2, TInvOutside
<1>3. CASE Watches
  BY <1>3, TInvWatches
<1> QED BY <1>1, <1>2, <1>3, TInvBegin, TInvConnect, TInvSecret, TInvDeployment, TInvEnds
        DEF Next, Outside, Watches

(* The types, and what each step needs, always hold.                       *)
LEMMA TInvHolds == Spec => []TInv
<1>1. Init => TInv
  BY TInvInit
<1>2. TInv /\ [Next]_vars => TInv'
  BY TInvNext
<1> QED BY <1>1, <1>2, PTL DEF Spec

(* The operator never has a step to take without what the step needs, and  *)
(* it connects only with a kubeconfig that is usable, whatever is deleted, *)
(* changed or refused meanwhile (Reconcile and all it calls).              *)
THEOREM TypesHold == Spec => []TypeOK
<1>1. TInv => TypeOK
  BY TInvTypes
<1> QED BY <1>1, TInvHolds, PTL

------------------------------------------------------------------------------
(* Why the generations in the status can be trusted.                       *)

(* What the operator reads of the KnativeEdge, or has read, is an earlier  *)
(* state of it or the same.                                                *)
Younger(old, new) ==
    old # None /\ new # None /\ old.uid = new.uid =>
        /\ old.generation <= new.generation
        /\ old.generation = new.generation =>
              /\ old.conf = new.conf /\ old.secretRef = new.secretRef
              /\ old.deleting = new.deleting

(* A version names one state; no cache goes on while it is the present one.*)
VersionNames(e) == edge # None /\ e # None /\ e.rv = edge.rv => e = edge

EdgesForward ==
    /\ Younger(edgeCache, edge) /\ Younger(read, edge) /\ Younger(read, edgeCache)
    /\ VersionNames(edgeCache) /\ VersionNames(read)
    /\ edge # None /\ read # None /\ read.rv = edge.rv => edgeCache = read

(* The same of the EdgeCluster, in the cache of the connection and in hand.*)
Later(old, new) ==
    old # None /\ new # None =>
        /\ old.generation <= new.generation
        /\ old.generation = new.generation => old.environments = new.environments

Cached == IF connection = None THEN None ELSE connection.cache

ClustersForward ==
    /\ Later(seen, Cached) /\ Later(seen, cluster) /\ Later(Cached, cluster)
    /\ cluster # None => cluster.generation > 0
    /\ Cached # None => Cached.generation > 0
    /\ at \in {"deployment", "deploymentCall", "statusCall"} /\ read.secretRef /\ ~read.deleting
          => seen.generation > 0

(* Nobody has seen an EdgeCluster that has not been created yet.           *)
Unborn ==
    cluster = None /\ left.cluster = Budget.cluster =>
        /\ Cached = None
        /\ seen # None => seen.generation = 0
        /\ edge # None => edge.status.cluster = 0

(* Nothing that is read after a status was written is older than what the  *)
(* status says has been applied.                                           *)
Claims ==
    edge # None =>
        /\ edge.generation > 0
        /\ edge.status.edge <= edge.generation
        /\ edge.status.edge = edge.generation => ~edge.deleting
        /\ cluster # None => edge.status.cluster <= cluster.generation
        /\ Cached # None => edge.status.cluster <= Cached.generation
        /\ seen # None /\ seen.generation > 0 => edge.status.cluster <= seen.generation
        /\ edge.status.edge > 0 =>
              /\ edgeCache # None /\ edgeCache.uid = edge.uid
              /\ edge.status.edge <= edgeCache.generation
              /\ at # "idle" => /\ read # None /\ read.uid = edge.uid
                                /\ edge.status.edge <= read.generation

NoDeletion == left.deletion = Budget.deletion
NoEdit == left.edit = Budget.edit

Runs(conf, environments) == deployment.conf = conf /\ deployment.environments = environments

(* Unless it was edited, the deployment that was not deleted, or was made  *)
(* again, runs what was applied; unless it was deleted it does as long as  *)
(* it has the generation it got then, and the collector leaves it alone.   *)
Applied(conf, environments, generation, owner) ==
    /\ NoEdit /\ deployment # None => Runs(conf, environments)
    /\ NoDeletion =>
          /\ deployment # None
          /\ deployment.generation >= generation
          /\ deployment.generation = generation => Runs(conf, environments)
          /\ Owned => deployment.owner = owner

UpToDate ==
    /\ edge # None /\ cluster # None /\ edge.secretRef
    /\ edge.status.edge = edge.generation /\ edge.status.cluster = cluster.generation

Content ==
    UpToDate => Applied(edge.conf, cluster.environments, edge.status.deployment, edge.uid)

(* What is about to be written is what was read; what is about to be       *)
(* claimed has been applied, if the claim is still accepted.               *)
Writing ==
    /\ at = "deploymentCall" /\ call.op # "delete" =>
          /\ call.obj.conf = read.conf /\ call.obj.environments = seen.environments
          /\ Owned => call.obj.owner = read.uid
    /\ at = "statusCall" =>
          /\ call.obj.edge = read.generation /\ call.obj.cluster = seen.generation
          /\ edge # None /\ edge.rv = read.rv =>
                Applied(read.conf, seen.environments, call.obj.deployment, read.uid)

Ownerless ==
    ~Owned =>
        /\ \A d \in {secret, deployment, secretCache, deploymentCache} \ {None} : d.owner = None
        /\ at \in {"secretCall", "deploymentCall"} => call.obj.owner = None

Current ==
    EdgesForward /\ ClustersForward /\ Unborn /\ Claims /\ Content /\ Writing /\ Ownerless

SInv == TInv /\ (~Recreated => Current)

(* A change of one kind spends nothing of the others.                      *)
LEMMA SpendKeeps ==
    ASSUME Counted, NEW c \in Changes \ {"all"}, Spend(c)
    PROVE  /\ \A d \in Changes \ {c, "all"} : left'[d] = left[d]
           /\ left'[c] < Budget[c]
BY SpendCounts DEF Spend, Counted

(* At first nothing has been read, written or claimed.                     *)
LEMMA CurrentInit == Init => Current
<1> SUFFICES ASSUME Init PROVE Current
  OBVIOUS
<1>1. edge = None /\ edgeCache = None /\ read = None /\ seen = None /\ connection = None
      /\ deployment = None /\ secret = None /\ secretCache = None /\ deploymentCache = None
      /\ at = "idle" /\ cluster \in {None, FirstCluster}
  BY DEF Init
<1>2. cluster # None => cluster.generation > 0
  BY <1>1 DEF FirstCluster
<1>3. EdgesForward /\ ClustersForward /\ Unborn /\ Claims
  BY <1>1, <1>2 DEF EdgesForward, Younger, VersionNames, ClustersForward, Later, Cached, Unborn,
     Claims
<1>4. Content /\ Writing /\ Ownerless
  BY <1>1 DEF Content, UpToDate, Writing, Ownerless
<1> QED BY <1>3, <1>4 DEF Current

(* A KnativeEdge that users create or change is none that was seen before, *)
(* and its generation is above everything claimed.                         *)
LEMMA UserSteps ==
    ASSUME TInv, User
    PROVE  \/ edge' = None
           \/ /\ edge' \in KnativeEdge
              /\ \A e \in {edge, edgeCache, read} \ {None} : e.rv # edge'.rv
              /\ \/ /\ edge = None /\ edge'.generation = 1
                    /\ \A e \in {edgeCache, read} \ {None} : e.uid # edge'.uid
                    /\ edge'.status = [deployment |-> 0, edge |-> 0, cluster |-> 0]
                 \/ /\ edge # None /\ edge'.uid = edge.uid /\ edge'.status = edge.status
                    /\ edge'.generation = edge.generation + 1
<1>1. TypeOK /\ edge \in KnativeEdge \cup {None}
  BY TInvTypes DEF TInv, ApiTypes
<1>2. CASE UserCreates
  <2> PICK conf \in Confs, ref \in BOOLEAN :
        StoreEdge([rv |-> 0, uid |-> FreshUid, generation |-> 1,
                   conf |-> conf, secretRef |-> ref, deleting |-> FALSE,
                   status |-> [deployment |-> 0, edge |-> 0, cluster |-> 0]])
    BY <1>2 DEF UserCreates
  <2> DEFINE new == [rv |-> 0, uid |-> FreshUid, generation |-> 1,
                     conf |-> conf, secretRef |-> ref, deleting |-> FALSE,
                     status |-> [deployment |-> 0, edge |-> 0, cluster |-> 0]]
  <2>1. /\ new \in KnativeEdge /\ new.uid = FreshUid /\ new.generation = 1
        /\ new.status = [deployment |-> 0, edge |-> 0, cluster |-> 0]
    BY UidIsFresh DEF KnativeEdge, Status
  <2>2. StoreEdge(new) /\ edge = None
    BY <1>2 DEF UserCreates
  <2> HIDE DEF new
  <2>3. /\ edge' \in KnativeEdge /\ edge'.uid = FreshUid /\ edge'.generation = 1
        /\ edge'.status = [deployment |-> 0, edge |-> 0, cluster |-> 0]
        /\ edge' = edge \/ \A e \in {edge, edgeCache, read} \ {None} : e.rv # edge'.rv
    BY <1>1, <2>1, <2>2, EdgeStored
  <2>4. edge' # None
    BY <2>3, NoneIsNothing
  <2> QED BY <2>2, <2>3, <2>4, UidIsFresh
<1>3. ASSUME NEW new \in KnativeEdge, edge # None, StoreEdge(new), new.uid = edge.uid,
             new.status = edge.status, new.generation = edge.generation + 1
      PROVE  /\ edge' \in KnativeEdge /\ edge'.uid = edge.uid /\ edge'.status = edge.status
             /\ edge'.generation = edge.generation + 1
             /\ \A e \in {edge, edgeCache, read} \ {None} : e.rv # edge'.rv
  <2>1. /\ edge' \in KnativeEdge /\ edge'.uid = edge.uid /\ edge'.status = edge.status
        /\ edge'.generation = edge.generation + 1
        /\ edge' = edge \/ \A e \in {edge, edgeCache, read} \ {None} : e.rv # edge'.rv
    BY <1>1, <1>3, EdgeStored
  <2>2. edge.generation \in Nat
    BY <1>1, <1>3 DEF KnativeEdge
  <2>3. edge' # edge
    BY <2>1, <2>2
  <2> QED BY <2>1, <2>3
<1>4. CASE UserChanges
  <2> PICK conf \in Confs, ref \in BOOLEAN :
        StoreEdge([edge EXCEPT !.conf = conf, !.secretRef = ref, !.generation = @ + 1])
    BY <1>4 DEF UserChanges
  <2> DEFINE new == [edge EXCEPT !.conf = conf, !.secretRef = ref, !.generation = @ + 1]
  <2>1. edge # None /\ edge \in KnativeEdge /\ edge.generation + 1 \in Nat
    BY <1>1, <1>4 DEF UserChanges, KnativeEdge
  <2>2. new \in KnativeEdge /\ new.uid = edge.uid /\ new.status = edge.status
        /\ new.generation = edge.generation + 1
    BY <2>1 DEF KnativeEdge
  <2> QED BY <1>3, <2>1, <2>2
<1>5. CASE UserDeletes
  <2> DEFINE new == [edge EXCEPT !.deleting = TRUE, !.generation = @ + 1]
  <2>1. edge # None /\ edge \in KnativeEdge /\ edge.generation + 1 \in Nat
    BY <1>1, <1>5 DEF UserDeletes, KnativeEdge
  <2>2. new \in KnativeEdge /\ new.uid = edge.uid /\ new.status = edge.status
        /\ new.generation = edge.generation + 1
    BY <2>1 DEF KnativeEdge
  <2>3. edge' = None \/ StoreEdge(new)
    BY <1>5 DEF UserDeletes
  <2> QED BY <1>3, <2>1, <2>2, <2>3
<1> QED BY <1>2, <1>4, <1>5 DEF User

(* All generations are numbers.                                            *)
LEMMA Generations ==
    ASSUME TInv
    PROVE  /\ \A e \in {edge, edgeCache, read} \ {None} :
                 /\ e \in KnativeEdge /\ e.generation \in Nat /\ e.status \in Status
                 /\ e.status.edge \in Nat /\ e.status.cluster \in Nat
                 /\ e.status.deployment \in Nat
           /\ \A c \in {cluster, seen, Cached} \ {None} : c \in EdgeCluster /\ c.generation \in Nat
           /\ deployment # None => deployment \in Deployment /\ deployment.generation \in Nat
<1>1. ApiTypes /\ CacheTypes /\ Working
  BY DEF TInv
<1>2. ASSUME NEW e \in {edge, edgeCache, read} \ {None}
      PROVE  /\ e \in KnativeEdge /\ e.generation \in Nat /\ e.status \in Status
             /\ e.status.edge \in Nat /\ e.status.cluster \in Nat
             /\ e.status.deployment \in Nat
  <2>1. e \in KnativeEdge
    BY <1>1 DEF ApiTypes, CacheTypes, Working
  <2>2. e.generation \in Nat /\ e.status \in Status
    BY <2>1 DEF KnativeEdge
  <2> QED BY <2>1, <2>2 DEF Status
<1>3. Cached \in EdgeCluster \cup {None}
  BY <1>1 DEF Cached, CacheTypes, Connection
<1>4. ASSUME NEW c \in {cluster, seen, Cached} \ {None}
      PROVE  c \in EdgeCluster /\ c.generation \in Nat
  <2>1. c \in EdgeCluster
    BY <1>1, <1>3 DEF ApiTypes, Working
  <2> QED BY <2>1 DEF EdgeCluster
<1>5. deployment # None => deployment \in Deployment /\ deployment.generation \in Nat
  BY <1>1 DEF ApiTypes, Deployment
<1> QED BY <1>2, <1>4, <1>5

(* What a user of the edge cluster changes outdates the status.            *)
LEMMA CurrentUser ==
    ASSUME TInv, Current, User
    PROVE  Current'
<1>1. /\ EdgesForward /\ ClustersForward /\ Unborn /\ Claims /\ Content /\ Writing /\ Ownerless
      /\ Working
  BY DEF Current, TInv
<1>2. /\ UNCHANGED <<kubeconfig, cluster, secret, deployment, edgeCache, secretCache,
                     deploymentCache, image, connection, due, at, read, refData, seen, call>>
      /\ Spend("edge")
  BY DEF User, made, caches, work
<1>3. left'.cluster = left.cluster /\ left'.deletion = left.deletion /\ left'.edit = left.edit
  BY <1>2, SpendKeeps DEF TInv, Changes
<1>4. /\ Cached' = Cached /\ (NoDeletion <=> NoDeletion') /\ (NoEdit <=> NoEdit')
  BY <1>2, <1>3 DEF Cached, NoDeletion, NoEdit
<1>5. ClustersForward' /\ Ownerless'
  BY <1>1, <1>2, <1>4 DEF ClustersForward, Later, Ownerless
<1>6. CASE edge' = None
  BY <1>1, <1>2, <1>3, <1>4, <1>5, <1>6 DEF Current, EdgesForward, Younger, VersionNames, Unborn,
     Claims, Content, UpToDate, Writing
<1>7. CASE /\ edge' \in KnativeEdge
           /\ \A e \in {edge, edgeCache, read} \ {None} : e.rv # edge'.rv
           /\ \/ /\ edge = None /\ edge'.generation = 1
                 /\ \A e \in {edgeCache, read} \ {None} : e.uid # edge'.uid
                 /\ edge'.status = [deployment |-> 0, edge |-> 0, cluster |-> 0]
              \/ /\ edge # None /\ edge'.uid = edge.uid /\ edge'.status = edge.status
                 /\ edge'.generation = edge.generation + 1
  <2>1. EdgesForward'
    <3>1. Younger(edgeCache, edge)' /\ Younger(read, edge)'
      BY <1>1, <1>2, <1>7, Generations DEF EdgesForward, Younger
    <3> QED BY <1>1, <1>2, <1>7, <3>1 DEF EdgesForward, Younger, VersionNames
  <2>2. Unborn'
    BY <1>1, <1>2, <1>3, <1>4, <1>7 DEF Unborn
  <2>3. /\ edge'.generation > 0 /\ edge'.status.edge < edge'.generation
        /\ cluster # None => edge'.status.cluster <= cluster.generation
        /\ Cached # None => edge'.status.cluster <= Cached.generation
        /\ seen # None /\ seen.generation > 0 => edge'.status.cluster <= seen.generation
        /\ edge'.status.edge > 0 =>
              edge # None /\ edge'.uid = edge.uid /\ edge'.status = edge.status
    <3>1. CASE edge = None
      BY <1>7, <3>1, Generations
    <3>2. CASE edge # None
      BY <1>1, <1>7, <3>2, Generations DEF Claims
    <3> QED BY <3>1, <3>2
  <2>4. edge'.generation \in Nat /\ edge'.status.edge \in Nat
    BY <1>7 DEF KnativeEdge, Status
  <2>5. edge'.status.edge <= edge'.generation /\ edge'.status.edge # edge'.generation
    BY <2>3, <2>4
  <2>6. Claims'
    BY <1>1, <1>2, <1>4, <2>3, <2>5 DEF Claims
  <2>7. ~UpToDate'
    BY <2>5 DEF UpToDate
  <2>8. Writing'
    <3>1. at = "statusCall" => ~(edge' # None /\ edge'.rv = read.rv)
      BY <1>1, <1>7 DEF Working
    <3> QED BY <1>1, <1>2, <3>1 DEF Writing
  <2> QED BY <1>5, <2>1, <2>2, <2>6, <2>7, <2>8 DEF Current, Content
<1> QED BY <1>6, <1>7, UserSteps

(* So does a change of the EdgeCluster, unless generations start again.    *)
LEMMA CurrentCluster ==
    ASSUME TInv, TInv', Current, ~Recreated, ClusterChanges
    PROVE  Current'
<1>1. /\ EdgesForward /\ ClustersForward /\ Unborn /\ Claims /\ Content /\ Writing /\ Ownerless
      /\ Counted
  BY DEF Current, TInv
<1>2. /\ UNCHANGED <<edge, kubeconfig, secret, deployment, edgeCache, secretCache,
                     deploymentCache, image, connection, due, at, read, refData, seen, call>>
      /\ Spend("cluster")
  BY DEF ClusterChanges, made, caches, work
<1>3. left'.deletion = left.deletion /\ left'.edit = left.edit /\ left'.cluster < Budget.cluster
  BY <1>1, <1>2, SpendKeeps DEF Changes
<1>4. /\ Cached' = Cached /\ (NoDeletion <=> NoDeletion') /\ (NoEdit <=> NoEdit')
  BY <1>2, <1>3 DEF Cached, NoDeletion, NoEdit
<1>5. EdgesForward' /\ Ownerless' /\ Writing'
  BY <1>1, <1>2, <1>4 DEF EdgesForward, Younger, VersionNames, Ownerless, Writing, Applied, Runs
<1>6. Unborn'
  <2>1. left.cluster \in Nat /\ left'.cluster \in Nat /\ Budget.cluster \in Nat
    BY OperatorAssumption DEF TInv, Counted, Changes
  <2> QED BY <1>3, <2>1 DEF Unborn
<1>7. CASE cluster' = None
  BY <1>1, <1>2, <1>4, <1>5, <1>6, <1>7 DEF Current, ClustersForward, Later, Claims, Content,
     UpToDate
<1>8. CASE cluster' # None
  <2>1. \/ cluster = None /\ left.cluster = Budget.cluster /\ cluster'.generation = 1
        \/ cluster # None /\ cluster'.generation = cluster.generation + 1
    BY <1>8 DEF ClusterChanges
  <2>2. /\ cluster'.generation > 0
        /\ Cached # None => Cached.generation < cluster'.generation
        /\ seen # None => seen.generation < cluster'.generation
        /\ edge # None => edge.status.cluster < cluster'.generation
    <3>1. CASE cluster = None
      BY <1>1, <2>1, <3>1, Generations DEF Unborn
    <3>2. CASE cluster # None
      BY <1>1, <2>1, <3>2, Generations DEF ClustersForward, Later, Claims
    <3> QED BY <3>1, <3>2
  <2>3. /\ cluster'.generation \in Nat
        /\ \A c \in {seen, Cached} \ {None} : c.generation \in Nat
        /\ edge # None => edge.status.cluster \in Nat
    BY <1>8, Generations DEF TInv, ApiTypes, EdgeCluster
  <2>4. ClustersForward'
    BY <1>1, <1>2, <1>4, <2>2, <2>3 DEF ClustersForward, Later
  <2>5. Claims'
    <3>1. edge # None => edge.status.cluster <= cluster'.generation
      BY <2>2, <2>3
    <3> QED BY <1>1, <1>2, <1>4, <1>8, <3>1 DEF Claims
  <2>6. ~UpToDate'
    <3>1. edge # None => edge.status.cluster # cluster'.generation
      BY <2>2, <2>3
    <3> QED BY <1>2, <3>1 DEF UpToDate
  <2> QED BY <1>5, <1>6, <2>4, <2>5, <2>6 DEF Current, Content
<1> QED BY <1>7, <1>8

(* Someone makes away with, or edits, what the operator made, or the       *)
(* kubeconfig changes: what is read is the same, and what was applied      *)
(* still counts as applied for a KnativeEdge that is to stay.              *)
LEMMA CurrentMade ==
    ASSUME TInv, Current,
           KubeconfigChanges \/ Deletion \/ Edit \/ CollectSecret \/ CollectDeployment
    PROVE  Current'
<1>1. /\ EdgesForward /\ ClustersForward /\ Unborn /\ Claims /\ Content /\ Writing /\ Ownerless
      /\ Working /\ Counted /\ TypeOK
  BY TInvTypes DEF Current, TInv
<1>2. UNCHANGED <<edge, cluster, edgeCache, secretCache, deploymentCache, image, connection,
                  due, at, read, refData, seen, call>>
  BY DEF KubeconfigChanges, Deletion, Edit, CollectSecret, CollectDeployment, given, made, caches,
         work
<1>3. ASSUME left'.cluster = left.cluster, Ownerless',
             ASSUME NEW conf, NEW environments, NEW generation \in Nat, NEW owner,
                    Applied(conf, environments, generation, owner),
                    edge # None, edge.uid = owner, ~edge.deleting
             PROVE  Applied(conf, environments, generation, owner)'
      PROVE  Current'
  <2>1. EdgesForward' /\ ClustersForward' /\ Unborn' /\ Claims'
    BY <1>1, <1>2, <1>3 DEF EdgesForward, Younger, VersionNames, ClustersForward, Later, Cached,
       Unborn, Claims
  <2>2. Content'
    BY <1>1, <1>2, <1>3, Generations DEF Content, UpToDate, Claims
  <2>3. Writing'
    <3>1. at = "statusCall" => call.obj.deployment \in Nat
      BY <1>1 DEF Working, Status
    <3> QED BY <1>1, <1>2, <1>3, <3>1 DEF Writing, Working, EdgesForward, VersionNames
  <2> QED BY <1>3, <2>1, <2>2, <2>3 DEF Current
<1>4. ASSUME deployment' = deployment, secret' \in {secret, None},
             left'.cluster = left.cluster, NoDeletion' => NoDeletion, NoEdit' => NoEdit
      PROVE  Current'
  <2>1. Ownerless'
    BY <1>1, <1>2, <1>4 DEF Ownerless
  <2> QED BY <1>3, <1>4, <2>1 DEF Applied, Runs
<1>5. CASE KubeconfigChanges
  <2>1. Spend("kubeconfig") /\ made' = made
    BY <1>5 DEF KubeconfigChanges
  <2>2. left'.cluster = left.cluster /\ left'.deletion = left.deletion /\ left'.edit = left.edit
    BY <1>1, <2>1, SpendKeeps DEF Changes
  <2> QED BY <1>4, <2>1, <2>2 DEF NoDeletion, NoEdit, made
<1>6. CASE Deletion
  <2>1. Spend("deletion")
    BY <1>6 DEF Deletion
  <2>2. /\ left'.deletion < Budget.deletion /\ left'.cluster = left.cluster
        /\ left'.edit = left.edit /\ Counted'
    BY <1>1, <2>1, SpendKeeps, SpendCounts DEF Changes
  <2>3. ~NoDeletion'
    BY <2>2, OperatorAssumption DEF NoDeletion, Counted, Changes
  <2>4. CASE deployment' = deployment
    BY <1>4, <1>6, <2>2, <2>3, <2>4 DEF Deletion, NoEdit
  <2>5. CASE deployment' = None /\ secret' = secret
    <3>1. Ownerless'
      BY <1>1, <1>2, <2>5 DEF Ownerless
    <3> QED BY <1>3, <2>2, <2>3, <2>5, <3>1 DEF Applied
  <2> QED BY <1>6, <2>4, <2>5 DEF Deletion
<1>7. CASE Edit
  <2>1. Spend("edit") /\ secret' = secret
    BY <1>7 DEF Edit
  <2>2. /\ left'.edit < Budget.edit /\ left'.cluster = left.cluster
        /\ left'.deletion = left.deletion /\ Counted'
    BY <1>1, <2>1, SpendKeeps, SpendCounts DEF Changes
  <2>3. ~NoEdit' /\ (NoDeletion' <=> NoDeletion)
    BY <2>2, OperatorAssumption DEF NoDeletion, NoEdit, Counted, Changes
  <2> DEFINE new == [deployment EXCEPT !.environments = None]
  <2>4. deployment \in Deployment /\ deployment # None /\ StoreDeployment(new)
    BY <1>1, <1>7 DEF Edit, TypeOK
  <2>5. new \in Deployment /\ new.owner = deployment.owner
    BY <2>4 DEF Deployment
  <2> HIDE DEF new
  <2>6. /\ deployment' \in Deployment /\ deployment' # None
        /\ deployment'.owner = deployment.owner
        /\ deployment'.conf = new.conf /\ deployment'.environments = new.environments
        /\ deployment'.generation >= deployment.generation
        /\ deployment'.generation = deployment.generation =>
              deployment.conf = new.conf /\ deployment.environments = new.environments
    BY <1>1, <2>4, <2>5, DeploymentStored
  <2>7. Ownerless'
    BY <1>1, <1>2, <2>1, <2>4, <2>6 DEF Ownerless
  <2>8. deployment.generation \in Nat /\ deployment'.generation \in Nat
    BY <2>4, <2>6 DEF Deployment
  <2>9. ASSUME NEW conf, NEW environments, NEW generation \in Nat, NEW owner,
               Applied(conf, environments, generation, owner)
        PROVE  Applied(conf, environments, generation, owner)'
    BY <2>3, <2>6, <2>8, <2>9 DEF Applied, Runs
  <2> QED BY <1>3, <2>2, <2>7, <2>9
<1>8. CASE CollectSecret
  BY <1>4, <1>8 DEF CollectSecret, NoDeletion, NoEdit
<1>9. CASE CollectDeployment
  <2>1. /\ deployment' = None /\ secret' = secret /\ left' = left /\ Abandoned(deployment)
    BY <1>9 DEF CollectDeployment
  <2>2. Ownerless'
    BY <1>1, <1>2, <2>1 DEF Ownerless
  <2>3. deployment # None /\ deployment.owner # None
        /\ (edge # None => edge.uid # deployment.owner \/ edge.deleting)
    BY <2>1 DEF Abandoned
  <2>4. Owned
    BY <1>1, <2>3 DEF Ownerless
  <2>5. ASSUME NEW conf, NEW environments, NEW generation \in Nat, NEW owner,
               Applied(conf, environments, generation, owner),
               edge # None, edge.uid = owner, ~edge.deleting
        PROVE  Applied(conf, environments, generation, owner)'
    BY <2>1, <2>3, <2>4, <2>5 DEF Applied, NoDeletion
  <2> QED BY <1>3, <2>1, <2>2, <2>5
<1> QED BY <1>5, <1>6, <1>7, <1>8, <1>9

(* A KnativeEdge that waited for its dependents goes.                      *)
LEMMA CurrentGone ==
    ASSUME TInv, Current, CollectEdge
    PROVE  Current'
<1>1. /\ EdgesForward /\ ClustersForward /\ Unborn /\ Claims /\ Content /\ Writing /\ Ownerless
  BY DEF Current
<1>2. /\ edge' = None
      /\ UNCHANGED <<cluster, secret, deployment, edgeCache, secretCache, deploymentCache,
                     connection, at, read, seen, call, left>>
  BY DEF CollectEdge, made, caches, work
<1> QED BY <1>1, <1>2 DEF Current, EdgesForward, Younger, VersionNames, ClustersForward, Later,
     Cached, Unborn, Claims, Content, UpToDate, Writing, Ownerless

(* The watches bring the present state.                                    *)
LEMMA CurrentWatches ==
    ASSUME TInv, Current, Watches
    PROVE  Current'
<1>1. /\ EdgesForward /\ ClustersForward /\ Unborn /\ Claims /\ Content /\ Writing /\ Ownerless
  BY DEF Current
<1>2. UNCHANGED <<edge, cluster, secret, deployment, at, read, seen, call, left>>
  BY DEF Watches, DeliverEdge, DeliverSecret, DeliverDeployment, Resync, StartConnection,
         DeliverCluster, given, made, work
<1>3. Content' /\ Writing'
  BY <1>1, <1>2 DEF Content, UpToDate, Writing, Applied, Runs, NoDeletion, NoEdit
<1>4. CASE DeliverEdge
  <2>1. edgeCache' = edge /\ UNCHANGED <<secretCache, deploymentCache, connection>>
    BY <1>4 DEF DeliverEdge
  <2>2. EdgesForward'
    BY <1>1, <1>2, <2>1, Generations DEF EdgesForward, Younger, VersionNames
  <2>3. Claims'
    BY <1>1, <1>2, <2>1 DEF Claims, Cached
  <2>4. ClustersForward' /\ Unborn' /\ Ownerless'
    BY <1>1, <1>2, <2>1 DEF ClustersForward, Later, Cached, Unborn, Ownerless
  <2> QED BY <1>3, <2>2, <2>3, <2>4 DEF Current
<1>5. CASE DeliverSecret \/ DeliverDeployment
  <2>1. UNCHANGED <<edgeCache, connection>>
    BY <1>5 DEF DeliverSecret, DeliverDeployment
  <2>2. Ownerless'
    BY <1>1, <1>2, <1>5 DEF Ownerless, DeliverSecret, DeliverDeployment
  <2>3. EdgesForward' /\ ClustersForward' /\ Unborn' /\ Claims'
    BY <1>1, <1>2, <2>1 DEF EdgesForward, Younger, VersionNames, ClustersForward, Later, Cached,
       Unborn, Claims
  <2> QED BY <1>3, <2>2, <2>3 DEF Current
<1>6. ASSUME UNCHANGED caches, Cached' = Cached
      PROVE  Current'
  <2>1. UNCHANGED <<edgeCache, secretCache, deploymentCache>>
    BY <1>6 DEF caches
  <2> HIDE DEF Cached
  <2>2. EdgesForward' /\ ClustersForward' /\ Unborn' /\ Claims' /\ Ownerless'
    BY <1>1, <1>2, <1>6, <2>1 DEF EdgesForward, Younger, VersionNames, ClustersForward, Later,
       Unborn, Claims, Ownerless
  <2> QED BY <1>3, <2>2 DEF Current
<1>7. CASE Resync
  BY <1>6, <1>7 DEF Resync, Cached
<1>8. CASE StartConnection
  <2>1. connection \in Connection /\ connection # None
        /\ connection' = [connection EXCEPT !.started = TRUE]
    BY <1>8 DEF StartConnection, TInv, CacheTypes
  <2>2. connection' \in Connection /\ connection'.cache = connection.cache
    BY <2>1 DEF Connection
  <2>3. connection' # None
    BY <2>2, NoneIsNothing
  <2> QED BY <1>6, <1>8, <2>1, <2>2, <2>3 DEF StartConnection, Cached
<1>9. CASE DeliverCluster
  <2>1. /\ connection \in Connection /\ UNCHANGED caches
        /\ connection' = [connection EXCEPT !.synced = TRUE, !.cache = cluster]
    BY <1>9 DEF DeliverCluster, TInv, CacheTypes
  <2>2. connection' \in Connection /\ connection'.cache = cluster
    BY <2>1 DEF Connection, TInv, ApiTypes
  <2>3. Cached' = cluster
    BY <2>2, NoneIsNothing DEF Cached
  <2> HIDE DEF Cached
  <2>4. ClustersForward' /\ Unborn' /\ Claims'
    BY <1>1, <1>2, <2>1, <2>3, Generations DEF ClustersForward, Later, Unborn, Claims, caches
  <2>5. EdgesForward' /\ Ownerless'
    BY <1>1, <1>2, <2>1 DEF EdgesForward, Younger, VersionNames, Ownerless, caches
  <2> QED BY <1>3, <2>4, <2>5 DEF Current
<1> QED BY <1>4, <1>5, <1>7, <1>8, <1>9 DEF Watches

(* A reconciliation starts from the cache, with the connection it has or   *)
(* with none.                                                              *)
LEMMA CurrentBegin ==
    ASSUME TInv, Current, Begin \/ ReadFails
    PROVE  Current'
<1>1. /\ EdgesForward /\ ClustersForward /\ Unborn /\ Claims /\ Content /\ Writing /\ Ownerless
      /\ Counted
  BY DEF Current, TInv
<1>2. PICK data \in Data : ReconcileCluster(data)
  BY DEF Begin, ReadFails, TInv, ApiTypes, Data
<1>3. /\ at' \in {"secret", "connect"} /\ read' = edgeCache
      /\ UNCHANGED <<edge, cluster, secret, deployment, edgeCache, secretCache, deploymentCache,
                     seen, call>>
  BY <1>2 DEF ReconcileCluster, given, made, caches
<1>4. left'.cluster = left.cluster /\ left'.deletion = left.deletion /\ left'.edit = left.edit
  <2>1. left' = left \/ Spend("fault")
    BY DEF Begin, ReadFails
  <2> QED BY <1>1, <2>1, SpendKeeps DEF Changes
<1>5. Cached' = Cached \/ Cached' = None
  BY <1>2, ConnectsOrNot DEF Cached
<1>6. EdgesForward'
  BY <1>1, <1>3, Generations DEF EdgesForward, Younger, VersionNames
<1>7. ClustersForward' /\ Unborn' /\ Claims'
  BY <1>1, <1>3, <1>4, <1>5 DEF ClustersForward, Later, Unborn, Claims
<1>8. Content' /\ Writing' /\ Ownerless'
  BY <1>1, <1>3, <1>4 DEF Content, UpToDate, Writing, Applied, Runs, NoDeletion, NoEdit, Ownerless
<1> QED BY <1>6, <1>7, <1>8 DEF Current

(* A new connection has seen nothing.                                      *)
LEMMA CurrentConnect ==
    ASSUME TInv, Current, Connected \/ ConnectFails
    PROVE  Current'
<1>1. /\ EdgesForward /\ ClustersForward /\ Unborn /\ Claims /\ Content /\ Writing /\ Ownerless
  BY DEF Current
<1>2. /\ at = "connect" /\ at' = "secret"
      /\ UNCHANGED <<edge, cluster, secret, deployment, edgeCache, secretCache, deploymentCache,
                     read, seen, call, left>>
  BY DEF Connected, ConnectFails, given, made, caches
<1>3. Cached' = Cached \/ Cached' = None
  <2>1. CASE Connected
    BY <2>1, ConnectionMade DEF Cached
  <2>2. CASE ConnectFails
    BY <2>2 DEF ConnectFails, Cached
  <2> QED BY <2>1, <2>2
<1>4. EdgesForward'
  BY <1>1, <1>2 DEF EdgesForward, Younger, VersionNames
<1>5. ClustersForward' /\ Unborn' /\ Claims'
  BY <1>1, <1>2, <1>3 DEF ClustersForward, Later, Unborn, Claims
<1>6. Content' /\ Writing' /\ Ownerless'
  BY <1>1, <1>2 DEF Content, UpToDate, Writing, Applied, Runs, NoDeletion, NoEdit, Ownerless
<1> QED BY <1>4, <1>5, <1>6 DEF Current

(* Between two reads of a reconciliation, and when it ends, what it knows  *)
(* of KnativeEdge and EdgeCluster stays as it was.                         *)
LEMMA KnownKept ==
    ASSUME EdgesForward, ClustersForward, Unborn, Claims,
           UNCHANGED <<edge, cluster, edgeCache, connection>>, left'.cluster = left.cluster,
           \/ read' = None /\ seen' = None /\ at' = "idle"
           \/ /\ read' = read /\ seen' = seen /\ at # "idle"
              /\ at' \in {"deployment", "deploymentCall", "statusCall"} =>
                    at \in {"deployment", "deploymentCall", "statusCall"}
    PROVE  EdgesForward' /\ ClustersForward' /\ Unborn' /\ Claims'
<1>1. Cached' = Cached
  BY DEF Cached
<1>2. EdgesForward'
  BY DEF EdgesForward, Younger, VersionNames
<1>3. ClustersForward'
  BY <1>1 DEF ClustersForward, Later
<1>4. Unborn'
  BY <1>1 DEF Unborn
<1>5. Claims'
  BY <1>1 DEF Claims
<1> QED BY <1>2, <1>3, <1>4, <1>5

(* reconcileSecret and its call write what has no owner if none is set,    *)
(* and leave the deployment alone.                                         *)
LEMMA CurrentSecret ==
    ASSUME TInv, Current, ReconcileSecret \/ SecretCall
    PROVE  Current'
<1>1. /\ EdgesForward /\ ClustersForward /\ Unborn /\ Claims /\ Content /\ Writing /\ Ownerless
      /\ Working /\ CacheTypes /\ TypeOK
  BY TInvTypes DEF Current, TInv
<1>2. UNCHANGED <<edge, cluster, deployment, edgeCache, secretCache, deploymentCache, connection,
                  left>>
  BY DEF ReconcileSecret, SecretCall, given, made, caches
<1>3. ASSUME at \in {"secret", "secretCall"}, Ownerless',
             \/ Finish(TRUE) \/ GoOn("cluster")
             \/ at' = "secretCall" /\ read' = read /\ seen' = seen
      PROVE  Current'
  <2>1. EdgesForward' /\ ClustersForward' /\ Unborn' /\ Claims'
    BY <1>1, <1>2, <1>3, KnownKept DEF Finish, GoOn
  <2>2. Content' /\ Writing'
    BY <1>1, <1>2, <1>3 DEF Content, UpToDate, Writing, Applied, Runs, NoDeletion, NoEdit, Finish,
       GoOn
  <2> QED BY <1>3, <2>1, <2>2 DEF Current
<1>4. CASE ReconcileSecret
  <2>1. at = "secret" /\ secret' = secret
    BY <1>4 DEF ReconcileSecret, made
  <2>2. \/ Finish(TRUE) \/ GoOn("cluster")
        \/ /\ read # None
           /\ \E op \in {"create", "update", "delete"}, obj \in Secret :
                 /\ Make("secretCall", op, obj)
                 /\ ~Owned => obj.owner = None
    <3>1. secretCache # None => /\ secretCache \in Secret
                                /\ ~Owned => secretCache.owner = None
      BY <1>1 DEF CacheTypes, Ownerless
    <3>2. NewSecret.owner = None
      BY DEF NewSecret
    <3>3. ASSUME read # None, NEW old \in Secret, ~Owned => old.owner = None
          PROVE  BuildSecret(old) \in Secret /\ (~Owned => BuildSecret(old).owner = None)
      <4>1. BuildSecret(old) \in Secret
        BY <3>3, BuiltTypes
      <4> QED BY <3>3, <4>1 DEF BuildSecret, Owner, Secret
    <3>4. read # None => NewSecret \in Secret
      BY BuiltTypes
    <3>5. \/ Finish(TRUE)
          \/ /\ read # None
             /\ \/ GoOn("cluster")
                \/ Make("secretCall", "create", BuildSecret(NewSecret))
                \/ Make("secretCall", "update", BuildSecret(NewSecret))
                \/ /\ secretCache # None
                   /\ \/ Make("secretCall", "delete", secretCache)
                      \/ Make("secretCall", "update", BuildSecret(secretCache))
      BY <1>4 DEF ReconcileSecret
    <3> QED BY <3>1, <3>2, <3>3, <3>4, <3>5
  <2>3. Finish(TRUE) \/ GoOn("cluster") => Ownerless'
    BY <1>1, <1>2, <2>1 DEF Ownerless, Finish, GoOn
  <2>4. ASSUME NEW op \in {"create", "update", "delete"}, NEW obj \in Secret,
               Make("secretCall", op, obj), ~Owned => obj.owner = None
        PROVE  Ownerless' /\ at' = "secretCall" /\ read' = read /\ seen' = seen
    BY <1>1, <1>2, <2>1, <2>4 DEF Ownerless, Make
  <2> QED BY <1>3, <2>1, <2>2, <2>3, <2>4
<1>5. CASE SecretCall
  <2>1. at = "secretCall" /\ call.obj \in Secret /\ call.op \in {"create", "update", "delete"}
    BY <1>1, <1>5 DEF SecretCall, Working, Calls
  <2>2. /\ Finish(TRUE) \/ GoOn("cluster")
        /\ StoreSecret(call.obj) \/ secret' = secret \/ secret' = None
    BY <1>5, <2>1 DEF SecretCall
  <2>3. ~Owned /\ secret' # None => secret'.owner = None
    BY <1>1, <2>1, <2>2, SecretStored DEF Ownerless
  <2>4. Ownerless'
    BY <1>1, <1>2, <2>2, <2>3 DEF Ownerless, Finish, GoOn
  <2> QED BY <1>3, <2>1, <2>2, <2>4
<1> QED BY <1>4, <1>5

(* An EdgeCluster that is read comes from the cache of the connection; the *)
(* empty one stands for none, of a generation nothing has.                 *)
LEMMA CurrentRead ==
    ASSUME TInv, Current, ReadCluster
    PROVE  Current'
<1>1. /\ EdgesForward /\ ClustersForward /\ Unborn /\ Claims /\ Content /\ Writing /\ Ownerless
  BY DEF Current
<1>2. at = "cluster" /\ UNCHANGED <<edge, cluster, secret, deployment, edgeCache, secretCache,
                                    deploymentCache, connection, left>>
  BY DEF ReadCluster, given, made, caches
<1>3. \/ Finish(TRUE) \/ Finish(FALSE)
      \/ /\ at' = "deployment" /\ read' = read /\ call' = call
         /\ \/ (read.deleting \/ ~read.secretRef) /\ seen' = NoCluster
            \/ seen' = Cached /\ Cached # None
  BY DEF ReadCluster, Cached
<1>4. Cached' = Cached
  BY <1>2 DEF Cached
<1>5. Content' /\ Writing' /\ Ownerless'
  BY <1>1, <1>2, <1>3 DEF Content, UpToDate, Writing, Applied, Runs, NoDeletion, NoEdit, Ownerless,
     Finish
<1>6. CASE Finish(TRUE) \/ Finish(FALSE)
  <2>1. EdgesForward' /\ ClustersForward' /\ Unborn' /\ Claims'
    BY <1>1, <1>2, <1>6, KnownKept DEF Finish
  <2> QED BY <1>5, <2>1 DEF Current
<1>7. CASE /\ at' = "deployment" /\ read' = read /\ call' = call
           /\ \/ (read.deleting \/ ~read.secretRef) /\ seen' = NoCluster
              \/ seen' = Cached /\ Cached # None
  <2>1. EdgesForward'
    BY <1>1, <1>2, <1>7 DEF EdgesForward, Younger, VersionNames
  <2>2. \/ (read.deleting \/ ~read.secretRef) /\ seen'.generation = 0
        \/ seen' = Cached /\ Cached # None /\ Cached.generation > 0
    BY <1>1, <1>7 DEF NoCluster, ClustersForward
  <2>3. ClustersForward' /\ Unborn' /\ Claims'
    BY <1>1, <1>2, <1>4, <1>7, <2>2, Generations DEF ClustersForward, Later, Unborn, Claims
  <2> QED BY <1>5, <2>1, <2>3 DEF Current
<1> QED BY <1>3, <1>6, <1>7

(* reconcileDeployment builds from what has been read.                     *)
Built(new) ==
    /\ new.conf = read.conf /\ new.environments = seen.environments
    /\ Owned => new.owner = read.uid
    /\ ~Owned => new.owner = None

(* So what it is about to write is what it has read.                       *)
LEMMA CurrentBuilt ==
    ASSUME TInv, Current, ReconcileDeployment
    PROVE  Current'
<1>1. /\ EdgesForward /\ ClustersForward /\ Unborn /\ Claims /\ Content /\ Writing /\ Ownerless
      /\ Working /\ CacheTypes
  BY DEF Current, TInv
<1>2. at = "deployment" /\ UNCHANGED <<edge, cluster, secret, deployment, edgeCache, secretCache,
                                       deploymentCache, connection, left>>
  BY DEF ReconcileDeployment, given, made, caches
<1>3. read # None /\ seen \in EdgeCluster
  BY <1>1, <1>2 DEF Working
<1>4. Content'
  BY <1>1, <1>2 DEF Content, UpToDate, Applied, Runs, NoDeletion, NoEdit
<1>5. ASSUME NEW old \in Deployment, ~Owned => old.owner = None
      PROVE  Built(BuildDeployment(old, seen))
  <2>1. Owner(old.owner) = IF Owned THEN read.uid ELSE old.owner
    BY DEF Owner
  <2> QED BY <1>5, <2>1 DEF BuildDeployment, Deployment, Built
<1>6. /\ NewDeployment \in Deployment /\ NewDeployment.owner = None
      /\ deploymentCache # None =>
            /\ deploymentCache \in Deployment
            /\ ~Owned => deploymentCache.owner = None
  BY <1>1, <1>3, BuiltTypes DEF NewDeployment, CacheTypes, Ownerless
<1>7. \/ Finish(TRUE) \/ Finish(FALSE)
      \/ /\ at' = "deploymentCall" /\ read' = read /\ seen' = seen
         /\ ~Owned => call'.obj.owner = None
         /\ call'.op # "delete" => Built(call'.obj)
  <2>1. \/ Finish(TRUE) \/ Finish(FALSE)
        \/ deploymentCache # None /\ Make("deploymentCall", "delete", deploymentCache)
        \/ Make("deploymentCall", "create", BuildDeployment(NewDeployment, seen))
        \/ /\ deploymentCache # None
           /\ Make("deploymentCall", "update", BuildDeployment(deploymentCache, seen))
    BY DEF ReconcileDeployment
  <2>2. ASSUME NEW op, NEW new, Make("deploymentCall", op, new), ~Owned => new.owner = None,
               op # "delete" => Built(new)
        PROVE  /\ at' = "deploymentCall" /\ read' = read /\ seen' = seen
               /\ ~Owned => call'.obj.owner = None
               /\ call'.op # "delete" => Built(call'.obj)
    <3>1. call'.op = op /\ call'.obj = new
      BY <2>2 DEF Make
    <3> QED BY <2>2, <3>1 DEF Make
  <2>3. ASSUME NEW new, Built(new) PROVE ~Owned => new.owner = None
    BY <2>3 DEF Built
  <2>4. /\ Built(BuildDeployment(NewDeployment, seen))
        /\ deploymentCache # None => Built(BuildDeployment(deploymentCache, seen))
    BY <1>5, <1>6
  <2> QED BY <1>6, <2>1, <2>2, <2>3, <2>4
<1>8. EdgesForward' /\ ClustersForward' /\ Unborn' /\ Claims'
  BY <1>1, <1>2, <1>7, KnownKept DEF Finish
<1>9. Writing' /\ Ownerless'
  BY <1>1, <1>2, <1>7 DEF Writing, Ownerless, Finish, Built
<1> QED BY <1>4, <1>8, <1>9 DEF Current

(* If the status says that all is applied then the reconciliation under    *)
(* way has read what there is.                                             *)
LEMMA ReadIsCurrent ==
    ASSUME TInv, Current, UpToDate, at \in {"deploymentCall", "statusCall"}
    PROVE  /\ ~read.deleting /\ read.conf = edge.conf /\ read.uid = edge.uid
           /\ seen.environments = cluster.environments
<1>1. EdgesForward /\ ClustersForward /\ Claims /\ Working
  BY DEF Current, TInv
<1>2. /\ edge # None /\ cluster # None /\ edge.secretRef /\ edge.generation > 0
      /\ edge.status.edge = edge.generation /\ edge.status.cluster = cluster.generation
      /\ ~edge.deleting
  BY <1>1 DEF UpToDate, Claims
<1>3. read # None /\ seen # None /\ read.uid = edge.uid /\ edge.status.edge <= read.generation
  BY <1>1, <1>2 DEF Claims, Working
<1>4. /\ edge.generation \in Nat /\ read.generation \in Nat
      /\ cluster.generation \in Nat /\ seen.generation \in Nat
  BY <1>2, <1>3, Generations
<1>5. /\ read.generation <= edge.generation
      /\ read.generation = edge.generation =>
            /\ read.conf = edge.conf /\ read.secretRef = edge.secretRef
            /\ read.deleting = edge.deleting
  BY <1>1, <1>2, <1>3 DEF EdgesForward, Younger
<1>6. read.conf = edge.conf /\ read.secretRef /\ ~read.deleting
  <2>1. read.generation = edge.generation
    BY <1>2, <1>3, <1>4, <1>5
  <2> QED BY <1>2, <1>5, <2>1
<1>7. seen.generation > 0 /\ cluster.generation <= seen.generation
  BY <1>1, <1>2, <1>3, <1>6 DEF ClustersForward, Claims
<1>8. /\ seen.generation <= cluster.generation
      /\ seen.generation = cluster.generation => seen.environments = cluster.environments
  BY <1>1, <1>2, <1>3 DEF ClustersForward, Later
<1> QED BY <1>3, <1>4, <1>6, <1>7, <1>8

(* A deployment is deleted only if the status cannot say that all is       *)
(* applied, and what is stored is what the status will claim.              *)
LEMMA CurrentStored ==
    ASSUME TInv, Current, DeploymentCall
    PROVE  Current'
<1>1. /\ EdgesForward /\ ClustersForward /\ Unborn /\ Claims /\ Content /\ Writing /\ Ownerless
      /\ Working /\ TypeOK
  BY TInvTypes DEF Current, TInv
<1>2. at = "deploymentCall" /\ UNCHANGED <<edge, cluster, secret, edgeCache, secretCache,
                                           deploymentCache, connection, left>>
  BY DEF DeploymentCall, given, caches
<1>3. call.obj \in Deployment /\ ((call.op = "delete") <=> read.deleting)
  BY <1>1, <1>2 DEF Working
<1>4. UpToDate' <=> UpToDate
  BY <1>2 DEF UpToDate
<1>5. CASE deployment' = deployment /\ Finish(TRUE)
  <2>1. EdgesForward' /\ ClustersForward' /\ Unborn' /\ Claims'
    BY <1>1, <1>2, <1>5, KnownKept DEF Finish
  <2>2. Content' /\ Writing' /\ Ownerless'
    BY <1>1, <1>2, <1>4, <1>5 DEF Content, Writing, Applied, Runs, NoDeletion, NoEdit, Ownerless,
       Finish
  <2> QED BY <2>1, <2>2 DEF Current
<1>6. CASE call.op = "delete" /\ deployment' = None /\ Finish(FALSE)
  <2>1. EdgesForward' /\ ClustersForward' /\ Unborn' /\ Claims'
    BY <1>1, <1>2, <1>6, KnownKept DEF Finish
  <2>2. ~UpToDate
    BY <1>2, <1>3, <1>6, ReadIsCurrent
  <2>3. Content' /\ Writing' /\ Ownerless'
    BY <1>1, <1>2, <1>4, <1>6, <2>2 DEF Content, Writing, Ownerless, Finish
  <2> QED BY <2>1, <2>3 DEF Current
<1>7. CASE /\ call.op # "delete" /\ StoreDeployment(call.obj)
           /\ Make("statusCall", "status", Observed(deployment'.generation))
  <2>1. /\ deployment' \in Deployment /\ deployment' # None
        /\ deployment'.conf = read.conf /\ deployment'.environments = seen.environments
        /\ deployment'.owner = call.obj.owner
        /\ Owned => deployment'.owner = read.uid
        /\ deployment # None => deployment'.generation >= deployment.generation
    BY <1>1, <1>2, <1>3, <1>7, DeploymentStored DEF Writing
  <2>2. /\ at' = "statusCall" /\ read' = read /\ seen' = seen
        /\ call'.obj = Observed(deployment'.generation)
    BY <1>7 DEF Make
  <2>3. /\ call'.obj.edge = read.generation /\ call'.obj.cluster = seen.generation
        /\ call'.obj.deployment = deployment'.generation
    BY <2>2 DEF Observed
  <2>4. EdgesForward' /\ ClustersForward' /\ Unborn' /\ Claims'
    BY <1>1, <1>2, <2>2, KnownKept
  <2>5. deployment'.generation \in Nat
    BY <2>1 DEF Deployment
  <2>6. Content'
    <3>1. SUFFICES ASSUME UpToDate
                   PROVE  Applied(edge.conf, cluster.environments, edge.status.deployment, edge.uid)'
      BY <1>4 DEF Content
    <3>2. /\ read.conf = edge.conf /\ read.uid = edge.uid
          /\ seen.environments = cluster.environments
      BY <1>2, <3>1, ReadIsCurrent
    <3>3. Applied(edge.conf, cluster.environments, edge.status.deployment, edge.uid)
      BY <1>1, <3>1 DEF Content
    <3>4. edge.status.deployment \in Nat /\ (deployment # None => deployment.generation \in Nat)
      BY <3>1, Generations DEF UpToDate
    <3>5. NoDeletion => deployment'.generation >= edge.status.deployment
      BY <2>1, <2>5, <3>3, <3>4 DEF Applied
    <3> QED BY <1>2, <2>1, <3>2, <3>5 DEF Applied, Runs, NoDeletion
  <2>7. Writing'
    BY <1>2, <2>1, <2>2, <2>3, <2>5 DEF Writing, Applied, Runs
  <2>8. Ownerless'
    BY <1>1, <1>2, <2>1, <2>2 DEF Ownerless
  <2> QED BY <2>4, <2>6, <2>7, <2>8 DEF Current
<1> QED BY <1>5, <1>6, <1>7 DEF DeploymentCall

(* A status that is accepted is written to the KnativeEdge it was made     *)
(* from, which the cache has too, and it claims what has been applied.     *)
LEMMA CurrentStatus ==
    ASSUME TInv, Current, StatusCall
    PROVE  Current'
<1>1. /\ EdgesForward /\ ClustersForward /\ Unborn /\ Claims /\ Content /\ Writing /\ Ownerless
      /\ Working /\ TypeOK
  BY TInvTypes DEF Current, TInv
<1>2. /\ at = "statusCall" /\ (Finish(TRUE) \/ Finish(FALSE))
      /\ UNCHANGED <<cluster, secret, deployment, edgeCache, secretCache, deploymentCache,
                     connection, left>>
  BY DEF StatusCall, made, caches
<1>3. at' = "idle" /\ read' = None /\ seen' = None /\ Cached' = Cached
  BY <1>2 DEF Finish, Cached
<1>4. Writing' /\ Ownerless'
  BY <1>1, <1>2, <1>3 DEF Writing, Ownerless
<1>5. CASE edge' = edge
  <2>1. EdgesForward' /\ ClustersForward' /\ Unborn' /\ Claims'
    BY <1>1, <1>2, <1>3, <1>5, KnownKept
  <2>2. Content'
    BY <1>1, <1>2, <1>5 DEF Content, UpToDate, Applied, Runs, NoDeletion, NoEdit
  <2> QED BY <1>4, <2>1, <2>2 DEF Current
<1>6. CASE edge # None /\ edge.rv = read.rv /\ StoreEdge([edge EXCEPT !.status = call.obj])
  <2> DEFINE new == [edge EXCEPT !.status = call.obj]
  <2>1. /\ read # None /\ ~read.deleting /\ seen # None /\ call.obj \in Status
        /\ edge \in KnativeEdge
    BY <1>1, <1>2, <1>6 DEF Working, TypeOK
  <2>2. edge = read /\ edgeCache = read
    BY <1>1, <1>6, <2>1 DEF EdgesForward, VersionNames
  <2>3. /\ new \in KnativeEdge /\ new.status = call.obj /\ new.uid = edge.uid
        /\ new.generation = edge.generation /\ new.conf = edge.conf
        /\ new.secretRef = edge.secretRef /\ new.deleting = edge.deleting
    BY <2>1 DEF KnativeEdge
  <2>4. StoreEdge(new)
    BY <1>6
  <2> HIDE DEF new
  <2>5. /\ edge' \in KnativeEdge /\ edge'.status = call.obj /\ edge'.uid = edge.uid
        /\ edge'.generation = edge.generation /\ edge'.conf = edge.conf
        /\ edge'.secretRef = edge.secretRef /\ edge'.deleting = edge.deleting
        /\ edge' = edge \/ edgeCache.rv # edge'.rv
    BY <1>1, <2>1, <2>2, <2>3, <2>4, EdgeStored
  <2>6. edge' # None
    BY <2>5, NoneIsNothing
  <2>7. edge.generation \in Nat /\ seen.generation \in Nat /\ edge.generation > 0
    BY <1>1, <2>1, Generations, NoneIsNothing DEF Claims
  <2>8. /\ call.obj.edge = edge.generation /\ call.obj.cluster = seen.generation
        /\ Applied(edge.conf, seen.environments, call.obj.deployment, edge.uid)
    BY <1>1, <1>2, <1>6, <2>2 DEF Writing
  <2>9. EdgesForward'
    BY <1>2, <1>3, <2>2, <2>5, <2>7 DEF EdgesForward, Younger, VersionNames
  <2>10. ClustersForward'
    BY <1>1, <1>2, <1>3 DEF ClustersForward, Later
  <2>11. Unborn'
    BY <1>1, <1>2, <1>3, <2>1, <2>5, <2>8 DEF Unborn
  <2>12. Claims'
    <3>1. /\ cluster # None => seen.generation <= cluster.generation
          /\ Cached # None => seen.generation <= Cached.generation
      BY <1>1, <2>1 DEF ClustersForward, Later
    <3>2. edge.generation <= edge.generation
      BY <2>7
    <3> QED BY <1>2, <1>3, <2>1, <2>2, <2>5, <2>7, <2>8, <3>1, <3>2 DEF Claims
  <2>13. Content'
    <3>1. SUFFICES ASSUME UpToDate'
                   PROVE  Applied(edge.conf, cluster.environments, edge.status.deployment, edge.uid)'
      BY DEF Content
    <3>2. cluster # None /\ seen.generation = cluster.generation
      BY <1>2, <2>5, <2>8, <3>1 DEF UpToDate
    <3>3. seen.environments = cluster.environments
      BY <1>1, <2>1, <3>2 DEF ClustersForward, Later
    <3> QED BY <1>2, <2>5, <2>8, <3>3 DEF Applied, Runs, NoDeletion, NoEdit
  <2> QED BY <1>4, <2>9, <2>10, <2>11, <2>12, <2>13 DEF Current
<1> QED BY <1>5, <1>6 DEF StatusCall

(* A reconciliation that is cut off leaves the status as it was, and an    *)
(* operator that starts reads what there is.                               *)
LEMMA CurrentCut ==
    ASSUME TInv, Current, CallFails \/ Panics \/ Restart
    PROVE  Current'
<1>1. /\ EdgesForward /\ ClustersForward /\ Unborn /\ Claims /\ Content /\ Writing /\ Ownerless
      /\ Counted
  BY DEF Current, TInv
<1>2. /\ at' = "idle" /\ read' = None /\ seen' = None
      /\ UNCHANGED <<edge, cluster, secret, deployment>>
  BY DEF CallFails, Panics, Restart, StartOver, Finish, given, made
<1>3. left'.cluster = left.cluster /\ left'.deletion = left.deletion /\ left'.edit = left.edit
  <2>1. left' = left \/ Spend("fault") \/ Spend("restart")
    BY DEF CallFails, Panics, Restart
  <2> QED BY <1>1, <2>1, SpendKeeps DEF Changes
<1>4. Content' /\ Writing'
  BY <1>1, <1>2, <1>3 DEF Content, UpToDate, Writing, Applied, Runs, NoDeletion, NoEdit
<1>5. CASE CallFails
  <2>1. UNCHANGED <<edgeCache, secretCache, deploymentCache, connection>>
    BY <1>5 DEF CallFails, caches
  <2>2. EdgesForward' /\ ClustersForward' /\ Unborn' /\ Claims'
    BY <1>1, <1>2, <1>3, <2>1, KnownKept
  <2>3. Ownerless'
    BY <1>1, <1>2, <2>1 DEF Ownerless
  <2> QED BY <1>4, <2>2, <2>3 DEF Current
<1>6. CASE Panics \/ Restart
  <2>1. edgeCache' = edge /\ secretCache' = secret /\ deploymentCache' = deployment
        /\ Cached' = None
    BY <1>6 DEF Panics, Restart, StartOver, Cached
  <2>2. EdgesForward'
    BY <1>2, <2>1, Generations DEF EdgesForward, Younger, VersionNames
  <2>3. ClustersForward' /\ Unborn' /\ Claims'
    BY <1>1, <1>2, <1>3, <2>1 DEF ClustersForward, Later, Unborn, Claims
  <2>4. Ownerless'
    BY <1>1, <1>2, <2>1 DEF Ownerless
  <2> QED BY <1>4, <2>2, <2>3, <2>4 DEF Current
<1> QED BY <1>5, <1>6

(* Every step keeps what the status can be trusted for.                    *)
LEMMA CurrentNext ==
    ASSUME SInv, [Next]_vars
    PROVE  SInv'
<1>1. TInv'
  BY TInvNext DEF SInv
<1>2. SUFFICES ASSUME ~Recreated PROVE Current'
  BY <1>1 DEF SInv
<1>3. TInv /\ Current
  BY <1>2 DEF SInv
<1>4. CASE UNCHANGED vars
  BY <1>3, <1>4 DEF vars, given, made, caches, work, Current, EdgesForward, Younger, VersionNames,
     ClustersForward, Later, Cached, Unborn, Claims, Content, UpToDate, Applied, Runs, NoDeletion,
     NoEdit, Writing, Ownerless
<1>5. CASE Next
  <2>1. User => Current'
    BY <1>3, CurrentUser
  <2>2. ClusterChanges => Current'
    BY <1>1, <1>2, <1>3, CurrentCluster
  <2>3. KubeconfigChanges \/ Deletion \/ Edit \/ CollectSecret \/ CollectDeployment => Current'
    BY <1>3, CurrentMade
  <2>4. CollectEdge => Current'
    BY <1>3, CurrentGone
  <2>5. Watches => Current'
    BY <1>3, CurrentWatches
  <2>6. Begin \/ ReadFails => Current'
    BY <1>3, CurrentBegin
  <2>7. ReconcileSecret \/ SecretCall => Current'
    BY <1>3, CurrentSecret
  <2>8. /\ ReadCluster => Current'
        /\ ReconcileDeployment => Current'
        /\ DeploymentCall => Current'
        /\ StatusCall => Current'
    BY <1>3, CurrentRead, CurrentBuilt, CurrentStored, CurrentStatus
  <2>9. CallFails \/ Panics \/ Restart => Current'
    BY <1>3, CurrentCut
  <2>10. Connected \/ ConnectFails => Current'
    BY <1>3, CurrentConnect
  <2> QED BY <1>5, <2>1, <2>2, <2>3, <2>4, <2>5, <2>6, <2>7, <2>8, <2>9, <2>10
        DEF Next, Watches
<1> QED BY <1>4, <1>5

(* When the generations in the status say that nothing has to be done, the *)
(* deployment is what the KnativeEdge and the EdgeCluster ask for, for any *)
(* number of users' changes, failures and restarts (Outdated decides by    *)
(* these generations alone, needsUpdate in the code).                      *)
THEOREM StatusTrusted == Spec => []QuietMeansCurrent
<1>1. Init => SInv
  BY TInvInit, CurrentInit DEF SInv
<1>2. SInv /\ [Next]_vars => SInv'
  BY CurrentNext
<1>3. SInv => QuietMeansCurrent
  <2>1. SUFFICES ASSUME SInv, GenerationsGrow, UpToDate, deployment # None,
                        edge.status.deployment = deployment.generation
                 PROVE  Runs(edge.conf, cluster.environments)
    <3>1. edge.status = [deployment |-> deployment.generation, edge |-> edge.generation,
                         cluster |-> cluster.generation] =>
              /\ edge.status.deployment = deployment.generation
              /\ edge.status.edge = edge.generation
              /\ edge.status.cluster = cluster.generation
      OBVIOUS
    <3> QED BY <3>1 DEF QuietMeansCurrent, UpToDate, Runs
  <2>2. Content /\ (NoDeletion \/ NoEdit)
    BY <2>1 DEF SInv, Current, GenerationsGrow, NoDeletion, NoEdit
  <2> QED BY <2>1, <2>2 DEF Content, Applied
<1> QED BY <1>1, <1>2, <1>3, PTL DEF Spec
==============================================================================
