------------------------------- MODULE Operator -------------------------------
(***************************************************************************)
(* The operator of the edge cluster for one KnativeEdge: EdgeReconciler    *)
(* keeps a connection to the remote cluster the KnativeEdge refers to, a   *)
(* copy of the kubeconfig secret and the deployment of the controller,     *)
(* whose arguments come from the KnativeEdge and from the EdgeCluster it   *)
(* reads in the remote cluster.  What it has applied is remembered as      *)
(* generations: in the status of the KnativeEdge, and in an annotation of  *)
(* the copied secret.                                                      *)
(*                                                                         *)
(* All kubeconfigs give access to the same remote cluster (a rotation of   *)
(* credentials).  Timers and the work queue are one flag, due.             *)
(***************************************************************************)
EXTENDS Integers, FiniteSets

CONSTANTS
    Confs,        \* what the spec of a KnativeEdge gives to the deployment
    Environments, \* values of the environments of the EdgeCluster
    Kubeconfigs,  \* kubeconfigs the operator can use
    Owned,        \* is the KnativeEdge in the operator's namespace, so that it can be an owner?
    Recreated,    \* may an EdgeCluster that was deleted be created again?
    Budget,       \* bound: how often each kind of outside change happens, and all together
    None

Changes == {"edge", "kubeconfig", "cluster", "deletion", "edit", "fault", "restart", "all"}

(* A referenced secret without a kubeconfig, or with one that cannot be    *)
(* parsed; and one that can be parsed but leads to no cluster, since it    *)
(* has no context or no cluster of the name it gives.                      *)
Garbled == "garbled"
Incomplete == "incomplete"

ASSUME OperatorAssumption ==
    /\ {Owned, Recreated} \subseteq BOOLEAN
    /\ Environments # {}
    /\ Budget \in [Changes -> Nat]
    /\ {Garbled, Incomplete} \cap Kubeconfigs = {}
    /\ None \notin Nat \cup Kubeconfigs \cup {Garbled, Incomplete} \cup Environments

Status == [deployment : Nat, edge : Nat, cluster : Nat]

(* A KnativeEdge; uid tells a new one from a deleted one of the same name. *)
KnativeEdge == [rv : Nat, uid : Nat, generation : Nat, conf : Confs, secretRef : BOOLEAN,
                deleting : BOOLEAN, status : Status]

EdgeCluster == [generation : Nat, environments : Environments \cup {None}]

Steps == {"idle", "connect", "secret", "secretCall", "cluster", "deployment", "deploymentCall",
          "statusCall"}

Data == Kubeconfigs \cup {Garbled, Incomplete, None}

(* The copied secret; observed is its annotation, owner the uid of its owner. *)
Secret == [rv : Nat, data : Data, observed : Nat \cup {None}, owner : Nat \cup {None}]

Deployment == [rv : Nat, generation : Nat, conf : Confs \cup {None}, image : Nat \cup {None},
               environments : Environments \cup {None}, owner : Nat \cup {None}]

(* A remote cluster: its Start runs in a goroutine, and its cache is empty *)
(* until it has synced.                                                    *)
Connection == [kubeconfig : Kubeconfigs, generation : Nat, started : BOOLEAN,
               synced : BOOLEAN, cache : EdgeCluster \cup {None}]

Calls == [op : {"create", "update", "delete", "status"}, obj : Secret \cup Deployment \cup Status]

ASSUME NoneIsNothing ==
    None \notin KnativeEdge \cup EdgeCluster \cup Secret \cup Deployment \cup Connection \cup Calls

VARIABLES
    edge,        \* the KnativeEdge, or None
    kubeconfig,  \* the kubeconfig in the referenced secret, None: no such secret
    cluster,     \* the EdgeCluster in the remote cluster, or None
    secret,      \* the copy in the operator's namespace, or None
    deployment,  \* the deployment of the controller, or None
    edgeCache, secretCache, deploymentCache,  \* the same in the operator's caches
    image,       \* the image the running operator was started with, as a number
    connection,  \* the entry in remoteClusters, or None
    due,         \* is a reconciliation queued, or a timer for one running?
    at,          \* what the reconciliation does next: one of Steps
    read,        \* the KnativeEdge it has read, None: there is none
    refData,     \* the data of the referenced secret in its context
    seen,        \* the EdgeCluster it has read, or None
    call,        \* the API call it is about to make, or None
    left         \* left[c]: how many more changes of kind c may happen

given == <<edge, kubeconfig, cluster>>
made == <<secret, deployment>>
caches == <<edgeCache, secretCache, deploymentCache>>
work == <<due, at, read, refData, seen, call>>
vars == <<given, made, caches, image, connection, work, left>>

Spend(c) ==
    /\ left[c] > 0 /\ left["all"] > 0
    /\ left' = [left EXCEPT ![c] = @ - 1, !["all"] = @ - 1]

------------------------------------------------------------------------------
(* What a reconciliation computes.                                         *)

AlwaysMutant(data) == TRUE

Parses(data) == data # Garbled

(* The API server does not count generations of secrets.                   *)
SecretGeneration(data) == 0

NoCluster == [generation |-> 0, environments |-> None]

NewSecret == [rv |-> 0, data |-> None, observed |-> None, owner |-> None]

NewDeployment == [rv |-> 0, generation |-> 0, conf |-> None, image |-> None,
                  environments |-> None, owner |-> None]

UnownedMutant(old) == old

(* SetControllerReference, whose errors are ignored: the owner has to be   *)
(* in the same namespace.  One of the same name counts as the same object, *)
(* so that a new KnativeEdge takes over from a deleted one.                *)
Owner(old) == IF Owned THEN read.uid ELSE old

BuildSecret(old) ==
    [old EXCEPT !.data = refData, !.observed = SecretGeneration(refData), !.owner = Owner(@)]

StaleConfMutant(old, ec) ==
    [old EXCEPT !.conf = IF @ = None THEN read.conf ELSE @,
                !.image = image, !.environments = ec.environments, !.owner = Owner(@)]

BuildDeployment(old, ec) ==
    [old EXCEPT !.conf = read.conf, !.image = image, !.environments = ec.environments,
                !.owner = Owner(@)]

EdgeGenerationMutant(dep, ec) ==
    dep.generation # read.status.deployment \/ dep.image # image

(* Does the deployment have to be updated?                                 *)
Outdated(dep, ec) ==
    \/ dep.generation # read.status.deployment
    \/ read.generation # read.status.edge
    \/ ec.generation # read.status.cluster
    \/ dep.image # image

------------------------------------------------------------------------------
(* The API server of the edge cluster.  An update that changes nothing is  *)
(* not stored.                                                             *)

Same(old, new) == old # None /\ [new EXCEPT !.rv = old.rv] = old

(* Resource versions and uids are opaque: a new one is one nobody holds.   *)
Versions(objs) == {obj.rv : obj \in objs \ {None}}

Fresh(used) == CHOOSE n \in 1..(Cardinality(used) + 1) : n \notin used

(* What the call of a reconciliation holds.                                *)
InCall(step) == IF at = step THEN {call.obj} ELSE {}

FreshUid ==
    Fresh({obj.uid : obj \in {edge, edgeCache, read} \ {None}}
          \cup {obj.owner : obj \in {secret, secretCache, deployment, deploymentCache} \ {None}}
          \cup {obj.owner : obj \in InCall("secretCall") \cup InCall("deploymentCall")})

StoreSecret(new) ==
    secret' = IF Same(secret, new) THEN secret
              ELSE [new EXCEPT !.rv = Fresh(Versions({secret, secretCache} \cup InCall("secretCall")))]

Template(dep) == <<dep.conf, dep.image, dep.environments>>

NextGeneration(new) ==
    IF deployment = None THEN 1
    ELSE IF Template(new) = Template(deployment) THEN deployment.generation
         ELSE deployment.generation + 1

StoreDeployment(new) ==
    deployment' =
        IF Same(deployment, new) THEN deployment
        ELSE [new EXCEPT !.rv = Fresh(Versions({deployment, deploymentCache}
                                               \cup InCall("deploymentCall"))),
                         !.generation = NextGeneration(new)]

StoreEdge(new) ==
    edge' = IF Same(edge, new) THEN edge
            ELSE [new EXCEPT !.rv = Fresh(Versions({edge, edgeCache, read}))]

------------------------------------------------------------------------------
(* Which environments an EdgeCluster starts with makes no difference.      *)
FirstCluster == [generation |-> 1, environments |-> CHOOSE e \in Environments : TRUE]

Init ==
    /\ edge = None
    /\ kubeconfig \in Data
    /\ cluster \in {None, FirstCluster}
    /\ secret = None /\ deployment = None
    /\ edgeCache = None /\ secretCache = None /\ deploymentCache = None
    /\ image = 1
    /\ connection = None
    /\ due = FALSE
    /\ at = "idle"
    /\ read = None
    /\ refData = None
    /\ seen = None
    /\ call = None
    /\ left = Budget

(* Users of the edge cluster create, change and delete the KnativeEdge; a  *)
(* deletion in the foreground waits until its dependents are gone.         *)
UserCreates ==
    /\ edge = None
    /\ \E conf \in Confs, ref \in BOOLEAN :
          StoreEdge([rv |-> 0, uid |-> FreshUid, generation |-> 1,
                     conf |-> conf, secretRef |-> ref, deleting |-> FALSE,
                     status |-> [deployment |-> 0, edge |-> 0, cluster |-> 0]])

UserChanges ==
    /\ edge # None /\ ~edge.deleting
    /\ \E conf \in Confs, ref \in BOOLEAN :
          /\ <<conf, ref>> # <<edge.conf, edge.secretRef>>
          /\ StoreEdge([edge EXCEPT !.conf = conf, !.secretRef = ref, !.generation = @ + 1])

UserDeletes ==
    /\ edge # None /\ ~edge.deleting
    /\ \/ edge' = None
       \/ StoreEdge([edge EXCEPT !.deleting = TRUE, !.generation = @ + 1])

User ==
    /\ Spend("edge")
    /\ UserCreates \/ UserChanges \/ UserDeletes
    /\ UNCHANGED <<kubeconfig, cluster, made, caches, image, connection, work>>

KubeconfigChanges ==
    /\ Spend("kubeconfig")
    /\ kubeconfig' \in Data \ {kubeconfig}
    /\ UNCHANGED <<edge, cluster, made, caches, image, connection, work>>

(* Users of the cloud cluster create, change and delete the EdgeCluster;   *)
(* one that is created again counts its generations from 1 again.          *)
ClusterChanges ==
    /\ Spend("cluster")
    /\ \/ cluster # None /\ cluster' = None
       \/ \E environments \in Environments :
             /\ cluster # None => cluster.environments # environments
             /\ cluster = None => Recreated \/ left.cluster = Budget.cluster
             /\ cluster' = [environments |-> environments,
                            generation |-> IF cluster = None THEN 1 ELSE cluster.generation + 1]
    /\ UNCHANGED <<edge, kubeconfig, made, caches, image, connection, work>>

(* Someone deletes what the operator made, or edits the deployment.        *)
Deletion ==
    /\ Spend("deletion")
    /\ \/ secret # None /\ secret' = None /\ UNCHANGED deployment
       \/ deployment # None /\ deployment' = None /\ UNCHANGED secret
    /\ UNCHANGED <<given, caches, image, connection, work>>

Edit ==
    /\ Spend("edit")
    /\ deployment # None
    /\ StoreDeployment([deployment EXCEPT !.environments = None])
    /\ UNCHANGED <<given, secret, caches, image, connection, work>>

(* The garbage collector: dependents of an owner that is gone or being     *)
(* deleted, and an owner that waited for them.                             *)
Abandoned(obj) ==
    obj # None /\ obj.owner # None
        /\ (edge # None => edge.uid # obj.owner \/ edge.deleting)

CollectSecret ==
    /\ Abandoned(secret)
    /\ secret' = None
    /\ UNCHANGED <<given, deployment, caches, image, connection, work, left>>

CollectDeployment ==
    /\ Abandoned(deployment)
    /\ deployment' = None
    /\ UNCHANGED <<given, secret, caches, image, connection, work, left>>

CollectEdge ==
    /\ edge # None /\ edge.deleting
    /\ ~Abandoned(secret) /\ ~Abandoned(deployment)
    /\ edge' = None
    /\ UNCHANGED <<kubeconfig, cluster, made, caches, image, connection, work, left>>

------------------------------------------------------------------------------
(* The watches.  Events of secrets and deployments queue their owner.      *)

DeliverEdge ==
    /\ edgeCache # edge
    /\ edgeCache' = edge
    /\ due' = TRUE
    /\ UNCHANGED <<given, made, secretCache, deploymentCache, image, connection,
                   at, read, refData, seen, call, left>>

HasOwner(obj) == obj # None /\ obj.owner # None

DeliverSecret ==
    /\ secretCache # secret
    /\ secretCache' = secret
    /\ due' = (due \/ HasOwner(secretCache) \/ HasOwner(secret))
    /\ UNCHANGED <<given, made, edgeCache, deploymentCache, image, connection,
                   at, read, refData, seen, call, left>>

DeliverDeployment ==
    /\ deploymentCache # deployment
    /\ deploymentCache' = deployment
    /\ due' = (due \/ HasOwner(deploymentCache) \/ HasOwner(deployment))
    /\ UNCHANGED <<given, made, edgeCache, secretCache, image, connection,
                   at, read, refData, seen, call, left>>

(* The cache of the manager is resynced every minute.                      *)
Resync ==
    /\ edgeCache # None /\ ~due
    /\ due' = TRUE
    /\ UNCHANGED <<given, made, caches, image, connection,
                   at, read, refData, seen, call, left>>

(* The goroutine of the connection, and its cache.                         *)
StartConnection ==
    /\ connection # None /\ ~connection.started
    /\ connection' = [connection EXCEPT !.started = TRUE]
    /\ UNCHANGED <<given, made, caches, image, work, left>>

DeliverCluster ==
    /\ connection # None /\ connection.started
    /\ ~connection.synced \/ connection.cache # cluster
    /\ connection' = [connection EXCEPT !.synced = TRUE, !.cache = cluster]
    /\ UNCHANGED <<given, made, caches, image, work, left>>

------------------------------------------------------------------------------
(* A reconciliation.                                                       *)

Finish(requeue) ==
    /\ at' = "idle"
    /\ due' = (due \/ requeue)
    /\ read' = None
    /\ refData' = None
    /\ seen' = None
    /\ call' = None

NewConnection(data) ==
    [kubeconfig |-> data, generation |-> SecretGeneration(data), started |-> FALSE,
     synced |-> FALSE, cache |-> None]

(* Is there a connection for this generation of the secret?                *)
Kept(data) == connection # None /\ connection.generation = SecretGeneration(data)

Refers == edgeCache # None /\ edgeCache.secretRef

(* Reconcile reads the KnativeEdge; reconcileCluster, with what reading    *)
(* the referenced secret gave, has to connect if it has no connection, or  *)
(* one for another generation of the secret, which it drops.               *)
ReconcileCluster(data) ==
    /\ at = "idle" /\ due
    /\ due' = FALSE
    /\ read' = edgeCache
    /\ \/ /\ ~Refers \/ data = None
          /\ at' = "secret" /\ refData' = None
          /\ UNCHANGED connection
       \/ /\ Refers /\ data # None /\ Kept(data)
          /\ at' = "secret" /\ refData' = data
          /\ UNCHANGED connection
       \/ /\ Refers /\ data # None /\ ~Kept(data) /\ ~Parses(data)
          /\ at' = "secret" /\ refData' = None
          /\ connection' = None
       \/ /\ Refers /\ data # None /\ ~Kept(data) /\ Parses(data)
          /\ at' = "connect" /\ refData' = data
          /\ connection' = None
    /\ UNCHANGED <<given, made, caches, image, seen, call>>

Begin == ReconcileCluster(kubeconfig) /\ UNCHANGED left

(* Any error of the read is treated like a missing secret.                 *)
ReadFails ==
    /\ Refers
    /\ Spend("fault")
    /\ ReconcileCluster(None)

(* cluster.New asks the remote cluster for its API, without a timeout.     *)
Connected ==
    /\ at = "connect" /\ refData # Incomplete
    /\ connection' = NewConnection(refData)
    /\ at' = "secret"
    /\ UNCHANGED <<given, made, caches, image, due, read, refData, seen, call, left>>

(* It fails, which is treated like a missing secret.                       *)
ConnectFails ==
    /\ at = "connect" /\ refData # Incomplete
    /\ at' = "secret" /\ refData' = None
    /\ UNCHANGED <<given, made, caches, image, connection, due, read, seen, call, left>>

(* An operator that starts has no connection, and reads what there is.     *)
StartOver ==
    /\ connection' = None
    /\ edgeCache' = edge /\ secretCache' = secret /\ deploymentCache' = deployment
    /\ at' = "idle" /\ read' = None /\ refData' = None /\ seen' = None /\ call' = None
    /\ due' = (edge # None \/ HasOwner(secret) \/ HasOwner(deployment))
    /\ UNCHANGED <<given, made>>

(* ClientConfig returns nil and an error for a kubeconfig that leads to no *)
(* cluster; the proxy is set in the result before the error is looked at.  *)
(* The panic ends the process, which is started again.                     *)
Panics ==
    /\ at = "connect" /\ refData = Incomplete
    /\ StartOver
    /\ UNCHANGED <<image, left>>

Make(step, op, obj) ==
    /\ at' = step
    /\ call' = [op |-> op, obj |-> obj]
    /\ UNCHANGED <<due, read, refData, seen>>

GoOn(step) ==
    /\ at' = step
    /\ call' = None
    /\ UNCHANGED <<due, read, refData, seen>>

(* reconcileSecret.  A deleted KnativeEdge is read as one without a name,  *)
(* whose secret never exists; deleting a secret that was not found is an   *)
(* error, since the name to delete is empty.                               *)
ReconcileSecret ==
    /\ at = "secret"
    /\ LET old == IF read = None THEN None ELSE secretCache
           ref == read # None /\ read.secretRef
           deleting == read # None /\ read.deleting
           shouldCreate == old = None /\ ref /\ ~deleting
           shouldDelete == deleting /\ (old # None \/ ref)
       IN  IF shouldCreate
           THEN Make("secretCall", "create", BuildSecret(NewSecret))
           ELSE IF shouldDelete
           THEN IF old = None THEN Finish(TRUE) ELSE Make("secretCall", "delete", old)
           ELSE IF old = None
           THEN IF read = None THEN Finish(TRUE)
                ELSE Make("secretCall", "update", BuildSecret(NewSecret))
           ELSE IF old.observed # SecretGeneration(refData)
           THEN Make("secretCall", "update", BuildSecret(old))
           ELSE GoOn("cluster")
    /\ UNCHANGED <<given, made, caches, image, connection, left>>

(* An update without a resource version is unconditional.                  *)
SecretCall ==
    /\ at = "secretCall"
    /\ CASE call.op = "create" ->
              IF secret = None THEN StoreSecret(call.obj) /\ GoOn("cluster")
                               ELSE UNCHANGED secret /\ Finish(TRUE)
         [] call.op = "update" ->
              IF secret # None /\ call.obj.rv \in {0, secret.rv}
              THEN StoreSecret(call.obj) /\ GoOn("cluster")
              ELSE UNCHANGED secret /\ Finish(TRUE)
         [] call.op = "delete" ->
              secret' = None /\ GoOn("cluster")
    /\ UNCHANGED <<given, deployment, caches, image, connection, left>>

(* reconcileDeployment.  Reading the EdgeCluster waits until the cache of  *)
(* the connection has synced; a missing one ends the reconciliation.       *)
ReadCluster ==
    /\ at = "cluster"
    /\ IF read.deleting \/ ~read.secretRef
       THEN seen' = NoCluster /\ at' = "deployment" /\ UNCHANGED <<due, read, refData, call>>
       ELSE IF connection = None THEN Finish(TRUE)
       ELSE IF ~connection.started THEN Finish(TRUE)
       ELSE /\ connection.synced
            /\ IF connection.cache = None THEN Finish(FALSE)
               ELSE /\ seen' = connection.cache
                    /\ at' = "deployment"
                    /\ UNCHANGED <<due, read, refData, call>>
    /\ UNCHANGED <<given, made, caches, image, connection, left>>

ReconcileDeployment ==
    /\ at = "deployment"
    /\ LET old == deploymentCache IN
         IF read.deleting
         THEN IF old = None THEN Finish(TRUE) ELSE Make("deploymentCall", "delete", old)
         ELSE IF old = None
         THEN Make("deploymentCall", "create", BuildDeployment(NewDeployment, seen))
         ELSE IF Outdated(old, seen)
         THEN Make("deploymentCall", "update", BuildDeployment(old, seen))
         ELSE Finish(FALSE)
    /\ UNCHANGED <<given, made, caches, image, connection, left>>

(* updateEdgeStatus, from the deployment the call returned.                *)
Observed(generation) ==
    [deployment |-> generation, edge |-> read.generation, cluster |-> seen.generation]

DeploymentCall ==
    /\ at = "deploymentCall"
    /\ CASE call.op = "delete" -> deployment' = None /\ Finish(FALSE)
         [] call.op # "delete" ->
              IF \/ call.op = "create" /\ deployment = None
                 \/ call.op = "update" /\ deployment # None /\ deployment.rv = call.obj.rv
              THEN /\ StoreDeployment(call.obj)
                   /\ Make("statusCall", "status", Observed(deployment'.generation))
              ELSE UNCHANGED deployment /\ Finish(TRUE)
    /\ UNCHANGED <<given, secret, caches, image, connection, left>>

RetryInPlaceMutant ==
    /\ at = "statusCall"
    /\ edge # None /\ edge.rv = read.rv
    /\ StoreEdge([edge EXCEPT !.status = call.obj])
    /\ Finish(FALSE)
    /\ UNCHANGED <<kubeconfig, cluster, made, caches, image, connection, left>>

(* The status is refused if the KnativeEdge is not the one that was read.  *)
StatusCall ==
    /\ at = "statusCall"
    /\ IF edge # None /\ edge.rv = read.rv
       THEN StoreEdge([edge EXCEPT !.status = call.obj]) /\ Finish(FALSE)
       ELSE UNCHANGED edge /\ Finish(TRUE)
    /\ UNCHANGED <<kubeconfig, cluster, made, caches, image, connection, left>>

(* A call fails for another reason, and is not carried out.                *)
CallFails ==
    /\ at \in {"secretCall", "deploymentCall", "statusCall"}
    /\ Spend("fault")
    /\ Finish(TRUE)
    /\ UNCHANGED <<given, made, caches, image, connection>>

(* The operator stops, perhaps in the middle of a reconciliation, and one  *)
(* with another image, newer or older, may start.                          *)
Restart ==
    /\ Spend("restart")
    /\ image' \in 1..(image + 1)
    /\ StartOver

------------------------------------------------------------------------------
Next ==
    \/ User \/ KubeconfigChanges \/ ClusterChanges \/ Deletion \/ Edit
    \/ CollectSecret \/ CollectDeployment \/ CollectEdge
    \/ DeliverEdge \/ DeliverSecret \/ DeliverDeployment \/ Resync
    \/ StartConnection \/ DeliverCluster
    \/ Begin \/ ReadFails \/ Connected \/ ConnectFails \/ Panics
    \/ ReconcileSecret \/ SecretCall
    \/ ReadCluster \/ ReconcileDeployment \/ DeploymentCall \/ StatusCall
    \/ CallFails \/ Restart

Spec == Init /\ [][Next]_vars

(* The watches, the resync and the garbage collector run, and the worker   *)
(* goes on.  Nothing obliges the remote cluster to answer.                 *)
Fairness ==
    /\ WF_vars(CollectSecret) /\ WF_vars(CollectDeployment) /\ WF_vars(CollectEdge)
    /\ WF_vars(DeliverEdge) /\ WF_vars(DeliverSecret) /\ WF_vars(DeliverDeployment)
    /\ WF_vars(Resync)
    /\ WF_vars(StartConnection)
    /\ WF_vars(Begin) /\ WF_vars(Panics)
    /\ WF_vars(ReconcileSecret) /\ WF_vars(SecretCall)
    /\ WF_vars(ReadCluster) /\ WF_vars(ReconcileDeployment)
    /\ WF_vars(DeploymentCall) /\ WF_vars(StatusCall)

FairSpec == Spec /\ Fairness

------------------------------------------------------------------------------
(* Properties.                                                             *)

(* Every variable keeps its type, and a connection is only ever made with  *)
(* a kubeconfig that leads to a cluster.                                   *)
TypeOK ==
    /\ {edge, edgeCache, read} \subseteq KnativeEdge \cup {None}
    /\ {kubeconfig, refData} \subseteq Data
    /\ {cluster, seen} \subseteq EdgeCluster \cup {None}
    /\ {secret, secretCache} \subseteq Secret \cup {None}
    /\ {deployment, deploymentCache} \subseteq Deployment \cup {None}
    /\ image \in Nat \ {0}
    /\ connection \in Connection \cup {None}
    /\ due \in BOOLEAN
    /\ at \in Steps
    /\ call \in Calls \cup {None}
    /\ left \in [Changes -> Nat]

(* Generations are compared for equality, although they start again: an    *)
(* EdgeCluster that is created again, or a deployment that is made again   *)
(* and then edited, may come back to the number in the status.             *)
GenerationsGrow ==
    ~Recreated /\ (left.deletion = Budget.deletion \/ left.edit = Budget.edit)

(* The generations in the status never claim too much: when they say that  *)
(* nothing has to be done, the deployment is what the KnativeEdge and the  *)
(* EdgeCluster ask for, whatever was edited or deleted, refused or cut off *)
(* in between.                                                             *)
QuietMeansCurrent ==
    /\ GenerationsGrow
    /\ edge # None /\ cluster # None /\ deployment # None
    /\ edge.secretRef
    /\ deployment.image = image
    /\ edge.status = [deployment |-> deployment.generation, edge |-> edge.generation,
                      cluster |-> cluster.generation]
    => deployment.conf = edge.conf /\ deployment.environments = cluster.environments

(* A KnativeEdge that is meant to stay, and that the operator can serve.   *)
Serviceable ==
    /\ edge # None /\ kubeconfig \in Kubeconfigs
    /\ edge.secretRef /\ ~edge.deleting

(* Does the remote cluster answer, again and again, and refuse a           *)
(* connection only for a while?                                            *)
Answers ==
    /\ []<>(at # "connect")
    /\ <>[][~ConnectFails]_vars
    /\ []<>(connection # None => connection.synced /\ connection.cache = cluster)

(* Once nothing changes any more the deployment runs the present image     *)
(* with what the KnativeEdge and the EdgeCluster ask for, provided that    *)
(* the remote cluster answers and no generation has come back.             *)
DeploymentFollows ==
    Answers => <>[](GenerationsGrow /\ Serviceable /\ cluster # None
            => /\ deployment # None
               /\ deployment.conf = edge.conf /\ deployment.image = image
               /\ deployment.environments = cluster.environments)

(* The one worker of the operator always comes back to its queue, and the  *)
(* process does not crash for ever, whatever calls are refused or fail,    *)
(* unless it waits for a remote cluster that does not let itself be asked  *)
(* for its API or never gives the first answer, or unless the KnativeEdge  *)
(* refers to a kubeconfig that leads to no cluster.                        *)
WorkerReturns ==
    \/ []<>(at = "idle") /\ <>[][~Panics]_vars
    \/ <>[](at = "connect")
    \/ <>[](at = "cluster" /\ connection # None /\ ~connection.synced)
    \/ []<>(kubeconfig = Incomplete /\ edge # None /\ edge.secretRef)

(* A KnativeEdge that can own them takes secret and deployment with it,    *)
(* also when the operator, reading stale caches, makes them again.         *)
DependentsGo == <>[](edge = None => secret = None /\ deployment = None)

(* What reconcileCluster and reconcileDeployment say: that a changed       *)
(* secret disconnects the cluster, and that a kubeconfig which was missing *)
(* is looked at again after a while.  Once nothing changes any more the    *)
(* copied secret holds the kubeconfig of the referenced one.               *)
KubeconfigFollows ==
    Answers => <>[](Serviceable => secret # None /\ secret.data = kubeconfig)

==============================================================================
