------------------------------- MODULE Mirror -------------------------------
(***************************************************************************)
(* The one-way mirroring of one kind of object from the remote (cloud)     *)
(* cluster to the local (edge) cluster: MirroringReconciler[T] with the    *)
(* watches that drive it, the two informer caches it reads, the merge      *)
(* function of the kind and the two API servers.                           *)
(*                                                                         *)
(* KeepAnnotations = FALSE gives the controllers of ConfigMaps, Secrets    *)
(* and Namespaces, whose kindMerger replaces the annotations of the copy;  *)
(* TRUE gives the Service controller, whose kindMerger keeps them.  The    *)
(* Service controller's preprocessors are left to a module of their own.   *)
(*                                                                         *)
(* A cache changes and its handlers run in one step; a worker's remote     *)
(* read is part of the step that takes a request off the work queue.       *)
(***************************************************************************)
EXTENDS Integers, Sequences, FiniteSets

CONSTANTS
    Names,            \* object names (namespace/name)
    EnvLabels,        \* values of the environment label; one may stand for "no label"
    Data,             \* what a merge copies besides annotations and the managed label
    EnvChoices,       \* the environment sets the controller may be started with
    KeepAnnotations,  \* does the kind's merger keep the annotations of the copy?
    UserOps,          \* what users of the edge cluster do to local objects
    RelistSides,      \* which watches may break and relist
    MaxRemoteRv,      \* bound: writes of the remote API server per name
    Budget,           \* bound: how often each kind of disturbance happens, and all
    None              \* no object, no annotation, no request

Disturbances == {"user", "fault", "restart", "relist", "resync", "all"}

ASSUME ConstantsAssumption ==
    /\ EnvChoices \subseteq SUBSET EnvLabels
    /\ KeepAnnotations \in BOOLEAN
    /\ MaxRemoteRv \in Nat
    /\ Budget \in [Disturbances -> Nat]
    /\ UserOps \subseteq {"create", "edit", "replace", "unmanage", "delete"}
    /\ RelistSides \subseteq {"remote", "local"}

(* Resource versions are strings compared for equality.  Those of stored   *)
(* objects are 1, 2, ...; the object a create sends has the empty string,  *)
(* and the string "0" is never one.                                        *)
EmptyRv == -1
ZeroString == 0
Versions == Nat \ {0}

RemoteObject == [env : EnvLabels, data : Data, rv : Versions]

(* The annotations last-generation and last-remote-generation are None     *)
(* when the key is missing.                                                *)
LocalObject == [managed : BOOLEAN, data : Data, rv : Versions \cup {EmptyRv},
                lastGen : Versions \cup {EmptyRv, None},
                lastRemote : Versions \cup {None}]

Ops == {"create", "update", "delete"}
Writes == [name : Names, op : Ops, obj : LocalObject]

ASSUME NoneAssumption ==
    /\ None \notin Names
    /\ None \notin Int
    /\ None \notin RemoteObject
    /\ None \notin LocalObject
    /\ None \notin Writes

VARIABLES
    remote,      \* remote[n]: the object in the remote API server, or None
    remoteRv,    \* remoteRv[n]: last resource version the remote API server gave out
    remoteCache, \* remoteCache[n]: the environment-scoped informer cache
    remoteEvents,\* remoteEvents[n]: watched states that have not reached the cache
    local, localRv, localCache, localEvents,   \* the same of the edge cluster
    envs,        \* the environments the running controller was started with
    queue,       \* names in the controller's work queue
    delayed,     \* names waiting out their rate-limited requeue
    current,     \* the name the worker is reconciling, or None
    remoteRead,  \* the remote object it read, or None
    pending,     \* the write it has decided on, or None
    inflight,    \* a write of a crashed controller still on its way, or None
    left         \* left[d]: how many more disturbances of kind d, and of all, may happen

remoteVars == <<remote, remoteRv, remoteCache, remoteEvents>>
localVars  == <<local, localRv, localCache, localEvents>>
taskVars   == <<current, remoteRead, pending>>
vars == <<remoteVars, localVars, envs, queue, delayed, taskVars, inflight, left>>

Spend(d) ==
    /\ left[d] > 0 /\ left["all"] > 0
    /\ left' = [left EXCEPT ![d] = @ - 1, !["all"] = @ - 1]

------------------------------------------------------------------------------
(* What the caches and the event filters let through.                      *)

HasEdgeSyncLabel(obj, envSet) == obj.env \in envSet

(* The remote cache holds the objects whose environment label is one of    *)
(* the controller's environments, the local cache the managed objects.     *)
EnvScoped(obj, envSet) ==
    IF obj # None /\ HasEdgeSyncLabel(obj, envSet) THEN obj ELSE None

ManagedUnscopedMutant(obj) == obj

ManagedScoped(obj) == IF obj # None /\ obj.managed THEN obj ELSE None

NilAnnotations(obj) == obj.lastGen = None /\ obj.lastRemote = None

EmptyMarksOwnMutant(obj) == ~NilAnnotations(obj) /\ obj.lastGen \notin {EmptyRv, None}

NotChangedOnCreate(obj) == ~NilAnnotations(obj) /\ obj.lastGen # ZeroString

AnyUpdateMutant(old, new) == ~NilAnnotations(new)

NotChangedOnUpdate(old, new) == ~NilAnnotations(new) /\ old.rv # new.lastGen

(* Which changes of the local cache enqueue a request.  The object of a    *)
(* delete event is the last one the cache held.                            *)
LocalEventPasses(old, new) ==
    CASE old = None /\ new = None -> FALSE
      [] old = None /\ new # None -> new.managed /\ NotChangedOnCreate(new)
      [] old # None /\ new = None -> old.managed
      [] OTHER -> new.managed /\ NotChangedOnUpdate(old, new)

RemoteEventPasses(old, new, envSet) ==
    CASE old = None /\ new = None -> FALSE
      [] old = None /\ new # None -> HasEdgeSyncLabel(new, envSet)
      [] old # None /\ new = None -> HasEdgeSyncLabel(old, envSet)
      [] OTHER -> /\ old.rv # new.rv
                  /\ HasEdgeSyncLabel(old, envSet) \/ HasEdgeSyncLabel(new, envSet)

------------------------------------------------------------------------------
(* What a reconciliation decides.                                          *)

NewObject(rem) == [managed |-> FALSE, data |-> rem.data, rv |-> EmptyRv,
                   lastGen |-> None, lastRemote |-> None]

VersionClearedMutant(rem, loc) ==
    [managed |-> TRUE, data |-> rem.data, rv |-> EmptyRv, lastRemote |-> rem.rv,
     lastGen |-> IF KeepAnnotations THEN loc.lastGen ELSE None]

(* kindMerger, UpdateLastRemoteGenerationAnnotation and UpdateLabels.      *)
Merged(rem, loc) ==
    [managed |-> TRUE, data |-> rem.data, rv |-> loc.rv, lastRemote |-> rem.rv,
     lastGen |-> IF KeepAnnotations THEN loc.lastGen ELSE None]

NeedsUpdate(rem, loc) ==
    \/ loc.lastRemote # None /\ rem.rv # loc.lastRemote
    \/ Merged(rem, loc) # loc

ZeroOnCreateMutant(obj) ==
    [obj EXCEPT !.lastGen = IF obj.rv = EmptyRv THEN ZeroString ELSE obj.rv]

(* The merged object with its last-generation annotation.                  *)
UpdateLastGeneration(obj) == [obj EXCEPT !.lastGen = obj.rv]

Request(n, op, obj) == [name |-> n, op |-> op, obj |-> obj]

(* The write a reconciliation ends in, from the remote object it read      *)
(* first and the local one it read next; None when it writes nothing.      *)
Decide(n, rem, loc, envSet) ==
    CASE rem = None /\ loc = None -> None
      [] rem # None /\ loc = None ->
            Request(n, "create", UpdateLastGeneration(Merged(rem, NewObject(rem))))
      [] loc # None /\ (rem = None \/ (loc.managed /\ ~HasEdgeSyncLabel(rem, envSet))) ->
            Request(n, "delete", loc)
      [] OTHER -> IF NeedsUpdate(rem, loc)
                  THEN Request(n, "update", UpdateLastGeneration(Merged(rem, loc)))
                  ELSE None

------------------------------------------------------------------------------
(* The local API server.                                                   *)

(* Optimistic concurrency: an update that names a version is accepted only *)
(* if the object still has it; the controller's deletes name none.         *)
Accepted(w) ==
    CASE w.op = "create" -> local[w.name] = None
      [] w.op = "update" -> /\ local[w.name] # None
                            /\ w.obj.rv \in {EmptyRv, local[w.name].rv}
      [] w.op = "delete" -> local[w.name] # None

(* Store new (an object, whose version is set here, or None) under n and   *)
(* notify the watch if the managed scope can see the change.               *)
StoreLocal(n, new) ==
    LET stored == IF new = None THEN None ELSE [new EXCEPT !.rv = localRv[n] + 1]
        was == ManagedScoped(local[n])
        is  == ManagedScoped(stored)
    IN  /\ local' = [local EXCEPT ![n] = stored]
        /\ localRv' = IF new = None THEN localRv ELSE [localRv EXCEPT ![n] = @ + 1]
        /\ localEvents' = IF was = None /\ is = None THEN localEvents
                          ELSE [localEvents EXCEPT ![n] = Append(@, is)]
        /\ UNCHANGED localCache

Apply(w) == StoreLocal(w.name, IF w.op = "delete" THEN None ELSE w.obj)

(* The remote API server, written by the users of the cloud cluster.       *)
StoreRemote(n, new) ==
    LET was == EnvScoped(remote[n], envs)
        is  == EnvScoped(new, envs)
    IN  /\ remote' = [remote EXCEPT ![n] = new]
        /\ remoteRv' = IF new = None THEN remoteRv ELSE [remoteRv EXCEPT ![n] = @ + 1]
        /\ remoteEvents' = IF was = None /\ is = None THEN remoteEvents
                           ELSE [remoteEvents EXCEPT ![n] = Append(@, is)]
        /\ UNCHANGED remoteCache

------------------------------------------------------------------------------
Init ==
    /\ remote = [n \in Names |-> None]
    /\ remoteRv = [n \in Names |-> 0]
    /\ remoteCache = [n \in Names |-> None]
    /\ remoteEvents = [n \in Names |-> <<>>]
    /\ local = [n \in Names |-> None]
    /\ localRv = [n \in Names |-> 0]
    /\ localCache = [n \in Names |-> None]
    /\ localEvents = [n \in Names |-> <<>>]
    /\ envs \in EnvChoices
    /\ queue = {}
    /\ delayed = {}
    /\ current = None
    /\ remoteRead = None
    /\ pending = None
    /\ inflight = None
    /\ left = Budget

(* Users of the cloud cluster create, change (or only touch: same data and *)
(* label, new version) and delete objects.                                 *)
RemotePut(n, env, d) ==
    /\ remoteRv[n] < MaxRemoteRv
    /\ StoreRemote(n, [env |-> env, data |-> d, rv |-> remoteRv[n] + 1])
    /\ UNCHANGED <<localVars, envs, queue, delayed, taskVars, inflight, left>>

RemoteDelete(n) ==
    /\ remote[n] # None
    /\ StoreRemote(n, None)
    /\ UNCHANGED <<localVars, envs, queue, delayed, taskVars, inflight, left>>

(* Users of the edge cluster: create an object of their own, edit a copy   *)
(* (or touch it), replace it without its annotations, take the managed     *)
(* label off, delete.                                                      *)
UserCreates(n, d) ==
    /\ "create" \in UserOps /\ local[n] = None
    /\ StoreLocal(n, [managed |-> FALSE, data |-> d, rv |-> EmptyRv,
                      lastGen |-> None, lastRemote |-> None])

UserEdits(n, d) ==
    /\ "edit" \in UserOps /\ local[n] # None /\ local[n].managed
    /\ StoreLocal(n, [local[n] EXCEPT !.data = d])

UserReplaces(n, d) ==
    /\ "replace" \in UserOps /\ local[n] # None /\ local[n].managed
    /\ StoreLocal(n, [local[n] EXCEPT !.data = d, !.lastGen = None, !.lastRemote = None])

UserUnmanages(n) ==
    /\ "unmanage" \in UserOps /\ local[n] # None /\ local[n].managed
    /\ StoreLocal(n, [local[n] EXCEPT !.managed = FALSE])

UserDeletes(n) ==
    /\ "delete" \in UserOps /\ local[n] # None
    /\ StoreLocal(n, None)

LocalUser(n) ==
    /\ Spend("user")
    /\ \/ \E d \in Data : UserCreates(n, d) \/ UserEdits(n, d) \/ UserReplaces(n, d)
       \/ UserUnmanages(n)
       \/ UserDeletes(n)
    /\ UNCHANGED <<remoteVars, envs, queue, delayed, taskVars, inflight>>

------------------------------------------------------------------------------
(* The watches.                                                            *)

Enqueue(n, passes) == queue' = IF passes THEN queue \cup {n} ELSE queue

DeliverRemote(n) ==
    /\ remoteEvents[n] # <<>>
    /\ LET new == Head(remoteEvents[n]) IN
         /\ remoteCache' = [remoteCache EXCEPT ![n] = new]
         /\ Enqueue(n, RemoteEventPasses(remoteCache[n], new, envs))
    /\ remoteEvents' = [remoteEvents EXCEPT ![n] = Tail(@)]
    /\ UNCHANGED <<remote, remoteRv, localVars, envs, delayed, taskVars, inflight, left>>

DeliverLocal(n) ==
    /\ localEvents[n] # <<>>
    /\ LET new == Head(localEvents[n]) IN
         /\ localCache' = [localCache EXCEPT ![n] = new]
         /\ Enqueue(n, LocalEventPasses(localCache[n], new))
    /\ localEvents' = [localEvents EXCEPT ![n] = Tail(@)]
    /\ UNCHANGED <<remoteVars, local, localRv, envs, delayed, taskVars, inflight, left>>

(* A watch breaks and its informer lists anew: the handlers see one change *)
(* from the cached object to the present one.                              *)
RelistRemote(n) ==
    /\ "remote" \in RelistSides /\ Len(remoteEvents[n]) > 1
    /\ Spend("relist")
    /\ LET new == EnvScoped(remote[n], envs) IN
         /\ remoteCache' = [remoteCache EXCEPT ![n] = new]
         /\ Enqueue(n, RemoteEventPasses(remoteCache[n], new, envs))
    /\ remoteEvents' = [remoteEvents EXCEPT ![n] = <<>>]
    /\ UNCHANGED <<remote, remoteRv, localVars, envs, delayed, taskVars, inflight>>

RelistLocal(n) ==
    /\ "local" \in RelistSides /\ Len(localEvents[n]) > 1
    /\ Spend("relist")
    /\ LET new == ManagedScoped(local[n]) IN
         /\ localCache' = [localCache EXCEPT ![n] = new]
         /\ Enqueue(n, LocalEventPasses(localCache[n], new))
    /\ localEvents' = [localEvents EXCEPT ![n] = <<>>]
    /\ UNCHANGED <<remoteVars, local, localRv, envs, delayed, taskVars, inflight>>

(* The periodic resync replays each cached object as an update to itself;  *)
(* the remote watch drops those (ResourceVersionChangedPredicate).         *)
Resync(n) ==
    /\ Spend("resync")
    /\ localCache[n] # None
    /\ Enqueue(n, LocalEventPasses(localCache[n], localCache[n]))
    /\ UNCHANGED <<remoteVars, localVars, envs, delayed, taskVars, inflight>>

------------------------------------------------------------------------------
(* The worker (MaxConcurrentReconciles is 1).                              *)

Begin(n) ==
    /\ current = None
    /\ n \in queue
    /\ queue' = queue \ {n}
    /\ current' = n
    /\ remoteRead' = remoteCache[n]
    /\ UNCHANGED <<remoteVars, localVars, envs, delayed, pending, inflight, left>>

Finish(requeue) ==
    /\ delayed' = IF requeue THEN delayed \cup {current} ELSE delayed
    /\ current' = None
    /\ remoteRead' = None
    /\ pending' = None

ReadLocal ==
    /\ current # None
    /\ pending = None
    /\ LET write == Decide(current, remoteRead, localCache[current], envs) IN
         IF write = None
         THEN Finish(FALSE)
         ELSE /\ pending' = write
              /\ remoteRead' = None
              /\ UNCHANGED <<current, delayed>>
    /\ UNCHANGED <<remoteVars, localVars, envs, queue, inflight, left>>

WriteAccepted ==
    /\ pending # None /\ Accepted(pending)
    /\ Apply(pending)
    /\ Finish(FALSE)
    /\ UNCHANGED <<remoteVars, envs, queue, inflight, left>>

ConflictsDroppedMutant(op) == op = "create"

(* The refusals are AlreadyExists on create, Conflict or NotFound on       *)
(* update, and NotFound on delete, the only one that is not retried.       *)
Retried(op) == op # "delete"

WriteRefused ==
    /\ pending # None /\ ~Accepted(pending)
    /\ Finish(Retried(pending.op))
    /\ UNCHANGED <<remoteVars, localVars, envs, queue, inflight, left>>

(* The call returns an error (a timeout, an unreachable server), whether   *)
(* or not the server carried it out.                                       *)
WriteFails ==
    /\ pending # None
    /\ Spend("fault")
    /\ \/ Accepted(pending) /\ Apply(pending)
       \/ UNCHANGED localVars
    /\ Finish(TRUE)
    /\ UNCHANGED <<remoteVars, envs, queue, inflight>>

TimerFires(n) ==
    /\ n \in delayed
    /\ delayed' = delayed \ {n}
    /\ queue' = queue \cup {n}
    /\ UNCHANGED <<remoteVars, localVars, envs, taskVars, inflight, left>>

NotSyncedMutant(envSet) == [n \in Names |-> None]

(* What the manager waits for before it starts the worker: the environment *)
(* cache filled from a list.                                               *)
RemoteList(envSet) == [n \in Names |-> EnvScoped(remote[n], envSet)]

(* The controller stops and another starts, possibly for other             *)
(* environments.  Its caches fill from a list, each object a create event, *)
(* before the worker runs.  A write the old one had sent may still land.   *)
Restart(newEnvs) ==
    /\ Spend("restart")
    /\ envs' = newEnvs
    /\ remoteCache' = RemoteList(newEnvs)
    /\ localCache' = [n \in Names |-> ManagedScoped(local[n])]
    /\ remoteEvents' = [n \in Names |-> <<>>]
    /\ localEvents' = [n \in Names |-> <<>>]
    /\ queue' = {n \in Names : \/ RemoteEventPasses(None, remoteCache'[n], newEnvs)
                               \/ LocalEventPasses(None, localCache'[n])}
    /\ delayed' = {}
    /\ current' = None
    /\ remoteRead' = None
    /\ pending' = None
    /\ inflight' \in IF inflight = None THEN {None, pending} ELSE {inflight}
    /\ UNCHANGED <<remote, remoteRv, local, localRv>>

LateWrite ==
    /\ inflight # None
    /\ IF Accepted(inflight) THEN Apply(inflight) ELSE UNCHANGED localVars
    /\ inflight' = None
    /\ UNCHANGED <<remoteVars, envs, queue, delayed, taskVars, left>>

------------------------------------------------------------------------------
Next ==
    \/ \E n \in Names :
         \/ \E env \in EnvLabels, d \in Data : RemotePut(n, env, d)
         \/ RemoteDelete(n)
         \/ LocalUser(n)
         \/ DeliverRemote(n) \/ DeliverLocal(n)
         \/ RelistRemote(n) \/ RelistLocal(n) \/ Resync(n)
         \/ Begin(n) \/ TimerFires(n)
    \/ ReadLocal \/ WriteAccepted \/ WriteRefused \/ WriteFails
    \/ LateWrite
    \/ \E newEnvs \in EnvChoices : Restart(newEnvs)

Spec == Init /\ [][Next]_vars

(* The watches deliver, timers fire, the server answers and the worker     *)
(* runs; the work queue is first in first out, so a queued name is taken.  *)
(* Nothing obliges users, faults, restarts, relists or resyncs to happen.  *)
Fairness ==
    /\ \A n \in Names : /\ WF_vars(DeliverRemote(n)) /\ WF_vars(DeliverLocal(n))
                        /\ WF_vars(TimerFires(n)) /\ SF_vars(Begin(n))
    /\ WF_vars(ReadLocal) /\ WF_vars(WriteAccepted \/ WriteRefused)
    /\ WF_vars(LateWrite)

FairSpec == Spec /\ Fairness

------------------------------------------------------------------------------
(* Properties.                                                             *)

(* Every variable keeps its type.                                          *)
TypeOK ==
    /\ remote \in [Names -> RemoteObject \cup {None}]
    /\ remoteRv \in [Names -> Nat]
    /\ remoteCache \in [Names -> RemoteObject \cup {None}]
    /\ remoteEvents \in [Names -> Seq(RemoteObject \cup {None})]
    /\ local \in [Names -> LocalObject \cup {None}]
    /\ localRv \in [Names -> Nat]
    /\ localCache \in [Names -> LocalObject \cup {None}]
    /\ localEvents \in [Names -> Seq(LocalObject \cup {None})]
    /\ envs \in EnvChoices
    /\ queue \subseteq Names
    /\ delayed \subseteq Names
    /\ current \in Names \cup {None}
    /\ remoteRead \in RemoteObject \cup {None}
    /\ pending \in Writes \cup {None}
    /\ inflight \in Writes \cup {None}
    /\ left \in [Disturbances -> Nat]

(* Nothing is under way, or still to come, for name n.                     *)
Settled(n) ==
    /\ n \notin queue \cup delayed
    /\ current # n
    /\ remoteEvents[n] = <<>> /\ localEvents[n] = <<>>
    /\ inflight # None => inflight.name # n

(* The edge has a managed copy of exactly what the cloud publishes under n *)
(* for the controller's environments.                                      *)
InSync(n) ==
    LET want == EnvScoped(remote[n], envs)
        have == ManagedScoped(local[n])
    IN  IF want = None THEN have = None
        ELSE have # None /\ have.data = want.data /\ have.lastRemote = want.rv

(* No wakeup is lost: a name the controller has nothing left to do for, no *)
(* queued or delayed request and no undelivered event, is in sync, however *)
(* reads of stale caches, failed calls, restarts with other environments,  *)
(* late writes of a crashed controller and user edits interleaved.         *)
SettledInSync == \A n \in Names : Settled(n) => InSync(n)

(* The controller never changes an object that is not its own: a write of  *)
(* the reconciler (also a late one) that stores an object either creates   *)
(* it or overwrites a managed one.                                         *)
UnmanagedUntouched ==
    [][\A n \in Names :
         (WriteAccepted \/ WriteFails \/ LateWrite) /\ local[n] # None /\ ~local[n].managed
            => local'[n] = None \/ local'[n] = local[n]]_vars

(* Why: the version in a cached object, in an undelivered event or in an   *)
(* update that is decided on or on its way never names a state of the      *)
(* object in which it was not managed.                                     *)
Seen(n, rv) ==
    /\ rv \in Versions /\ rv <= localRv[n]
    /\ local[n] # None /\ local[n].rv = rv => local[n].managed

StoredVersions ==
    \A n \in Names : local[n] # None => local[n].rv \in Versions /\ local[n].rv <= localRv[n]

CachedVersions ==
    \A n \in Names :
        /\ localCache[n] # None => Seen(n, localCache[n].rv)
        /\ \A i \in DOMAIN localEvents[n] :
              localEvents[n][i] # None => Seen(n, localEvents[n][i].rv)

UpdateVersions ==
    \A w \in {pending, inflight} : w # None /\ w.op = "update" => Seen(w.name, w.obj.rv)

ManagedVersions == StoredVersions /\ CachedVersions /\ UpdateVersions

(* As long as a copy exists it never goes back to an older version of the  *)
(* remote object, whatever stale reads, retries and late writes happen.    *)
NoRegress ==
    [][\A n \in Names :
         /\ local[n] # None /\ local[n].lastRemote # None
         /\ local'[n] # None /\ local'[n].lastRemote # None
         => local'[n].lastRemote >= local[n].lastRemote]_vars

Spent(d) == Budget[d] - left[d]

(* The controller does not feed itself: its own writes do not wake it up   *)
(* endlessly, although a kindMerger that drops annotations makes every     *)
(* reconciliation of a copy write.  The local writes of a name are bounded *)
(* by what happened to it: versions of the remote object (each one may     *)
(* also be deleted) and disturbances.                                      *)
NoWriteLoop ==
    \A n \in Names :
        localRv[n] <= 4 * remoteRv[n] + 3 * (Spent("user") + Spent("restart")
                                              + Spent("fault") + Spent("resync"))

(* Once users and faults leave a name alone its copy is brought in sync    *)
(* and stays so, unless an object that is not managed holds its name.      *)
Blocked(n) == local[n] # None /\ ~local[n].managed /\ EnvScoped(remote[n], envs) # None

Convergence == \A n \in Names : <>[](InSync(n) \/ Blocked(n))

==============================================================================
