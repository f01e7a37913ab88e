------------------------- MODULE MirrorHistoryProofs -------------------------
(***************************************************************************)
(* Theorems about Mirror with its history: it implements OneWayMirror, and *)
(* a running controller deletes only what the cloud withdrew.              *)
(***************************************************************************)
EXTENDS MirrorHistory, MirrorProofs

HistoryTypeOK == history \in [Names -> Seq(RemoteObject \cup {None})]

(* The history ends with the present.                                      *)
HistoryCurrent ==
    \A n \in Names :
        IF history[n] = <<>> THEN remote[n] = None /\ remoteRv[n] = 0
        ELSE \E i \in DOMAIN history[n] : /\ history[n][i] = remote[n]
                                          /\ \A j \in DOMAIN history[n] : j <= i

InHistory(n, obj) == \E i \in DOMAIN history[n] : history[n][i] = obj

(* Everything the mirroring knows of the cloud was published.              *)
ReadsGenuine ==
    /\ \A n \in Names :
         /\ remoteCache[n] # None => InHistory(n, remoteCache[n])
         /\ \A i \in DOMAIN remoteEvents[n] :
               remoteEvents[n][i] # None => InHistory(n, remoteEvents[n][i])
    /\ remoteRead # None => InHistory(current, remoteRead)

(* A write of the controller stores a managed copy of one published        *)
(* version; it writes nothing under a name that was never published.       *)
Genuine(w) ==
    w # None =>
        /\ history[w.name] # <<>>
        /\ Puts(w) => /\ w.obj.managed
                      /\ \E i \in DOMAIN history[w.name] :
                            /\ history[w.name][i] # None
                            /\ history[w.name][i].data = w.obj.data
                            /\ history[w.name][i].rv = w.obj.lastRemote

WritesGenuine == Genuine(pending) /\ Genuine(inflight)

(* Only published names have managed objects.                              *)
ManagedPublished ==
    \A n \in Names :
        \/ history[n] # <<>>
        \/ /\ local[n] # None => ~local[n].managed
           /\ localCache[n] = None
           /\ \A i \in DOMAIN localEvents[n] : localEvents[n][i] = None

(* The remote cache and its events are scoped to the environments, and the *)
(* worker forgets what it read when it decides.                            *)
Scoped ==
    /\ \A n \in Names :
         /\ remoteCache[n] # None => remoteCache[n].env \in envs
         /\ \A i \in DOMAIN remoteEvents[n] :
               remoteEvents[n][i] # None => remoteEvents[n][i].env \in envs
    /\ remoteRead # None => remoteRead.env \in envs /\ pending = None

(* Version v of n is at the edge, read or about to be written.             *)
Holds(n, v) ==
    \/ local[n] # None /\ local[n].lastRemote = v
    \/ current = n /\ remoteRead # None /\ remoteRead.rv = v
    \/ Puts(pending) /\ pending.name = n /\ pending.obj.lastRemote = v
    \/ Puts(inflight) /\ inflight.name = n /\ inflight.obj.lastRemote = v

(* It may be by the time event i reaches the cache.                        *)
MayHold(n, v, i) ==
    \/ Holds(n, v)
    \/ remoteCache[n] # None /\ remoteCache[n].rv = v
    \/ \E j \in DOMAIN remoteEvents[n] :
          j < i /\ remoteEvents[n][j] # None /\ remoteEvents[n][j].rv = v

(* When the mirroring sees no object, every version it may have copied was *)
(* withdrawn.                                                              *)
AbsenceWarranted ==
    \A n \in Names, v \in Versions :
        /\ remoteCache[n] = None /\ Holds(n, v) => Withdrawn(n, v)
        /\ \A i \in DOMAIN remoteEvents[n] :
              remoteEvents[n][i] = None /\ MayHold(n, v, i) => Withdrawn(n, v)
        /\ current = n /\ remoteRead = None /\ ~Puts(pending) /\ Holds(n, v)
              => Withdrawn(n, v)

HInv == OInv /\ HistoryTypeOK /\ HistoryCurrent /\ ReadsGenuine /\ WritesGenuine
             /\ ManagedPublished /\ Scoped /\ AbsenceWarranted

------------------------------------------------------------------------------
(* What a step does to the cloud and to its history.                       *)
HistoryStep ==
    history' = [n \in Names |-> IF remote'[n] = remote[n] THEN history[n]
                                ELSE Append(history[n], remote'[n])]

(* A step records each change of the cloud.                                *)
LEMMA HistorySteps ==
    ASSUME HistoryTypeOK, [HistoryNext]_historyVars
    PROVE  HistoryStep /\ [Next]_vars
<1>1. CASE HistoryNext
  BY <1>1 DEF HistoryNext, HistoryStep
<1>2. CASE UNCHANGED historyVars
  BY <1>2 DEF historyVars, vars, remoteVars, HistoryTypeOK, HistoryStep
<1> QED BY <1>1, <1>2

(* The history of n in the next state: nothing is forgotten, and only a    *)
(* change is added.                                                        *)
Grown(n) ==
    /\ \A i \in DOMAIN history[n] : i \in DOMAIN history'[n] /\ history'[n][i] = history[n][i]
    /\ \A i \in DOMAIN history'[n] :
         \/ i \in DOMAIN history[n]
         \/ /\ remote'[n] # remote[n] /\ history'[n][i] = remote'[n]
            /\ \A j \in DOMAIN history'[n] : j <= i
    /\ IF remote'[n] = remote[n] THEN history'[n] = history[n]
       ELSE \E i \in DOMAIN history'[n] : /\ history'[n][i] = remote'[n]
                                          /\ \A j \in DOMAIN history'[n] : j <= i

(* That is what a step does.                                               *)
LEMMA HistoryGrows ==
    ASSUME HistoryTypeOK, HistoryStep, NEW n \in Names
    PROVE  Grown(n)
<1> DEFINE S == RemoteObject \cup {None}
           s == history[n]
           e == remote'[n]
<1>1. s \in Seq(S) /\ history'[n] = IF e = remote[n] THEN s ELSE Append(s, e)
  BY DEF HistoryTypeOK, HistoryStep
<1>2. CASE e = remote[n]
  BY <1>1, <1>2 DEF Grown
<1>3. CASE e # remote[n]
  <2> HIDE DEF S, s, e
  <2>1. /\ \A i \in DOMAIN s : i \in DOMAIN Append(s, e) /\ Append(s, e)[i] = s[i]
        /\ \A i \in DOMAIN Append(s, e) : i \in DOMAIN s \/ i = Len(s) + 1
        /\ Len(s) + 1 \in DOMAIN Append(s, e) /\ Append(s, e)[Len(s) + 1] = e
        /\ \A j \in DOMAIN Append(s, e) : j <= Len(s) + 1
    BY <1>1
  <2>2. history'[n] = Append(s, e)
    BY <1>1, <1>3
  <2> QED BY <1>3, <2>1, <2>2 DEF Grown, s, e
<1> QED BY <1>2, <1>3

(* A change of the cloud's object deletes it or makes a new version.       *)
RemoteStep(n) ==
    \/ remote'[n] = remote[n] /\ remoteRv'[n] = remoteRv[n]
    \/ /\ remote'[n] # remote[n]
       /\ remote'[n] = None \/ remote'[n].rv = remoteRv[n] + 1

(* How the cache of the remote watch follows.                              *)
WatchStep(n) ==
    LET events == remoteEvents[n]
    IN  \/ /\ envs' = envs /\ remoteCache'[n] = remoteCache[n]
           /\ \A i \in DOMAIN remoteEvents'[n] :
                 \/ i \in DOMAIN events /\ remoteEvents'[n][i] = events[i]
                 \/ /\ remote'[n] # remote[n]
                    /\ remoteEvents'[n][i] = EnvScoped(remote'[n], envs)
                    /\ \A j \in DOMAIN remoteEvents'[n] : j <= i
        \/ /\ envs' = envs /\ remote'[n] = remote[n]
           /\ 1 \in DOMAIN events /\ remoteCache'[n] = events[1]
           /\ \A i \in DOMAIN remoteEvents'[n] : /\ i \in Nat /\ i + 1 \in DOMAIN events
                                                 /\ remoteEvents'[n][i] = events[i + 1]
        \/ /\ remote'[n] = remote[n] /\ remoteEvents'[n] = <<>>
           /\ remoteCache'[n] = EnvScoped(remote[n], envs')
(* A write of the cloud's API server is a change, and is watched.          *)
LEMMA StoreSteps ==
    ASSUME RemoteTypes, RemoteOrdered, UNCHANGED envs,
           NEW n \in Names, NEW new \in RemoteObject \cup {None}, new # remote[n],
           new # None => new.rv = remoteRv[n] + 1, StoreRemote(n, new), NEW m \in Names
    PROVE  RemoteStep(m) /\ WatchStep(m)
<1> DEFINE S == RemoteObject \cup {None}
           is == EnvScoped(new, envs)
           s == remoteEvents[m]
<1>1. /\ remote' = [remote EXCEPT ![n] = new]
      /\ remoteRv' = IF new = None THEN remoteRv ELSE [remoteRv EXCEPT ![n] = @ + 1]
      /\ \/ remoteEvents' = remoteEvents
         \/ remoteEvents' = [remoteEvents EXCEPT ![n] = Append(@, is)]
      /\ remoteCache' = remoteCache
  BY DEF StoreRemote
<1>2. /\ remoteEvents \in [Names -> Seq(S)] /\ s \in Seq(S)
      /\ remote \in [Names -> S] /\ remoteRv \in [Names -> Nat]
  BY DEF RemoteTypes
<1>3. CASE m # n
  <2>1. /\ remote'[m] = remote[m] /\ remoteRv'[m] = remoteRv[m]
        /\ remoteEvents'[m] = s /\ remoteCache'[m] = remoteCache[m]
    BY <1>1, <1>2, <1>3
  <2> QED BY <2>1 DEF RemoteStep, WatchStep
<1>4. CASE m = n
  <2>1. remote'[m] = new /\ new # remote[m] /\ remoteCache'[m] = remoteCache[m]
    BY <1>1, <1>2, <1>4
  <2>2. RemoteStep(m)
    BY <1>4, <2>1 DEF RemoteStep
  <2>3. remoteEvents'[m] = s \/ remoteEvents'[m] = Append(s, is)
    BY <1>1, <1>2, <1>4
  <2> HIDE DEF S, s, is
  <2>4. ASSUME NEW i \in DOMAIN Append(s, is)
        PROVE  \/ i \in DOMAIN s /\ Append(s, is)[i] = s[i]
               \/ Append(s, is)[i] = is /\ \A j \in DOMAIN Append(s, is) : j <= i
    <3>1. (i \in DOMAIN s /\ Append(s, is)[i] = s[i]) \/ i = Len(s) + 1
      BY <1>2, <2>4
    <3>2. Append(s, is)[Len(s) + 1] = is /\ \A j \in DOMAIN Append(s, is) : j <= Len(s) + 1
      BY <1>2
    <3> QED BY <3>1, <3>2
  <2>5. WatchStep(m)
    BY <2>1, <2>3, <2>4 DEF WatchStep, s, is
  <2> QED BY <2>2, <2>5
<1> QED BY <1>3, <1>4

(* Each step does one of these to each name of the cloud.                  *)
LEMMA CloudSteps ==
    ASSUME TInv, RemoteOrdered, [Next]_vars, NEW m \in Names
    PROVE  RemoteStep(m) /\ WatchStep(m)
<1>1. RemoteTypes
  BY TypeOKParts DEF TInv
<1>2. CASE UNCHANGED <<remote, remoteRv, remoteCache, remoteEvents, envs>>
  BY <1>2 DEF RemoteStep, WatchStep
<1>3. ASSUME NEW n \in Names, NEW env \in EnvLabels, NEW d \in Data, RemotePut(n, env, d)
      PROVE  RemoteStep(m) /\ WatchStep(m)
  <2> DEFINE new == [env |-> env, data |-> d, rv |-> remoteRv[n] + 1]
  <2>1. new \in RemoteObject /\ new.rv = remoteRv[n] + 1 /\ remoteRv[n] \in Nat
    BY <1>1 DEF RemoteTypes, RemoteObject, Versions
  <2>2. StoreRemote(n, new) /\ UNCHANGED envs
    BY <1>3 DEF RemotePut
  <2> HIDE DEF new
  <2>3. new # remote[n]
    <3>1. new # None
      BY <2>1, NoneAssumption
    <3>2. remote[n] # None => remote[n].rv = remoteRv[n]
      BY DEF RemoteOrdered
    <3>3. remoteRv[n] # remoteRv[n] + 1
      BY <2>1
    <3> QED BY <2>1, <3>1, <3>2, <3>3
  <2> QED BY <1>1, <2>1, <2>2, <2>3, StoreSteps
<1>4. ASSUME NEW n \in Names, RemoteDelete(n)
      PROVE  RemoteStep(m) /\ WatchStep(m)
  BY <1>1, <1>4, StoreSteps DEF RemoteDelete
<1>5. ASSUME NEW n \in Names, DeliverRemote(n)
      PROVE  RemoteStep(m) /\ WatchStep(m)
  <2> DEFINE S == RemoteObject \cup {None}
             s == remoteEvents[n]
  <2>1. /\ remote' = remote /\ remoteRv' = remoteRv /\ envs' = envs
        /\ remoteCache' = [remoteCache EXCEPT ![n] = Head(s)]
        /\ remoteEvents' = [remoteEvents EXCEPT ![n] = Tail(s)]
        /\ s \in Seq(S) /\ s # <<>>
    BY <1>1, <1>5 DEF DeliverRemote, RemoteTypes
  <2>2. CASE m # n
    <3>1. remoteCache'[m] = remoteCache[m] /\ remoteEvents'[m] = remoteEvents[m]
      BY <1>1, <2>1, <2>2 DEF RemoteTypes
    <3> QED BY <2>1, <3>1 DEF RemoteStep, WatchStep
  <2>3. CASE m = n
    <3>1. remoteCache'[m] = Head(s) /\ remoteEvents'[m] = Tail(s)
      BY <1>1, <2>1, <2>3 DEF RemoteTypes
    <3> HIDE DEF S, s
    <3>2. 1 \in DOMAIN s /\ Head(s) = s[1]
      BY <2>1
    <3>3. \A i \in DOMAIN Tail(s) : i \in Nat /\ i + 1 \in DOMAIN s /\ Tail(s)[i] = s[i + 1]
      BY <2>1
    <3> QED BY <2>1, <2>3, <3>1, <3>2, <3>3 DEF RemoteStep, WatchStep, s
  <2> QED BY <2>2, <2>3
<1>6. ASSUME NEW n \in Names, RelistRemote(n)
      PROVE  RemoteStep(m) /\ WatchStep(m)
  BY <1>1, <1>6 DEF RelistRemote, RemoteTypes, RemoteStep, WatchStep
<1>7. ASSUME NEW newEnvs \in EnvChoices, Restart(newEnvs)
      PROVE  RemoteStep(m) /\ WatchStep(m)
  BY <1>7 DEF Restart, RemoteList, RemoteStep, WatchStep
<1> QED BY <1>2, <1>3, <1>4, <1>5, <1>6, <1>7
        DEF Next, vars, remoteVars, LocalUser, DeliverLocal, RelistLocal, Resync, Begin,
            TimerFires, ReadLocal, WriteAccepted, WriteRefused, WriteFails, LateWrite

------------------------------------------------------------------------------
(* The history keeps its type and ends with the present.                   *)
LEMMA HistoryTypeNext ==
    ASSUME HistoryTypeOK, TypeOK', HistoryStep
    PROVE  HistoryTypeOK'
<1> DEFINE S == RemoteObject \cup {None}
<1>1. \A n \in Names : history[n] \in Seq(S) /\ remote'[n] \in S
  BY DEF HistoryTypeOK, TypeOK
<1> HIDE DEF S
<1>2. \A n \in Names : Append(history[n], remote'[n]) \in Seq(S)
  BY <1>1
<1>3. history' \in [Names -> Seq(S)]
  BY <1>1, <1>2 DEF HistoryStep
<1> QED BY <1>3 DEF HistoryTypeOK, S

(* So it does in every step.                                               *)
LEMMA HistoryCurrentNext ==
    ASSUME HistoryTypeOK, HistoryTypeOK', HistoryCurrent, HistoryStep,
           \A n \in Names : RemoteStep(n)
    PROVE  HistoryCurrent'
<1> SUFFICES ASSUME NEW n \in Names
             PROVE  IF history'[n] = <<>> THEN remote'[n] = None /\ remoteRv'[n] = 0
                    ELSE \E i \in DOMAIN history'[n] :
                            /\ history'[n][i] = remote'[n]
                            /\ \A j \in DOMAIN history'[n] : j <= i
  BY DEF HistoryCurrent
<1>1. Grown(n) /\ RemoteStep(n)
  BY HistoryGrows
<1>2. CASE remote'[n] = remote[n]
  BY <1>1, <1>2 DEF Grown, RemoteStep, HistoryCurrent
<1>3. CASE remote'[n] # remote[n]
  <2>1. history'[n] # <<>>
    BY <1>1, <1>3 DEF Grown
  <2> QED BY <1>1, <1>3, <2>1 DEF Grown
<1> QED BY <1>2, <1>3

(* The same in the next state.                                             *)
InHistoryNext(n, obj) == \E i \in DOMAIN history'[n] : history'[n][i] = obj

(* What was published stays published.                                     *)
LEMMA InHistoryKept ==
    ASSUME HistoryTypeOK, HistoryStep, NEW n \in Names
    PROVE  /\ \A obj : InHistory(n, obj) => InHistoryNext(n, obj)
           /\ history[n] # <<>> => history'[n] # <<>>
<1>1. Grown(n)
  BY HistoryGrows
<1>2. \A obj : InHistory(n, obj) => InHistoryNext(n, obj)
  BY <1>1 DEF Grown, InHistory, InHistoryNext
<1>3. ASSUME history[n] # <<>> PROVE history'[n] # <<>>
  <2> DEFINE S == RemoteObject \cup {None}
             s == history[n]
  <2>1. s \in Seq(S) /\ s # <<>>
    BY <1>3 DEF HistoryTypeOK
  <2> HIDE DEF S, s
  <2>2. 1 \in DOMAIN s
    BY <2>1
  <2>3. 1 \in DOMAIN history'[n]
    BY <1>1, <2>2 DEF Grown, s
  <2> QED BY <2>3
<1> QED BY <1>2, <1>3

(* The cloud's object is published.                                        *)
LEMMA PresentInHistory ==
    ASSUME HistoryCurrent, NEW n \in Names, remote[n] # None
    PROVE  InHistory(n, remote[n])
BY DEF HistoryCurrent, InHistory

(* What a step brings into the cache was published.                        *)
LEMMA WatchedGenuine ==
    ASSUME HistoryTypeOK, HistoryTypeOK', HistoryCurrent, HistoryCurrent', HistoryStep,
           ReadsGenuine, NEW n \in Names, WatchStep(n)
    PROVE  /\ remoteCache'[n] # None => InHistoryNext(n, remoteCache'[n])
           /\ \A i \in DOMAIN remoteEvents'[n] :
                 remoteEvents'[n][i] # None => InHistoryNext(n, remoteEvents'[n][i])
<1>1. /\ remoteCache[n] # None => InHistoryNext(n, remoteCache[n])
      /\ \A i \in DOMAIN remoteEvents[n] :
            remoteEvents[n][i] # None => InHistoryNext(n, remoteEvents[n][i])
      /\ remote[n] # None => InHistoryNext(n, remote[n])
  BY InHistoryKept, PresentInHistory DEF ReadsGenuine
<1>2. remote'[n] # None => InHistoryNext(n, remote'[n])
  BY DEF HistoryCurrent, InHistoryNext
<1>3. DOMAIN <<>> = {}
  OBVIOUS
<1>4. \A obj, envSet : EnvScoped(obj, envSet) \in {obj, None}
  BY DEF EnvScoped
<1> QED BY <1>1, <1>2, <1>3, <1>4 DEF WatchStep

(* The worker reads from the cache.                                        *)
LEMMA ReadsGenuineNext ==
    ASSUME HistoryTypeOK, HistoryTypeOK', HistoryCurrent, HistoryCurrent', HistoryStep,
           TypeOK, HeldBehind, ReadsGenuine, TaskStep, \A n \in Names : WatchStep(n)
    PROVE  ReadsGenuine'
<1>1. ASSUME remoteRead' # None
      PROVE  InHistoryNext(current', remoteRead')
  <2>1. CASE remoteRead # None /\ current' = current /\ remoteRead' = remoteRead
    BY <2>1, InHistoryKept DEF HeldBehind, TypeOK, ReadsGenuine
  <2>2. ASSUME NEW n \in Names, Begin(n)
        PROVE  InHistoryNext(current', remoteRead')
    BY <1>1, <2>2, InHistoryKept DEF Begin, ReadsGenuine
  <2> QED BY <1>1, <2>1, <2>2 DEF TaskStep, ReadLocal, Finish, LateWrite, taskVars
<1> QED BY <1>1, WatchedGenuine DEF ReadsGenuine, InHistoryNext, InHistory

------------------------------------------------------------------------------
(* Genuine in the next state.                                              *)
GenuineNext(w) ==
    w # None =>
        /\ history'[w.name] # <<>>
        /\ Puts(w) => /\ w.obj.managed
                      /\ \E i \in DOMAIN history'[w.name] :
                            /\ history'[w.name][i] # None
                            /\ history'[w.name][i].data = w.obj.data
                            /\ history'[w.name][i].rv = w.obj.lastRemote

(* What a write stores stays published.                                    *)
LEMMA GenuineKept ==
    ASSUME HistoryTypeOK, HistoryStep, NEW w \in Writes \cup {None}, Genuine(w)
    PROVE  GenuineNext(w)
<1> SUFFICES ASSUME w # None PROVE GenuineNext(w)
  BY DEF GenuineNext
<1>1. w.name \in Names
  BY DEF Writes
<1>2. Grown(w.name) /\ (history[w.name] # <<>> => history'[w.name] # <<>>)
  BY <1>1, HistoryGrows, InHistoryKept
<1> QED BY <1>2 DEF Genuine, GenuineNext, Grown

(* A decision stores the object the worker read; it deletes what it found  *)
(* in the local cache.                                                     *)
LEMMA DecideGenuine ==
    ASSUME TypeOK, ReadsGenuine, ManagedPublished, current \in Names,
           NEW d, d = Decide(current, remoteRead, localCache[current], envs)
    PROVE  Genuine(d)
<1> SUFFICES ASSUME d # None PROVE Genuine(d)
  BY DEF Genuine
<1>1. /\ remoteRead \in RemoteObject \cup {None}
      /\ localCache[current] \in LocalObject \cup {None}
  BY DEF TypeOK
<1>2. CASE Puts(d)
  <2>1. /\ remoteRead # None /\ d.name = current
        /\ d.obj.lastRemote = remoteRead.rv /\ d.obj.data = remoteRead.data /\ d.obj.managed
    BY <1>1, <1>2, DecidePuts
  <2>2. PICK i \in DOMAIN history[current] : history[current][i] = remoteRead
    BY <2>1 DEF ReadsGenuine, InHistory
  <2>3. history[current] # <<>>
    BY <2>2
  <2> QED BY <2>1, <2>2, <2>3 DEF Genuine
<1>3. CASE ~Puts(d)
  <2>1. d = Request(current, "delete", localCache[current]) /\ localCache[current] # None
    BY <1>3 DEF Decide, Puts, Request
  <2>2. d.name = current
    BY <2>1 DEF Request
  <2> QED BY <1>3, <2>1, <2>2 DEF ManagedPublished, Genuine
<1> QED BY <1>2, <1>3

(* The writes decided on and on their way stay genuine.                    *)
LEMMA WritesGenuineNext ==
    ASSUME TypeOK, TypeOK', HistoryTypeOK, HistoryStep, ReadsGenuine, ManagedPublished,
           WritesGenuine, TaskStep
    PROVE  WritesGenuine'
<1>1. GenuineNext(pending) /\ GenuineNext(inflight) /\ GenuineNext(None)
  BY GenuineKept DEF TypeOK, WritesGenuine, GenuineNext
<1>2. CASE ReadLocal /\ pending' # None
  <2>1. /\ current \in Names /\ inflight' = inflight
        /\ pending' = Decide(current, remoteRead, localCache[current], envs)
    BY <1>2 DEF ReadLocal, Finish, TypeOK
  <2>2. Genuine(pending')
    BY <2>1, DecideGenuine
  <2>3. GenuineNext(pending')
    BY <2>2, GenuineKept DEF TypeOK
  <2> QED BY <1>1, <2>1, <2>3 DEF WritesGenuine, GenuineNext, Genuine, Puts
<1>3. CASE pending' \in {None, pending} /\ inflight' \in {None, pending, inflight}
  BY <1>1, <1>3 DEF WritesGenuine, GenuineNext, Genuine, Puts
<1> QED BY <1>2, <1>3 DEF TaskStep, Begin, LateWrite, taskVars

(* Nothing managed is at the edge under name n, nor is it watched.         *)
NotManaged(n) ==
    /\ local[n] # None => ~local[n].managed
    /\ localCache[n] = None
    /\ \A i \in DOMAIN localEvents[n] : localEvents[n][i] = None

NotManagedNext(n) ==
    /\ local'[n] # None => ~local'[n].managed
    /\ localCache'[n] = None
    /\ \A i \in DOMAIN localEvents'[n] : localEvents'[n][i] = None

(* Storing an object that is not managed changes nothing of that.          *)
LEMMA NotManagedStored ==
    ASSUME LocalTypes, NEW n \in Names, NotManaged(n), NEW m \in Names, NEW new,
           StoreLocal(m, new), local'[n] # None => ~local'[n].managed
    PROVE  NotManagedNext(n)
<1> DEFINE stored == IF new = None THEN None ELSE [new EXCEPT !.rv = localRv[m] + 1]
<1>1. /\ local' = [local EXCEPT ![m] = stored]
      /\ \/ localEvents' = localEvents
         \/ localEvents' = [localEvents EXCEPT ![m] = Append(@, ManagedScoped(stored))]
      /\ localCache' = localCache
      /\ ManagedScoped(local[m]) = None /\ ManagedScoped(stored) = None
            => localEvents' = localEvents
  BY DEF StoreLocal
<1> HIDE DEF stored
<1>2. CASE m # n
  BY <1>1, <1>2 DEF NotManaged, NotManagedNext, LocalTypes
<1>3. CASE m = n
  <2>1. local'[n] = stored
    BY <1>1, <1>3 DEF LocalTypes
  <2>2. localEvents' = localEvents
    BY <1>1, <1>3, <2>1 DEF NotManaged, ManagedScoped
  <2> QED BY <1>1, <2>2 DEF NotManaged, NotManagedNext
<1> QED BY <1>2, <1>3

(* Neither does any step before the name is published.                     *)
LEMMA NotManagedKept ==
    ASSUME TypeOK, WritesGenuine, [Next]_vars,
           NEW n \in Names, history[n] = <<>>, NotManaged(n)
    PROVE  NotManagedNext(n)
<1>1. LocalTypes /\ ControllerTypes
  BY TypeOKParts
<1>2. CASE UNCHANGED localVars
  BY <1>2 DEF localVars, NotManaged, NotManagedNext
<1>3. ASSUME NEW m \in Names, LocalUser(m)
      PROVE  NotManagedNext(n)
  <2>1. Touched(m) /\ \E new : StoreLocal(m, new)
    BY <1>1, <1>3, UserTouches, LocalUserStores
  <2>2. local'[n] # None => ~local'[n].managed
    BY <2>1 DEF Touched, NotManaged
  <2> QED BY <1>1, <2>1, <2>2, NotManagedStored
<1>4. ASSUME NEW w \in Writes, Apply(w), Genuine(w)
      PROVE  NotManagedNext(n)
  <2>1. w.name # n /\ w.name \in Names
    BY <1>4, NoneAssumption DEF Genuine, Writes
  <2>2. local'[n] # None => ~local'[n].managed
    BY <1>1, <1>4, <2>1, AppliedCopy DEF NotManaged
  <2> QED BY <1>1, <1>4, <2>1, <2>2, NotManagedStored DEF Apply
<1>5. ASSUME NEW m \in Names, DeliverLocal(m)
      PROVE  NotManagedNext(n)
  <2> DEFINE S == LocalObject \cup {None}
             s == localEvents[m]
  <2>1. /\ s \in Seq(S) /\ s # <<>> /\ local' = local
        /\ localCache' = [localCache EXCEPT ![m] = Head(s)]
        /\ localEvents' = [localEvents EXCEPT ![m] = Tail(s)]
    BY <1>1, <1>5 DEF DeliverLocal, LocalTypes
  <2>2. CASE m # n
    BY <1>1, <2>1, <2>2 DEF LocalTypes, NotManaged, NotManagedNext
  <2>3. CASE m = n
    <3>1. localCache'[n] = Head(s) /\ localEvents'[n] = Tail(s) /\ local'[n] = local[n]
      BY <1>1, <2>1, <2>3 DEF LocalTypes
    <3>2. \A i \in DOMAIN s : s[i] = None
      BY <2>3 DEF NotManaged
    <3> HIDE DEF S, s
    <3>3. 1 \in DOMAIN s /\ Head(s) = s[1]
      BY <2>1
    <3>4. \A i \in DOMAIN Tail(s) : i + 1 \in DOMAIN s /\ Tail(s)[i] = s[i + 1]
      BY <2>1
    <3> QED BY <3>1, <3>2, <3>3, <3>4 DEF NotManaged, NotManagedNext
  <2> QED BY <2>2, <2>3
<1>6. ASSUME NEW m \in Names, RelistLocal(m)
      PROVE  NotManagedNext(n)
  BY <1>1, <1>6 DEF RelistLocal, LocalTypes, ManagedScoped, NotManaged, NotManagedNext
<1>7. ASSUME NEW newEnvs \in EnvChoices, Restart(newEnvs)
      PROVE  NotManagedNext(n)
  BY <1>7 DEF Restart, ManagedScoped, NotManaged, NotManagedNext
<1>8. CASE WriteAccepted \/ WriteFails
  <2>1. pending \in Writes /\ Genuine(pending)
    BY <1>1, <1>8 DEF WriteAccepted, WriteFails, ControllerTypes, WritesGenuine
  <2> QED BY <1>2, <1>4, <1>8, <2>1 DEF WriteAccepted, WriteFails
<1>9. CASE LateWrite
  <2>1. inflight \in Writes /\ Genuine(inflight)
    BY <1>1, <1>9 DEF LateWrite, ControllerTypes, WritesGenuine
  <2> QED BY <1>2, <1>4, <1>9, <2>1 DEF LateWrite
<1> QED BY <1>2, <1>3, <1>5, <1>6, <1>7, <1>8, <1>9
        DEF Next, vars, RemotePut, RemoteDelete, DeliverRemote, RelistRemote, Resync, Begin,
            TimerFires, ReadLocal, WriteRefused

(* Names that were never published have no managed object.                 *)
LEMMA ManagedPublishedNext ==
    ASSUME TypeOK, HistoryTypeOK, HistoryStep, WritesGenuine, ManagedPublished, [Next]_vars
    PROVE  ManagedPublished'
<1> SUFFICES ASSUME NEW n \in Names, history'[n] = <<>>
             PROVE  NotManagedNext(n)
  BY DEF ManagedPublished, NotManagedNext
<1>1. history[n] = <<>>
  BY InHistoryKept
<1> QED BY <1>1, NotManagedKept DEF ManagedPublished, NotManaged

------------------------------------------------------------------------------
(* Only a restart changes the environments, and it leaves no task.         *)
LEMMA EnvSteps == [Next]_vars => envs' = envs \/ (current' = None /\ remoteRead' = None)
BY DEF Next, vars, RemotePut, RemoteDelete, LocalUser, DeliverRemote, DeliverLocal,
       RelistRemote, RelistLocal, Resync, Begin, TimerFires, ReadLocal, WriteAccepted,
       WriteRefused, WriteFails, LateWrite, Restart

(* The cache and what is read from it stay scoped.                         *)
LEMMA ScopedNext ==
    ASSUME TInv, Scoped, TaskStep, \A n \in Names : WatchStep(n), [Next]_vars
    PROVE  Scoped'
<1>1. ASSUME NEW n \in Names
      PROVE  /\ remoteCache'[n] # None => remoteCache'[n].env \in envs'
             /\ \A i \in DOMAIN remoteEvents'[n] :
                   remoteEvents'[n][i] # None => remoteEvents'[n][i].env \in envs'
  <2>1. \A obj, envSet : EnvScoped(obj, envSet) # None => EnvScoped(obj, envSet).env \in envSet
    BY DEF EnvScoped, HasEdgeSyncLabel
  <2>2. DOMAIN <<>> = {}
    OBVIOUS
  <2> QED BY <2>1, <2>2 DEF WatchStep, Scoped
<1>2. ASSUME remoteRead' # None
      PROVE  remoteRead'.env \in envs' /\ pending' = None
  <2>1. envs' = envs
    BY <1>2, EnvSteps
  <2>2. ASSUME NEW n \in Names, Begin(n)
        PROVE  remoteRead'.env \in envs' /\ pending' = None
    <3>1. pending = None
      BY <2>2, NoneAssumption DEF Begin, TInv, PendingIsCurrent
    <3> QED BY <1>2, <2>1, <2>2, <3>1 DEF Begin, Scoped
  <2>3. CASE UNCHANGED <<current, remoteRead, pending>>
    BY <1>2, <2>1, <2>3 DEF Scoped
  <2> QED BY <1>2, <2>2, <2>3 DEF TaskStep, ReadLocal, Finish, LateWrite, taskVars
<1> QED BY <1>1, <1>2 DEF Scoped

(* Withdrawn in the next state.                                            *)
WithdrawnNext(n, v) ==
    \E i \in DOMAIN history'[n] :
        /\ history'[n][i] # None => history'[n][i].env \notin envs'
        /\ \A j \in DOMAIN history'[n] :
              history'[n][j] # None => (history'[n][j].rv = v => j <= i)

(* A version once withdrawn stays withdrawn while the controller runs: new *)
(* states of the cloud's object have new versions.                         *)
LEMMA WithdrawnKept ==
    ASSUME HistoryTypeOK, HistoryStep, envs' = envs, NEW n \in Names, RemoteStep(n),
           remoteRv[n] \in Nat, NEW v \in Versions, v <= remoteRv[n], Withdrawn(n, v)
    PROVE  WithdrawnNext(n, v)
<1>1. Grown(n)
  BY HistoryGrows
<1>2. v # remoteRv[n] + 1
  BY DEF Versions
<1>3. PICK i \in DOMAIN history[n] :
        /\ history[n][i] # None => history[n][i].env \notin envs
        /\ \A j \in DOMAIN history[n] :
              history[n][j] # None => (history[n][j].rv = v => j <= i)
  BY DEF Withdrawn
<1>4. i \in DOMAIN history'[n] /\ history'[n][i] = history[n][i]
  BY <1>1 DEF Grown
<1>5. ASSUME NEW j \in DOMAIN history'[n], history'[n][j] # None, history'[n][j].rv = v
      PROVE  j <= i
  <2>1. j \in DOMAIN history[n] /\ history'[n][j] = history[n][j]
    BY <1>1, <1>2, <1>5 DEF Grown, RemoteStep
  <2> QED BY <1>3, <1>5, <2>1
<1> QED BY <1>3, <1>4, <1>5 DEF WithdrawnNext

(* When the environments do not have the cloud's present object, every     *)
(* version before it is withdrawn.                                         *)
LEMMA WithdrawnNow ==
    ASSUME HistoryCurrent', NEW n \in Names, history'[n] # <<>>,
           EnvScoped(remote'[n], envs') = None, NEW v
    PROVE  WithdrawnNext(n, v)
<1>1. PICK i \in DOMAIN history'[n] : /\ history'[n][i] = remote'[n]
                                     /\ \A j \in DOMAIN history'[n] : j <= i
  BY DEF HistoryCurrent
<1>2. history'[n][i] # None => history'[n][i].env \notin envs'
  BY <1>1 DEF EnvScoped, HasEdgeSyncLabel
<1> QED BY <1>1, <1>2 DEF WithdrawnNext

(* Holds in the next state.                                                *)
HoldsNext(n, v) ==
    \/ local'[n] # None /\ local'[n].lastRemote = v
    \/ current' = n /\ remoteRead' # None /\ remoteRead'.rv = v
    \/ Puts(pending') /\ pending'.name = n /\ pending'.obj.lastRemote = v
    \/ Puts(inflight') /\ inflight'.name = n /\ inflight'.obj.lastRemote = v

(* Versions come in through the worker's read only.                        *)
LEMMA HoldsFrom ==
    ASSUME TypeOK, LocalStep, TaskStep, NEW n \in Names, NEW v \in Versions, HoldsNext(n, v)
    PROVE  \/ Holds(n, v)
           \/ remoteRead' = remoteCache[n] /\ remoteCache[n] # None /\ remoteCache[n].rv = v
<1>1. LocalTypes /\ ControllerTypes /\ v # None
  BY TypeOKParts, NoneAssumption DEF Versions
<1>2. ASSUME local'[n] # None, local'[n].lastRemote = v
      PROVE  Holds(n, v)
  <2>1. ASSUME NEW m \in Names, LocalUser(m)
        PROVE  Holds(n, v)
    <3>1. Touched(m)
      BY <1>1, <2>1, UserTouches
    <3> QED BY <1>1, <1>2, <3>1 DEF Touched, Holds
  <2>2. ASSUME NEW w \in {pending, inflight}, w \in Writes, w # None, Apply(w)
        PROVE  Holds(n, v)
    <3>1. CASE n = w.name
      BY <1>1, <1>2, <2>2, <3>1, AppliedCopy DEF Holds, Puts
    <3>2. CASE n # w.name
      BY <1>1, <1>2, <2>2, <3>2, AppliedCopy DEF Holds
    <3> QED BY <3>1, <3>2
  <2>3. WriteAccepted \/ WriteFails => pending \in Writes /\ pending # None
    BY <1>1 DEF WriteAccepted, WriteFails, ControllerTypes
  <2>4. LateWrite => inflight \in Writes /\ inflight # None
    BY <1>1 DEF LateWrite, ControllerTypes
  <2>5. UNCHANGED <<local, localRv>> => Holds(n, v)
    BY <1>2 DEF Holds
  <2> QED BY <2>1, <2>2, <2>3, <2>4, <2>5 DEF LocalStep
<1>3. CASE UNCHANGED <<current, remoteRead, pending, inflight>>
  BY <1>2, <1>3 DEF HoldsNext, Holds
<1>4. ASSUME NEW m \in Names, Begin(m)
      PROVE  \/ Holds(n, v)
             \/ remoteRead' = remoteCache[n] /\ remoteCache[n] # None /\ remoteCache[n].rv = v
  BY <1>2, <1>4 DEF Begin, HoldsNext, Holds
<1>5. CASE ReadLocal /\ pending' # None
  <2>1. /\ current \in Names /\ remoteRead \in RemoteObject \cup {None}
        /\ localCache[current] \in LocalObject \cup {None}
    BY <1>5 DEF ReadLocal, TypeOK
  <2>2. /\ pending' = Decide(current, remoteRead, localCache[current], envs)
        /\ remoteRead' = None /\ inflight' = inflight
    BY <1>5 DEF ReadLocal, Finish
  <2>3. Puts(pending') => /\ remoteRead # None
                          /\ pending'.name = current /\ pending'.obj.lastRemote = remoteRead.rv
    BY <2>1, <2>2, DecidePuts
  <2> QED BY <1>2, <2>2, <2>3 DEF HoldsNext, Holds
<1>6. CASE /\ current' = None /\ remoteRead' = None /\ pending' = None
           /\ inflight' \in {None, pending, inflight}
  BY <1>2, <1>6 DEF HoldsNext, Holds, Puts
<1>7. CASE LateWrite
  BY <1>2, <1>7 DEF LateWrite, taskVars, HoldsNext, Holds, Puts
<1> QED BY <1>3, <1>4, <1>5, <1>6, <1>7 DEF TaskStep

(* What is held or on its way to the cache is not newer than the cloud.    *)
LEMMA MayHoldBehind ==
    ASSUME RemoteOrdered, HeldBehind, NEW n \in Names, NEW v \in Versions, NEW i,
           MayHold(n, v, i)
    PROVE  v <= remoteRv[n]
<1>1. Holds(n, v) => v <= remoteRv[n]
  <2>1. v # None
    BY NoneAssumption DEF Versions
  <2> QED BY <2>1 DEF HeldBehind, Behind, Holds
<1>2. remoteCache[n] # None => remoteCache[n].rv <= remoteRv[n]
  BY DEF RemoteOrdered, Behind
<1>3. \A j \in DOMAIN remoteEvents[n] :
         remoteEvents[n][j] # None => remoteEvents[n][j].rv <= remoteRv[n]
  BY DEF RemoteOrdered
<1> QED BY <1>1, <1>2, <1>3 DEF MayHold

(* MayHold in the next state.                                              *)
MayHoldNext(n, v, i) ==
    \/ HoldsNext(n, v)
    \/ remoteCache'[n] # None /\ remoteCache'[n].rv = v
    \/ \E j \in DOMAIN remoteEvents'[n] :
          j < i /\ remoteEvents'[n][j] # None /\ remoteEvents'[n][j].rv = v

(* What AbsenceWarranted says of one version of one name after a step.     *)
AbsenceNext(n, v) ==
    /\ remoteCache'[n] = None /\ HoldsNext(n, v) => WithdrawnNext(n, v)
    /\ \A i \in DOMAIN remoteEvents'[n] :
          remoteEvents'[n][i] = None /\ MayHoldNext(n, v, i) => WithdrawnNext(n, v)
    /\ current' = n /\ remoteRead' = None /\ ~Puts(pending') /\ HoldsNext(n, v)
          => WithdrawnNext(n, v)

(* The cache and the events of the remote watch: an object disappears from *)
(* the cache by an event that was warranted when it was sent, or by a list *)
(* that shows the present.                                                 *)
LEMMA AbsenceWatched ==
    ASSUME TypeOK, TypeOK', HistoryTypeOK, HistoryStep, HistoryCurrent, HistoryCurrent',
           RemoteOrdered, HeldBehind, AbsenceWarranted, LocalStep, TaskStep,
           NEW n \in Names, RemoteStep(n), WatchStep(n), NEW v \in Versions
    PROVE  /\ remoteCache'[n] = None /\ HoldsNext(n, v) => WithdrawnNext(n, v)
           /\ \A i \in DOMAIN remoteEvents'[n] :
                 remoteEvents'[n][i] = None /\ MayHoldNext(n, v, i) => WithdrawnNext(n, v)
<1>1. /\ remoteRv[n] \in Nat /\ v \in Nat /\ v # 0
      /\ \A i \in DOMAIN remoteEvents[n] : i \in Nat
      /\ \A i \in DOMAIN remoteEvents'[n] : i \in Nat /\ i >= 1
  <2> DEFINE S == RemoteObject \cup {None}
  <2>1. remoteEvents[n] \in Seq(S) /\ remoteEvents'[n] \in Seq(S)
    BY DEF TypeOK
  <2> HIDE DEF S
  <2>2. \A s \in Seq(S) : \A i \in DOMAIN s : i \in Nat /\ i >= 1
    OBVIOUS
  <2>3. remoteRv[n] \in Nat /\ v \in Nat /\ v # 0
    BY DEF TypeOK, Versions
  <2> QED BY <2>1, <2>2, <2>3
<1>2. \A i : HoldsNext(n, v) => MayHold(n, v, i)
  BY HoldsFrom DEF MayHold
<1>3. \A i : MayHold(n, v, i) => v <= remoteRv[n]
  BY MayHoldBehind
<1>4. ASSUME NEW i, MayHold(n, v, i), Withdrawn(n, v), envs' = envs
      PROVE  WithdrawnNext(n, v)
  BY <1>1, <1>3, <1>4, WithdrawnKept
<1>5. CASE /\ envs' = envs /\ remoteCache'[n] = remoteCache[n]
           /\ \A i \in DOMAIN remoteEvents'[n] :
                 \/ i \in DOMAIN remoteEvents[n] /\ remoteEvents'[n][i] = remoteEvents[n][i]
                 \/ /\ remote'[n] # remote[n]
                    /\ remoteEvents'[n][i] = EnvScoped(remote'[n], envs)
                    /\ \A j \in DOMAIN remoteEvents'[n] : j <= i
  <2>1. ASSUME remoteCache'[n] = None, HoldsNext(n, v)
        PROVE  WithdrawnNext(n, v)
    <3>1. Holds(n, v)
      BY <1>5, <2>1, HoldsFrom
    <3>2. Withdrawn(n, v) /\ MayHold(n, v, 1)
      BY <1>5, <2>1, <3>1 DEF AbsenceWarranted, MayHold
    <3> QED BY <1>4, <1>5, <3>2
  <2>2. ASSUME NEW i \in DOMAIN remoteEvents'[n], remoteEvents'[n][i] = None,
               MayHoldNext(n, v, i)
        PROVE  WithdrawnNext(n, v)
    <3>1. CASE i \in DOMAIN remoteEvents[n] /\ remoteEvents'[n][i] = remoteEvents[n][i]
      <4>1. \A j \in DOMAIN remoteEvents'[n] : j < i =>
               j \in DOMAIN remoteEvents[n] /\ remoteEvents'[n][j] = remoteEvents[n][j]
        <5>1. \A j \in DOMAIN remoteEvents'[n] : j < i => ~(i <= j)
          BY <1>1
        <5> QED BY <1>5, <2>2, <5>1
      <4>2. MayHold(n, v, i)
        BY <1>2, <1>5, <2>2, <4>1 DEF MayHoldNext, MayHold
      <4> QED BY <1>4, <1>5, <2>2, <3>1, <4>2 DEF AbsenceWarranted
    <3>2. CASE remote'[n] # remote[n] /\ remoteEvents'[n][i] = EnvScoped(remote'[n], envs)
      <4>1. history'[n] # <<>>
        BY <3>2, HistoryGrows DEF Grown
      <4> QED BY <1>5, <2>2, <3>2, <4>1, WithdrawnNow
    <3> QED BY <1>5, <3>1, <3>2
  <2> QED BY <2>1, <2>2
<1>6. CASE /\ envs' = envs /\ remote'[n] = remote[n]
           /\ 1 \in DOMAIN remoteEvents[n] /\ remoteCache'[n] = remoteEvents[n][1]
           /\ \A i \in DOMAIN remoteEvents'[n] :
                 /\ i \in Nat /\ i + 1 \in DOMAIN remoteEvents[n]
                 /\ remoteEvents'[n][i] = remoteEvents[n][i + 1]
  <2>1. ASSUME remoteCache'[n] = None, HoldsNext(n, v)
        PROVE  WithdrawnNext(n, v)
    <3>1. MayHold(n, v, 1)
      BY <1>2, <2>1
    <3> QED BY <1>4, <1>6, <2>1, <3>1 DEF AbsenceWarranted
  <2>2. ASSUME NEW i \in DOMAIN remoteEvents'[n], remoteEvents'[n][i] = None,
               MayHoldNext(n, v, i)
        PROVE  WithdrawnNext(n, v)
    <3>1. MayHold(n, v, i + 1)
      <4>1. CASE HoldsNext(n, v)
        BY <1>2, <4>1
      <4>2. CASE remoteCache'[n] # None /\ remoteCache'[n].rv = v
        <5>1. 1 < i + 1
          BY <1>1
        <5> QED BY <1>6, <4>2, <5>1 DEF MayHold
      <4>3. ASSUME NEW j \in DOMAIN remoteEvents'[n], j < i,
                   remoteEvents'[n][j] # None, remoteEvents'[n][j].rv = v
            PROVE  MayHold(n, v, i + 1)
        <5>1. j + 1 < i + 1 /\ j + 1 \in DOMAIN remoteEvents[n]
          BY <1>1, <1>6, <4>3
        <5> QED BY <1>6, <4>3, <5>1 DEF MayHold
      <4> QED BY <2>2, <4>1, <4>2, <4>3 DEF MayHoldNext
    <3> QED BY <1>4, <1>6, <2>2, <3>1 DEF AbsenceWarranted
  <2> QED BY <2>1, <2>2
<1>7. CASE /\ remote'[n] = remote[n] /\ remoteEvents'[n] = <<>>
           /\ remoteCache'[n] = EnvScoped(remote[n], envs')
  <2>1. ASSUME remoteCache'[n] = None, HoldsNext(n, v)
        PROVE  WithdrawnNext(n, v)
    <3>1. v <= remoteRv[n]
      BY <1>2, <1>3, <2>1
    <3>2. history[n] # <<>>
      <4>1. ~(v <= 0)
        BY <1>1
      <4> QED BY <3>1, <4>1 DEF HistoryCurrent
    <3>3. history'[n] # <<>>
      BY <3>2, InHistoryKept
    <3> QED BY <1>7, <2>1, <3>3, WithdrawnNow
  <2>2. DOMAIN remoteEvents'[n] = {}
    BY <1>7
  <2> QED BY <2>1, <2>2
<1> QED BY <1>5, <1>6, <1>7 DEF WatchStep

(* The worker finds the object absent in the cache, or decides to delete   *)
(* because it had found it absent.                                         *)
LEMMA AbsenceRead ==
    ASSUME TInv, HistoryTypeOK, HistoryStep, RemoteOrdered, HeldBehind, Scoped,
           AbsenceWarranted, LocalStep, TaskStep, [Next]_vars,
           NEW n \in Names, RemoteStep(n), NEW v \in Versions,
           current' = n, remoteRead' = None, ~Puts(pending'), HoldsNext(n, v)
    PROVE  WithdrawnNext(n, v)
<1>1. TypeOK /\ PendingIsCurrent /\ remoteRv[n] \in Nat /\ n # None
  BY NoneAssumption DEF TInv, TypeOK
<1>2. envs' = envs
  BY <1>1, EnvSteps
<1>3. ASSUME Holds(n, v), Withdrawn(n, v)
      PROVE  WithdrawnNext(n, v)
  <2>1. v <= remoteRv[n]
    BY <1>3, MayHoldBehind DEF MayHold
  <2> QED BY <1>1, <1>2, <1>3, <2>1, WithdrawnKept
<1>4. Holds(n, v)
  BY <1>1, HoldsFrom
<1>5. CASE UNCHANGED <<current, remoteRead, pending>>
  BY <1>3, <1>4, <1>5 DEF AbsenceWarranted
<1>6. ASSUME NEW m \in Names, Begin(m)
      PROVE  WithdrawnNext(n, v)
  BY <1>3, <1>4, <1>6 DEF Begin, AbsenceWarranted
<1>7. CASE ReadLocal /\ pending' # None
  <2>1. /\ current = n /\ pending = None
        /\ pending' = Decide(n, remoteRead, localCache[n], envs)
    BY <1>7 DEF ReadLocal, Finish
  <2>2. remoteRead = None
    BY <1>7, <2>1 DEF Decide, Request, Puts, Scoped, HasEdgeSyncLabel
  <2> QED BY <1>3, <1>4, <2>1, <2>2 DEF AbsenceWarranted, Puts
<1> QED BY <1>1, <1>5, <1>6, <1>7 DEF TaskStep, LateWrite, taskVars

(* Absence stays warranted.                                                *)
LEMMA AbsenceWarrantedNext ==
    ASSUME TInv, TypeOK', HistoryTypeOK, HistoryStep, HistoryCurrent, HistoryCurrent',
           RemoteOrdered, HeldBehind, Scoped, AbsenceWarranted, LocalStep, TaskStep,
           [Next]_vars, \A n \in Names : RemoteStep(n) /\ WatchStep(n)
    PROVE  AbsenceWarranted'
<1>1. ASSUME NEW n \in Names, NEW v \in Versions
      PROVE  AbsenceNext(n, v)
  BY <1>1, AbsenceWatched, AbsenceRead DEF AbsenceNext, TInv
<1> QED BY <1>1 DEF AbsenceNext, AbsenceWarranted, HoldsNext, Holds, MayHoldNext, MayHold,
                    WithdrawnNext, Withdrawn, Puts

------------------------------------------------------------------------------
(* The inductive invariant.                                                *)
LEMMA HInvInit == HistoryInit => HInv
<1> SUFFICES ASSUME HistoryInit PROVE HInv
  OBVIOUS
<1>1. Init /\ history = [n \in Names |-> <<>>]
  BY DEF HistoryInit
<1>2. OInv
  BY <1>1, OInvInit
<1>3. HistoryTypeOK /\ HistoryCurrent
  BY <1>1 DEF Init, HistoryTypeOK, HistoryCurrent
<1>4. ReadsGenuine /\ WritesGenuine /\ ManagedPublished /\ Scoped
  BY <1>1 DEF Init, ReadsGenuine, WritesGenuine, Genuine, ManagedPublished, Scoped
<1>5. AbsenceWarranted
  <2>1. \A n \in Names : \A v : ~Holds(n, v)
    BY <1>1 DEF Init, Holds, Puts
  <2>2. \A n \in Names : DOMAIN remoteEvents[n] = {}
    BY <1>1 DEF Init
  <2> QED BY <2>1, <2>2 DEF AbsenceWarranted
<1> QED BY <1>2, <1>3, <1>4, <1>5 DEF HInv

(* Every step keeps it.                                                    *)
LEMMA HInvNext == HInv /\ [HistoryNext]_historyVars => HInv'
<1> SUFFICES ASSUME HInv, [HistoryNext]_historyVars PROVE HInv'
  OBVIOUS
<1>1. /\ OInv /\ HistoryTypeOK /\ HistoryCurrent /\ ReadsGenuine /\ WritesGenuine
      /\ ManagedPublished /\ Scoped /\ AbsenceWarranted
  BY DEF HInv
<1>2. HistoryStep /\ [Next]_vars
  BY <1>1, HistorySteps
<1>3. OInv'
  BY <1>1, <1>2, OInvNext
<1>4. TInv /\ TypeOK /\ TypeOK' /\ RemoteOrdered /\ HeldBehind
  BY <1>1, <1>3 DEF OInv, VInv, TInv
<1>5. LocalStep /\ TaskStep
  BY <1>2, LocalSteps, TaskSteps
<1>6. \A n \in Names : RemoteStep(n) /\ WatchStep(n)
  BY <1>2, <1>4, CloudSteps
<1>7. HistoryTypeOK' /\ HistoryCurrent'
  BY <1>1, <1>2, <1>4, <1>6, HistoryTypeNext, HistoryCurrentNext
<1>8. ReadsGenuine'
  BY <1>1, <1>2, <1>4, <1>5, <1>6, <1>7, ReadsGenuineNext
<1>9. WritesGenuine' /\ ManagedPublished'
  BY <1>1, <1>2, <1>4, <1>5, WritesGenuineNext, ManagedPublishedNext
<1>10. Scoped' /\ AbsenceWarranted'
  BY <1>1, <1>2, <1>4, <1>5, <1>6, <1>7, ScopedNext, AbsenceWarrantedNext
<1> QED BY <1>3, <1>7, <1>8, <1>9, <1>10 DEF HInv

(* In every behaviour with its history.                                    *)
LEMMA HInvAlways == HistorySpec => []HInv
BY HInvInit, HInvNext, PTL DEF HistorySpec

(* A running controller deletes a copy only if the cloud withdrew it,      *)
(* however early or late it reads its caches: reconcileRequest reads the   *)
(* remote object through a cache that is filled before the worker starts.  *)
THEOREM NoHastyDeletion == HistorySpec => DeletionsWarranted
<1> DEFINE Warranted == \A n \in Names :
         /\ WriteAccepted \/ WriteFails
         /\ local[n] # None /\ local[n].managed /\ local[n].lastRemote # None
         /\ local'[n] = None
         => Withdrawn(n, local[n].lastRemote)
<1>1. HInv => Warranted
  <2> SUFFICES ASSUME HInv, NEW n \in Names, WriteAccepted \/ WriteFails, local[n] # None,
                      local[n].lastRemote # None, local'[n] = None
               PROVE  Withdrawn(n, local[n].lastRemote)
    OBVIOUS
  <2>1. /\ LocalTypes /\ ControllerTypes /\ PendingIsCurrent /\ Scoped /\ AbsenceWarranted
    BY TypeOKParts DEF HInv, OInv, VInv, TInv
  <2>2. pending \in Writes /\ pending # None
    BY <2>1 DEF WriteAccepted, WriteFails, ControllerTypes
  <2>3. Apply(pending)
    BY DEF WriteAccepted, WriteFails, localVars
  <2>4. pending.name = n /\ pending.op = "delete"
    BY <2>1, <2>2, <2>3, AppliedCopy
  <2>5. current = n /\ remoteRead = None /\ ~Puts(pending)
    BY <2>1, <2>2, <2>4 DEF PendingIsCurrent, Scoped, Puts
  <2>6. local[n].lastRemote \in Versions /\ Holds(n, local[n].lastRemote)
    BY <2>1 DEF LocalTypes, LocalObject, Holds
  <2> QED BY <2>1, <2>5, <2>6 DEF AbsenceWarranted
<1>2. HInv /\ [HistoryNext]_historyVars => [Warranted]_historyVars
  BY <1>1
<1> QED BY <1>2, HInvAlways, PTL DEF HistorySpec, DeletionsWarranted

------------------------------------------------------------------------------
(* How often the users of the edge cluster changed it.                     *)
Touches == Budget["user"] - left["user"]

(* The state of the cloud does not change without its history.             *)
LEMMA CloudQuiet ==
    ASSUME HistoryTypeOK, HistoryStep, TypeOK, TypeOK', UNCHANGED <<remote, remoteRv>>
    PROVE  UNCHANGED <<remoteRv, history>>
BY DEF HistoryTypeOK, HistoryStep

(* Spending another disturbance than "user" leaves the users' count alone. *)
LEMMA TouchesQuiet ==
    ASSUME left \in [Disturbances -> Nat],
           left' = left \/ (\E d \in Disturbances \ {"user", "all"} : Spend(d))
    PROVE  Touches' = Touches
BY DEF Touches, Spend, Disturbances

(* A step that changes neither the cloud nor the edge is a stutter.        *)
LEMMA Stutters ==
    ASSUME UNCHANGED <<remoteRv, history, local>>, Touches' = Touches
    PROVE  UNCHANGED Abstract!vars
BY DEF Abstract!vars, Touches

(* Users of the cloud publish and retract.                                 *)
LEMMA CloudStep ==
    ASSUME TypeOK, HistoryTypeOK, HistoryStep, RemoteOrdered, NEW n \in Names,
           \/ \E env \in EnvLabels, d \in Data : RemotePut(n, env, d)
           \/ RemoteDelete(n)
    PROVE  Abstract!Next
<1>1. /\ remote \in [Names -> RemoteObject \cup {None}] /\ remoteRv \in [Names -> Nat]
  BY DEF TypeOK
<1>2. ASSUME NEW new, new # remote[n], remote' = [remote EXCEPT ![n] = new]
      PROVE  history' = [history EXCEPT ![n] = Append(@, new)]
  <2>1. \A m \in Names : remote'[m] = IF m = n THEN new ELSE remote[m]
    BY <1>1, <1>2
  <2>2. \A m \in Names : history'[m] = IF m = n THEN Append(history[n], new) ELSE history[m]
    BY <1>2, <2>1 DEF HistoryStep
  <2> QED BY <2>2 DEF HistoryStep, HistoryTypeOK
<1>3. UNCHANGED <<local, left>>
  BY DEF RemotePut, RemoteDelete, localVars
<1>4. ASSUME NEW env \in EnvLabels, NEW d \in Data, RemotePut(n, env, d)
      PROVE  Abstract!Publish(n, env, d)
  <2> DEFINE new == [env |-> env, data |-> d, rv |-> remoteRv[n] + 1]
  <2>1. /\ new \in RemoteObject /\ new # None /\ new.rv = remoteRv[n] + 1
        /\ remoteRv[n] # remoteRv[n] + 1
    BY <1>1, NoneAssumption DEF RemoteObject, Versions
  <2>2. /\ remote' = [remote EXCEPT ![n] = new]
        /\ remoteRv' = [remoteRv EXCEPT ![n] = @ + 1]
    BY <1>4, <2>1 DEF RemotePut, StoreRemote
  <2>3. new # remote[n]
    BY <2>1 DEF RemoteOrdered
  <2>4. history' = [history EXCEPT ![n] = Append(@, new)]
    BY <1>2, <2>2, <2>3
  <2>5. remoteRv'[n] = remoteRv[n] + 1
    BY <1>1, <2>2
  <2> QED BY <1>3, <2>2, <2>4, <2>5 DEF Abstract!Publish
<1>5. ASSUME RemoteDelete(n)
      PROVE  Abstract!Retract(n)
  <2>1. /\ remote[n] # None /\ remote' = [remote EXCEPT ![n] = None] /\ remoteRv' = remoteRv
    BY <1>5 DEF RemoteDelete, StoreRemote
  <2>2. history' = [history EXCEPT ![n] = Append(@, None)]
    BY <1>2, <2>1
  <2> QED BY <1>3, <2>1, <2>2 DEF Abstract!Retract
<1> QED BY <1>4, <1>5 DEF Abstract!Next

(* The copies are as the objects are.                                      *)
LEMMA CopyOf ==
    ASSUME NEW obj \in LocalObject \cup {None}
    PROVE  /\ Copy(obj) = None <=> obj = None
           /\ obj # None => /\ Copy(obj).managed = obj.managed /\ Copy(obj).data = obj.data
                            /\ Copy(obj).from = obj.lastRemote
<1>1. obj # None => Copy(obj) \in Copies
  BY DEF Copy, Copies, LocalObject
<1> QED BY <1>1, CopiesAssumption DEF Copy

(* Users of the edge cluster only touch.                                   *)
LEMMA TouchStep ==
    ASSUME TypeOK, TypeOK', HistoryTypeOK, HistoryStep, NEW n \in Names, LocalUser(n)
    PROVE  Abstract!Next
<1> DEFINE new == [m \in Names |-> Copy(local'[m])][n]
<1>1. UNCHANGED <<remoteRv, history>>
  BY CloudQuiet DEF LocalUser, remoteVars
<1>2. LocalTypes /\ Touched(n)
  BY TypeOKParts, UserTouches
<1>3. Touches' = Touches + 1
  <2>1. left["user"] \in Nat /\ Budget["user"] \in Nat /\ left'["user"] = left["user"] - 1
    BY ConstantsAssumption DEF TypeOK, LocalUser, Spend, Disturbances
  <2> QED BY <2>1 DEF Touches
<1>4. [m \in Names |-> Copy(local'[m])] = [[m \in Names |-> Copy(local[m])] EXCEPT ![n] = new]
  BY <1>2 DEF Touched
<1>5. /\ new = None => Copy(local[n]) # None
      /\ new # None /\ Copy(local[n]) = None => ~new.managed /\ new.from = None
      /\ new # None /\ Copy(local[n]) # None
            => /\ new.managed => Copy(local[n]).managed
               /\ new.from \in {Copy(local[n]).from, None}
  <2>1. /\ Copy(local'[n]) = None <=> local'[n] = None
        /\ local'[n] # None => /\ Copy(local'[n]).managed = local'[n].managed
                               /\ Copy(local'[n]).from = local'[n].lastRemote
        /\ Copy(local[n]) = None <=> local[n] = None
        /\ local[n] # None => /\ Copy(local[n]).managed = local[n].managed
                              /\ Copy(local[n]).from = local[n].lastRemote
    BY CopyOf DEF TypeOK
  <2> QED BY <1>2, <2>1 DEF Touched
<1>6. Abstract!Touch(n, new)
  BY <1>1, <1>3, <1>4, <1>5 DEF Abstract!Touch, Touches
<1> QED BY <1>6 DEF Abstract!Next

(* A write of the controller propagates a published version or withdraws a *)
(* copy.                                                                   *)
LEMMA MirrorStep ==
    ASSUME HInv, HInv', HistoryStep, LocalStep, NEW w \in {pending, inflight},
           w # None, Accepted(w), Apply(w), UNCHANGED <<remote, remoteRv>>, Touches' = Touches
    PROVE  Abstract!Next
<1> DEFINE n == w.name
           copy == [m \in Names |-> Copy(local[m])]
           copyNext == [m \in Names |-> Copy(local'[m])]
<1>1. /\ OInv /\ TypeOK /\ TypeOK' /\ LocalTypes /\ ControllerTypes /\ UpdateVersions
      /\ HistoryTypeOK /\ WritesGenuine
  BY TypeOKParts DEF HInv, OInv, VInv, TInv, ManagedVersions
<1>2. w \in Writes /\ n \in Names /\ Genuine(w)
  BY <1>1 DEF ControllerTypes, WritesGenuine, Writes
<1>3. UNCHANGED <<remoteRv, history>>
  BY <1>1, CloudQuiet
<1>4. \A m \in Names \ {n} : local'[m] = local[m]
  BY <1>1, <1>2, AppliedCopy
<1>5. CASE w.op = "delete"
  <2>1. local'[n] = None
    BY <1>1, <1>2, <1>5, AppliedCopy
  <2>2. copyNext = [copy EXCEPT ![n] = None]
    BY <1>4, <2>1 DEF Copy
  <2>3. Abstract!Withdraw(n)
    BY <1>2, <1>3, <2>2 DEF Genuine, Abstract!Withdraw, Touches
  <2> QED BY <1>2, <2>3 DEF Abstract!Next
<1>6. CASE w.op # "delete"
  <2>1. /\ local'[n] # None /\ local'[n].managed = w.obj.managed
        /\ local'[n].data = w.obj.data /\ local'[n].lastRemote = w.obj.lastRemote
    BY <1>1, <1>2, <1>6, AppliedCopy
  <2>2. w.obj.managed = TRUE
    BY <1>2, <1>6 DEF Genuine, Puts, Writes, LocalObject
  <2>3. PICK i \in DOMAIN history[n] : /\ history[n][i] # None
                                       /\ history[n][i].data = w.obj.data
                                       /\ history[n][i].rv = w.obj.lastRemote
    BY <1>2, <1>6 DEF Genuine, Puts
  <2>4. copyNext = [copy EXCEPT ![n] = [managed |-> TRUE, data |-> history[n][i].data,
                                        from |-> history[n][i].rv]]
    <3>1. Copy(local'[n]) = [managed |-> TRUE, data |-> history[n][i].data,
                             from |-> history[n][i].rv]
      BY <2>1, <2>2, <2>3 DEF Copy
    <3> QED BY <1>4, <3>1
  <2>5. \/ local[n] = None
        \/ /\ local[n].managed
           /\ local[n].lastRemote = None \/ local[n].lastRemote <= history[n][i].rv
    <3> SUFFICES ASSUME local[n] # None
                 PROVE  /\ local[n].managed
                        /\ local[n].lastRemote # None
                              => local[n].lastRemote <= history[n][i].rv
      OBVIOUS
    <3>1. w.op = "update" /\ Seen(n, w.obj.rv)
      BY <1>1, <1>2, <1>6 DEF Accepted, Writes, Ops, UpdateVersions
    <3>2. local[n].managed
      BY <1>2, <3>1 DEF Accepted, Seen, Versions, EmptyRv
    <3>3. ASSUME local[n].lastRemote # None
          PROVE  local[n].lastRemote <= history[n][i].rv
      <4>1. history[n][i].rv = local'[n].lastRemote /\ history[n][i].rv # None
        <5>1. history[n] \in Seq(RemoteObject \cup {None})
          BY <1>1, <1>2 DEF HistoryTypeOK
        <5>2. history[n][i] \in RemoteObject
          BY <2>3, <5>1
        <5> QED BY <2>1, <2>3, <5>2, NoneAssumption DEF RemoteObject, Versions
      <4>2. local'[n].lastRemote >= local[n].lastRemote
        BY <1>1, <1>2, <2>1, <3>3, <4>1, StepForward
      <4>3. local[n].lastRemote \in Nat /\ local'[n].lastRemote \in Nat
        BY <1>1, <1>2, <2>1, <3>3, <4>1 DEF TypeOK, LocalObject, Versions
      <4> QED BY <4>1, <4>2, <4>3
    <3> QED BY <3>2, <3>3
  <2>6. \/ copy[n] = None
        \/ /\ copy[n].managed
           /\ copy[n].from = None \/ copy[n].from <= history[n][i].rv
    <3>1. /\ Copy(local[n]) = None <=> local[n] = None
          /\ local[n] # None => /\ Copy(local[n]).managed = local[n].managed
                                /\ Copy(local[n]).from = local[n].lastRemote
      BY <1>1, <1>2, CopyOf DEF LocalTypes
    <3> QED BY <1>2, <2>5, <3>1
  <2>7. Abstract!Propagate(n, i)
    BY <1>3, <2>3, <2>4, <2>6 DEF Abstract!Propagate, Touches
  <2> QED BY <1>2, <2>7 DEF Abstract!Next
<1> QED BY <1>5, <1>6

(* Watches, reads, decisions, refusals, timers and restarts change nothing *)
(* of the cloud or of the edge.                                            *)
LEMMA InnerStep ==
    ASSUME TypeOK, TypeOK', HistoryTypeOK, HistoryStep,
           \/ UNCHANGED vars
           \/ \E n \in Names : \/ DeliverRemote(n) \/ DeliverLocal(n)
                               \/ RelistRemote(n) \/ RelistLocal(n) \/ Resync(n)
                               \/ Begin(n) \/ TimerFires(n)
           \/ ReadLocal \/ WriteRefused
           \/ (WriteFails \/ LateWrite) /\ UNCHANGED localVars
           \/ \E newEnvs \in EnvChoices : Restart(newEnvs)
    PROVE  UNCHANGED Abstract!vars
<1>1. UNCHANGED <<remote, remoteRv, local>>
  BY DEF vars, remoteVars, localVars, DeliverRemote, DeliverLocal, RelistRemote, RelistLocal,
         Resync, Begin, TimerFires, ReadLocal, WriteRefused, WriteFails, LateWrite, Restart
<1>2. left' = left \/ (\E d \in {"fault", "restart", "relist", "resync"} : Spend(d))
  BY DEF vars, DeliverRemote, DeliverLocal, RelistRemote, RelistLocal, Resync, Begin,
         TimerFires, ReadLocal, WriteRefused, WriteFails, LateWrite, Restart
<1>3. Touches' = Touches
  BY <1>2, TouchesQuiet DEF TypeOK, Disturbances
<1> QED BY <1>1, <1>3, CloudQuiet, Stutters

(* Every step is a step of OneWayMirror or a stutter.                      *)
LEMMA RefinedStep ==
    ASSUME HInv, HInv', [HistoryNext]_historyVars
    PROVE  [Abstract!Next]_(Abstract!vars)
<1>1. /\ OInv /\ TypeOK /\ TypeOK' /\ HistoryTypeOK /\ RemoteOrdered
  BY DEF HInv, OInv, VInv, TInv
<1>2. HistoryStep /\ [Next]_vars /\ LocalStep
  BY <1>1, HistorySteps, LocalSteps
<1>3. ASSUME NEW n \in Names,
             \/ \E env \in EnvLabels, d \in Data : RemotePut(n, env, d)
             \/ RemoteDelete(n)
      PROVE  Abstract!Next
  BY <1>1, <1>2, <1>3, CloudStep
<1>4. ASSUME NEW n \in Names, LocalUser(n)
      PROVE  Abstract!Next
  BY <1>1, <1>2, <1>4, TouchStep
<1>5. ASSUME WriteAccepted \/ WriteFails, Accepted(pending), Apply(pending)
      PROVE  Abstract!Next
  <2>1. pending # None /\ UNCHANGED <<remote, remoteRv>>
    BY <1>5 DEF WriteAccepted, WriteFails, remoteVars
  <2>2. Touches' = Touches
    <3>1. left' = left \/ Spend("fault")
      BY <1>5 DEF WriteAccepted, WriteFails
    <3> QED BY <1>1, <3>1, TouchesQuiet DEF TypeOK, Disturbances
  <2> QED BY <1>2, <1>5, <2>1, <2>2, MirrorStep
<1>6. ASSUME LateWrite, Accepted(inflight), Apply(inflight)
      PROVE  Abstract!Next
  <2>1. inflight # None /\ UNCHANGED <<remote, remoteRv>> /\ left' = left
    BY <1>6 DEF LateWrite, remoteVars
  <2>2. Touches' = Touches
    BY <2>1 DEF Touches
  <2> QED BY <1>2, <1>6, <2>1, <2>2, MirrorStep
<1>7. CASE WriteAccepted
  BY <1>5, <1>7 DEF WriteAccepted
<1>8. CASE WriteFails
  <2>1. (Accepted(pending) /\ Apply(pending)) \/ UNCHANGED localVars
    BY <1>8 DEF WriteFails
  <2> QED BY <1>1, <1>2, <1>5, <1>8, <2>1, InnerStep
<1>9. CASE LateWrite
  <2>1. (Accepted(inflight) /\ Apply(inflight)) \/ UNCHANGED localVars
    BY <1>9 DEF LateWrite
  <2> QED BY <1>1, <1>2, <1>6, <1>9, <2>1, InnerStep
<1>10. CASE \/ UNCHANGED vars
            \/ \E n \in Names : \/ DeliverRemote(n) \/ DeliverLocal(n)
                                \/ RelistRemote(n) \/ RelistLocal(n) \/ Resync(n)
                                \/ Begin(n) \/ TimerFires(n)
            \/ ReadLocal \/ WriteRefused
            \/ \E newEnvs \in EnvChoices : Restart(newEnvs)
  BY <1>1, <1>2, <1>10, InnerStep
<1> QED BY <1>2, <1>3, <1>4, <1>7, <1>8, <1>9, <1>10 DEF Next

(* Caches that lag, stale reads, lost answers, retries, restarts with      *)
(* other environments and writes that land after a crash: all that         *)
(* reconcileRequest and the watches do to the edge is OneWayMirror's       *)
(* Propagate and Withdraw, over whatever the users of both clusters do.    *)
THEOREM ImplementsOneWayMirror == HistorySpec => MirrorsOneWay
<1>1. HistoryInit => Abstract!Init
  <2> SUFFICES ASSUME HistoryInit PROVE Abstract!Init
    OBVIOUS
  <2>1. Budget["user"] - left["user"] = 0
    <3>1. Budget["user"] \in Nat /\ left = Budget
      BY ConstantsAssumption DEF HistoryInit, Init, Disturbances
    <3> QED BY <3>1
  <2>2. [n \in Names |-> Copy(local[n])] = [n \in Names |-> None]
    BY DEF HistoryInit, Init, Copy
  <2> QED BY <2>1, <2>2 DEF HistoryInit, Init, Abstract!Init
<1>2. HInv /\ HInv' /\ [HistoryNext]_historyVars => [Abstract!Next]_(Abstract!vars)
  BY RefinedStep
<1> QED BY <1>1, <1>2, HInvAlways, PTL DEF HistorySpec, MirrorsOneWay, Abstract!Spec
==============================================================================
