------------------------- MODULE MirrorWakeupProofs -------------------------
(***************************************************************************)
(* No wakeup is lost: the inductive invariant behind SettledInSync, and    *)
(* its proof.  The event filter (NotChangedOnUpdate) takes a change of a   *)
(* copy for the mirror's own when last-generation names the version before *)
(* it.  This is safe if every change of the edge's users is seen by itself *)
(* and leaves the annotations in place; section 7 of the README has what   *)
(* happens otherwise.                                                      *)
(***************************************************************************)
EXTENDS MirrorProofs

Filterable == "local" \notin RelistSides /\ "replace" \notin UserOps

(* What the local cache will go through: first what it holds, then the     *)
(* events; Quiet when no change from state i on will enqueue a request.    *)
Link(cache, events, i) == IF i = 0 THEN cache ELSE events[i]

Quiet(cache, events, i) ==
    \A j \in DOMAIN events :
        j > i => ~LocalEventPasses(Link(cache, events, j - 1), Link(cache, events, j))

Have(n) == ManagedScoped(local[n])

(* What the controller may have of the cloud's object n.                   *)
Known(n, x) ==
    /\ x # None
    /\ \/ x = remote[n] \/ x = remoteCache[n]
       \/ \E i \in DOMAIN remoteEvents[n] : x = remoteEvents[n][i]
       \/ current = n /\ x = remoteRead

(* A version names one state of the object.                                *)
Agreed ==
    \A n \in Names, x, y \in RemoteObject :
        Known(n, x) /\ Known(n, y) /\ x.rv = y.rv => x = y

(* A copy has the data of the version it names.                            *)
Faithful(n, obj) ==
    \A x \in RemoteObject : Known(n, x) /\ x.rv = obj.lastRemote => x.data = obj.data

(* The remote watch leads to what the cloud publishes for the environments.*)
Watched ==
    \A n \in Names :
        /\ Link(remoteCache[n], remoteEvents[n], Len(remoteEvents[n])) = EnvScoped(remote[n], envs)
        /\ \A i \in 0..Len(remoteEvents[n]) :
              Link(remoteCache[n], remoteEvents[n], i) # None
                 => Link(remoteCache[n], remoteEvents[n], i).env \in envs

(* last-generation names an older version than the object's own, and a     *)
(* managed object names the version of the cloud's object it copies.       *)
Stamped(obj) ==
    obj # None => /\ obj.lastGen # None => obj.lastGen < obj.rv
                  /\ obj.managed => obj.lastRemote # None

(* A write is a managed copy, with the version it replaces written down.   *)
Prepared(w) ==
    Puts(w) => /\ w.obj.managed
               /\ w.obj.lastGen = w.obj.rv
               /\ w.op = "create" => w.obj.rv = EmptyRv
               /\ Faithful(w.name, w.obj)

Marked == /\ \A n \in Names : Stamped(local[n])
          /\ Prepared(pending) /\ Prepared(inflight)

(* A local cache that holds c, with events s to come, leads to what there  *)
(* is; and if nothing after state i enqueues a request then only updates   *)
(* of the mirror come after it, which take the copy forward; own says      *)
(* whether the present copy is faithful.                                   *)
Leads(c, s, have, own) ==
    /\ Link(c, s, Len(s)) = have
    /\ \A i \in 0..Len(s) :
          /\ Link(c, s, i) # None => Link(c, s, i).managed /\ Link(c, s, i).lastRemote # None
          /\ Quiet(c, s, i) =>
                /\ Link(c, s, i) = None <=> have = None
                /\ have # None => Link(c, s, i).lastRemote <= have.lastRemote
                /\ have # None /\ i # Len(s) => own

Continued ==
    \A n \in Names : Leads(localCache[n], localEvents[n], Have(n), Faithful(n, Have(n)))

(* What the worker read, and decided on, is what the cache has, or its     *)
(* name has been queued again.                                             *)
Reflects(w, rem) ==
    IF w.op = "delete" THEN rem = None
    ELSE rem # None /\ rem.rv = w.obj.lastRemote /\ rem.data = w.obj.data

Reading ==
    current # None /\ current \notin queue =>
        IF pending = None THEN remoteRead = remoteCache[current]
        ELSE Reflects(pending, remoteCache[current])

(* A name is attended to: its request is queued, delayed or under way, or  *)
(* an event will enqueue it, or the copy is what the cache shows.          *)
Shows(rem, have) ==
    IF rem = None THEN have = None
    ELSE have # None /\ have.data = rem.data /\ have.lastRemote = rem.rv

Attended ==
    \A n \in Names :
        \/ n \in queue \cup delayed \/ current = n
        \/ Quiet(localCache[n], localEvents[n], 0) => Shows(remoteCache[n], Have(n))

WInv == OInv /\ Watched /\ Agreed /\ Marked /\ Continued /\ Reading /\ Attended

------------------------------------------------------------------------------
(* Sequences of states.                                                    *)

(* A state is appended.                                                    *)
LEMMA Extended ==
    ASSUME NEW T, NEW c \in T, NEW s \in Seq(T), NEW x \in T
    PROVE  LET t == Append(s, x) IN
           /\ Len(s) \in Nat /\ Len(t) = Len(s) + 1
           /\ Link(c, t, Len(t)) = x
           /\ \A i \in 0..Len(t) : i \in 0..Len(s) \/ i = Len(t)
           /\ \A i \in 0..Len(s) :
                 /\ i # Len(t)
                 /\ Link(c, t, i) = Link(c, s, i)
                 /\ Quiet(c, t, i) => /\ Quiet(c, s, i)
                                      /\ ~LocalEventPasses(Link(c, s, Len(s)), x)
                 /\ Quiet(c, s, i) /\ ~LocalEventPasses(Link(c, s, Len(s)), x)
                       => Quiet(c, t, i)
<1> DEFINE t == Append(s, x)
<1>1. /\ Len(s) \in Nat /\ DOMAIN s = 1..Len(s)
      /\ Len(t) = Len(s) + 1 /\ DOMAIN t = 1..(Len(s) + 1)
      /\ \A j \in DOMAIN s : t[j] = s[j]
      /\ t[Len(s) + 1] = x
  OBVIOUS
<1> HIDE DEF t
<1>2. \A i \in 0..Len(s) : Link(c, t, i) = Link(c, s, i)
  BY <1>1 DEF Link
<1>3. Link(c, t, Len(s) + 1) = x /\ (Len(s) + 1) - 1 = Len(s) /\ Len(s) \in 0..Len(s)
  BY <1>1 DEF Link
<1>4. \A j \in DOMAIN t : j \in DOMAIN s \/ j = Len(s) + 1
  BY <1>1
<1>5. \A j \in DOMAIN s : j \in DOMAIN t /\ j - 1 \in 0..Len(s) /\ j \in 0..Len(s)
  BY <1>1
<1>6. ASSUME NEW i \in 0..Len(s), Quiet(c, t, i)
      PROVE  Quiet(c, s, i) /\ ~LocalEventPasses(Link(c, s, Len(s)), x)
  <2>1. Len(s) + 1 \in DOMAIN t /\ Len(s) + 1 > i
    BY <1>1
  <2>2. ~LocalEventPasses(Link(c, s, Len(s)), x)
    BY <1>2, <1>3, <1>6, <2>1 DEF Quiet
  <2> QED BY <1>2, <1>5, <1>6, <2>2 DEF Quiet
<1>7. ASSUME NEW i \in 0..Len(s), Quiet(c, s, i), ~LocalEventPasses(Link(c, s, Len(s)), x)
      PROVE  Quiet(c, t, i)
  BY <1>2, <1>3, <1>4, <1>5, <1>7 DEF Quiet
<1>8. \A i \in 0..Len(t) : i \in 0..Len(s) \/ i = Len(t)
  BY <1>1
<1>9. \A i \in 0..Len(s) : i # Len(t)
  BY <1>1
<1> QED BY <1>1, <1>2, <1>3, <1>6, <1>7, <1>8, <1>9 DEF t

(* The oldest event has come to be the cached state.                       *)
LEMMA Shifted ==
    ASSUME NEW T, NEW c \in T, NEW s \in Seq(T), s # <<>>
    PROVE  LET d == Head(s)
               t == Tail(s) IN
           /\ Len(s) \in Nat /\ Len(t) \in Nat /\ Len(s) = Len(t) + 1 /\ d = s[1] /\ d \in T
           /\ \A i \in 0..Len(t) :
                 /\ i + 1 \in 0..Len(s)
                 /\ Link(d, t, i) = Link(c, s, i + 1)
                 /\ Quiet(d, t, i) => Quiet(c, s, i + 1)
           /\ Quiet(d, t, 0) /\ ~LocalEventPasses(c, d) => Quiet(c, s, 0)
<1> DEFINE d == Head(s)
           t == Tail(s)
<1>1. /\ Len(s) \in Nat /\ DOMAIN s = 1..Len(s) /\ Len(s) >= 1
      /\ Len(t) = Len(s) - 1 /\ DOMAIN t = 1..(Len(s) - 1)
      /\ \A j \in DOMAIN t : t[j] = s[j + 1]
      /\ d = s[1] /\ d \in T
  OBVIOUS
<1> HIDE DEF d, t
<1>2. \A i \in 0..Len(t) : i + 1 \in 0..Len(s) /\ Link(d, t, i) = Link(c, s, i + 1)
  BY <1>1 DEF Link
<1>3. ASSUME NEW i \in 0..Len(t), Quiet(d, t, i)
      PROVE  Quiet(c, s, i + 1)
  <2>1. ASSUME NEW j \in DOMAIN s, j > i + 1
        PROVE  ~LocalEventPasses(Link(c, s, j - 1), Link(c, s, j))
    <3>1. /\ j - 1 \in DOMAIN t /\ j - 1 > i /\ (j - 1) - 1 \in 0..Len(t)
          /\ j - 1 \in 0..Len(t) /\ ((j - 1) - 1) + 1 = j - 1 /\ (j - 1) + 1 = j
      BY <1>1, <2>1
    <3>2. ~LocalEventPasses(Link(d, t, (j - 1) - 1), Link(d, t, j - 1))
      BY <1>3, <3>1 DEF Quiet
    <3>3. Link(d, t, (j - 1) - 1) = Link(c, s, j - 1) /\ Link(d, t, j - 1) = Link(c, s, j)
      BY <1>2, <3>1
    <3> QED BY <3>2, <3>3
  <2> QED BY <2>1 DEF Quiet
<1>4. ASSUME Quiet(d, t, 0), ~LocalEventPasses(c, d)
      PROVE  Quiet(c, s, 0)
  <2>1. 0 \in 0..Len(t) /\ 0 + 1 = 1 /\ 1 - 1 = 0
    BY <1>1
  <2>2. Quiet(c, s, 1)
    BY <1>3, <1>4, <2>1
  <2>3. Link(c, s, 0) = c /\ Link(c, s, 1) = d
    BY <1>1 DEF Link
  <2>4. \A j \in DOMAIN s : j > 1 \/ j = 1
    BY <1>1
  <2> QED BY <1>4, <2>1, <2>2, <2>3, <2>4 DEF Quiet
<1>5. Len(t) \in Nat /\ Len(s) = Len(t) + 1
  BY <1>1
<1> QED BY <1>1, <1>2, <1>3, <1>4, <1>5 DEF d, t

------------------------------------------------------------------------------
(* The remote side.                                                        *)

(* What is known of n after a step: what was, or the version just stored.  *)
KnownNext(n, x) ==
    /\ x # None
    /\ \/ x = remote'[n] \/ x = remoteCache'[n]
       \/ \E i \in DOMAIN remoteEvents'[n] : x = remoteEvents'[n][i]
       \/ current' = n /\ x = remoteRead'

KnownFrom(n) ==
    \A x : KnownNext(n, x) =>
        Known(n, x) \/ (x = remote'[n] /\ x.rv = remoteRv[n] + 1)

WatchedNext(n) ==
    /\ Link(remoteCache'[n], remoteEvents'[n], Len(remoteEvents'[n]))
          = EnvScoped(remote'[n], envs')
    /\ \A i \in 0..Len(remoteEvents'[n]) :
          Link(remoteCache'[n], remoteEvents'[n], i) # None
             => Link(remoteCache'[n], remoteEvents'[n], i).env \in envs'

(* The worker reads what the cache has.                                    *)
ReadFrom ==
    \/ UNCHANGED <<current, remoteRead>>
    \/ remoteRead' = None
    \/ current' \in Names /\ remoteRead' = remoteCache[current']

(* No step of the worker reads anything else.                              *)
LEMMA ReadsFrom == TaskStep => ReadFrom
<1>1. ASSUME NEW n \in Names, Begin(n) PROVE ReadFrom
  BY <1>1 DEF Begin, ReadFrom
<1>2. ReadLocal /\ pending' # None => ReadFrom
  BY DEF ReadLocal, Finish, ReadFrom
<1>3. LateWrite => ReadFrom
  BY DEF LateWrite, taskVars, ReadFrom
<1> QED BY <1>1, <1>2, <1>3 DEF TaskStep, ReadFrom

(* A name whose remote side is left alone.                                 *)
LEMMA WatchQuiet ==
    ASSUME Watched, ReadFrom, NEW n \in Names, envs' = envs,
           remote'[n] = remote[n], remoteCache'[n] = remoteCache[n],
           remoteEvents'[n] = remoteEvents[n]
    PROVE  WatchedNext(n) /\ KnownFrom(n)
<1>1. KnownFrom(n)
  BY DEF ReadFrom, KnownFrom, KnownNext, Known
<1>2. WatchedNext(n)
  BY DEF Watched, WatchedNext
<1> QED BY <1>1, <1>2

(* The cloud stores an object, or removes it.                              *)
LEMMA WatchStored ==
    ASSUME RemoteTypes, Watched, ReadFrom, envs' = envs,
           NEW n \in Names, NEW new \in RemoteObject \cup {None},
           new # None => new.rv = remoteRv[n] + 1, StoreRemote(n, new),
           NEW m \in Names
    PROVE  WatchedNext(m) /\ KnownFrom(m) /\ remoteCache'[m] = remoteCache[m]
<1> DEFINE was == EnvScoped(remote[n], envs)
           is  == EnvScoped(new, envs)
           c   == remoteCache[n]
           s   == remoteEvents[n]
           T   == RemoteObject \cup {None}
<1>1. /\ remote' = [remote EXCEPT ![n] = new]
      /\ remoteEvents' = IF was = None /\ is = None THEN remoteEvents
                         ELSE [remoteEvents EXCEPT ![n] = Append(@, is)]
      /\ remoteCache' = remoteCache
  BY DEF StoreRemote
<1>2. is = None \/ (is = new /\ is.env \in envs)
  BY DEF EnvScoped, HasEdgeSyncLabel
<1>3. is \in T /\ c \in T /\ s \in Seq(T)
  BY <1>2 DEF RemoteTypes
<1>4. was = Link(c, s, Len(s)) /\ \A i \in 0..Len(s) : Link(c, s, i) # None
                                       => Link(c, s, i).env \in envs
  BY DEF Watched
<1> HIDE DEF was
<1>5. CASE m # n
  <2>1. remote'[m] = remote[m] /\ remoteCache'[m] = remoteCache[m]
        /\ remoteEvents'[m] = remoteEvents[m]
    BY <1>1, <1>5 DEF RemoteTypes
  <2> QED BY <2>1, WatchQuiet
<1>6. CASE m = n
  <2>1. /\ remote'[n] = new /\ remoteCache'[n] = c
        /\ remoteEvents'[n] = IF was = None /\ is = None THEN s ELSE Append(s, is)
    BY <1>1 DEF RemoteTypes
  <2> DEFINE t == Append(s, is)
  <2>2. EnvScoped(remote'[n], envs') = is
    BY <2>1
  <2> HIDE DEF is, c, s, T
  <2>3. CASE was = None /\ is = None
    <3>1. WatchedNext(n)
      BY <1>4, <2>1, <2>2, <2>3 DEF WatchedNext
    <3>2. KnownFrom(n)
      <4>1. ASSUME NEW x, KnownNext(n, x)
            PROVE  Known(n, x) \/ (x = remote'[n] /\ x.rv = remoteRv[n] + 1)
        <5>1. CASE x = remote'[n]
          BY <2>1, <4>1, <5>1 DEF KnownNext
        <5>2. CASE x = remoteCache'[n]
          BY <2>1, <4>1, <5>2 DEF KnownNext, Known, c
        <5>3. CASE \E i \in DOMAIN remoteEvents'[n] : x = remoteEvents'[n][i]
          BY <2>1, <2>3, <4>1, <5>3 DEF KnownNext, Known, s
        <5>4. CASE current' = n /\ x = remoteRead'
          BY <4>1, <5>4 DEF KnownNext, Known, ReadFrom
        <5> QED BY <4>1, <5>1, <5>2, <5>3, <5>4 DEF KnownNext
      <4> QED BY <4>1 DEF KnownFrom
    <3> QED BY <1>6, <2>1, <3>1, <3>2 DEF c
  <2>4. CASE ~(was = None /\ is = None)
    <3>1. remoteEvents'[n] = t
      BY <2>1, <2>4
    <3>2. /\ Link(c, t, Len(t)) = is
          /\ \A i \in 0..Len(t) : i \in 0..Len(s) \/ i = Len(t)
          /\ \A i \in 0..Len(s) : Link(c, t, i) = Link(c, s, i)
      BY <1>3, Extended
    <3>3. \A j \in DOMAIN t : t[j] = is \/ (j \in DOMAIN s /\ t[j] = s[j])
      BY <1>3
    <3> HIDE DEF t
    <3>4. \A i \in 0..Len(t) : Link(c, t, i) # None => Link(c, t, i).env \in envs
      BY <1>2, <1>4, <3>2
    <3>5. WatchedNext(n)
      BY <2>1, <2>2, <3>1, <3>2, <3>4 DEF WatchedNext
    <3>6. KnownFrom(n)
      <4>1. ASSUME NEW x, KnownNext(n, x)
            PROVE  Known(n, x) \/ (x = remote'[n] /\ x.rv = remoteRv[n] + 1)
        <5>1. CASE x = remote'[n] \/ x = is
          BY <1>2, <2>1, <4>1, <5>1 DEF KnownNext
        <5>2. CASE x = remoteCache'[n]
          BY <2>1, <4>1, <5>2 DEF KnownNext, Known, c
        <5>3. CASE \E i \in DOMAIN t : x = t[i]
          BY <3>3, <4>1, <5>1, <5>3 DEF KnownNext, Known, s
        <5>4. CASE current' = n /\ x = remoteRead'
          BY <4>1, <5>4 DEF KnownNext, Known, ReadFrom
        <5> QED BY <3>1, <4>1, <5>1, <5>2, <5>3, <5>4 DEF KnownNext
      <4> QED BY <4>1 DEF KnownFrom
    <3> QED BY <1>6, <2>1, <3>5, <3>6 DEF c
  <2> QED BY <2>3, <2>4
<1> QED BY <1>5, <1>6

(* The filter of the remote watch drops no change.                         *)
LEMMA RemotePasses ==
    ASSUME NEW old, NEW new, NEW envSet,
           old # None => old.env \in envSet, new # None => new.env \in envSet,
           old # None /\ new # None /\ old.rv = new.rv => old = new,
           ~RemoteEventPasses(old, new, envSet)
    PROVE  new = old
BY DEF RemoteEventPasses, HasEdgeSyncLabel

CacheMoves(n) == remoteCache'[n] = remoteCache[n] \/ n \in queue'

(* Enqueueing one name when its cached object changes.                     *)
LEMMA MovesQueued ==
    ASSUME RemoteTypes, Agreed, Watched, NEW n \in Names, NEW new \in RemoteObject \cup {None},
           new # None => new.env \in envs /\ Known(n, new),
           remoteCache' = [remoteCache EXCEPT ![n] = new],
           Enqueue(n, RemoteEventPasses(remoteCache[n], new, envs)),
           NEW m \in Names
    PROVE  CacheMoves(m)
<1> DEFINE old == remoteCache[n]
<1>1. remoteCache'[n] = new /\ (m # n => remoteCache'[m] = remoteCache[m])
  BY DEF RemoteTypes
<1>2. old \in RemoteObject \cup {None}
  BY DEF RemoteTypes
<1>3. old # None => Known(n, old)
  BY DEF Known
<1>4. old # None => old.env \in envs
  <2>1. Len(remoteEvents[n]) \in Nat
    BY DEF RemoteTypes
  <2>2. 0 \in 0..Len(remoteEvents[n]) /\ Link(remoteCache[n], remoteEvents[n], 0) = old
    BY <2>1 DEF Link
  <2> QED BY <2>2 DEF Watched
<1>5. old # None /\ new # None /\ old.rv = new.rv => old = new
  BY <1>2, <1>3 DEF Agreed
<1>6. RemoteEventPasses(old, new, envs) => n \in queue'
  BY DEF Enqueue
<1> HIDE DEF old
<1>7. ~RemoteEventPasses(old, new, envs) => new = old
  BY <1>4, <1>5, RemotePasses
<1> QED BY <1>1, <1>6, <1>7 DEF CacheMoves, old

(* An event reaches the cache.                                             *)
LEMMA WatchDelivered ==
    ASSUME RemoteTypes, Watched, Agreed, ReadFrom, NEW n \in Names, DeliverRemote(n),
           NEW m \in Names
    PROVE  WatchedNext(m) /\ KnownFrom(m) /\ CacheMoves(m)
<1> DEFINE c == remoteCache[n]
           s == remoteEvents[n]
           d == Head(s)
           t == Tail(s)
           T == RemoteObject \cup {None}
<1>1. /\ remote' = remote /\ envs' = envs
      /\ remoteCache' = [remoteCache EXCEPT ![n] = d]
      /\ remoteEvents' = [remoteEvents EXCEPT ![n] = Tail(@)]
      /\ Enqueue(n, RemoteEventPasses(remoteCache[n], d, envs))
      /\ s \in Seq(T) /\ s # <<>> /\ c \in T
  BY DEF DeliverRemote, RemoteTypes
<1>2. /\ Link(c, s, Len(s)) = EnvScoped(remote[n], envs)
      /\ \A i \in 0..Len(s) : Link(c, s, i) # None => Link(c, s, i).env \in envs
  BY DEF Watched
<1>3. /\ remoteCache'[n] = d /\ remoteEvents'[n] = t
      /\ m # n => remoteCache'[m] = remoteCache[m] /\ remoteEvents'[m] = remoteEvents[m]
  BY <1>1 DEF RemoteTypes
<1>4. /\ 1 \in DOMAIN s /\ d = s[1] /\ d \in T
      /\ \A j \in DOMAIN t : j + 1 \in DOMAIN s /\ t[j] = s[j + 1]
  BY <1>1
<1>5. /\ Len(s) \in Nat /\ Len(t) \in Nat /\ Len(s) = Len(t) + 1
      /\ \A i \in 0..Len(t) : i + 1 \in 0..Len(s) /\ Link(d, t, i) = Link(c, s, i + 1)
  BY <1>1, Shifted
<1> HIDE DEF c, s, d, t, T
<1>6. Len(t) \in 0..Len(t)
  BY <1>5
<1>7. WatchedNext(n)
  <2>1. Link(d, t, Len(t)) = EnvScoped(remote'[n], envs')
    BY <1>1, <1>2, <1>5, <1>6
  <2>2. \A i \in 0..Len(t) : Link(d, t, i) # None => Link(d, t, i).env \in envs'
    BY <1>1, <1>2, <1>5
  <2> QED BY <1>3, <2>1, <2>2 DEF WatchedNext
<1>8. KnownFrom(n)
  <2>1. ASSUME NEW x, KnownNext(n, x)
        PROVE  Known(n, x)
    <3>1. CASE x = remote'[n]
      BY <1>1, <2>1, <3>1 DEF KnownNext, Known
    <3>2. CASE x = remoteCache'[n]
      BY <1>3, <1>4, <2>1, <3>2 DEF KnownNext, Known, s
    <3>3. CASE \E i \in DOMAIN remoteEvents'[n] : x = remoteEvents'[n][i]
      BY <1>3, <1>4, <2>1, <3>3 DEF KnownNext, Known, s
    <3>4. CASE current' = n /\ x = remoteRead'
      <4>1. UNCHANGED <<current, remoteRead>>
        BY DEF DeliverRemote, taskVars
      <4> QED BY <2>1, <3>4, <4>1 DEF KnownNext, Known
    <3> QED BY <2>1, <3>1, <3>2, <3>3, <3>4 DEF KnownNext
  <2> QED BY <2>1 DEF KnownFrom
<1>9. d # None => d.env \in envs /\ Known(n, d)
  <2>1. Link(c, s, 1) = d /\ 1 \in 0..Len(s)
    BY <1>4, <1>5 DEF Link
  <2>2. d # None => d.env \in envs
    BY <1>2, <2>1
  <2>3. d # None => Known(n, d)
    BY <1>4 DEF Known, s
  <2> QED BY <2>2, <2>3
<1>10. CacheMoves(m)
  BY <1>1, <1>4, <1>9, MovesQueued DEF T
<1>11. m # n => WatchedNext(m) /\ KnownFrom(m)
  BY <1>1, <1>3, WatchQuiet
<1> QED BY <1>7, <1>8, <1>10, <1>11

(* A list leaves no event.                                                 *)
LEMMA WatchListed ==
    ASSUME NEW n \in Names, remote' = remote,
           remoteCache'[n] = EnvScoped(remote[n], envs'), remoteEvents'[n] = <<>>,
           UNCHANGED <<current, remoteRead>> \/ remoteRead' = None
    PROVE  WatchedNext(n) /\ KnownFrom(n)
<1>1. Len(remoteEvents'[n]) = 0 /\ DOMAIN remoteEvents'[n] = {} /\ 0..0 = {0}
  OBVIOUS
<1>2. WatchedNext(n)
  <2>1. Link(remoteCache'[n], remoteEvents'[n], 0) = EnvScoped(remote[n], envs')
    BY DEF Link
  <2>2. EnvScoped(remote[n], envs') # None => EnvScoped(remote[n], envs').env \in envs'
    BY DEF EnvScoped, HasEdgeSyncLabel
  <2>3. \A i \in 0..Len(remoteEvents'[n]) : i = 0
    BY <1>1
  <2> QED BY <1>1, <2>1, <2>2, <2>3 DEF WatchedNext
<1>3. remoteCache'[n] \in {None, remote[n]}
  BY DEF EnvScoped
<1>4. KnownFrom(n)
  BY <1>1, <1>3 DEF KnownFrom, KnownNext, Known
<1> QED BY <1>2, <1>4

(* Every step: the remote watch goes on leading to what is published, a    *)
(* change of the cache is enqueued, versions go on naming one state.       *)
LEMMA WatchNext ==
    ASSUME OInv, Watched, Agreed, [Next]_vars
    PROVE  /\ Watched' /\ Agreed'
           /\ \A n \in Names : KnownFrom(n)
           /\ (\A n \in Names : CacheMoves(n)) \/ \E newEnvs \in EnvChoices : Restart(newEnvs)
<1>1. RemoteTypes /\ TypeOK /\ RemoteOrdered /\ HeldBehind
  BY TypeOKParts DEF OInv, VInv, TInv
<1>2. ReadFrom /\ TypeOK'
  BY TaskSteps, ReadsFrom, VInvNext DEF OInv, VInv, TInv
<1>3. ASSUME \A n \in Names : WatchedNext(n) /\ KnownFrom(n)
      PROVE  Watched' /\ Agreed'
  <2>1. Watched'
    BY <1>3 DEF Watched, WatchedNext
  <2>2. ASSUME NEW n \in Names, NEW x \in RemoteObject, Known(n, x)
        PROVE  x.rv \in Nat /\ x.rv <= remoteRv[n] /\ remoteRv[n] \in Nat
    <3>1. x.rv \in Nat /\ remoteRv[n] \in Nat
      BY <1>1 DEF RemoteObject, Versions, RemoteTypes
    <3>2. x.rv <= remoteRv[n]
      BY <1>1, <2>2, <3>1 DEF Known, RemoteOrdered, HeldBehind, Behind
    <3> QED BY <3>1, <3>2
  <2>3. ASSUME NEW n \in Names, NEW x \in RemoteObject, NEW y \in RemoteObject,
               KnownNext(n, x), KnownNext(n, y), x.rv = y.rv
        PROVE  x = y
    <3>1. \/ Known(n, x) \/ (x = remote'[n] /\ x.rv = remoteRv[n] + 1)
      BY <1>3, <2>3 DEF KnownFrom
    <3>2. \/ Known(n, y) \/ (y = remote'[n] /\ y.rv = remoteRv[n] + 1)
      BY <1>3, <2>3 DEF KnownFrom
    <3>3. CASE Known(n, x) /\ Known(n, y)
      BY <2>3, <3>3 DEF Agreed
    <3>4. Known(n, x) => x.rv # remoteRv[n] + 1
      BY <2>2
    <3>5. Known(n, y) => y.rv # remoteRv[n] + 1
      BY <2>2
    <3> QED BY <2>3, <3>1, <3>2, <3>3, <3>4, <3>5
  <2>4. Agreed'
    BY <2>3 DEF Agreed, Known, KnownNext
  <2> QED BY <2>1, <2>4
<1>4. ASSUME UNCHANGED <<remoteVars, envs>>
      PROVE  \A n \in Names : WatchedNext(n) /\ KnownFrom(n) /\ CacheMoves(n)
  BY <1>2, <1>4, WatchQuiet DEF remoteVars, CacheMoves
<1>5. ASSUME NEW n \in Names, NEW env \in EnvLabels, NEW d \in Data, RemotePut(n, env, d)
      PROVE  \A m \in Names : WatchedNext(m) /\ KnownFrom(m) /\ CacheMoves(m)
  <2> DEFINE new == [env |-> env, data |-> d, rv |-> remoteRv[n] + 1]
  <2>1. new \in RemoteObject /\ new.rv = remoteRv[n] + 1
    BY <1>1 DEF RemoteTypes, RemoteObject, Versions
  <2>2. StoreRemote(n, new) /\ envs' = envs
    BY <1>5 DEF RemotePut
  <2> HIDE DEF new
  <2> QED BY <1>1, <1>2, <2>1, <2>2, WatchStored DEF CacheMoves
<1>6. ASSUME NEW n \in Names, RemoteDelete(n)
      PROVE  \A m \in Names : WatchedNext(m) /\ KnownFrom(m) /\ CacheMoves(m)
  BY <1>1, <1>2, <1>6, WatchStored DEF RemoteDelete, CacheMoves
<1>7. ASSUME NEW n \in Names, DeliverRemote(n)
      PROVE  \A m \in Names : WatchedNext(m) /\ KnownFrom(m) /\ CacheMoves(m)
  BY <1>1, <1>2, <1>7, WatchDelivered
<1>8. ASSUME NEW n \in Names, RelistRemote(n)
      PROVE  \A m \in Names : WatchedNext(m) /\ KnownFrom(m) /\ CacheMoves(m)
  <2> DEFINE new == EnvScoped(remote[n], envs)
  <2>1. /\ remote' = remote /\ envs' = envs /\ UNCHANGED <<current, remoteRead>>
        /\ remoteCache' = [remoteCache EXCEPT ![n] = new]
        /\ remoteEvents' = [remoteEvents EXCEPT ![n] = <<>>]
        /\ Enqueue(n, RemoteEventPasses(remoteCache[n], new, envs))
    BY <1>8 DEF RelistRemote, taskVars
  <2>2. new \in RemoteObject \cup {None} /\ new \in {None, remote[n]}
    BY <1>1 DEF EnvScoped, RemoteTypes
  <2>3. new # None => new.env \in envs /\ Known(n, new)
    BY <2>2 DEF EnvScoped, HasEdgeSyncLabel, Known
  <2>4. /\ remoteCache'[n] = new /\ remoteEvents'[n] = <<>>
        /\ \A m \in Names \ {n} : remoteCache'[m] = remoteCache[m]
                                  /\ remoteEvents'[m] = remoteEvents[m]
    BY <1>1, <2>1 DEF RemoteTypes
  <2>5. WatchedNext(n) /\ KnownFrom(n)
    BY <2>1, <2>4, WatchListed
  <2> HIDE DEF new
  <2>6. \A m \in Names : CacheMoves(m)
    BY <1>1, <2>1, <2>2, <2>3, MovesQueued
  <2>7. \A m \in Names \ {n} : WatchedNext(m) /\ KnownFrom(m)
    BY <1>2, <2>1, <2>4, WatchQuiet
  <2> QED BY <2>5, <2>6, <2>7
<1>9. ASSUME NEW newEnvs \in EnvChoices, Restart(newEnvs)
      PROVE  \A n \in Names : WatchedNext(n) /\ KnownFrom(n)
  BY <1>9, WatchListed DEF Restart, RemoteList
<1>10. UNCHANGED <<remoteVars, envs>> \/ (\E n \in Names :
           \/ \E env \in EnvLabels, d \in Data : RemotePut(n, env, d)
           \/ RemoteDelete(n) \/ DeliverRemote(n) \/ RelistRemote(n))
       \/ \E newEnvs \in EnvChoices : Restart(newEnvs)
  BY DEF Next, vars, LocalUser, DeliverLocal, RelistLocal, Resync, Begin, TimerFires,
         ReadLocal, WriteAccepted, WriteRefused, WriteFails, LateWrite
<1> QED BY <1>3, <1>4, <1>5, <1>6, <1>7, <1>8, <1>9, <1>10

------------------------------------------------------------------------------
(* The local objects and their annotations.                                *)

HaveNext(n) == ManagedScoped(local'[n])

SameLocal(n) ==
    /\ local'[n] = local[n] /\ localCache'[n] = localCache[n]
    /\ localEvents'[n] = localEvents[n]

(* The object is stored and the watch told if it has to be.                *)
StoredLocal(n) ==
    /\ localCache'[n] = localCache[n]
    /\ localEvents'[n] = IF Have(n) = None /\ HaveNext(n) = None THEN localEvents[n]
                         ELSE Append(localEvents[n], HaveNext(n))

(* The change will be noticed, or is none for the watch.                   *)
Noticed(n) ==
    \/ Have(n) = None /\ HaveNext(n) = None
    \/ LocalEventPasses(Have(n), HaveNext(n))

(* The change is the mirror's update of a copy.                            *)
Updated(n, w) ==
    /\ Puts(w) /\ w.name = n /\ w.op = "update"
    /\ Have(n) # None /\ HaveNext(n) # None
    /\ HaveNext(n).lastRemote = w.obj.lastRemote /\ HaveNext(n).data = w.obj.data

(* What storing does to the watch, and to the annotations.                 *)
LEMMA StoredView ==
    ASSUME LocalTypes, NEW n \in Names, NEW new \in LocalObject \cup {None},
           StoreLocal(n, new)
    PROVE  /\ StoredLocal(n)
           /\ \A m \in Names \ {n} : SameLocal(m)
           /\ new # None => local'[n].lastGen = new.lastGen
<1> DEFINE stored == IF new = None THEN None ELSE [new EXCEPT !.rv = localRv[n] + 1]
<1>1. /\ local' = [local EXCEPT ![n] = stored]
      /\ localEvents' = IF ManagedScoped(local[n]) = None /\ ManagedScoped(stored) = None
                        THEN localEvents
                        ELSE [localEvents EXCEPT ![n] = Append(@, ManagedScoped(stored))]
      /\ localCache' = localCache
  BY DEF StoreLocal
<1>2. new # None => stored.lastGen = new.lastGen
  BY DEF LocalObject
<1> HIDE DEF stored
<1>3. local'[n] = stored /\ HaveNext(n) = ManagedScoped(stored)
  BY <1>1 DEF LocalTypes, HaveNext
<1>4. StoredLocal(n)
  BY <1>1, <1>3 DEF LocalTypes, StoredLocal, Have
<1>5. \A m \in Names \ {n} : SameLocal(m)
  BY <1>1 DEF LocalTypes, SameLocal
<1> QED BY <1>2, <1>3, <1>4, <1>5

(* A change of a copy whose annotations stay, or one that ends or begins   *)
(* the mirror's interest in the object, passes the filter.                 *)
LEMMA EditPasses ==
    ASSUME NEW old \in LocalObject, NEW new \in LocalObject, old.rv \in Versions,
           old.managed, new.managed, Stamped(old), new.lastGen = old.lastGen,
           new.lastRemote = old.lastRemote
    PROVE  LocalEventPasses(old, new)
<1>1. old # None /\ new # None
  BY NoneAssumption
<1>2. new.lastRemote # None
  BY <1>1 DEF Stamped
<1>3. old.rv # new.lastGen
  <2>1. old.rv \in Nat /\ old.rv # None
    BY NoneAssumption DEF Versions
  <2> QED BY <1>1, <2>1 DEF Stamped
<1> QED BY <1>1, <1>2, <1>3 DEF LocalEventPasses, NotChangedOnUpdate, NilAnnotations

(* Whatever the users of the edge do is noticed.                           *)
LEMMA UserNoticed ==
    ASSUME LocalTypes, StoredVersions, "replace" \notin UserOps,
           NEW n \in Names, Stamped(local[n]), LocalUser(n)
    PROVE  /\ StoredLocal(n) /\ Noticed(n) /\ Stamped(local'[n])
           /\ \A m \in Names \ {n} : SameLocal(m)
<1>1. localRv[n] \in Nat /\ local[n] \in LocalObject \cup {None}
  BY DEF LocalTypes
<1>2. local[n] # None => local[n].rv \in Versions /\ local[n].rv <= localRv[n]
  BY DEF StoredVersions
<1>3. local[n] # None /\ local[n].lastGen # None => local[n].lastGen < localRv[n] + 1
  <2>1. local[n] # None /\ local[n].lastGen # None => local[n].lastGen \in Int
    BY <1>1 DEF LocalObject, Versions, EmptyRv
  <2> QED BY <1>1, <1>2, <2>1 DEF Stamped, Versions
<1>4. ASSUME NEW d \in Data, UserCreates(n, d)
      PROVE  StoredLocal(n) /\ Noticed(n) /\ Stamped(local'[n])
             /\ \A m \in Names \ {n} : SameLocal(m)
  <2> DEFINE new == [managed |-> FALSE, data |-> d, rv |-> EmptyRv, lastGen |-> None,
                     lastRemote |-> None]
  <2>1. new \in LocalObject /\ ~new.managed /\ new.lastGen = None
    BY DEF LocalObject, EmptyRv
  <2>2. StoreLocal(n, new) /\ local[n] = None
    BY <1>4 DEF UserCreates
  <2> HIDE DEF new
  <2>3. new # None
    BY <2>1, NoneAssumption
  <2>4. local'[n].managed = new.managed /\ local'[n].lastGen = None
    BY <2>1, <2>2, <2>3, StoredCopy, StoredView
  <2>5. HaveNext(n) = None /\ Have(n) = None
    BY <2>1, <2>2, <2>4 DEF HaveNext, Have, ManagedScoped
  <2> QED BY <2>1, <2>2, <2>4, <2>5, StoredView DEF Noticed, Stamped
<1>5. ASSUME NEW d \in Data, UserEdits(n, d)
      PROVE  StoredLocal(n) /\ Noticed(n) /\ Stamped(local'[n])
             /\ \A m \in Names \ {n} : SameLocal(m)
  <2> DEFINE new == [local[n] EXCEPT !.data = d]
  <2>1. /\ local[n] \in LocalObject /\ local[n] # None /\ local[n].managed
        /\ StoreLocal(n, new)
    BY <1>1, <1>5 DEF UserEdits
  <2>2. /\ new \in LocalObject /\ new # None /\ new.lastGen = local[n].lastGen
        /\ new.managed = local[n].managed /\ new.lastRemote = local[n].lastRemote
    BY <2>1, NoneAssumption DEF LocalObject
  <2> HIDE DEF new
  <2>3. /\ local'[n] # None /\ local'[n].rv = localRv[n] + 1
        /\ local'[n].managed = local[n].managed
        /\ local'[n].lastRemote = local[n].lastRemote
        /\ local'[n].lastGen = local[n].lastGen
    BY <2>1, <2>2, StoredCopy, StoredView
  <2>4. local'[n] \in LocalObject
    BY <2>1, <2>2, <2>3, StoreLocalType DEF LocalTypes
  <2>5. Have(n) = local[n] /\ HaveNext(n) = local'[n]
    BY <2>1, <2>3 DEF Have, HaveNext, ManagedScoped
  <2>6. LocalEventPasses(local[n], local'[n])
    BY <1>2, <2>1, <2>3, <2>4, EditPasses
  <2>7. Stamped(local'[n])
    BY <1>3, <2>1, <2>3 DEF Stamped
  <2> QED BY <2>1, <2>2, <2>5, <2>6, <2>7, StoredView DEF Noticed
<1>6. ASSUME UserUnmanages(n)
      PROVE  StoredLocal(n) /\ Noticed(n) /\ Stamped(local'[n])
             /\ \A m \in Names \ {n} : SameLocal(m)
  <2> DEFINE new == [local[n] EXCEPT !.managed = FALSE]
  <2>1. /\ local[n] \in LocalObject /\ local[n] # None /\ local[n].managed
        /\ StoreLocal(n, new)
    BY <1>1, <1>6 DEF UserUnmanages
  <2>2. new \in LocalObject /\ new # None /\ new.lastGen = local[n].lastGen /\ ~new.managed
    BY <2>1, NoneAssumption DEF LocalObject
  <2> HIDE DEF new
  <2>3. /\ local'[n].rv = localRv[n] + 1 /\ local'[n].managed = new.managed
        /\ local'[n].lastGen = local[n].lastGen
    BY <2>1, <2>2, StoredCopy, StoredView
  <2>4. Have(n) = local[n] /\ HaveNext(n) = None
    BY <2>1, <2>2, <2>3 DEF Have, HaveNext, ManagedScoped
  <2>5. LocalEventPasses(Have(n), HaveNext(n))
    BY <2>1, <2>4 DEF LocalEventPasses
  <2>6. Stamped(local'[n])
    BY <1>3, <2>1, <2>2, <2>3 DEF Stamped
  <2> QED BY <2>1, <2>2, <2>5, <2>6, StoredView DEF Noticed
<1>7. ASSUME UserDeletes(n)
      PROVE  StoredLocal(n) /\ Noticed(n) /\ Stamped(local'[n])
             /\ \A m \in Names \ {n} : SameLocal(m)
  <2>1. StoreLocal(n, None)
    BY <1>7 DEF UserDeletes
  <2>2. local'[n] = None
    BY <2>1, StoredCopy
  <2>3. HaveNext(n) = None /\ (Have(n) # None => Have(n).managed)
    BY <2>2 DEF HaveNext, Have, ManagedScoped
  <2>4. Noticed(n)
    BY <2>3 DEF Noticed, LocalEventPasses
  <2> QED BY <2>1, <2>2, <2>4, StoredView DEF Stamped
<1> QED BY <1>4, <1>5, <1>6, <1>7 DEF LocalUser, UserReplaces

(* A write of the mirror is noticed unless it updates a copy.              *)
LEMMA WriteNoticed ==
    ASSUME LocalTypes, StoredVersions, NEW w \in Writes, Prepared(w),
           Puts(w) => w.obj.lastRemote # None,
           w.op = "update" => Seen(w.name, w.obj.rv),
           Accepted(w), Apply(w)
    PROVE  /\ w.name \in Names
           /\ StoredLocal(w.name) /\ Stamped(local'[w.name])
           /\ w.op # "update" => Noticed(w.name)
           /\ w.op = "update" => Updated(w.name, w)
           /\ \A m \in Names \ {w.name} : SameLocal(m)
<1> DEFINE n == w.name
<1>1. /\ n \in Names /\ w.obj \in LocalObject /\ w.obj # None /\ w # None
      /\ w.op \in {"create", "update", "delete"}
  BY NoneAssumption DEF Writes, Ops
<1>2. localRv[n] \in Nat /\ local[n] \in LocalObject \cup {None}
  BY <1>1 DEF LocalTypes
<1>3. CASE w.op = "delete"
  <2>1. StoreLocal(n, None)
    BY <1>3 DEF Apply
  <2>2. local'[n] = None
    BY <1>1, <2>1, StoredCopy
  <2>3. HaveNext(n) = None /\ (Have(n) # None => Have(n).managed)
    BY <2>2 DEF HaveNext, Have, ManagedScoped
  <2>4. Noticed(n)
    BY <2>3 DEF Noticed, LocalEventPasses
  <2> QED BY <1>1, <1>3, <2>1, <2>2, <2>4, StoredView DEF Stamped
<1>4. CASE w.op # "delete"
  <2>1. StoreLocal(n, w.obj) /\ Puts(w)
    BY <1>1, <1>4 DEF Apply, Puts
  <2>2. /\ local'[n] # None /\ local'[n].rv = localRv[n] + 1
        /\ local'[n].managed = w.obj.managed /\ local'[n].data = w.obj.data
        /\ local'[n].lastRemote = w.obj.lastRemote /\ local'[n].lastGen = w.obj.lastGen
    BY <1>1, <2>1, StoredCopy, StoredView
  <2>3. w.obj.managed /\ w.obj.lastGen = w.obj.rv /\ w.obj.lastRemote # None
    BY <2>1 DEF Prepared
  <2>4. HaveNext(n) = local'[n]
    BY <2>2, <2>3 DEF HaveNext, ManagedScoped
  <2>5. CASE w.op = "create"
    <3>1. local[n] = None /\ w.obj.rv = EmptyRv
      BY <2>1, <2>5 DEF Accepted, Prepared
    <3>2. Have(n) = None
      BY <3>1 DEF Have, ManagedScoped
    <3>3. EmptyRv # ZeroString /\ EmptyRv < localRv[n] + 1
      BY <1>2 DEF EmptyRv, ZeroString
    <3>4. LocalEventPasses(None, HaveNext(n))
      BY <2>2, <2>3, <2>4, <3>1, <3>3
         DEF LocalEventPasses, NotChangedOnCreate, NilAnnotations
    <3>5. Stamped(local'[n])
      BY <2>2, <2>3, <3>1, <3>3 DEF Stamped
    <3> QED BY <1>1, <2>1, <2>5, <3>2, <3>4, <3>5, StoredView DEF Noticed
  <2>6. CASE w.op = "update"
    <3>1. /\ w.obj.rv \in Versions /\ w.obj.rv <= localRv[n]
          /\ local[n] # None /\ w.obj.rv \in {EmptyRv, local[n].rv}
          /\ local[n].rv = w.obj.rv => local[n].managed
      BY <2>6 DEF Seen, Accepted
    <3>2. local[n].managed
      BY <3>1 DEF Versions, EmptyRv
    <3>3. Have(n) = local[n]
      BY <3>1, <3>2 DEF Have, ManagedScoped
    <3>4. Updated(n, w)
      BY <2>1, <2>2, <2>4, <2>6, <3>1, <3>3 DEF Updated
    <3>5. Stamped(local'[n])
      <4>1. w.obj.rv < localRv[n] + 1
        BY <1>2, <3>1 DEF Versions
      <4> QED BY <2>2, <2>3, <4>1 DEF Stamped
    <3> QED BY <1>1, <2>1, <2>6, <3>4, <3>5, StoredView
  <2> QED BY <1>1, <1>4, <2>5, <2>6
<1> QED BY <1>3, <1>4

(* What a decision writes down.                                            *)
LEMMA DecideMarks ==
    ASSUME NEW n \in Names, NEW rem \in RemoteObject \cup {None},
           NEW loc \in LocalObject \cup {None}, NEW envSet,
           NEW d, d = Decide(n, rem, loc, envSet), Puts(d)
    PROVE  d.obj.lastGen = d.obj.rv /\ (d.op = "create" => d.obj.rv = EmptyRv)
<1>1. \/ /\ rem # None /\ loc = None
         /\ d = Request(n, "create", UpdateLastGeneration(Merged(rem, NewObject(rem))))
      \/ /\ rem # None /\ loc # None
         /\ d = Request(n, "update", UpdateLastGeneration(Merged(rem, loc)))
      \/ d = Request(n, "delete", loc)
      \/ d = None
  BY DEF Decide
<1>2. d # None /\ d.op # "delete"
  BY DEF Puts
<1>3. ASSUME NEW base
      PROVE  LET obj == UpdateLastGeneration(Merged(rem, base))
             IN  obj.lastGen = obj.rv /\ obj.rv = base.rv
  BY DEF UpdateLastGeneration, Merged
<1>4. NewObject(rem).rv = EmptyRv
  BY DEF NewObject
<1>5. CASE d = Request(n, "create", UpdateLastGeneration(Merged(rem, NewObject(rem))))
  <2>1. d.obj = UpdateLastGeneration(Merged(rem, NewObject(rem)))
    BY <1>5 DEF Request
  <2> QED BY <1>3, <1>4, <2>1
<1>6. CASE d = Request(n, "update", UpdateLastGeneration(Merged(rem, loc)))
  <2>1. d.op = "update" /\ d.obj = UpdateLastGeneration(Merged(rem, loc))
    BY <1>6 DEF Request
  <2> QED BY <1>3, <2>1
<1> QED BY <1>1, <1>2, <1>5, <1>6 DEF Request

(* A copy stays faithful: what the cloud stores next has a new version.    *)
FaithfulNext(n, obj) ==
    \A x \in RemoteObject : KnownNext(n, x) /\ x.rv = obj.lastRemote => x.data = obj.data

(* What is known of a version that was behind was known before.            *)
LEMMA FaithfulKept ==
    ASSUME RemoteTypes, NEW n \in Names, KnownFrom(n),
           NEW obj \in LocalObject, obj.lastRemote # None, Behind(n, obj.lastRemote),
           Faithful(n, obj)
    PROVE  FaithfulNext(n, obj)
<1>1. obj.lastRemote \in Nat /\ obj.lastRemote <= remoteRv[n] /\ remoteRv[n] \in Nat
  BY DEF LocalObject, Versions, Behind, RemoteTypes
<1>2. obj.lastRemote # remoteRv[n] + 1
  BY <1>1
<1> QED BY <1>2 DEF FaithfulNext, Faithful, KnownFrom

PreparedNext(w) ==
    Puts(w) => /\ w.obj.managed
               /\ w.obj.lastGen = w.obj.rv
               /\ w.op = "create" => w.obj.rv = EmptyRv
               /\ FaithfulNext(w.name, w.obj)

(* A write stays a faithful copy.                                          *)
LEMMA PreparedKept ==
    ASSUME RemoteTypes, \A n \in Names : KnownFrom(n),
           NEW w \in Writes \cup {None}, Prepared(w),
           Puts(w) => w.obj.lastRemote # None /\ Behind(w.name, w.obj.lastRemote)
    PROVE  PreparedNext(w)
<1> SUFFICES ASSUME Puts(w) PROVE FaithfulNext(w.name, w.obj)
  BY DEF PreparedNext, Prepared
<1>1. w.name \in Names /\ w.obj \in LocalObject
  BY DEF Puts, Writes
<1> QED BY <1>1, FaithfulKept DEF Prepared

(* The writes that are decided on or on their way.                         *)
LEMMA PreparedSteps ==
    ASSUME OInv, Agreed, Marked, \A n \in Names : KnownFrom(n), TaskStep
    PROVE  PreparedNext(pending') /\ PreparedNext(inflight')
<1>1. /\ RemoteTypes /\ ControllerTypes /\ TypeOK /\ HeldBehind /\ PendingIsCurrent
      /\ pending \in Writes \cup {None} /\ inflight \in Writes \cup {None}
  BY TypeOKParts DEF OInv, VInv, TInv, ControllerTypes
<1>2. PreparedNext(pending) /\ PreparedNext(inflight) /\ PreparedNext(None)
  <2>1. PreparedNext(None)
    BY DEF PreparedNext, Puts
  <2> QED BY <1>1, <2>1, PreparedKept DEF Marked, HeldBehind
<1>3. CASE pending' \in {pending, None} /\ inflight' \in {None, pending, inflight}
  BY <1>2, <1>3
<1>4. ASSUME NEW n \in Names, Begin(n)
      PROVE  pending' \in {pending, None} /\ inflight' \in {None, pending, inflight}
  BY <1>4 DEF Begin
<1>5. CASE ReadLocal /\ pending' # None
  <2>1. current \in Names /\ remoteRead \in RemoteObject \cup {None}
        /\ localCache[current] \in LocalObject \cup {None}
    BY <1>1, <1>5 DEF ReadLocal, TypeOK
  <2>2. /\ pending' = Decide(current, remoteRead, localCache[current], envs)
        /\ inflight' = inflight /\ UNCHANGED remoteVars /\ current' = current
        /\ remoteRead' = None
    BY <1>5 DEF ReadLocal, Finish
  <2>3. ASSUME Puts(pending')
        PROVE  /\ remoteRead # None /\ pending'.name = current
               /\ pending'.obj.lastRemote = remoteRead.rv /\ pending'.obj.data = remoteRead.data
               /\ pending'.obj.managed /\ pending'.obj.lastGen = pending'.obj.rv
               /\ pending'.op = "create" => pending'.obj.rv = EmptyRv
    BY SMTT(30), <2>1, <2>2, <2>3, DecidePuts, DecideMarks
  <2>4. ASSUME Puts(pending'), NEW x \in RemoteObject, KnownNext(current, x),
               x.rv = remoteRead.rv
        PROVE  x.data = remoteRead.data
    <3>1. Known(current, x)
      BY <2>2, <2>4 DEF KnownNext, Known, remoteVars
    <3>2. Known(current, remoteRead) /\ remoteRead \in RemoteObject
      BY <2>1, <2>3, <2>4 DEF Known
    <3> QED BY <2>1, <2>4, <3>1, <3>2 DEF Agreed
  <2>5. PreparedNext(pending')
    BY <2>3, <2>4 DEF PreparedNext, FaithfulNext
  <2> QED BY <1>2, <2>2, <2>5
<1>6. LateWrite => pending' \in {pending, None} /\ inflight' \in {None, pending, inflight}
  BY DEF LateWrite, taskVars
<1> QED BY <1>3, <1>4, <1>5, <1>6 DEF TaskStep

------------------------------------------------------------------------------
(* The local cache and its events.                                         *)

Copied == LocalObject \cup {None}

IsCopy(obj) == obj # None => obj.managed /\ obj.lastRemote # None

(* A listed state.                                                         *)
LEMMA LeadsListed ==
    ASSUME NEW have \in Copied, IsCopy(have), NEW own
    PROVE  Leads(have, <<>>, have, own)
<1>1. Len(<<>>) = 0 /\ \A i \in 0..Len(<<>>) : i = 0
  OBVIOUS
<1>2. Link(have, <<>>, 0) = have
  BY DEF Link
<1>3. have # None => have.lastRemote \in Nat
  BY DEF Copied, LocalObject, Versions, IsCopy
<1>4. have # None => have.lastRemote <= have.lastRemote
  BY <1>3
<1> QED BY <1>1, <1>2, <1>4 DEF Leads, IsCopy

(* Nothing but the knowledge of the cloud changed.                         *)
LEMMA LeadsKept ==
    ASSUME NEW c, NEW s, NEW have, NEW own, NEW owned, Leads(c, s, have, own),
           have # None /\ own => owned
    PROVE  Leads(c, s, have, owned)
BY DEF Leads

(* The oldest event has reached the cache.                                 *)
LEMMA LeadsShifted ==
    ASSUME NEW c \in Copied, NEW s \in Seq(Copied), s # <<>>, NEW have, NEW own,
           Leads(c, s, have, own)
    PROVE  Leads(Head(s), Tail(s), have, own)
<1> DEFINE d == Head(s)
           t == Tail(s)
<1>1. /\ Len(s) \in Nat /\ Len(t) \in Nat /\ Len(s) = Len(t) + 1
      /\ \A i \in 0..Len(t) : /\ i + 1 \in 0..Len(s)
                              /\ Link(d, t, i) = Link(c, s, i + 1)
                              /\ Quiet(d, t, i) => Quiet(c, s, i + 1)
  BY Shifted
<1> HIDE DEF d, t
<1>2. /\ Len(t) \in 0..Len(t)
      /\ \A i \in 0..Len(t) : i # Len(t) => i + 1 # Len(s)
  BY <1>1
<1>3. Link(d, t, Len(t)) = have
  BY <1>1, <1>2 DEF Leads
<1>4. ASSUME NEW i \in 0..Len(t)
      PROVE  /\ Link(d, t, i) # None => Link(d, t, i).managed /\ Link(d, t, i).lastRemote # None
             /\ Quiet(d, t, i) =>
                   /\ Link(d, t, i) = None <=> have = None
                   /\ have # None => Link(d, t, i).lastRemote <= have.lastRemote
                   /\ have # None /\ i # Len(t) => own
  BY <1>1, <1>2, <1>4 DEF Leads
<1> QED BY <1>3, <1>4 DEF Leads, d, t

(* The object changed, noticed by the filter or by an update of the mirror.*)
LEMMA LeadsStored ==
    ASSUME NEW c \in Copied, NEW s \in Seq(Copied), NEW have \in Copied, NEW own, NEW owned,
           Leads(c, s, have, own), NEW x \in Copied, IsCopy(x),
           \/ LocalEventPasses(have, x)
           \/ have # None /\ x # None /\ have.lastRemote <= x.lastRemote /\ owned
    PROVE  Leads(c, Append(s, x), x, owned)
<1> DEFINE t == Append(s, x)
<1>1. /\ Len(s) \in Nat /\ Len(t) = Len(s) + 1 /\ Link(c, t, Len(t)) = x
      /\ \A i \in 0..Len(t) : i \in 0..Len(s) \/ i = Len(t)
      /\ \A i \in 0..Len(s) : /\ i # Len(t)
                              /\ Link(c, t, i) = Link(c, s, i)
                              /\ Quiet(c, t, i) => /\ Quiet(c, s, i)
                                                   /\ ~LocalEventPasses(Link(c, s, Len(s)), x)
  BY Extended
<1> HIDE DEF t
<1>2. Link(c, s, Len(s)) = have
  BY DEF Leads
<1>3. x # None => x.lastRemote \in Nat /\ x.lastRemote <= x.lastRemote
  BY DEF Copied, LocalObject, Versions, IsCopy
<1>4. ASSUME NEW i \in 0..Len(s)
      PROVE  Link(c, s, i) \in Copied
  <2>1. i = 0 \/ i \in DOMAIN s
    BY <1>1
  <2>2. i \in DOMAIN s => s[i] \in Copied
    OBVIOUS
  <2> QED BY <2>1, <2>2 DEF Link
<1>5. ASSUME NEW i \in 0..Len(s)
      PROVE  /\ Link(c, t, i) # None => Link(c, t, i).managed /\ Link(c, t, i).lastRemote # None
             /\ Quiet(c, t, i) =>
                   /\ Link(c, t, i) = None <=> x = None
                   /\ x # None => Link(c, t, i).lastRemote <= x.lastRemote
                   /\ x # None => owned
  <2>1. Link(c, t, i) # None => Link(c, t, i).managed /\ Link(c, t, i).lastRemote # None
    BY <1>1 DEF Leads
  <2>2. ASSUME Quiet(c, t, i)
        PROVE  /\ Link(c, t, i) = None <=> x = None
               /\ x # None => Link(c, t, i).lastRemote <= x.lastRemote
               /\ x # None => owned
    <3>1. Quiet(c, s, i) /\ ~LocalEventPasses(have, x)
      BY <1>1, <1>2, <2>2
    <3>2. have # None /\ x # None /\ have.lastRemote <= x.lastRemote /\ owned
      BY <3>1
    <3>3. Link(c, s, i) # None /\ Link(c, s, i).lastRemote <= have.lastRemote
      BY <3>1, <3>2 DEF Leads
    <3>4. Link(c, s, i).lastRemote # None /\ have.lastRemote # None
      <4>1. Len(s) \in 0..Len(s)
        BY <1>1
      <4> QED BY <1>2, <3>2, <3>3, <4>1 DEF Leads
    <3>5. Link(c, s, i).lastRemote \in Nat /\ have.lastRemote \in Nat
      BY <1>4, <3>2, <3>3, <3>4 DEF Copied, LocalObject, Versions
    <3>6. Link(c, s, i).lastRemote <= x.lastRemote
      BY <1>3, <3>2, <3>3, <3>5
    <3> QED BY <1>1, <3>2, <3>3, <3>6
  <2> QED BY <2>1, <2>2
<1>6. \A i \in 0..Len(t) :
          /\ Link(c, t, i) # None => Link(c, t, i).managed /\ Link(c, t, i).lastRemote # None
          /\ Quiet(c, t, i) =>
                /\ Link(c, t, i) = None <=> x = None
                /\ x # None => Link(c, t, i).lastRemote <= x.lastRemote
                /\ x # None /\ i # Len(t) => owned
  <2>1. ASSUME NEW i \in 0..Len(t), i = Len(t)
        PROVE  Link(c, t, i) = x
    BY <1>1, <2>1
  <2> QED BY <1>1, <1>3, <1>5, <2>1 DEF IsCopy
<1> QED BY <1>1, <1>6 DEF Leads, t

(* What a step may do to the local side of a name.                         *)
LocalMoves(n) ==
    \/ SameLocal(n)
    \/ StoredLocal(n) /\ Noticed(n)
    \/ StoredLocal(n) /\ (WriteAccepted \/ WriteFails) /\ Updated(n, pending)
    \/ StoredLocal(n) /\ LateWrite /\ Updated(n, inflight)
    \/ DeliverLocal(n)
    \/ \E newEnvs \in EnvChoices : Restart(newEnvs)

(* It does nothing else, and last-generation names an older version.       *)
LEMMA LocalMoved ==
    ASSUME OInv, Marked, Filterable, [Next]_vars, NEW n \in Names
    PROVE  LocalMoves(n) /\ Stamped(local'[n])
<1>1. /\ LocalTypes /\ ControllerTypes /\ StoredVersions /\ UpdateVersions /\ HeldBehind
      /\ \A m \in Names : Stamped(local[m])
      /\ Prepared(pending) /\ Prepared(inflight)
  BY TypeOKParts DEF OInv, VInv, TInv, ManagedVersions, Marked
<1>2. SameLocal(n) => LocalMoves(n) /\ Stamped(local'[n])
  BY <1>1 DEF SameLocal, LocalMoves
<1>3. UNCHANGED localVars => SameLocal(n)
  BY DEF localVars, SameLocal
<1>4. ASSUME NEW m \in Names, LocalUser(m)
      PROVE  LocalMoves(n) /\ Stamped(local'[n])
  <2>1. /\ StoredLocal(m) /\ Noticed(m) /\ Stamped(local'[m])
        /\ \A k \in Names \ {m} : SameLocal(k)
    BY <1>1, <1>4, UserNoticed DEF Filterable
  <2> QED BY <1>2, <2>1 DEF LocalMoves
<1>5. ASSUME NEW m \in Names, DeliverLocal(m)
      PROVE  LocalMoves(n) /\ Stamped(local'[n])
  <2>1. local' = local
    BY <1>5 DEF DeliverLocal
  <2>2. m # n => SameLocal(n)
    BY <1>1, <1>5 DEF DeliverLocal, SameLocal, LocalTypes
  <2> QED BY <1>1, <1>2, <1>5, <2>1, <2>2 DEF LocalMoves
<1>6. ASSUME NEW w \in Writes, w # None, Prepared(w), Puts(w) => w.obj.lastRemote # None,
             w.op = "update" => Seen(w.name, w.obj.rv), Accepted(w), Apply(w),
             (w = pending /\ (WriteAccepted \/ WriteFails)) \/ (w = inflight /\ LateWrite)
      PROVE  LocalMoves(n) /\ Stamped(local'[n])
  <2>1. /\ StoredLocal(w.name) /\ Stamped(local'[w.name])
        /\ w.op # "update" => Noticed(w.name)
        /\ w.op = "update" => Updated(w.name, w)
        /\ \A m \in Names \ {w.name} : SameLocal(m)
    BY <1>1, <1>6, WriteNoticed
  <2>2. CASE n # w.name
    BY <1>2, <2>1, <2>2
  <2>3. CASE n = w.name
    BY <1>6, <2>1, <2>3 DEF LocalMoves
  <2> QED BY <2>2, <2>3
<1>7. CASE pending # None /\ (WriteAccepted \/ WriteFails) /\ Accepted(pending) /\ Apply(pending)
  <2>1. /\ pending \in Writes
        /\ Puts(pending) => pending.obj.lastRemote # None
        /\ pending.op = "update" => Seen(pending.name, pending.obj.rv)
    BY <1>1, <1>7 DEF ControllerTypes, HeldBehind, UpdateVersions
  <2> QED BY <1>1, <1>6, <1>7, <2>1
<1>8. CASE inflight # None /\ LateWrite /\ Accepted(inflight) /\ Apply(inflight)
  <2>1. /\ inflight \in Writes
        /\ Puts(inflight) => inflight.obj.lastRemote # None
        /\ inflight.op = "update" => Seen(inflight.name, inflight.obj.rv)
    BY <1>1, <1>8 DEF ControllerTypes, HeldBehind, UpdateVersions
  <2> QED BY <1>1, <1>6, <1>8, <2>1
<1>9. ASSUME NEW newEnvs \in EnvChoices, Restart(newEnvs)
      PROVE  LocalMoves(n) /\ Stamped(local'[n])
  BY <1>1, <1>9 DEF Restart, LocalMoves
<1>10. /\ WriteAccepted => pending # None /\ Accepted(pending) /\ Apply(pending)
       /\ WriteFails => \/ pending # None /\ Accepted(pending) /\ Apply(pending)
                        \/ UNCHANGED localVars
       /\ LateWrite => \/ inflight # None /\ Accepted(inflight) /\ Apply(inflight)
                       \/ UNCHANGED localVars
  BY DEF WriteAccepted, WriteFails, LateWrite
<1>11. ASSUME NEW m \in Names,
             \/ \E env \in EnvLabels, d \in Data : RemotePut(m, env, d)
             \/ RemoteDelete(m) \/ DeliverRemote(m)
             \/ RelistRemote(m) \/ RelistLocal(m) \/ Resync(m)
             \/ Begin(m) \/ TimerFires(m)
       PROVE  UNCHANGED localVars
  BY <1>11 DEF RemotePut, RemoteDelete, DeliverRemote, RelistRemote, RelistLocal, Filterable,
               Resync, Begin, TimerFires
<1>12. ReadLocal \/ WriteRefused \/ UNCHANGED vars => UNCHANGED localVars
  BY DEF ReadLocal, WriteRefused, vars
<1> QED BY <1>2, <1>3, <1>4, <1>5, <1>7, <1>8, <1>9, <1>10, <1>11, <1>12 DEF Next

(* An update of the mirror leaves a faithful copy that went forward.       *)
LEMMA UpdatedForward ==
    ASSUME OInv, LocalStep, NEW n \in Names, KnownFrom(n), TypeOK',
           NEW w \in Writes, Prepared(w), Puts(w) => w.obj.lastRemote # None
                                                     /\ Behind(w.name, w.obj.lastRemote),
           Stamped(local[n]), Stamped(local'[n]), Updated(n, w)
    PROVE  /\ FaithfulNext(n, HaveNext(n))
           /\ Have(n).lastRemote <= HaveNext(n).lastRemote
<1>1. /\ local[n] # None /\ local'[n] # None /\ local[n].managed /\ local'[n].managed
      /\ Have(n) = local[n] /\ HaveNext(n) = local'[n]
  BY DEF Updated, Have, HaveNext, ManagedScoped
<1>2. local[n].lastRemote # None /\ local'[n].lastRemote # None
  BY <1>1 DEF Stamped
<1>3. local'[n].lastRemote >= local[n].lastRemote
  BY <1>1, <1>2, StepForward
<1>4. local'[n].lastRemote \in Nat /\ local[n].lastRemote \in Nat
  BY <1>1, <1>2 DEF OInv, VInv, TInv, TypeOK, LocalObject, Versions
<1>5. /\ w.obj \in LocalObject /\ w.obj.lastRemote # None
      /\ Behind(n, w.obj.lastRemote) /\ Faithful(n, w.obj)
  BY DEF Updated, Prepared, Writes
<1>6. RemoteTypes
  BY TypeOKParts DEF OInv, VInv, TInv
<1>7. FaithfulNext(n, w.obj)
  BY <1>5, <1>6, FaithfulKept
<1> QED BY <1>1, <1>3, <1>4, <1>7 DEF FaithfulNext, Updated

(* What the local cache shows goes on leading to what there is.            *)
LEMMA ContinuedNext ==
    ASSUME OInv, Marked, Continued, Filterable, \A n \in Names : KnownFrom(n), [Next]_vars
    PROVE  Continued'
<1>1. /\ LocalTypes /\ RemoteTypes /\ ControllerTypes /\ HeldBehind /\ TypeOK'
      /\ LocalStep /\ LocalTypes'
  <2>1. TypeOK'
    BY VInvNext DEF OInv, VInv, TInv
  <2>2. LocalTypes'
    BY <2>1 DEF TypeOK, LocalTypes
  <2> QED BY <2>1, <2>2, TypeOKParts, LocalSteps DEF OInv, VInv, TInv
<1> SUFFICES ASSUME NEW n \in Names
             PROVE  Leads(localCache'[n], localEvents'[n], HaveNext(n),
                          FaithfulNext(n, HaveNext(n)))
  BY DEF Continued, Have, HaveNext, Faithful, FaithfulNext, Known, KnownNext
<1> DEFINE c == localCache[n]
           s == localEvents[n]
           have == Have(n)
           x == HaveNext(n)
           own == Faithful(n, have)
           owned == FaithfulNext(n, x)
<1>2. /\ LocalMoves(n) /\ Stamped(local'[n]) /\ Stamped(local[n])
      /\ Leads(c, s, have, own)
  BY LocalMoved DEF Continued, Marked
<1>3. /\ c \in Copied /\ s \in Seq(Copied)
      /\ have \in Copied /\ x \in Copied
  BY <1>1 DEF LocalTypes, Copied, Have, HaveNext, ManagedScoped
<1>4. IsCopy(x) /\ IsCopy(have)
  BY <1>2 DEF IsCopy, HaveNext, Have, ManagedScoped, Stamped
<1>5. ASSUME have # None, own
      PROVE  FaithfulNext(n, have)
  <2>1. have = local[n] /\ local[n].lastRemote # None
    BY <1>4, <1>5 DEF IsCopy, Have, ManagedScoped
  <2>2. Behind(n, have.lastRemote) /\ have \in LocalObject
    BY <1>1, <1>3, <1>5, <2>1 DEF HeldBehind, Copied
  <2> QED BY <1>1, <1>5, <2>1, <2>2, FaithfulKept
<1>6. CASE SameLocal(n)
  <2>1. localCache'[n] = c /\ localEvents'[n] = s /\ x = have
    BY <1>6 DEF SameLocal, Have, HaveNext
  <2>2. have # None /\ own => owned
    BY <1>5, <2>1
  <2>3. Leads(localCache'[n], localEvents'[n], x, owned)
    <3> HIDE DEF c, s, have, x, own, owned
    <3> QED BY <1>2, <2>1, <2>2, LeadsKept
  <2> QED BY <2>3
<1>7. ASSUME StoredLocal(n),
             \/ Noticed(n)
             \/ have # None /\ x # None /\ have.lastRemote <= x.lastRemote /\ owned
      PROVE  Leads(localCache'[n], localEvents'[n], x, owned)
  <2>1. localCache'[n] = c
        /\ localEvents'[n] = IF have = None /\ x = None THEN s ELSE Append(s, x)
    BY <1>7 DEF StoredLocal
  <2>2. CASE have = None /\ x = None
    <3> HIDE DEF c, s, have, x, own, owned
    <3> QED BY <1>2, <2>1, <2>2, LeadsKept
  <2>3. CASE ~(have = None /\ x = None)
    <3>1. \/ LocalEventPasses(have, x)
          \/ have # None /\ x # None /\ have.lastRemote <= x.lastRemote /\ owned
      BY <1>7, <2>3 DEF Noticed
    <3> HIDE DEF c, s, have, x, own, owned
    <3>2. Leads(c, Append(s, x), x, owned)
      BY <1>2, <1>3, <1>4, <3>1, LeadsStored
    <3> QED BY <2>1, <2>3, <3>2
  <2> QED BY <2>2, <2>3
<1>8. CASE StoredLocal(n) /\ (WriteAccepted \/ WriteFails) /\ Updated(n, pending)
  <2>1. pending \in Writes /\ Prepared(pending)
        /\ (Puts(pending) => pending.obj.lastRemote # None
                             /\ Behind(pending.name, pending.obj.lastRemote))
    BY <1>1, <1>8 DEF ControllerTypes, Marked, HeldBehind, Updated, Puts
  <2>2. owned /\ have.lastRemote <= x.lastRemote
    BY <1>1, <1>2, <1>8, <2>1, UpdatedForward
  <2> QED BY <1>7, <1>8, <2>2 DEF Updated
<1>9. CASE StoredLocal(n) /\ LateWrite /\ Updated(n, inflight)
  <2>1. inflight \in Writes /\ Prepared(inflight)
        /\ (Puts(inflight) => inflight.obj.lastRemote # None
                             /\ Behind(inflight.name, inflight.obj.lastRemote))
    BY <1>1, <1>9 DEF ControllerTypes, Marked, HeldBehind, Updated, Puts
  <2>2. owned /\ have.lastRemote <= x.lastRemote
    BY <1>1, <1>2, <1>9, <2>1, UpdatedForward
  <2> QED BY <1>7, <1>9, <2>2 DEF Updated
<1>10. CASE DeliverLocal(n)
  <2>1. /\ s # <<>> /\ localCache'[n] = Head(s) /\ localEvents'[n] = Tail(s)
        /\ x = have
    BY <1>1, <1>10 DEF DeliverLocal, LocalTypes, Have, HaveNext
  <2>2. Leads(Head(s), Tail(s), have, own)
    <3> HIDE DEF c, s, have, own
    <3> QED BY <1>2, <1>3, <2>1, LeadsShifted
  <2>3. have # None /\ own => owned
    BY <1>5, <2>1
  <2>4. Leads(localCache'[n], localEvents'[n], x, owned)
    <3> HIDE DEF c, s, have, x, own, owned
    <3> QED BY <2>1, <2>2, <2>3, LeadsKept
  <2> QED BY <2>4
<1>11. ASSUME NEW newEnvs \in EnvChoices, Restart(newEnvs)
       PROVE  Leads(localCache'[n], localEvents'[n], x, owned)
  <2>1. localCache'[n] = x /\ localEvents'[n] = <<>>
    BY <1>11 DEF Restart, HaveNext
  <2> HIDE DEF x, owned
  <2> QED BY <1>3, <1>4, <2>1, LeadsListed
<1> QED BY <1>2, <1>6, <1>7, <1>8, <1>9, <1>10, <1>11 DEF LocalMoves

------------------------------------------------------------------------------
(* What the worker does with what it reads.                                *)

(* The cached object carries one of the controller's environments.         *)
LEMMA CachedScoped ==
    ASSUME RemoteTypes, Watched, NEW n \in Names, remoteCache[n] # None
    PROVE  remoteCache[n].env \in envs
<1>1. Len(remoteEvents[n]) \in Nat
  BY DEF RemoteTypes
<1>2. 0 \in 0..Len(remoteEvents[n])
      /\ Link(remoteCache[n], remoteEvents[n], 0) = remoteCache[n]
  BY <1>1 DEF Link
<1> QED BY <1>2 DEF Watched

(* It stores what it read, and deletes only what it did not find.          *)
LEMMA DecideReflects ==
    ASSUME NEW n \in Names, NEW rem \in RemoteObject \cup {None},
           NEW loc \in LocalObject \cup {None}, NEW envSet,
           rem # None => rem.env \in envSet,
           NEW d, d = Decide(n, rem, loc, envSet), d # None
    PROVE  Reflects(d, rem)
<1>1. CASE d.op # "delete"
  <2>1. /\ rem # None /\ d.obj.lastRemote = rem.rv /\ d.obj.data = rem.data
    BY <1>1, DecidePuts DEF Puts
  <2> QED BY <1>1, <2>1 DEF Reflects
<1>2. CASE d.op = "delete"
  <2>1. SUFFICES ASSUME rem # None PROVE FALSE
    BY <1>2 DEF Reflects
  <2>2. \/ d = Request(n, "create", UpdateLastGeneration(Merged(rem, NewObject(rem))))
        \/ d = Request(n, "update", UpdateLastGeneration(Merged(rem, loc)))
    BY <2>1 DEF Decide, HasEdgeSyncLabel
  <2> QED BY <1>2, <2>2 DEF Request
<1> QED BY <1>1, <1>2

(* If it writes nothing, the copy it found is what it read.                *)
LEMMA DecideNothing ==
    ASSUME NEW n \in Names, NEW rem \in RemoteObject \cup {None},
           NEW loc \in LocalObject \cup {None}, NEW envSet,
           Decide(n, rem, loc, envSet) = None
    PROVE  Shows(rem, loc)
<1>1. CASE rem = None /\ loc = None
  BY <1>1 DEF Shows
<1>2. CASE rem # None /\ loc = None
  <2> DEFINE obj == UpdateLastGeneration(Merged(rem, NewObject(rem)))
  <2>1. obj \in LocalObject
    BY <1>2 DEF LocalObject, RemoteObject, UpdateLastGeneration, Merged, NewObject,
                Versions, EmptyRv
  <2>2. Decide(n, rem, loc, envSet) = Request(n, "create", obj)
    BY <1>2 DEF Decide
  <2> QED BY <2>1, <2>2, RequestType, NoneAssumption DEF Ops
<1>3. CASE loc # None
  <2>1. Request(n, "delete", loc) \in Writes
    BY <1>3, RequestType DEF Ops
  <2>2. rem # None /\ ~NeedsUpdate(rem, loc)
    <3>1. ASSUME rem # None
          PROVE  Request(n, "update", UpdateLastGeneration(Merged(rem, loc))) \in Writes
      <4> DEFINE obj == UpdateLastGeneration(Merged(rem, loc))
      <4>1. obj \in LocalObject
        BY <1>3, <3>1 DEF LocalObject, RemoteObject, UpdateLastGeneration, Merged,
                          Versions, EmptyRv
      <4> QED BY <4>1, RequestType DEF Ops
    <3> QED BY <1>3, <2>1, <3>1, NoneAssumption DEF Decide
  <2>3. Merged(rem, loc).data = rem.data /\ Merged(rem, loc).lastRemote = rem.rv
    BY DEF Merged
  <2> QED BY <1>3, <2>2, <2>3 DEF NeedsUpdate, Shows
<1> QED BY <1>1, <1>2, <1>3

(* What is queued stays queued, unless the worker takes it or restarts.    *)
Outside ==
    \/ \E n \in Names :
         \/ \E env \in EnvLabels, d \in Data : RemotePut(n, env, d)
         \/ RemoteDelete(n) \/ LocalUser(n) \/ DeliverRemote(n) \/ DeliverLocal(n)
         \/ RelistRemote(n) \/ RelistLocal(n) \/ Resync(n) \/ TimerFires(n)
    \/ LateWrite
    \/ UNCHANGED vars

(* Users, watches, timers and late writes drop no request.                 *)
LEMMA OutsideKeeps ==
    ASSUME Outside
    PROVE  /\ UNCHANGED taskVars /\ queue \subseteq queue'
           /\ queue \cup delayed \subseteq queue' \cup delayed'
           /\ ~WriteAccepted /\ ~WriteFails
<1>1. /\ UNCHANGED taskVars /\ queue \subseteq queue'
      /\ queue \cup delayed \subseteq queue' \cup delayed'
  <2>1. ASSUME NEW n \in Names,
               \/ \E env \in EnvLabels, d \in Data : RemotePut(n, env, d)
               \/ RemoteDelete(n) \/ LocalUser(n)
        PROVE  UNCHANGED <<taskVars, queue, delayed>>
    BY <2>1 DEF RemotePut, RemoteDelete, LocalUser
  <2>2. ASSUME NEW n \in Names,
               \/ DeliverRemote(n) \/ DeliverLocal(n)
               \/ RelistRemote(n) \/ RelistLocal(n) \/ Resync(n)
        PROVE  UNCHANGED <<taskVars, delayed>> /\ queue \subseteq queue'
    BY <2>2 DEF DeliverRemote, DeliverLocal, RelistRemote, RelistLocal, Resync, Enqueue
  <2>3. ASSUME NEW n \in Names, TimerFires(n)
        PROVE  UNCHANGED taskVars /\ queue' = queue \cup {n} /\ delayed' = delayed \ {n}
    BY <2>3 DEF TimerFires
  <2>4. LateWrite \/ UNCHANGED vars => UNCHANGED <<taskVars, queue, delayed>>
    BY DEF LateWrite, vars
  <2> QED BY <2>1, <2>2, <2>3, <2>4 DEF Outside
<1>2. WriteAccepted \/ WriteFails => pending # None /\ pending' = None
  BY DEF WriteAccepted, WriteFails, Finish
<1> QED BY <1>1, <1>2 DEF taskVars

(* The worker's reading keeps up with the cache.                           *)
LEMMA ReadingNext ==
    ASSUME OInv, Watched, Reading, [Next]_vars,
           (\A n \in Names : CacheMoves(n)) \/ \E newEnvs \in EnvChoices : Restart(newEnvs)
    PROVE  Reading'
<1>1. TypeOK /\ PendingIsCurrent /\ RemoteTypes /\ ControllerTypes
  BY TypeOKParts DEF OInv, VInv, TInv
<1>2. ASSUME NEW newEnvs \in EnvChoices, Restart(newEnvs)
      PROVE  Reading'
  BY <1>2 DEF Restart, Reading
<1>3. CASE Outside /\ \A n \in Names : CacheMoves(n)
  <2>1. UNCHANGED <<current, remoteRead, pending>> /\ queue \subseteq queue'
    BY <1>3, OutsideKeeps DEF taskVars
  <2>2. current # None /\ current \notin queue' => remoteCache'[current] = remoteCache[current]
    BY <1>1, <1>3 DEF CacheMoves, ControllerTypes
  <2> QED BY <2>1, <2>2 DEF Reading
<1>4. ASSUME NEW n \in Names, Begin(n)
      PROVE  Reading'
  <2>1. /\ current = None /\ current' = n /\ pending' = pending
        /\ remoteRead' = remoteCache[n] /\ remoteCache' = remoteCache
    BY <1>4 DEF Begin, remoteVars
  <2>2. pending = None
    BY <1>1, <2>1, NoneAssumption DEF PendingIsCurrent
  <2> QED BY <2>1, <2>2 DEF Reading
<1>5. CASE ReadLocal
  <2>1. CASE pending' = None
    <3>1. current' = None \/ pending' # None
      BY <1>5 DEF ReadLocal, Finish
    <3> QED BY <2>1, <3>1 DEF Reading
  <2>2. CASE pending' # None
    <3>1. /\ current \in Names /\ current # None /\ pending = None /\ current' = current
          /\ remoteRead \in RemoteObject \cup {None}
          /\ localCache[current] \in LocalObject \cup {None}
          /\ pending' = Decide(current, remoteRead, localCache[current], envs)
          /\ UNCHANGED <<queue, remoteCache>>
      BY <1>1, <1>5, <2>2 DEF ReadLocal, Finish, TypeOK, remoteVars
    <3>2. ASSUME current \notin queue
          PROVE  Reflects(pending', remoteCache[current])
      <4>1. remoteRead = remoteCache[current]
        BY <3>1, <3>2 DEF Reading
      <4>2. remoteRead # None => remoteRead.env \in envs
        BY <1>1, <3>1, <4>1, CachedScoped
      <4> QED BY <2>2, <3>1, <4>1, <4>2, DecideReflects
    <3> QED BY <2>2, <3>1, <3>2 DEF Reading
  <2> QED BY <2>1, <2>2
<1>6. CASE WriteAccepted \/ WriteRefused \/ WriteFails
  BY <1>6 DEF WriteAccepted, WriteRefused, WriteFails, Finish, Reading
<1>7. /\ ReadLocal \/ WriteAccepted \/ WriteRefused \/ WriteFails \/ Outside
             \/ (\E n \in Names : Begin(n)) \/ (\E newEnvs \in EnvChoices : Restart(newEnvs))
  BY DEF Next, Outside
<1> QED BY <1>2, <1>3, <1>4, <1>5, <1>6, <1>7

------------------------------------------------------------------------------
(* No name is left behind.                                                 *)

Shown(n) == Quiet(localCache[n], localEvents[n], 0) => Shows(remoteCache[n], Have(n))

ShownNext(n) ==
    Quiet(localCache'[n], localEvents'[n], 0) => Shows(remoteCache'[n], HaveNext(n))

(* A copy that is what the cache shows stays so, or its change is noticed. *)
LEMMA ShownKept ==
    ASSUME LocalTypes, Continued, NEW n \in Names, Shown(n),
           remoteCache'[n] = remoteCache[n],
           \/ SameLocal(n)
           \/ StoredLocal(n) /\ Noticed(n)
           \/ DeliverLocal(n)
    PROVE  n \in queue' \/ ShownNext(n)
<1> DEFINE c == localCache[n]
           s == localEvents[n]
           have == Have(n)
           x == HaveNext(n)
<1>1. /\ c \in Copied /\ s \in Seq(Copied) /\ have \in Copied
      /\ Link(c, s, Len(s)) = have
  BY DEF LocalTypes, Copied, Have, ManagedScoped, Continued, Leads
<1>3. CASE SameLocal(n)
  BY <1>3 DEF SameLocal, Shown, ShownNext, Have, HaveNext
<1>4. CASE DeliverLocal(n)
  <2>1. /\ s # <<>> /\ localCache'[n] = Head(s) /\ localEvents'[n] = Tail(s) /\ x = have
        /\ LocalEventPasses(c, Head(s)) => n \in queue'
    BY <1>4 DEF DeliverLocal, Enqueue, LocalTypes, Have, HaveNext
  <2>2. Quiet(Head(s), Tail(s), 0) /\ ~LocalEventPasses(c, Head(s)) => Quiet(c, s, 0)
    <3> HIDE DEF c, s
    <3> QED BY <1>1, <2>1, Shifted
  <2> QED BY <2>1, <2>2 DEF Shown, ShownNext
<1>5. CASE StoredLocal(n) /\ Noticed(n)
  <2>1. /\ localCache'[n] = c
        /\ localEvents'[n] = IF have = None /\ x = None THEN s ELSE Append(s, x)
    BY <1>5 DEF StoredLocal
  <2>2. CASE have = None /\ x = None
    BY <2>1, <2>2 DEF Shown, ShownNext
  <2>3. CASE ~(have = None /\ x = None)
    <3>1. LocalEventPasses(have, x)
      BY <1>5, <2>3 DEF Noticed
    <3>2. ~Quiet(c, Append(s, x), 0)
      <4> DEFINE t == Append(s, x)
      <4>1. Len(s) \in Nat /\ DOMAIN t = 1..(Len(s) + 1) /\ t[Len(s) + 1] = x
            /\ (Len(s) # 0 => t[Len(s)] = s[Len(s)])
        BY <1>1
      <4> HIDE DEF t, c, s, have, x
      <4>2. /\ Len(s) + 1 \in DOMAIN t /\ Len(s) + 1 > 0 /\ (Len(s) + 1) - 1 = Len(s)
            /\ Link(c, t, Len(s) + 1) = x /\ Link(c, t, Len(s)) = have
        BY <1>1, <4>1 DEF Link
      <4> QED BY <3>1, <4>2 DEF Quiet, t
    <3> QED BY <2>1, <2>3, <3>2 DEF ShownNext
  <2> QED BY <2>2, <2>3
<1> QED BY <1>3, <1>4, <1>5

(* An update of the mirror takes a shown copy to the same version.         *)
LEMMA ShownUpdated ==
    ASSUME OInv, Continued, LocalStep, NEW n \in Names, KnownFrom(n), TypeOK', Shown(n),
           remoteCache'[n] = remoteCache[n], StoredLocal(n),
           NEW w \in Writes, Prepared(w), Puts(w) => w.obj.lastRemote # None
                                                     /\ Behind(w.name, w.obj.lastRemote),
           Stamped(local[n]), Stamped(local'[n]), Updated(n, w)
    PROVE  ShownNext(n)
<1> DEFINE c == localCache[n]
           s == localEvents[n]
           x == HaveNext(n)
           rem == remoteCache[n]
<1>1. LocalTypes /\ RemoteTypes
  BY TypeOKParts DEF OInv, VInv, TInv
<1>2. SUFFICES ASSUME Quiet(c, Append(s, x), 0)
               PROVE  Shows(rem, x)
  BY DEF StoredLocal, Updated, ShownNext
<1>3. c \in Copied /\ s \in Seq(Copied) /\ x \in Copied
  <2>1. x \in LocalObject \cup {None}
    BY DEF HaveNext, ManagedScoped, TypeOK
  <2> QED BY <1>1, <2>1 DEF LocalTypes, Copied
<1>4. Quiet(c, s, 0)
  <2> HIDE DEF c, s, x
  <2>1. 0 \in 0..Len(s)
    BY <1>3, Extended
  <2> QED BY <1>2, <1>3, <2>1, Extended
<1>5. Shows(rem, Have(n)) /\ Have(n) # None /\ x # None
  BY <1>4 DEF Shown, Updated
<1>6. rem # None /\ rem \in RemoteObject /\ Have(n).lastRemote = rem.rv
  BY <1>1, <1>5 DEF Shows, RemoteTypes
<1>7. /\ w.obj.lastRemote <= rem.rv /\ w.obj.lastRemote \in Nat /\ rem.rv \in Nat
      /\ x.lastRemote = w.obj.lastRemote /\ x.data = w.obj.data /\ Faithful(n, w.obj)
  <2>1. Puts(w) /\ w.name = n
    BY DEF Updated
  <2>2. w.obj.lastRemote \in Nat
    BY <2>1 DEF Writes, LocalObject, Versions
  <2>3. w.obj.lastRemote <= rem.rv
    BY <1>6, <2>1 DEF Behind
  <2> QED BY <1>6, <2>1, <2>2, <2>3 DEF Updated, Prepared, RemoteObject, Versions
<1>8. Have(n).lastRemote <= x.lastRemote
  BY UpdatedForward
<1>9. x.lastRemote = rem.rv
  BY <1>6, <1>7, <1>8
<1>10. x.data = rem.data
  BY <1>6, <1>7, <1>9 DEF Faithful, Known
<1> QED BY <1>5, <1>6, <1>9, <1>10 DEF Shows

AttendedNext(n) ==
    \/ n \in queue' \cup delayed' \/ current' = n
    \/ ShownNext(n)

(* A name that the worker does not write stays shown, or is queued.        *)
LEMMA ShownMoved ==
    ASSUME OInv, Marked, Continued, [Next]_vars, Filterable,
           NEW n \in Names, KnownFrom(n), CacheMoves(n), Shown(n),
           WriteAccepted \/ WriteFails => n # current,
           ~\E newEnvs \in EnvChoices : Restart(newEnvs)
    PROVE  n \in queue' \/ ShownNext(n)
<1>1. /\ LocalTypes /\ ControllerTypes /\ HeldBehind /\ PendingIsCurrent /\ LocalStep /\ TypeOK'
      /\ Stamped(local[n]) /\ LocalMoves(n) /\ Stamped(local'[n])
  BY TypeOKParts, LocalSteps, LocalMoved, VInvNext DEF OInv, VInv, TInv, Marked
<1>2. CASE n \in queue'
  BY <1>2
<1>3. CASE remoteCache'[n] = remoteCache[n]
  <2>1. CASE SameLocal(n) \/ (StoredLocal(n) /\ Noticed(n)) \/ DeliverLocal(n)
    BY <1>1, <1>3, <2>1, ShownKept
  <2>2. CASE StoredLocal(n) /\ LateWrite /\ Updated(n, inflight)
    <3>1. /\ inflight \in Writes /\ Prepared(inflight)
          /\ (Puts(inflight) => inflight.obj.lastRemote # None
                                /\ Behind(inflight.name, inflight.obj.lastRemote))
      BY <1>1, <2>2 DEF ControllerTypes, Marked, HeldBehind, Updated, Puts
    <3> QED BY <1>1, <1>3, <2>2, <3>1, ShownUpdated
  <2>3. ~((WriteAccepted \/ WriteFails) /\ Updated(n, pending))
    BY <1>1 DEF PendingIsCurrent, Updated, WriteAccepted, WriteFails
  <2> QED BY <1>1, <2>1, <2>2, <2>3 DEF LocalMoves
<1> QED BY <1>2, <1>3 DEF CacheMoves

(* A name the worker has nothing to write for is shown, unless its cached  *)
(* object changed since it was read.                                       *)
LEMMA ShownRead ==
    ASSUME OInv, Watched, Continued, Reading, ReadLocal, pending' = None,
           current \notin queue
    PROVE  ShownNext(current)
<1> DEFINE n == current
           rem == remoteCache[n]
           loc == localCache[n]
           have == Have(n)
<1>1. /\ n \in Names /\ remoteRead = rem /\ pending = None
      /\ rem \in RemoteObject \cup {None} /\ loc \in LocalObject \cup {None}
      /\ have \in LocalObject \cup {None} /\ localEvents[n] \in Seq(Copied)
      /\ HeldBehind
  BY DEF ReadLocal, Reading, OInv, VInv, TInv, TypeOK, Have, ManagedScoped, Copied
<1>2. Decide(n, rem, loc, envs) = None /\ UNCHANGED <<remoteVars, localVars>>
  BY <1>1 DEF ReadLocal
<1>3. Shows(rem, loc)
  BY <1>1, <1>2, DecideNothing
<1>4. SUFFICES ASSUME Quiet(loc, localEvents[n], 0)
               PROVE  Shows(rem, have)
  BY <1>2 DEF ShownNext, HaveNext, Have, remoteVars, localVars
<1>5. /\ loc = None <=> have = None
      /\ have # None => loc.lastRemote <= have.lastRemote
      /\ have # None => loc.lastRemote # None
      /\ have # None => have.lastRemote # None
      /\ have # loc /\ have # None => Faithful(n, have)
  <2> DEFINE s == localEvents[n]
  <2>1. Leads(loc, s, have, Faithful(n, have))
    BY <1>1 DEF Continued
  <2>2. Len(s) \in Nat
    BY <1>1
  <2> HIDE DEF s
  <2>3. 0 \in 0..Len(s) /\ Len(s) \in 0..Len(s) /\ Link(loc, s, 0) = loc
    BY <2>2 DEF Link
  <2>4. have # loc => 0 # Len(s)
    BY <2>1, <2>3 DEF Leads
  <2>5. Link(loc, s, Len(s)) = have
    BY <2>1 DEF Leads
  <2>6. have # None => have.lastRemote # None
    BY <2>1, <2>3, <2>5 DEF Leads
  <2>7. loc # None => loc.lastRemote # None
    BY <2>1, <2>3 DEF Leads
  <2>8. Quiet(loc, s, 0)
    BY <1>4 DEF s
  <2>9. /\ loc = None <=> have = None
        /\ have # None => loc.lastRemote <= have.lastRemote
        /\ have # None /\ 0 # Len(s) => Faithful(n, have)
    BY <2>1, <2>3, <2>8 DEF Leads
  <2> QED BY <2>4, <2>6, <2>7, <2>9
<1>6. CASE have = None
  BY <1>3, <1>5, <1>6 DEF Shows
<1>7. CASE have # None
  <2>1. rem # None /\ loc # None /\ loc.lastRemote = rem.rv /\ loc.data = rem.data
    BY <1>3, <1>5, <1>7 DEF Shows
  <2>2. have = local[n]
    BY <1>7 DEF Have, ManagedScoped
  <2>3. have.lastRemote <= rem.rv
    BY <1>1, <1>5, <1>7, <2>1, <2>2 DEF HeldBehind, Behind
  <2>4. have.lastRemote \in Nat /\ rem.rv \in Nat
    BY <1>1, <1>5, <1>7, <2>1 DEF LocalObject, RemoteObject, Versions
  <2>5. have.lastRemote = rem.rv
    BY <1>5, <1>7, <2>1, <2>3, <2>4
  <2>6. have.data = rem.data
    <3>1. CASE have = loc
      BY <2>1, <3>1
    <3>2. CASE have # loc
      BY <1>1, <1>5, <1>7, <2>1, <2>5, <3>2 DEF Faithful, Known
    <3> QED BY <3>1, <3>2
  <2> QED BY <1>7, <2>1, <2>5, <2>6 DEF Shows
<1> QED BY <1>6, <1>7

(* So is a name whose write is answered, unless it is tried again.         *)
LEMMA ShownWritten ==
    ASSUME OInv, Marked, Reading, WriteAccepted \/ WriteRefused, current \notin queue
    PROVE  current \in delayed' \/ ShownNext(current)
<1>1. /\ pending # None /\ pending \in Writes /\ current \in Names /\ pending.name = current
      /\ current # None /\ remoteCache' = remoteCache /\ LocalTypes
      /\ Prepared(pending) /\ Reflects(pending, remoteCache[current])
  <2>1. pending # None /\ remoteCache' = remoteCache
    BY DEF WriteAccepted, WriteRefused, remoteVars
  <2>2. /\ pending \in Writes /\ current \in Names /\ pending.name = current /\ LocalTypes
    BY <2>1, TypeOKParts DEF OInv, VInv, TInv, PendingIsCurrent, ControllerTypes
  <2>3. current # None
    BY <2>2, NoneAssumption
  <2> QED BY <2>1, <2>2, <2>3 DEF Reading, Marked
<1>2. CASE WriteAccepted
  <2>1. Apply(pending)
    BY <1>2 DEF WriteAccepted
  <2>2. CASE pending.op = "delete"
    <3>1. local'[current] = None /\ remoteCache[current] = None
      BY <1>1, <2>1, <2>2, AppliedCopy DEF Reflects
    <3> QED BY <1>1, <3>1 DEF ShownNext, Shows, HaveNext, ManagedScoped
  <2>3. CASE pending.op # "delete"
    <3>1. /\ local'[current] # None /\ local'[current].managed = pending.obj.managed
          /\ local'[current].data = pending.obj.data
          /\ local'[current].lastRemote = pending.obj.lastRemote
      BY <1>1, <2>1, <2>3, AppliedCopy
    <3>2. pending.obj.managed
      BY <1>1, <2>3 DEF Prepared, Puts
    <3>3. HaveNext(current) = local'[current]
      BY <3>1, <3>2 DEF HaveNext, ManagedScoped
    <3> QED BY <1>1, <2>3, <3>1, <3>3 DEF ShownNext, Shows, Reflects
  <2> QED BY <2>2, <2>3
<1>3. CASE WriteRefused
  <2>1. ~Accepted(pending) /\ Finish(Retried(pending.op)) /\ local' = local
    BY <1>3 DEF WriteRefused, localVars
  <2>2. CASE pending.op # "delete"
    BY <2>1, <2>2 DEF Finish, Retried
  <2>3. CASE pending.op = "delete"
    <3>1. local'[current] = None /\ remoteCache[current] = None
      BY <1>1, <2>1, <2>3 DEF Accepted, Reflects
    <3> QED BY <1>1, <3>1 DEF ShownNext, Shows, HaveNext, ManagedScoped
  <2> QED BY <2>2, <2>3
<1> QED BY <1>2, <1>3

(* After a restart the lists queue every name that has anything.           *)
LEMMA AttendedRestart ==
    ASSUME OInv, Marked, NEW newEnvs \in EnvChoices, Restart(newEnvs), NEW n \in Names
    PROVE  AttendedNext(n)
<1> DEFINE rem == EnvScoped(remote[n], newEnvs)
           have == Have(n)
<1>1. LocalTypes /\ RemoteTypes /\ Stamped(local[n])
  BY TypeOKParts DEF OInv, VInv, TInv, Marked
<1>2. /\ remoteCache'[n] = rem /\ localCache'[n] = have /\ HaveNext(n) = have
      /\ RemoteEventPasses(None, rem, newEnvs) \/ LocalEventPasses(None, have)
            => n \in queue'
  BY DEF Restart, RemoteList, Have, HaveNext
<1>3. CASE rem # None
  <2>1. HasEdgeSyncLabel(rem, newEnvs)
    BY <1>3 DEF EnvScoped
  <2>2. RemoteEventPasses(None, rem, newEnvs)
    BY <1>3, <2>1 DEF RemoteEventPasses
  <2> QED BY <1>2, <2>2 DEF AttendedNext
<1>4. CASE have # None
  <2>1. have = local[n] /\ have.managed /\ have.lastRemote # None /\ have \in LocalObject
    BY <1>1, <1>4 DEF Have, ManagedScoped, Stamped, LocalTypes
  <2>2. have.lastGen # ZeroString
    BY <2>1, NoneAssumption DEF LocalObject, Versions, EmptyRv, ZeroString
  <2>3. LocalEventPasses(None, have)
    BY <1>4, <2>1, <2>2 DEF LocalEventPasses, NotChangedOnCreate, NilAnnotations
  <2> QED BY <1>2, <2>3 DEF AttendedNext
<1>5. CASE rem = None /\ have = None
  BY <1>2, <1>5 DEF AttendedNext, ShownNext, Shows
<1> QED BY <1>3, <1>4, <1>5

(* Every step attends to every name.                                       *)
LEMMA AttendedNow ==
    ASSUME WInv, Filterable, [Next]_vars, NEW n \in Names, KnownFrom(n),
           CacheMoves(n) \/ \E newEnvs \in EnvChoices : Restart(newEnvs)
    PROVE  AttendedNext(n)
<1>1. /\ OInv /\ Watched /\ Marked /\ Continued /\ Reading
      /\ n \in queue \cup delayed \/ current = n \/ Shown(n)
      /\ PendingIsCurrent /\ n # None
  BY NoneAssumption DEF WInv, OInv, VInv, TInv, Attended, Shown
<1>2. CASE \E newEnvs \in EnvChoices : Restart(newEnvs)
  BY <1>1, <1>2, AttendedRestart
<1>3. CASE ~\E newEnvs \in EnvChoices : Restart(newEnvs)
  <2>1. ASSUME Shown(n), WriteAccepted \/ WriteFails => n # current
        PROVE  AttendedNext(n)
    BY <1>1, <1>3, <2>1, ShownMoved DEF AttendedNext
  <2>2. CASE Outside
    BY <1>1, <2>1, <2>2, OutsideKeeps DEF AttendedNext, taskVars
  <2>3. ASSUME NEW m \in Names, Begin(m)
        PROVE  AttendedNext(n)
    <3>1. current = None /\ queue' = queue \ {m} /\ current' = m /\ delayed' = delayed
          /\ pending' = pending
      BY <2>3 DEF Begin
    <3>2. pending = None
      BY <1>1, <3>1, NoneAssumption DEF PendingIsCurrent
    <3> QED BY <1>1, <2>1, <3>1, <3>2 DEF AttendedNext, WriteAccepted, WriteFails
  <2>4. CASE ReadLocal \/ WriteAccepted \/ WriteRefused \/ WriteFails
    <3>1. queue' = queue /\ delayed \subseteq delayed'
      BY <2>4 DEF ReadLocal, WriteAccepted, WriteRefused, WriteFails, Finish
    <3>2. CASE n \in queue \cup delayed
      BY <3>1, <3>2 DEF AttendedNext
    <3>3. CASE Shown(n) /\ current # n
      BY <2>1, <3>3
    <3>4. CASE current = n /\ n \notin queue
      <4>1. CASE ReadLocal
        <5>1. current' = current \/ pending' = None
          BY <4>1 DEF ReadLocal, Finish
        <5> QED BY <1>1, <3>4, <4>1, <5>1, ShownRead DEF AttendedNext
      <4>2. CASE WriteAccepted \/ WriteRefused
        BY <1>1, <3>4, <4>2, ShownWritten DEF AttendedNext
      <4>3. CASE WriteFails
        BY <3>4, <4>3 DEF WriteFails, Finish, AttendedNext
      <4> QED BY <2>4, <4>1, <4>2, <4>3
    <3> QED BY <1>1, <3>2, <3>3, <3>4
  <2> QED BY <1>3, <2>2, <2>3, <2>4 DEF Next, Outside
<1> QED BY <1>2, <1>3

------------------------------------------------------------------------------
(* The inductive invariant holds at first.                                 *)
LEMMA WInvInit == Init => WInv
<1> SUFFICES ASSUME Init PROVE WInv
  OBVIOUS
<1>1. /\ \A n \in Names : /\ remote[n] = None /\ remoteCache[n] = None
                          /\ remoteEvents[n] = <<>>
                          /\ local[n] = None /\ localCache[n] = None
                          /\ localEvents[n] = <<>> /\ Have(n) = None
      /\ current = None /\ pending = None /\ inflight = None
  BY DEF Init, Have, ManagedScoped
<1>2. Len(<<>>) = 0 /\ DOMAIN <<>> = {} /\ (\A i \in 0..Len(<<>>) : i = 0)
  OBVIOUS
<1>3. Watched
  BY <1>1, <1>2 DEF Watched, Link, EnvScoped
<1>4. Agreed
  BY <1>1, <1>2, NoneAssumption DEF Agreed, Known
<1>5. Marked
  BY <1>1 DEF Marked, Stamped, Prepared, Puts
<1>6. Continued
  <2>1. \A own : Leads(None, <<>>, None, own)
    BY LeadsListed DEF Copied, IsCopy
  <2> QED BY <1>1, <2>1 DEF Continued
<1>7. Reading /\ Attended
  BY <1>1 DEF Reading, Attended, Shows
<1> QED BY <1>3, <1>4, <1>5, <1>6, <1>7, OInvInit DEF WInv

(* Every step keeps it.                                                    *)
LEMMA WInvNext == Filterable /\ WInv /\ [Next]_vars => WInv'
<1> SUFFICES ASSUME Filterable, WInv, [Next]_vars PROVE WInv'
  OBVIOUS
<1>1. OInv /\ Watched /\ Agreed /\ Marked /\ Continued /\ Reading
  BY DEF WInv
<1>2. /\ OInv' /\ Watched' /\ Agreed'
      /\ \A n \in Names : KnownFrom(n)
      /\ (\A n \in Names : CacheMoves(n)) \/ \E newEnvs \in EnvChoices : Restart(newEnvs)
  BY <1>1, OInvNext, WatchNext
<1>3. Marked'
  <2>1. PreparedNext(pending') /\ PreparedNext(inflight')
    BY <1>1, <1>2, TaskSteps, PreparedSteps
  <2>2. \A n \in Names : Stamped(local'[n])
    BY <1>1, LocalMoved
  <2>3. Prepared(pending)' /\ Prepared(inflight)'
    BY <2>1 DEF Prepared, PreparedNext, Faithful, FaithfulNext, Known, KnownNext
  <2> QED BY <2>2, <2>3 DEF Marked, Stamped
<1>4. Continued' /\ Reading'
  BY <1>1, <1>2, ContinuedNext, ReadingNext
<1>5. Attended'
  <2>1. \A n \in Names : AttendedNext(n)
    BY <1>2, AttendedNow
  <2> QED BY <2>1 DEF Attended, AttendedNext, ShownNext, Quiet, Shows, Have, HaveNext
<1> QED BY <1>2, <1>3, <1>4, <1>5 DEF WInv

(* A settled name is in sync: its caches are what the clusters hold.       *)
LEMMA SettledShown == WInv => SettledInSync
<1> SUFFICES ASSUME WInv, NEW n \in Names, Settled(n) PROVE InSync(n)
  BY DEF SettledInSync
<1>1. n \notin queue \cup delayed /\ current # n /\ remoteEvents[n] = <<>>
      /\ localEvents[n] = <<>>
  BY DEF Settled
<1>2. Len(<<>>) = 0 /\ DOMAIN <<>> = {}
  OBVIOUS
<1>3. Quiet(localCache[n], localEvents[n], 0)
  BY <1>1, <1>2 DEF Quiet
<1>4. Shows(remoteCache[n], Have(n))
  BY <1>1, <1>3 DEF WInv, Attended
<1>5. remoteCache[n] = EnvScoped(remote[n], envs)
  BY <1>1, <1>2 DEF WInv, Watched, Link
<1> QED BY <1>4, <1>5 DEF Shows, InSync, Have

(* The mirroring loses no wakeup: if the watch of the edge does not relist *)
(* and no user strips a copy of its annotations, the event filters and the *)
(* retries of MirroringReconciler leave no name out of sync behind, however*)
(* stale reads, failed calls, restarts, late writes and edits interleave.  *)
THEOREM NoLostWakeup == Filterable => (Spec => []SettledInSync)
<1> SUFFICES ASSUME Filterable PROVE Spec => []SettledInSync
  OBVIOUS
<1>1. WInv /\ [Next]_vars => WInv'
  BY WInvNext
<1> QED BY <1>1, WInvInit, SettledShown, PTL DEF Spec

=============================================================================
