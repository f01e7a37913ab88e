------------------------- MODULE MirrorWritesProofs -------------------------
(***************************************************************************)
(* The controller does not feed itself: what its writes to a name are paid *)
(* from, the inductive invariant behind NoWriteLoop, and its proof.        *)
(***************************************************************************)
EXTENDS MirrorWakeupProofs

One(b) == IF b THEN 1 ELSE 0

RvOf(x) == IF x = None THEN 0 ELSE x.rv

(* The versions of the states to come are larger and larger.               *)
Later(s, v) == \A j \in DOMAIN s : s[j] # None => v < s[j].rv

Rising(c, s) ==
    \A i, j \in 0..Len(s) :
        i < j /\ Link(c, s, i) # None /\ Link(c, s, j) # None
           => Link(c, s, i).rv < Link(c, s, j).rv

(* The version of the cloud's object that the worker goes by, 0 for none.  *)
View(n) ==
    IF current # n THEN RvOf(remoteCache[n])
    ELSE IF pending = None THEN RvOf(remoteRead)
    ELSE IF Puts(pending) THEN pending.obj.lastRemote ELSE 0

(* Version f of n, and the older ones, are not looked at any more.         *)
Floor(n, f) ==
    /\ f \in 0..remoteRv[n]
    /\ View(n) # 0 => f < View(n)
    /\ remoteCache[n] # None => f < remoteCache[n].rv
    /\ Later(remoteEvents[n], f)

(* Requests that will come of the events of the local watch: an update of  *)
(* the mirror can only be the first of them, and enqueues nothing.         *)
Reports(c, s) ==
    IF s = <<>> THEN 0 ELSE Len(s) - One(~LocalEventPasses(c, Head(s)))

(* What a late write may still cost.                                       *)
LateCost(n) ==
    IF inflight # None /\ inflight.name = n
    THEN IF inflight.op = "update" THEN 1 ELSE 2
    ELSE 0

(* Each request is good for one write, and each event for one request.     *)
Requests(n) == One(n \in queue) + One(n \in delayed) + One(current = n)

Cloud(n) == Len(remoteEvents[n]) + One(remote[n] # None)

Edge(n) == localRv[n] + Reports(localCache[n], localEvents[n])

Weight(n) == Requests(n) + Cloud(n) + Edge(n) + LateCost(n)

(* Creating an object costs one more: it enqueues a request.               *)
Absence(n) == One(remoteRv[n] > 0 /\ (View(n) = 0 \/ local[n] = None))

(* A version that is not looked at any more has paid for an absence.       *)
Gap(n, f) == Absence(n) + (remoteRv[n] - f)

Disturbed == Spent("user") + Spent("restart") + Spent("fault") + Spent("resync")

(* There is something left of what happened to n to pay all this from.     *)
Paid(n, f) == Weight(n) + Gap(n, f) <= 4 * remoteRv[n] + 3 * Disturbed

Allowed == \A n \in Names : \E f \in 0..remoteRv[n] : Floor(n, f) /\ Paid(n, f)

(* The events of both watches come in the order of versions.               *)
Sequenced ==
    \A n \in Names :
        /\ Rising(remoteCache[n], remoteEvents[n])
        /\ Later(remoteEvents[n], View(n))
        /\ Rising(localCache[n], localEvents[n])

(* The local watch leads to what there is.                                 *)
Followed ==
    \A n \in Names : Link(localCache[n], localEvents[n], Len(localEvents[n])) = Have(n)

(* What is being updated has been in the cache, and is written down.       *)
Signed(w) ==
    /\ Puts(w) => w.obj.lastGen = w.obj.rv /\ w.obj.managed
    /\ w # None /\ w.op = "update" => Later(localEvents[w.name], w.obj.rv)

ReadScoped == remoteRead # None => remoteRead.env \in envs

LInv == /\ OInv /\ Watched /\ Agreed /\ ReadScoped
        /\ Sequenced /\ Followed /\ Signed(pending) /\ Signed(inflight)
        /\ Allowed

------------------------------------------------------------------------------
(* Sequences of versions.                                                  *)

(* A newer version is appended.                                            *)
LEMMA RisingAppended ==
    ASSUME NEW T, NEW c \in T, NEW s \in Seq(T), NEW x \in T, Rising(c, s),
           \A i \in 0..Len(s) : Link(c, s, i) # None /\ x # None => Link(c, s, i).rv < x.rv
    PROVE  Rising(c, Append(s, x))
<1> DEFINE t == Append(s, x)
<1>1. /\ Len(s) \in Nat /\ Len(t) = Len(s) + 1 /\ Link(c, t, Len(t)) = x
      /\ \A i \in 0..Len(t) : i \in 0..Len(s) \/ i = Len(t)
      /\ \A i \in 0..Len(s) : Link(c, t, i) = Link(c, s, i)
  BY Extended
<1> HIDE DEF t
<1>2. ASSUME NEW i \in 0..Len(t), NEW j \in 0..Len(t), i < j,
             Link(c, t, i) # None, Link(c, t, j) # None
      PROVE  Link(c, t, i).rv < Link(c, t, j).rv
  <2>1. i \in 0..Len(s)
    BY <1>1, <1>2
  <2>2. CASE j \in 0..Len(s)
    BY <1>1, <1>2, <2>1, <2>2 DEF Rising
  <2>3. CASE j = Len(t)
    BY <1>1, <1>2, <2>1, <2>3
  <2> QED BY <1>1, <2>2, <2>3
<1> QED BY <1>2 DEF Rising, t

(* The same for a lower bound.                                             *)
LEMMA LaterAppended ==
    ASSUME NEW T, NEW s \in Seq(T), NEW x \in T, NEW v, Later(s, v), x # None => v < x.rv
    PROVE  Later(Append(s, x), v)
<1>1. \A j \in DOMAIN Append(s, x) :
         Append(s, x)[j] = x \/ (j \in DOMAIN s /\ Append(s, x)[j] = s[j])
  OBVIOUS
<1> QED BY <1>1 DEF Later

(* The oldest event has come to be the cached state.                       *)
LEMMA RisingShifted ==
    ASSUME NEW T, NEW c \in T, NEW s \in Seq(T), s # <<>>, Rising(c, s)
    PROVE  /\ Rising(Head(s), Tail(s))
           /\ Head(s) # None => Later(Tail(s), Head(s).rv)
<1> DEFINE d == Head(s)
           t == Tail(s)
<1>1. /\ Len(s) \in Nat /\ Len(t) \in Nat /\ Len(s) = Len(t) + 1
      /\ \A i \in 0..Len(t) : i + 1 \in 0..Len(s) /\ Link(d, t, i) = Link(c, s, i + 1)
  BY Shifted
<1>2. DOMAIN t = 1..Len(t)
  OBVIOUS
<1> HIDE DEF d, t
<1>3. \A i, j \in 0..Len(t) : i < j => i + 1 < j + 1
  BY <1>1
<1>4. Rising(d, t)
  BY <1>1, <1>3 DEF Rising
<1>5. \A j \in DOMAIN t : /\ j \in 0..Len(t) /\ 0 \in 0..Len(t) /\ 0 < j
                          /\ Link(d, t, j) = t[j] /\ Link(d, t, 0) = d
  BY <1>1, <1>2 DEF Link
<1>6. d # None => Later(t, d.rv)
  BY <1>4, <1>5 DEF Rising, Later
<1> QED BY <1>4, <1>6 DEF d, t

(* And what was to come after v still is.                                  *)
LEMMA LaterShifted ==
    ASSUME NEW T, NEW s \in Seq(T), s # <<>>, NEW v, Later(s, v)
    PROVE  Later(Tail(s), v) /\ (Head(s) # None => v < Head(s).rv)
<1>1. /\ 1 \in DOMAIN s /\ Head(s) = s[1]
      /\ \A j \in DOMAIN Tail(s) : j + 1 \in DOMAIN s /\ Tail(s)[j] = s[j + 1]
  OBVIOUS
<1> QED BY <1>1 DEF Later

(* The state that is cached comes before the events.                       *)
LEMMA RisingLater ==
    ASSUME NEW T, NEW c \in T, NEW s \in Seq(T), Rising(c, s), c # None
    PROVE  Later(s, c.rv)
<1>1. \A j \in DOMAIN s : j \in 0..Len(s) /\ 0 \in 0..Len(s) /\ 0 < j
  OBVIOUS
<1>2. \A j \in DOMAIN s : Link(c, s, j) = s[j] /\ Link(c, s, 0) = c
  BY <1>1 DEF Link
<1> QED BY <1>1, <1>2 DEF Rising, Later

(* A list leaves nothing to come.                                          *)
LEMMA RisingListed ==
    ASSUME NEW c, NEW v
    PROVE  Rising(c, <<>>) /\ Later(<<>>, v)
<1>1. \A i, j \in 0..Len(<<>>) : ~(i < j)
  OBVIOUS
<1> QED BY <1>1 DEF Rising, Later

(* The number of requests that will come is small when an event is added,  *)
(* and falls when one is delivered.                                        *)
LEMMA ReportsAppended ==
    ASSUME NEW T, NEW c \in T, NEW s \in Seq(T), NEW x \in T
    PROVE  /\ Reports(c, s) \in Nat /\ Reports(c, Append(s, x)) \in Nat
           /\ Reports(c, Append(s, x)) <= Reports(c, s) + 1
           /\ s = <<>> /\ ~LocalEventPasses(c, x) => Reports(c, Append(s, x)) = 0
<1>1. CASE s = <<>>
  <2>1. Append(s, x) # <<>> /\ Head(Append(s, x)) = x /\ Len(Append(s, x)) = 1
    BY <1>1
  <2> QED BY <1>1, <2>1 DEF Reports, One
<1>2. CASE s # <<>>
  <2>1. /\ Append(s, x) # <<>> /\ Head(Append(s, x)) = Head(s)
        /\ Len(Append(s, x)) = Len(s) + 1 /\ Len(s) \in Nat /\ Len(s) >= 1
    BY <1>2
  <2> QED BY <1>2, <2>1 DEF Reports, One
<1> QED BY <1>1, <1>2

(* It falls with a delivery, by more if the delivery is a request.         *)
LEMMA ReportsShifted ==
    ASSUME NEW T, NEW c \in T, NEW s \in Seq(T), s # <<>>
    PROVE  /\ Reports(c, s) \in Nat /\ Reports(Head(s), Tail(s)) \in Nat
           /\ Reports(Head(s), Tail(s)) + One(LocalEventPasses(c, Head(s))) <= Reports(c, s)
<1>1. Len(s) \in Nat /\ Len(s) >= 1 /\ Len(Tail(s)) = Len(s) - 1
  OBVIOUS
<1>2. Tail(s) # <<>> => Len(s) - 1 >= 1
  <2>1. Tail(s) \in Seq(T)
    OBVIOUS
  <2>2. Tail(s) # <<>> => Len(Tail(s)) \in Nat /\ Len(Tail(s)) >= 1
    BY <2>1
  <2> QED BY <1>1, <2>2
<1>3. /\ Reports(Head(s), Tail(s)) \in Nat
      /\ Reports(Head(s), Tail(s)) <= Len(s) - 1
  BY <1>1, <1>2 DEF Reports, One
<1>4. Reports(c, s) = Len(s) - One(~LocalEventPasses(c, Head(s)))
  BY DEF Reports
<1> QED BY <1>1, <1>3, <1>4 DEF One

------------------------------------------------------------------------------
(* What the mirror looks at.                                               *)

Restarts == \E newEnvs \in EnvChoices : Restart(newEnvs)

Publishes(n) == \E env \in EnvLabels, d \in Data : RemotePut(n, env, d)

SameRemote(n) ==
    /\ remote'[n] = remote[n] /\ remoteRv'[n] = remoteRv[n]
    /\ remoteCache'[n] = remoteCache[n] /\ remoteEvents'[n] = remoteEvents[n]

(* The ways in which a step changes the remote side of a name.             *)
LEMMA RemoteMoved ==
    ASSUME RemoteTypes, [Next]_vars, NEW n \in Names
    PROVE  \/ SameRemote(n) \/ Publishes(n) \/ RemoteDelete(n)
           \/ DeliverRemote(n) \/ RelistRemote(n) \/ Restarts
<1>1. UNCHANGED remoteVars => SameRemote(n)
  BY DEF remoteVars, SameRemote
<1>2. ASSUME NEW m \in Names, m # n,
             Publishes(m) \/ RemoteDelete(m) \/ DeliverRemote(m) \/ RelistRemote(m)
      PROVE  SameRemote(n)
  <2>1. CASE Publishes(m) \/ RemoteDelete(m)
    BY <1>2, <2>1 DEF Publishes, RemotePut, RemoteDelete, StoreRemote, RemoteTypes, SameRemote
  <2>2. CASE DeliverRemote(m) \/ RelistRemote(m)
    BY <1>2, <2>2 DEF DeliverRemote, RelistRemote, RemoteTypes, SameRemote
  <2> QED BY <1>2, <2>1, <2>2
<1>3. \/ UNCHANGED remoteVars
      \/ \E m \in Names : Publishes(m) \/ RemoteDelete(m) \/ DeliverRemote(m) \/ RelistRemote(m)
      \/ Restarts
  BY DEF Next, vars, LocalUser, DeliverLocal, RelistLocal, Resync, Begin, TimerFires,
         ReadLocal, WriteAccepted, WriteRefused, WriteFails, LateWrite, Restarts, Publishes
<1> QED BY <1>1, <1>2, <1>3

(* The worker goes by what it went by, or by what is in the cache.         *)
LEMMA ViewMoves ==
    ASSUME OInv, ReadScoped, [Next]_vars, ~Restarts, NEW n \in Names
    PROVE  View(n)' = View(n) \/ View(n)' = RvOf(remoteCache'[n])
<1>1. TypeOK /\ PendingIsCurrent /\ n # None
  BY NoneAssumption DEF OInv, VInv, TInv
<1>2. CASE Outside
  BY <1>2, OutsideKeeps DEF View, taskVars
<1>3. ASSUME NEW m \in Names, Begin(m)
      PROVE  View(n)' = View(n) \/ View(n)' = RvOf(remoteCache'[n])
  <2>1. current = None /\ current' = m /\ remoteRead' = remoteCache[m] /\ pending' = pending
    BY <1>3 DEF Begin
  <2>2. pending = None
    BY <1>1, <2>1, NoneAssumption DEF PendingIsCurrent
  <2> QED BY <1>1, <2>1, <2>2 DEF View
<1>4. CASE ReadLocal
  <2>1. CASE current' = None
    BY <1>1, <2>1 DEF View
  <2>2. CASE current' # None
    <3>1. /\ current' = current /\ current \in Names /\ pending = None /\ pending' # None
          /\ remoteRead \in RemoteObject \cup {None}
          /\ localCache[current] \in LocalObject \cup {None}
          /\ pending' = Decide(current, remoteRead, localCache[current], envs)
      BY <1>1, <1>4, <2>2 DEF ReadLocal, Finish, TypeOK
    <3>2. Reflects(pending', remoteRead)
      BY <3>1, DecideReflects DEF ReadScoped
    <3>3. current = n => View(n)' = RvOf(remoteRead)
      BY <3>1, <3>2 DEF View, Reflects, Puts, RvOf
    <3> QED BY <3>1, <3>3 DEF View
  <2> QED BY <2>1, <2>2
<1>5. CASE WriteAccepted \/ WriteRefused \/ WriteFails
  BY <1>1, <1>5 DEF WriteAccepted, WriteRefused, WriteFails, Finish, View
<1> QED BY <1>2, <1>3, <1>4, <1>5 DEF Next, Outside, Restarts

(* The version it goes by is one the cloud gave out.                       *)
LEMMA ViewType ==
    ASSUME OInv, NEW n \in Names
    PROVE  /\ View(n) \in Nat /\ View(n) <= remoteRv[n] /\ remoteRv[n] \in Nat
<1>1. /\ remoteRv[n] \in Nat /\ TypeOK /\ HeldBehind /\ RemoteOrdered /\ PendingIsCurrent
      /\ remoteCache[n] \in RemoteObject \cup {None}
  BY DEF OInv, VInv, TInv, TypeOK
<1>2. CASE current # n
  BY <1>1, <1>2 DEF View, RvOf, RemoteObject, Versions, RemoteOrdered, Behind
<1>3. CASE current = n /\ pending = None
  <2>1. remoteRead \in RemoteObject \cup {None}
    BY <1>1 DEF TypeOK
  <2> QED BY <1>1, <1>3, <2>1 DEF View, RvOf, RemoteObject, Versions, HeldBehind, Behind
<1>4. CASE current = n /\ pending # None
  <2>1. pending \in Writes /\ pending.name = n
    BY <1>1, <1>4 DEF TypeOK, PendingIsCurrent
  <2>2. pending.obj.lastRemote # None => pending.obj.lastRemote \in Nat
    BY <2>1 DEF Writes, LocalObject, Versions
  <2> QED BY <1>1, <1>4, <2>1, <2>2 DEF View, HeldBehind, Behind
<1> QED BY <1>2, <1>3, <1>4

(* Nothing new is to be seen.                                              *)
Shrunk(n) ==
    /\ remoteRv'[n] = remoteRv[n]
    /\ \A v : Later(remoteEvents[n], v) => Later(remoteEvents'[n], v)
    /\ \/ remoteCache'[n] \in {None, remoteCache[n]}
       \/ \E i \in DOMAIN remoteEvents[n] : remoteCache'[n] = remoteEvents[n][i]

Ordered(n) == Rising(remoteCache'[n], remoteEvents'[n])

(* If the cloud publishes nothing, nothing new is to be seen.              *)
LEMMA Shrinks ==
    ASSUME RemoteTypes, Watched, Sequenced, NEW n \in Names,
           SameRemote(n) \/ RemoteDelete(n) \/ DeliverRemote(n) \/ RelistRemote(n)
    PROVE  Shrunk(n) /\ Ordered(n)
<1> DEFINE c == remoteCache[n]
           s == remoteEvents[n]
           T == RemoteObject \cup {None}
<1>1. /\ c \in T /\ s \in Seq(T) /\ None \in T
      /\ Rising(c, s) /\ Link(c, s, Len(s)) = EnvScoped(remote[n], envs)
  BY DEF RemoteTypes, Sequenced, Watched
<1>2. CASE SameRemote(n)
  BY <1>1, <1>2 DEF SameRemote, Shrunk, Ordered
<1>3. CASE RemoteDelete(n)
  <2>1. /\ remoteRv'[n] = remoteRv[n] /\ remoteCache'[n] = c
        /\ remoteEvents'[n] \in {s, Append(s, None)}
    BY <1>3 DEF RemoteDelete, StoreRemote, EnvScoped, RemoteTypes
  <2> HIDE DEF c, s, T
  <2>2. /\ Rising(c, Append(s, None))
        /\ \A v : Later(s, v) => Later(Append(s, None), v)
    BY <1>1, RisingAppended, LaterAppended
  <2> QED BY <1>1, <2>1, <2>2 DEF Shrunk, Ordered, c, s
<1>4. CASE DeliverRemote(n)
  <2>1. /\ remoteRv'[n] = remoteRv[n] /\ remoteCache'[n] = Head(s)
        /\ remoteEvents'[n] = Tail(s) /\ s # <<>>
    BY <1>4 DEF DeliverRemote, RemoteTypes
  <2> HIDE DEF c, s, T
  <2>2. /\ Rising(Head(s), Tail(s))
        /\ \A v : Later(s, v) => Later(Tail(s), v)
    BY <1>1, <2>1, RisingShifted, LaterShifted
  <2>3. 1 \in DOMAIN s /\ Head(s) = s[1]
    BY <1>1, <2>1
  <2> QED BY <2>1, <2>2, <2>3 DEF Shrunk, Ordered, s
<1>5. CASE RelistRemote(n)
  <2>1. /\ remoteRv'[n] = remoteRv[n] /\ remoteCache'[n] = EnvScoped(remote[n], envs)
        /\ remoteEvents'[n] = <<>> /\ Len(s) > 1
    BY <1>5 DEF RelistRemote, RemoteTypes
  <2> HIDE DEF c, s, T
  <2>2. Len(s) \in DOMAIN s /\ Link(c, s, Len(s)) = s[Len(s)]
    BY <1>1, <2>1 DEF Link
  <2> QED BY <1>1, <2>1, <2>2, RisingListed DEF Shrunk, Ordered, s
<1> QED BY <1>2, <1>3, <1>4, <1>5

(* A version of the cloud's object is appended.                            *)
LEMMA Grows ==
    ASSUME OInv, Sequenced, NEW n \in Names, Publishes(n)
    PROVE  /\ remoteRv'[n] = remoteRv[n] + 1 /\ remoteCache'[n] = remoteCache[n]
           /\ remote'[n] # None /\ Ordered(n)
           /\ Len(remoteEvents[n]) \in Nat /\ Len(remoteEvents'[n]) \in Nat
           /\ Len(remoteEvents'[n]) <= Len(remoteEvents[n]) + 1
           /\ \A v : Later(remoteEvents[n], v) /\ v < remoteRv[n] + 1
                        => Later(remoteEvents'[n], v)
           /\ UNCHANGED <<localVars, queue, delayed, taskVars, inflight, left>>
<1> DEFINE c == remoteCache[n]
           s == remoteEvents[n]
           T == RemoteObject \cup {None}
<1>1. /\ RemoteTypes /\ RemoteOrdered /\ c \in T /\ s \in Seq(T) /\ remoteRv[n] \in Nat
      /\ Rising(c, s)
  BY TypeOKParts DEF OInv, VInv, TInv, RemoteTypes, Sequenced
<1>2. PICK env \in EnvLabels, d \in Data : RemotePut(n, env, d)
  BY DEF Publishes
<1> DEFINE new == [env |-> env, data |-> d, rv |-> remoteRv[n] + 1]
           is == EnvScoped(new, envs)
<1>3. new \in RemoteObject /\ new # None /\ new.rv = remoteRv[n] + 1
  BY <1>1, NoneAssumption DEF RemoteObject, Versions
<1>4. StoreRemote(n, new)
  BY <1>2 DEF RemotePut
<1>5. is \in T /\ (is # None => is.rv = remoteRv[n] + 1)
  BY <1>3 DEF EnvScoped
<1>6. /\ remote'[n] = new /\ remoteRv'[n] = remoteRv[n] + 1 /\ remoteCache'[n] = c
      /\ remoteEvents'[n] \in {s, Append(s, is)}
  <2> HIDE DEF new
  <2> QED BY <1>1, <1>3, <1>4 DEF StoreRemote, RemoteTypes
<1>7. \A i \in 0..Len(s) : Link(c, s, i) # None => Link(c, s, i).rv < remoteRv[n] + 1
  <2>1. ASSUME NEW i \in 0..Len(s), Link(c, s, i) # None
        PROVE  Link(c, s, i).rv \in Nat /\ Link(c, s, i).rv <= remoteRv[n]
    <3>1. CASE i = 0
      BY <1>1, <2>1, <3>1 DEF Link, RemoteOrdered, Behind, RemoteObject, Versions
    <3>2. CASE i # 0
      <4>1. i \in DOMAIN s /\ s[i] \in T
        BY <1>1, <3>2
      <4> QED BY <1>1, <2>1, <3>2, <4>1 DEF Link, RemoteOrdered, RemoteObject, Versions
    <3> QED BY <3>1, <3>2
  <2> QED BY <1>1, <2>1
<1> HIDE DEF c, s, T, is, new
<1>8. Rising(c, Append(s, is))
  BY <1>1, <1>5, <1>7, RisingAppended
<1>9. \A v : Later(s, v) /\ v < remoteRv[n] + 1 => Later(Append(s, is), v)
  BY <1>1, <1>5, LaterAppended
<1>10. Len(s) \in Nat /\ Len(Append(s, is)) = Len(s) + 1
  BY <1>1, <1>5
<1>11. UNCHANGED <<localVars, queue, delayed, taskVars, inflight, left>>
  BY <1>2 DEF RemotePut
<1>12. Rising(remoteCache'[n], remoteEvents'[n])
  BY <1>1, <1>6, <1>8
<1>13. /\ Len(remoteEvents'[n]) \in Nat /\ Len(remoteEvents'[n]) <= Len(s) + 1
  BY <1>6, <1>10
<1>14. \A v : Later(s, v) /\ v < remoteRv[n] + 1 => Later(remoteEvents'[n], v)
  BY <1>6, <1>9
<1>15. remoteRv'[n] = remoteRv[n] + 1 /\ remoteCache'[n] = c /\ remote'[n] # None
  BY <1>3, <1>6
<1> QED BY <1>10, <1>11, <1>12, <1>13, <1>14, <1>15 DEF Ordered, c, s

(* The remote watch stays in order.                                        *)
LEMMA SequencedRemote ==
    ASSUME OInv, Watched, ReadScoped, Sequenced, [Next]_vars, NEW n \in Names
    PROVE  Ordered(n) /\ Later(remoteEvents'[n], View(n)')
<1>1. RemoteTypes /\ TypeOK' /\ OInv'
  BY TypeOKParts, OInvNext DEF OInv, VInv, TInv
<1>2. CASE Restarts
  <2>1. remoteEvents'[n] = <<>>
    BY <1>2 DEF Restarts, Restart
  <2> QED BY <2>1, RisingListed DEF Ordered
<1>3. CASE ~Restarts
  <2>1. Ordered(n) /\ Later(remoteEvents'[n], View(n))
    <3>1. CASE Publishes(n)
      <4>1. View(n) \in Nat /\ View(n) <= remoteRv[n] /\ remoteRv[n] \in Nat
        BY ViewType
      <4>2. View(n) < remoteRv[n] + 1
        BY <4>1
      <4> QED BY <3>1, <4>2, Grows DEF Sequenced
    <3>2. CASE SameRemote(n) \/ RemoteDelete(n) \/ DeliverRemote(n) \/ RelistRemote(n)
      BY <1>1, <3>2, Shrinks DEF Shrunk, Sequenced
    <3> QED BY <1>1, <1>3, <3>1, <3>2, RemoteMoved
  <2>2. Later(remoteEvents'[n], RvOf(remoteCache'[n]))
    <3> DEFINE T == RemoteObject \cup {None}
    <3>1. remoteCache'[n] \in T /\ remoteEvents'[n] \in Seq(T)
      BY <1>1 DEF TypeOK
    <3>2. CASE remoteCache'[n] = None
      <4>1. \A j \in DOMAIN remoteEvents'[n] : remoteEvents'[n][j] \in T
        BY <3>1
      <4> QED BY <3>2, <4>1 DEF Later, RvOf, RemoteObject, Versions
    <3>3. CASE remoteCache'[n] # None
      <4> HIDE DEF T
      <4> QED BY <2>1, <3>1, <3>3, RisingLater DEF RvOf, Ordered
    <3> QED BY <3>2, <3>3
  <2> QED BY <1>3, <2>1, <2>2, ViewMoves
<1> QED BY <1>2, <1>3

------------------------------------------------------------------------------
(* The local side.                                                         *)

Writing(w) == w # None /\ Accepted(w) /\ Apply(w)

(* The ways in which a step changes the local side of a name.              *)
LocalWays(n) ==
    \/ SameLocal(n) /\ localRv'[n] = localRv[n]
    \/ LocalUser(n)
    \/ (WriteAccepted \/ WriteFails) /\ Writing(pending) /\ pending.name = n
    \/ LateWrite /\ Writing(inflight) /\ inflight.name = n
    \/ DeliverLocal(n) \/ RelistLocal(n) \/ Restarts

(* Storing an object under another name changes nothing here.              *)
LEMMA StoreOther ==
    ASSUME LocalTypes, NEW m \in Names, NEW new, StoreLocal(m, new), NEW n \in Names \ {m}
    PROVE  SameLocal(n) /\ localRv'[n] = localRv[n]
<1> DEFINE stored == IF new = None THEN None ELSE [new EXCEPT !.rv = localRv[m] + 1]
<1>1. /\ local' = [local EXCEPT ![m] = stored]
      /\ localRv' = IF new = None THEN localRv ELSE [localRv EXCEPT ![m] = @ + 1]
      /\ localEvents' = IF ManagedScoped(local[m]) = None /\ ManagedScoped(stored) = None
                        THEN localEvents
                        ELSE [localEvents EXCEPT ![m] = Append(@, ManagedScoped(stored))]
      /\ localCache' = localCache
  BY DEF StoreLocal
<1> HIDE DEF stored
<1> QED BY <1>1 DEF LocalTypes, SameLocal

(* Every step is one of these.                                             *)
LEMMA LocalWay ==
    ASSUME LocalTypes, ControllerTypes, [Next]_vars, NEW n \in Names
    PROVE  LocalWays(n)
<1>1. UNCHANGED localVars => SameLocal(n) /\ localRv'[n] = localRv[n]
  BY DEF localVars, SameLocal
<1>2. ASSUME NEW m \in Names, m # n, LocalUser(m) \/ DeliverLocal(m) \/ RelistLocal(m)
      PROVE  SameLocal(n) /\ localRv'[n] = localRv[n]
  <2>1. CASE LocalUser(m)
    BY <1>2, <2>1, LocalUserStores, StoreOther
  <2>2. CASE DeliverLocal(m) \/ RelistLocal(m)
    BY <1>2, <2>2 DEF DeliverLocal, RelistLocal, SameLocal, LocalTypes
  <2> QED BY <1>2, <2>1, <2>2
<1>3. ASSUME NEW w \in Writes, w.name # n, Apply(w)
      PROVE  SameLocal(n) /\ localRv'[n] = localRv[n]
  <2>1. w.name \in Names
    BY DEF Writes
  <2> QED BY <1>3, <2>1, StoreOther DEF Apply
<1>4. WriteAccepted \/ WriteFails => Writing(pending) \/ UNCHANGED localVars
  BY DEF WriteAccepted, WriteFails, Writing
<1>5. LateWrite => Writing(inflight) \/ UNCHANGED localVars
  BY DEF LateWrite, Writing
<1>6. WriteAccepted \/ WriteFails => LocalWays(n)
  BY <1>1, <1>3, <1>4 DEF LocalWays, Writing, ControllerTypes
<1>7. LateWrite => LocalWays(n)
  BY <1>1, <1>3, <1>5 DEF LocalWays, Writing, ControllerTypes
<1>8. \/ UNCHANGED localVars
      \/ \E m \in Names : LocalUser(m) \/ DeliverLocal(m) \/ RelistLocal(m)
      \/ WriteAccepted \/ WriteFails \/ LateWrite \/ Restarts
  BY DEF Next, vars, RemotePut, RemoteDelete, DeliverRemote, RelistRemote, Resync, Begin,
         TimerFires, ReadLocal, WriteRefused, Restarts
<1> QED BY <1>1, <1>2, <1>6, <1>7, <1>8 DEF LocalWays

(* What storing does to the watch.                                         *)
LEMMA StoreMoves ==
    ASSUME LocalTypes, StoredVersions, CachedVersions, Sequenced, Followed,
           NEW n \in Names, NEW new \in LocalObject \cup {None}, StoreLocal(n, new)
    PROVE  /\ localCache'[n] = localCache[n]
           /\ Rising(localCache'[n], localEvents'[n])
           /\ Link(localCache'[n], localEvents'[n], Len(localEvents'[n])) = HaveNext(n)
           /\ \A v \in Nat : v <= localRv[n] /\ Later(localEvents[n], v)
                                => Later(localEvents'[n], v)
           /\ Reports(localCache[n], localEvents[n]) \in Nat
           /\ Reports(localCache'[n], localEvents'[n]) \in Nat
           /\ Reports(localCache'[n], localEvents'[n])
                 <= Reports(localCache[n], localEvents[n]) + 1
           /\ localEvents[n] = <<>> /\ ~LocalEventPasses(localCache[n], HaveNext(n))
                 => Reports(localCache'[n], localEvents'[n]) = 0
           /\ localRv'[n] = IF new = None THEN localRv[n] ELSE localRv[n] + 1
           /\ local'[n] = None <=> new = None
<1> DEFINE c == localCache[n]
           s == localEvents[n]
           x == HaveNext(n)
<1>1. /\ c \in Copied /\ s \in Seq(Copied) /\ Rising(c, s) /\ localRv[n] \in Nat
      /\ Link(c, s, Len(s)) = Have(n)
  BY DEF LocalTypes, Copied, Sequenced, Followed
<1>2. /\ localCache'[n] = c
      /\ localEvents'[n] = IF Have(n) = None /\ x = None THEN s ELSE Append(s, x)
  BY StoredView DEF StoredLocal
<1>3. localRv'[n] = IF new = None THEN localRv[n] ELSE localRv[n] + 1
  BY DEF StoreLocal, LocalTypes
<1>4. local'[n] = None <=> new = None
  BY StoredCopy
<1>5. x \in Copied /\ (x # None => x.rv = localRv[n] + 1)
  <2>1. LocalTypes'
    BY StoreLocalType
  <2>2. x = None \/ x = local'[n]
    BY DEF HaveNext, ManagedScoped
  <2>3. local'[n] \in Copied
    BY <2>1 DEF LocalTypes, Copied
  <2> QED BY <2>2, <2>3, StoredCopy DEF Copied
<1>6. \A i \in 0..Len(s) : Link(c, s, i) # None => Link(c, s, i).rv < localRv[n] + 1
  <2>1. ASSUME NEW i \in 0..Len(s), Link(c, s, i) # None
        PROVE  Seen(n, Link(c, s, i).rv)
    <3>1. i = 0 \/ i \in DOMAIN s
      BY <1>1
    <3> QED BY <2>1, <3>1 DEF Link, CachedVersions
  <2> QED BY <1>1, <2>1 DEF Seen, Versions
<1> HIDE DEF c, s, x
<1>7. /\ Rising(c, Append(s, x))
      /\ \A v \in Nat : v <= localRv[n] /\ Later(s, v) => Later(Append(s, x), v)
  <2>1. \A v \in Nat : v <= localRv[n] => v < localRv[n] + 1
    BY <1>1
  <2> QED BY <1>1, <1>5, <1>6, <2>1, RisingAppended, LaterAppended
<1>8. /\ Reports(c, s) \in Nat /\ Reports(c, Append(s, x)) \in Nat
      /\ Reports(c, Append(s, x)) <= Reports(c, s) + 1
      /\ s = <<>> /\ ~LocalEventPasses(c, x) => Reports(c, Append(s, x)) = 0
  BY <1>1, <1>5, ReportsAppended
<1>9. Link(c, Append(s, x), Len(Append(s, x))) = x
  BY <1>1, <1>5, Extended
<1>10. s = <<>> => Reports(c, s) = 0
  BY DEF Reports
<1>11. CASE Have(n) = None /\ x = None
  <2>1. localEvents'[n] = s
    BY <1>2, <1>11
  <2>2. Reports(c, s) <= Reports(c, s) + 1
    BY <1>8
  <2> QED BY <1>1, <1>2, <1>3, <1>4, <1>8, <1>10, <1>11, <2>1, <2>2 DEF c, s, x
<1>12. CASE ~(Have(n) = None /\ x = None)
  <2>1. localEvents'[n] = Append(s, x)
    BY <1>2, <1>12
  <2> QED BY <1>2, <1>3, <1>4, <1>7, <1>8, <1>9, <2>1 DEF c, s, x
<1> QED BY <1>11, <1>12

(* The local watch stays in order and leads to what there is.              *)
LEMMA LocalNext ==
    ASSUME OInv, Sequenced, Followed, [Next]_vars, NEW n \in Names
    PROVE  /\ Rising(localCache'[n], localEvents'[n])
           /\ Link(localCache'[n], localEvents'[n], Len(localEvents'[n])) = HaveNext(n)
           /\ \A v \in Nat : v <= localRv[n] /\ Later(localEvents[n], v)
                                => Later(localEvents'[n], v)
<1> DEFINE c == localCache[n]
           s == localEvents[n]
           Result == /\ Rising(localCache'[n], localEvents'[n])
                     /\ Link(localCache'[n], localEvents'[n], Len(localEvents'[n])) = HaveNext(n)
                     /\ \A v \in Nat : v <= localRv[n] /\ Later(s, v) => Later(localEvents'[n], v)
<1>1. /\ LocalTypes /\ ControllerTypes /\ StoredVersions /\ CachedVersions /\ LocalWays(n)
      /\ c \in Copied /\ s \in Seq(Copied) /\ Rising(c, s) /\ Link(c, s, Len(s)) = Have(n)
  BY TypeOKParts, LocalWay
     DEF OInv, VInv, TInv, ManagedVersions, LocalTypes, Copied, Sequenced, Followed
<1>2. CASE SameLocal(n)
  BY <1>1, <1>2 DEF SameLocal, Have, HaveNext
<1>3. ASSUME NEW new \in LocalObject \cup {None}, StoreLocal(n, new)
      PROVE  Result
  BY <1>1, <1>3, StoreMoves
<1>4. CASE LocalUser(n)
  BY <1>1, <1>3, <1>4, LocalUserStores
<1>5. ASSUME NEW w \in Writes \cup {None}, Writing(w), w.name = n
      PROVE  Result
  <2>1. (IF w.op = "delete" THEN None ELSE w.obj) \in LocalObject \cup {None}
    BY <1>5 DEF Writing, Writes
  <2> QED BY <1>3, <1>5, <2>1 DEF Writing, Apply
<1>6. CASE DeliverLocal(n)
  <2>1. /\ localCache'[n] = Head(s) /\ localEvents'[n] = Tail(s) /\ s # <<>>
        /\ HaveNext(n) = Have(n)
    BY <1>1, <1>6 DEF DeliverLocal, LocalTypes, Have, HaveNext
  <2> HIDE DEF c, s
  <2>2. Rising(Head(s), Tail(s)) /\ \A v : Later(s, v) => Later(Tail(s), v)
    BY <1>1, <2>1, RisingShifted, LaterShifted
  <2>3. Link(Head(s), Tail(s), Len(Tail(s))) = Have(n)
    <3>1. /\ Len(Tail(s)) \in Nat /\ Len(s) = Len(Tail(s)) + 1
          /\ \A i \in 0..Len(Tail(s)) : Link(Head(s), Tail(s), i) = Link(c, s, i + 1)
      BY <1>1, <2>1, Shifted
    <3>2. Len(Tail(s)) \in 0..Len(Tail(s))
      BY <3>1
    <3> QED BY <1>1, <3>1, <3>2
  <2> QED BY <2>1, <2>2, <2>3 DEF s
<1>7. CASE RelistLocal(n) \/ Restarts
  <2>1. localEvents'[n] = <<>> /\ localCache'[n] = HaveNext(n)
    BY <1>1, <1>7 DEF RelistLocal, Restarts, Restart, LocalTypes, HaveNext
  <2>2. Len(<<>>) = 0
    OBVIOUS
  <2> QED BY <2>1, <2>2, RisingListed DEF Link
<1> QED BY <1>1, <1>2, <1>4, <1>5, <1>6, <1>7 DEF LocalWays, ControllerTypes

(* An update that is decided on carries the version of the cached object.  *)
LEMMA DecideVersion ==
    ASSUME NEW n \in Names, NEW rem \in RemoteObject \cup {None},
           NEW loc \in LocalObject \cup {None}, NEW envSet,
           NEW d, d = Decide(n, rem, loc, envSet), d # None, d.op = "update"
    PROVE  loc # None /\ d.obj.rv = loc.rv /\ d.name = n
<1>1. \/ d = Request(n, "create", UpdateLastGeneration(Merged(rem, NewObject(rem))))
      \/ loc # None /\ d = Request(n, "update", UpdateLastGeneration(Merged(rem, loc)))
      \/ d = Request(n, "delete", loc)
      \/ d = None
  BY DEF Decide
<1>2. loc # None /\ d = Request(n, "update", UpdateLastGeneration(Merged(rem, loc)))
  BY <1>1 DEF Request
<1>3. UpdateLastGeneration(Merged(rem, loc)).rv = loc.rv
  BY DEF UpdateLastGeneration, Merged
<1> QED BY <1>2, <1>3 DEF Request

SignedNext(w) ==
    /\ Puts(w) => w.obj.lastGen = w.obj.rv /\ w.obj.managed
    /\ w # None /\ w.op = "update" => Later(localEvents'[w.name], w.obj.rv)

(* What is being updated has been in the cache, whoever updates it.        *)
LEMMA SignedSteps ==
    ASSUME OInv, Sequenced, Followed, Signed(pending), Signed(inflight), [Next]_vars
    PROVE  SignedNext(pending') /\ SignedNext(inflight')
<1>1. /\ ControllerTypes /\ LocalTypes /\ TypeOK /\ UpdateVersions
      /\ pending \in Writes \cup {None} /\ inflight \in Writes \cup {None}
      /\ TaskStep
  BY TypeOKParts, TaskSteps DEF OInv, VInv, TInv, ManagedVersions, ControllerTypes
<1>2. ASSUME NEW w \in Writes \cup {None}, Signed(w),
             w # None /\ w.op = "update" => Seen(w.name, w.obj.rv)
      PROVE  SignedNext(w)
  <2>1. ASSUME w # None, w.op = "update"
        PROVE  Later(localEvents'[w.name], w.obj.rv)
    <3>1. w.name \in Names /\ w.obj.rv \in Nat /\ w.obj.rv <= localRv[w.name]
      BY <1>2, <2>1 DEF Seen, Versions, Writes
    <3> QED BY <1>2, <2>1, <3>1, LocalNext DEF Signed
  <2> QED BY <1>2, <2>1 DEF SignedNext, Signed
<1>3. SignedNext(pending) /\ SignedNext(inflight) /\ SignedNext(None)
  <2>1. SignedNext(None)
    BY DEF SignedNext, Puts
  <2> QED BY <1>1, <1>2, <2>1 DEF UpdateVersions
<1>4. CASE pending' \in {pending, None} /\ inflight' \in {None, pending, inflight}
  BY <1>3, <1>4
<1>5. ASSUME NEW n \in Names, Begin(n)
      PROVE  pending' \in {pending, None} /\ inflight' \in {None, pending, inflight}
  BY <1>5 DEF Begin
<1>6. CASE ReadLocal /\ pending' # None
  <2>1. /\ current \in Names /\ remoteRead \in RemoteObject \cup {None}
        /\ localCache[current] \in Copied /\ localEvents[current] \in Seq(Copied)
        /\ Rising(localCache[current], localEvents[current])
    BY <1>1, <1>6 DEF ReadLocal, TypeOK, Copied, Sequenced
  <2>2. /\ pending' = Decide(current, remoteRead, localCache[current], envs)
        /\ inflight' = inflight /\ localEvents' = localEvents
    BY <1>6 DEF ReadLocal, Finish, localVars
  <2>3. Puts(pending') => pending'.obj.lastGen = pending'.obj.rv /\ pending'.obj.managed
    BY ZenonT(30), <2>1, <2>2, DecideMarks, DecidePuts DEF Copied
  <2>4. ASSUME pending'.op = "update"
        PROVE  Later(localEvents'[pending'.name], pending'.obj.rv)
    <3>1. /\ localCache[current] # None /\ pending'.obj.rv = localCache[current].rv
          /\ pending'.name = current
      <4> DEFINE d == pending'
                 loc == localCache[current]
      <4>1. d = Decide(current, remoteRead, loc, envs) /\ d # None /\ d.op = "update"
        BY <1>6, <2>2, <2>4
      <4>2. loc \in LocalObject \cup {None}
        BY <2>1 DEF Copied
      <4> HIDE DEF d, loc
      <4>3. current \in Names /\ remoteRead \in RemoteObject \cup {None}
        BY <2>1
      <4>4. loc # None /\ d.obj.rv = loc.rv /\ d.name = current
        BY ONLY <4>1, <4>2, <4>3, DecideVersion
      <4> QED BY <4>4 DEF d, loc
    <3>2. Later(localEvents[current], localCache[current].rv)
      BY <2>1, <3>1, RisingLater
    <3> QED BY <2>2, <3>1, <3>2
  <2> QED BY <1>3, <2>2, <2>3, <2>4 DEF SignedNext
<1>7. LateWrite => pending' \in {pending, None} /\ inflight' \in {None, pending, inflight}
  BY DEF LateWrite, taskVars
<1> QED BY <1>1, <1>3, <1>4, <1>5, <1>6, <1>7 DEF TaskStep

(* The worker reads what is scoped to the controller's environments.       *)
LEMMA ReadScopedNext ==
    ASSUME OInv, Watched, ReadScoped, [Next]_vars
    PROVE  ReadScoped'
<1>1. RemoteTypes /\ ReadFrom
  BY TypeOKParts, TaskSteps, ReadsFrom DEF OInv, VInv, TInv
<1>2. CASE Restarts
  BY <1>2 DEF Restarts, Restart, ReadScoped
<1>3. CASE ~Restarts
  <2>1. envs' = envs
    BY <1>3 DEF Next, vars, RemotePut, RemoteDelete, LocalUser, DeliverRemote, DeliverLocal,
                RelistRemote, RelistLocal, Resync, Begin, TimerFires, ReadLocal, WriteAccepted,
                WriteRefused, WriteFails, LateWrite, Restarts
  <2> QED BY <1>1, <2>1, CachedScoped DEF ReadFrom, ReadScoped
<1> QED BY <1>2, <1>3

------------------------------------------------------------------------------
(* The account of a name.                                                  *)

(* Everything that is counted is a number.                                 *)
Counted ==
    /\ \A n \in Names :
          /\ Requests(n) \in Nat /\ Cloud(n) \in Nat /\ Edge(n) \in Nat
          /\ LateCost(n) \in Nat /\ Absence(n) \in {0, 1} /\ remoteRv[n] \in Nat
          /\ localRv[n] \in Nat /\ localRv[n] <= Edge(n)
    /\ Disturbed \in Int

(* In every state the invariants allow.                                    *)
LEMMA CountedNow == OInv => Counted
<1> SUFFICES ASSUME OInv PROVE Counted
  OBVIOUS
<1>1. /\ LocalTypes /\ RemoteTypes /\ left \in [Disturbances -> Nat]
      /\ Budget \in [Disturbances -> Nat]
  BY TypeOKParts, ConstantsAssumption DEF OInv, VInv, TInv, TypeOK
<1>2. ASSUME NEW n \in Names
      PROVE  /\ Requests(n) \in Nat /\ Cloud(n) \in Nat /\ Edge(n) \in Nat
             /\ LateCost(n) \in Nat /\ Absence(n) \in {0, 1} /\ remoteRv[n] \in Nat
             /\ localRv[n] \in Nat /\ localRv[n] <= Edge(n)
  <2>1. Len(remoteEvents[n]) \in Nat /\ remoteRv[n] \in Nat /\ localRv[n] \in Nat
    BY <1>1 DEF RemoteTypes, LocalTypes
  <2>2. Reports(localCache[n], localEvents[n]) \in Nat
    <3>1. localCache[n] \in Copied /\ localEvents[n] \in Seq(Copied)
      BY <1>1 DEF LocalTypes, Copied
    <3>2. CASE localEvents[n] = <<>>
      BY <3>2 DEF Reports
    <3>3. CASE localEvents[n] # <<>>
      BY <3>1, <3>3, ReportsShifted
    <3> QED BY <3>2, <3>3
  <2>3. /\ Requests(n) \in Nat /\ LateCost(n) \in Nat /\ Absence(n) \in {0, 1}
    BY DEF Requests, LateCost, Absence, One
  <2>4. Cloud(n) \in Nat /\ Edge(n) \in Nat /\ localRv[n] <= Edge(n)
    <3>1. One(remote[n] # None) \in Nat
      BY DEF One
    <3> QED BY <2>1, <2>2, <3>1 DEF Cloud, Edge
  <2> QED BY <2>1, <2>3, <2>4
<1>3. \A d \in Disturbances : Spent(d) \in Int
  BY <1>1 DEF Spent
<1>4. {"user", "restart", "fault", "resync"} \subseteq Disturbances
  BY DEF Disturbances
<1> QED BY <1>2, <1>3, <1>4 DEF Counted, Disturbed

(* And in the one after it.                                                *)
LEMMA CountedNext == OInv /\ [Next]_vars => Counted /\ Counted'
<1>1. OInv' => Counted'
  BY CountedNow, PTL
<1> QED BY <1>1, OInvNext, CountedNow

(* Which disturbances count.                                               *)
LEMMA SpendCounts ==
    ASSUME left \in [Disturbances -> Nat]
    PROVE  /\ \A d \in {"user", "restart", "fault", "resync"} :
                 Spend(d) => Disturbed' = Disturbed + 1
           /\ Spend("relist") \/ left' = left => Disturbed' = Disturbed
<1>1. Budget \in [Disturbances -> Nat]
  BY ConstantsAssumption
<1>2. ASSUME NEW d \in {"user", "restart", "fault", "resync"}, Spend(d)
      PROVE  Disturbed' = Disturbed + 1
  BY <1>1, <1>2 DEF Spend, Disturbed, Spent, Disturbances
<1>3. ASSUME Spend("relist")
      PROVE  Disturbed' = Disturbed
  BY <1>1, <1>3 DEF Spend, Disturbed, Spent, Disturbances
<1>4. left' = left => Disturbed' = Disturbed
  BY DEF Disturbed, Spent
<1> QED BY <1>2, <1>3, <1>4

FloorNext(n, f) ==
    /\ f \in 0..remoteRv'[n]
    /\ View(n)' # 0 => f < View(n)'
    /\ remoteCache'[n] # None => f < remoteCache'[n].rv
    /\ Later(remoteEvents'[n], f)

(* A version the worker does not go by any more, and does not find in the  *)
(* cache either, is out of sight.                                          *)
LEMMA FloorMoves ==
    ASSUME OInv, ReadScoped, Sequenced, [Next]_vars, ~Restarts, NEW n \in Names, Shrunk(n),
           NEW f, Floor(n, f)
    PROVE  /\ FloorNext(n, f)
           /\ View(n) # 0 /\ View(n)' = 0 => FloorNext(n, View(n)) /\ f < View(n)
<1> DEFINE T == RemoteObject \cup {None}
<1>1. /\ remoteCache[n] \in T /\ remoteEvents[n] \in Seq(T) /\ remoteRv[n] \in Nat
      /\ Later(remoteEvents[n], View(n)) /\ remoteRv'[n] = remoteRv[n]
  BY DEF OInv, VInv, TInv, TypeOK, Sequenced, Shrunk
<1>2. remoteCache'[n] \in T
  BY <1>1 DEF Shrunk
<1>3. View(n)' = View(n) \/ View(n)' = RvOf(remoteCache'[n])
  BY ViewMoves
<1>4. /\ View(n) \in Nat /\ View(n) <= remoteRv[n]
  BY ViewType
<1>5. f \in Nat /\ f <= remoteRv[n] /\ (View(n) # 0 => f < View(n))
      /\ (remoteCache[n] # None => f < remoteCache[n].rv) /\ Later(remoteEvents[n], f)
  BY <1>1 DEF Floor
<1> HIDE DEF T
<1>6. remoteCache'[n] # None => f < remoteCache'[n].rv
  BY <1>1, <1>5 DEF Shrunk, Later
<1>7. View(n)' # 0 => f < View(n)'
  BY <1>3, <1>5, <1>6 DEF RvOf
<1>8. FloorNext(n, f)
  BY <1>1, <1>5, <1>6, <1>7 DEF FloorNext, Shrunk
<1>9. ASSUME View(n) # 0, View(n)' = 0
      PROVE  FloorNext(n, View(n)) /\ f < View(n)
  <2>1. RvOf(remoteCache'[n]) = 0
    BY <1>3, <1>9
  <2>2. remoteCache'[n] = None
    BY <1>2, <2>1 DEF T, RvOf, RemoteObject, Versions
  <2> QED BY <1>1, <1>4, <1>5, <1>9, <2>2 DEF FloorNext, Shrunk
<1> QED BY <1>8, <1>9

(* An object that is still looked at goes, or comes.                       *)
Gone(n) == One(local[n] # None /\ local'[n] = None /\ View(n) # 0)

Made(n) == One(local[n] = None /\ local'[n] # None /\ View(n) # 0)

GapNext(n, f) == Absence(n)' + (remoteRv'[n] - f)

(* An absence that comes is one that was, was made, or is paid from a      *)
(* version that is out of sight.                                           *)
LEMMA GapMoves ==
    ASSUME OInv, ReadScoped, Sequenced, [Next]_vars, ~Restarts, NEW n \in Names, Shrunk(n),
           NEW f, Floor(n, f)
    PROVE  \E g \in 0..remoteRv'[n] : /\ FloorNext(n, g)
                                      /\ GapNext(n, g) + Made(n) <= Gap(n, f) + Gone(n)
<1>1. /\ remoteRv'[n] = remoteRv[n] /\ remoteRv[n] \in Nat
      /\ View(n) \in Nat /\ View(n) <= remoteRv[n]
  BY ViewType DEF Shrunk
<1>2. /\ FloorNext(n, f)
      /\ View(n) # 0 /\ View(n)' = 0 => FloorNext(n, View(n)) /\ f < View(n)
  BY FloorMoves
<1>3. f \in 0..remoteRv[n]
  BY DEF Floor
<1> DEFINE v == View(n)
           w == View(n)'
<1>4. /\ Absence(n) = One(remoteRv[n] > 0 /\ (v = 0 \/ local[n] = None))
      /\ Absence(n)' = One(remoteRv[n] > 0 /\ (w = 0 \/ local'[n] = None))
  BY <1>1 DEF Absence
<1>5. /\ Gone(n) = One(local[n] # None /\ local'[n] = None /\ v # 0)
      /\ Made(n) = One(local[n] = None /\ local'[n] # None /\ v # 0)
  BY DEF Gone, Made
<1>6. v # 0 => remoteRv[n] > 0
  BY <1>1
<1> HIDE DEF v, w
<1>7. CASE v # 0 /\ w = 0
  <2>1. FloorNext(n, v) /\ f < v /\ v \in 0..remoteRv'[n] /\ v \in Nat /\ v <= remoteRv[n]
    BY <1>1, <1>2, <1>7 DEF v, w
  <2>2. GapNext(n, v) + Made(n) <= Gap(n, f) + Gone(n)
    BY <1>1, <1>3, <1>4, <1>5, <1>7, <2>1 DEF GapNext, Gap, One
  <2> QED BY <2>1, <2>2
<1>8. CASE ~(v # 0 /\ w = 0)
  <2>1. FloorNext(n, f) /\ f \in 0..remoteRv'[n]
    BY <1>1, <1>2, <1>3
  <2>2. GapNext(n, f) + Made(n) <= Gap(n, f) + Gone(n)
    BY <1>1, <1>3, <1>4, <1>5, <1>6, <1>8 DEF GapNext, Gap, One
  <2> QED BY <2>1, <2>2
<1> QED BY <1>7, <1>8

PaidNext(n, f) == Weight(n)' + GapNext(n, f) <= 4 * remoteRv'[n] + 3 * Disturbed'

AllowedNext(n) == \E f \in 0..remoteRv'[n] : FloorNext(n, f) /\ PaidNext(n, f)

(* What a step costs a name and what it brings.                            *)
Balanced(n) == Weight(n)' + Gone(n) <= Weight(n) + Made(n) + 3 * (Disturbed' - Disturbed)

(* A name that gets what it needs can go on paying.                        *)
LEMMA AllowedBalanced ==
    ASSUME OInv, ReadScoped, Sequenced, Allowed, [Next]_vars, ~Restarts, NEW n \in Names,
           Shrunk(n), Balanced(n)
    PROVE  AllowedNext(n)
<1>1. PICK f \in 0..remoteRv[n] : Floor(n, f) /\ Paid(n, f)
  BY DEF Allowed
<1>2. PICK g \in 0..remoteRv'[n] : /\ FloorNext(n, g)
                                   /\ GapNext(n, g) + Made(n) <= Gap(n, f) + Gone(n)
  BY <1>1, GapMoves
<1> DEFINE x == Weight(n)
           y == Weight(n)'
           gone == Gone(n)
           made == Made(n)
           gap == Gap(n, f)
           gapNext == GapNext(n, g)
           spent == Disturbed
           spentNext == Disturbed'
           rv == remoteRv[n]
<1>3. Counted /\ Counted'
  BY CountedNext
<1>4. x \in Int /\ y \in Int /\ spent \in Int /\ spentNext \in Int
  BY <1>3 DEF Counted, Weight
<1>5. rv \in Nat /\ remoteRv'[n] = rv
  BY <1>3 DEF Counted, Shrunk
<1>6. gap \in Int /\ gapNext \in Int /\ gone \in Int /\ made \in Int
  BY <1>1, <1>2, <1>3, <1>5 DEF Counted, Gap, GapNext, Gone, Made, One
<1>7. /\ x + gap <= 4 * rv + 3 * spent
      /\ gapNext + made <= gap + gone
      /\ y + gone <= x + made + 3 * (spentNext - spent)
  BY <1>1, <1>2 DEF Paid, Balanced
<1> HIDE DEF x, y, gone, made, gap, gapNext, spent, spentNext, rv
<1>8. y + gapNext <= 4 * rv + 3 * spentNext
  BY <1>4, <1>5, <1>6, <1>7
<1>9. PaidNext(n, g)
  BY <1>5, <1>8 DEF PaidNext, y, gapNext, spentNext
<1> QED BY <1>2, <1>9 DEF AllowedNext

(* A version of the cloud's object pays for its event, for an object that  *)
(* is there, for an absence and for its place among the versions.          *)
LEMMA AllowedPublished ==
    ASSUME OInv, Sequenced, Allowed, [Next]_vars, NEW n \in Names, Publishes(n)
    PROVE  AllowedNext(n)
<1>1. PICK f \in 0..remoteRv[n] : Floor(n, f) /\ Paid(n, f)
  BY DEF Allowed
<1>2. /\ Counted /\ Counted' /\ left \in [Disturbances -> Nat]
      /\ remoteRv[n] \in Nat /\ remoteRv[n]' = remoteRv[n] + 1
  BY CountedNext, Grows DEF Counted, OInv, VInv, TInv, TypeOK
<1>3. /\ remoteCache'[n] = remoteCache[n] /\ View(n)' = View(n)
      /\ f < remoteRv[n] + 1 /\ f \in 0..remoteRv'[n]
  BY <1>1, <1>2, Grows DEF View, RvOf, taskVars
<1>4. FloorNext(n, f)
  BY <1>1, <1>3, Grows DEF FloorNext, Floor
<1>5. /\ Requests(n)' = Requests(n) /\ LateCost(n)' = LateCost(n) /\ Edge(n)' = Edge(n)
      /\ Disturbed' = Disturbed
  BY <1>2, Grows, SpendCounts DEF Requests, LateCost, Edge, localVars, taskVars
<1>6. Cloud(n)' <= Cloud(n) + 2
  <2>1. /\ One(remote[n] # None) \in {0, 1} /\ One(remote'[n] # None) \in {0, 1}
    BY DEF One
  <2>2. /\ Len(remoteEvents[n]) \in Nat /\ Len(remoteEvents'[n]) \in Nat
        /\ Len(remoteEvents'[n]) <= Len(remoteEvents[n]) + 1
    BY Grows
  <2> QED BY <2>1, <2>2 DEF Cloud
<1> DEFINE x == Weight(n)
           y == Weight(n)'
           a == Absence(n)
           b == Absence(n)'
           spent == Disturbed
           rv == remoteRv[n]
<1>7. /\ x \in Int /\ y \in Int /\ y <= x + 2
      /\ a \in {0, 1} /\ b \in {0, 1} /\ spent \in Int
  <2>1. x \in Int /\ y \in Int /\ a \in {0, 1} /\ b \in {0, 1} /\ spent \in Int
    BY <1>2 DEF Counted, Weight
  <2>2. y <= x + 2
    BY <1>2, <1>5, <1>6 DEF Counted, Weight
  <2> QED BY <2>1, <2>2
<1>8. x + a + (rv - f) <= 4 * rv + 3 * spent
  <2>1. x + (a + (rv - f)) <= 4 * rv + 3 * spent
    BY <1>1 DEF Paid, Gap
  <2> HIDE DEF x, a, rv, spent
  <2>2. rv \in Nat /\ f \in Int
    BY <1>1, <1>2 DEF rv
  <2> QED BY <1>7, <2>1, <2>2
<1>9. y + (b + ((rv + 1) - f)) <= 4 * (rv + 1) + 3 * spent
  <2>1. rv \in Nat /\ f \in Int
    BY <1>1, <1>2
  <2> HIDE DEF x, y, a, b, rv, spent
  <2> QED BY <1>7, <1>8, <2>1
<1>10. PaidNext(n, f)
  BY <1>2, <1>5, <1>9 DEF PaidNext, GapNext
<1> QED BY <1>3, <1>4, <1>10 DEF AllowedNext

(* What a name keeps that a step leaves alone.                             *)
LEMMA EdgeKept ==
    ASSUME NEW n \in Names, SameLocal(n), localRv'[n] = localRv[n]
    PROVE  Edge(n)' = Edge(n) /\ Gone(n) = 0 /\ Made(n) = 0
<1>1. Edge(n)' = Edge(n)
  BY DEF SameLocal, Edge
<1> QED BY <1>1 DEF SameLocal, Gone, Made, One

(* Storing an object costs its version and its event, unless the event is  *)
(* filtered out; taking one away costs its event and an absence.           *)
LEMMA EdgeStored ==
    ASSUME OInv, Sequenced, Followed, [Next]_vars,
           NEW n \in Names, NEW new \in LocalObject \cup {None}, StoreLocal(n, new)
    PROVE  /\ Edge(n) \in Nat /\ Edge(n)' \in Nat /\ Gone(n) \in Nat /\ Made(n) \in Nat
           /\ new # None => Edge(n)' <= Edge(n) + 2 /\ Gone(n) = 0
           /\ new # None /\ localEvents[n] = <<>>
                 /\ ~LocalEventPasses(localCache[n], HaveNext(n))
                 => Edge(n)' <= Edge(n) + 1
           /\ new # None /\ local[n] = None /\ View(n) # 0 => Made(n) = 1
           /\ new = None => Edge(n)' <= Edge(n) + 1 /\ Gone(n) <= 1
           /\ new = None /\ View(n) = 0 => Gone(n) = 0
<1>1. /\ LocalTypes /\ StoredVersions /\ CachedVersions /\ localRv[n] \in Nat
      /\ Counted /\ Counted'
  BY TypeOKParts, CountedNext DEF OInv, VInv, TInv, ManagedVersions, LocalTypes
<1> DEFINE r == Reports(localCache[n], localEvents[n])
           q == Reports(localCache'[n], localEvents'[n])
<1>2. /\ r \in Nat /\ q \in Nat /\ q <= r + 1
      /\ localEvents[n] = <<>> /\ ~LocalEventPasses(localCache[n], HaveNext(n)) => q = 0
      /\ localRv'[n] = IF new = None THEN localRv[n] ELSE localRv[n] + 1
      /\ local'[n] = None <=> new = None
  BY <1>1, StoreMoves
<1>3. Edge(n) = localRv[n] + r /\ Edge(n)' = localRv'[n] + q
  BY DEF Edge
<1> HIDE DEF r, q
<1>4. /\ new # None => Edge(n)' <= Edge(n) + 2
      /\ new # None /\ localEvents[n] = <<>> /\ ~LocalEventPasses(localCache[n], HaveNext(n))
            => Edge(n)' <= Edge(n) + 1
      /\ new = None => Edge(n)' <= Edge(n) + 1
  BY <1>1, <1>2, <1>3
<1>5. /\ Gone(n) \in Nat /\ Made(n) \in Nat /\ Gone(n) <= 1
      /\ new # None => Gone(n) = 0
      /\ new # None /\ local[n] = None /\ View(n) # 0 => Made(n) = 1
      /\ new = None /\ View(n) = 0 => Gone(n) = 0
  BY <1>2 DEF Gone, Made, One
<1> QED BY <1>1, <1>4, <1>5 DEF Counted

(* The mirror's update of an object says so itself: its event is filtered. *)
LEMMA UpdateSilent ==
    ASSUME OInv, Followed, NEW w \in {pending, inflight}, Signed(w),
           Writing(w), w.op = "update"
    PROVE  /\ localEvents[w.name] = <<>>
           /\ ~LocalEventPasses(localCache[w.name], HaveNext(w.name))
<1> DEFINE n == w.name
           c == localCache[n]
           s == localEvents[n]
<1>1. /\ LocalTypes /\ UpdateVersions /\ w \in Writes /\ w # None
      /\ n \in Names /\ w.obj \in LocalObject
  BY TypeOKParts, NoneAssumption
     DEF OInv, VInv, TInv, ManagedVersions, Writing, Writes, TypeOK
<1>2. Seen(n, w.obj.rv) /\ local[n] # None /\ w.obj.rv \in {EmptyRv, local[n].rv}
  BY <1>1 DEF Writing, UpdateVersions, Accepted
<1>3. w.obj.rv \in Nat /\ w.obj.rv = local[n].rv /\ Have(n) = local[n]
  BY <1>2 DEF Seen, Versions, EmptyRv, Have, ManagedScoped
<1>4. /\ w.obj.lastGen = w.obj.rv /\ w.obj.managed /\ Later(s, w.obj.rv)
  BY <1>1 DEF Signed, Puts
<1>5. Link(c, s, Len(s)) = local[n] /\ s \in Seq(Copied)
  BY <1>1, <1>3 DEF Followed, LocalTypes, Copied
<1>6. s = <<>> /\ c = local[n]
  <2>1. CASE s = <<>>
    BY <1>5, <2>1 DEF Link
  <2>2. CASE s # <<>>
    <3>1. Len(s) \in DOMAIN s /\ Link(c, s, Len(s)) = s[Len(s)]
      BY <1>5, <2>2 DEF Link
    <3>2. w.obj.rv < local[n].rv
      BY <1>2, <1>4, <1>5, <3>1 DEF Later
    <3> QED BY <1>3, <3>2
  <2> QED BY <2>1, <2>2
<1>7. local'[n] # None /\ local'[n].lastGen = w.obj.lastGen /\ local'[n].managed
  <2>1. StoreLocal(n, w.obj) /\ w.obj # None
    BY <1>1, NoneAssumption DEF Writing, Apply
  <2>2. local' = [local EXCEPT ![n] = [w.obj EXCEPT !.rv = localRv[n] + 1]]
    BY <2>1 DEF StoreLocal
  <2>3. local'[n] = [w.obj EXCEPT !.rv = localRv[n] + 1]
    BY <1>1, <2>2 DEF LocalTypes
  <2>4. local'[n].lastGen = w.obj.lastGen /\ local'[n].managed = w.obj.managed
    BY <1>1, <2>3 DEF LocalObject
  <2>5. local'[n] # None
    BY <1>1, <2>1, StoredCopy
  <2> QED BY <1>4, <2>4, <2>5
<1>8. HaveNext(n) = local'[n]
  BY <1>7 DEF HaveNext, ManagedScoped
<1>9. ~LocalEventPasses(c, HaveNext(n))
  BY <1>2, <1>3, <1>4, <1>6, <1>7, <1>8 DEF LocalEventPasses, NotChangedOnUpdate
<1> QED BY <1>6, <1>9

(* A request pays for its write: an update costs its version, a deletion   *)
(* its event; a creation has also the absence that it ends.                *)
LEMMA WriteEdge ==
    ASSUME OInv, Sequenced, Followed, [Next]_vars,
           NEW w \in {pending, inflight}, Signed(w), Writing(w), NEW n, n = w.name
    PROVE  /\ n \in Names
           /\ Edge(n)' + Gone(n) <= Edge(n) + Made(n) + IF w.op = "update" THEN 1 ELSE 2
           /\ w = pending => Edge(n)' + Gone(n) <= Edge(n) + Made(n) + 1
<1>1. /\ TypeOK /\ w \in Writes /\ w # None /\ n \in Names /\ w.obj \in LocalObject
      /\ w.obj # None /\ w.op \in Ops
  BY NoneAssumption DEF OInv, VInv, TInv, Writing, Writes, TypeOK
<1> DEFINE new == IF w.op = "delete" THEN None ELSE w.obj
<1>2. StoreLocal(n, new) /\ new \in LocalObject \cup {None} /\ (new = None <=> w.op = "delete")
  BY <1>1 DEF Writing, Apply
<1> HIDE DEF new
<1>3. /\ Edge(n) \in Nat /\ Edge(n)' \in Nat /\ Gone(n) \in Nat /\ Made(n) \in Nat
      /\ new # None => Edge(n)' <= Edge(n) + 2 /\ Gone(n) = 0
      /\ new # None /\ localEvents[n] = <<>> /\ ~LocalEventPasses(localCache[n], HaveNext(n))
            => Edge(n)' <= Edge(n) + 1
      /\ new # None /\ local[n] = None /\ View(n) # 0 => Made(n) = 1
      /\ new = None => Edge(n)' <= Edge(n) + 1 /\ Gone(n) <= 1
      /\ new = None /\ View(n) = 0 => Gone(n) = 0
  BY <1>1, <1>2, EdgeStored
<1>4. w = pending => View(n) = IF w.op = "delete" THEN 0 ELSE w.obj.lastRemote
  BY <1>1 DEF OInv, VInv, TInv, PendingIsCurrent, View, Puts
<1>5. w = pending /\ w.op # "delete" => w.obj.lastRemote # 0
  BY <1>1 DEF OInv, HeldBehind, Puts, LocalObject, Versions
<1>6. CASE w.op = "update"
  <2>1. localEvents[n] = <<>> /\ ~LocalEventPasses(localCache[n], HaveNext(n))
    BY <1>6, UpdateSilent
  <2> QED BY <1>1, <1>2, <1>3, <1>6, <2>1
<1>7. CASE w.op = "create"
  <2>1. local[n] = None
    BY <1>7 DEF Writing, Accepted
  <2> QED BY <1>1, <1>2, <1>3, <1>4, <1>5, <1>7, <2>1
<1>8. CASE w.op = "delete"
  BY <1>1, <1>2, <1>3, <1>4, <1>8
<1> QED BY <1>1, <1>6, <1>7, <1>8 DEF Ops

(* What each part of the account may take.                                 *)
LEMMA BalanceSum ==
    ASSUME Counted, Counted', NEW n \in Names,
           NEW q \in Int, NEW c \in Int, NEW e \in Int, NEW l \in Int,
           Requests(n)' <= Requests(n) + q, Cloud(n)' <= Cloud(n) + c,
           Edge(n)' + Gone(n) <= Edge(n) + Made(n) + e, LateCost(n)' <= LateCost(n) + l,
           q + c + e + l <= 3 * (Disturbed' - Disturbed)
    PROVE  Balanced(n)
<1>1. Gone(n) \in Nat /\ Made(n) \in Nat
  BY DEF Gone, Made, One
<1> DEFINE x1 == Requests(n)
           x2 == Cloud(n)
           x3 == Edge(n)
           x4 == LateCost(n)
           y1 == Requests(n)'
           y2 == Cloud(n)'
           y3 == Edge(n)'
           y4 == LateCost(n)'
           gone == Gone(n)
           made == Made(n)
           spent == Disturbed
           spentNext == Disturbed'
<1>2. /\ x1 \in Nat /\ x2 \in Nat /\ x3 \in Nat /\ x4 \in Nat
      /\ y1 \in Nat /\ y2 \in Nat /\ y3 \in Nat /\ y4 \in Nat
      /\ gone \in Nat /\ made \in Nat /\ spent \in Int /\ spentNext \in Int
  BY <1>1 DEF Counted
<1>3. /\ y1 <= x1 + q /\ y2 <= x2 + c /\ y3 + gone <= x3 + made + e /\ y4 <= x4 + l
      /\ q + c + e + l <= 3 * (spentNext - spent)
  OBVIOUS
<1> HIDE DEF x1, x2, x3, x4, y1, y2, y3, y4, gone, made, spent, spentNext
<1>4. (y1 + y2 + y3 + y4) + gone <= (x1 + x2 + x3 + x4) + made + 3 * (spentNext - spent)
  BY <1>2, <1>3
<1>5. Weight(n) = x1 + x2 + x3 + x4 /\ Weight(n)' = y1 + y2 + y3 + y4
  BY DEF Weight, x1, x2, x3, x4, y1, y2, y3, y4
<1> QED BY <1>4, <1>5 DEF Balanced, gone, made, spent, spentNext

(* What a step elsewhere leaves as it is.                                  *)
SameRequests(n) ==
    /\ n \in queue' <=> n \in queue
    /\ n \in delayed' <=> n \in delayed
    /\ current' = n <=> current = n

SameRight(n) == SameRemote(n) /\ SameLocal(n) /\ localRv'[n] = localRv[n]

(* If a name is left alone there is nothing but requests to pay.           *)
LEMMA BalancedKept ==
    ASSUME Counted, Counted', NEW n \in Names, SameRight(n), inflight' = inflight,
           NEW q \in Int, Requests(n)' <= Requests(n) + q, q <= 3 * (Disturbed' - Disturbed)
    PROVE  Balanced(n)
<1>1. Edge(n)' = Edge(n) /\ Gone(n) = 0 /\ Made(n) = 0
  BY EdgeKept DEF SameRight
<1>2. Cloud(n)' = Cloud(n) /\ LateCost(n)' = LateCost(n)
  BY DEF SameRight, SameRemote, Cloud, LateCost
<1>3. /\ Cloud(n) \in Nat /\ Edge(n) \in Nat /\ LateCost(n) \in Nat
      /\ Disturbed \in Int /\ Disturbed' \in Int
  BY DEF Counted
<1>4. /\ Cloud(n)' <= Cloud(n) + 0 /\ Edge(n)' + Gone(n) <= Edge(n) + Made(n) + 0
      /\ LateCost(n)' <= LateCost(n) + 0
  BY <1>1, <1>2, <1>3
<1>5. q + 0 + 0 + 0 <= 3 * (Disturbed' - Disturbed)
  <2>1. q + 0 + 0 + 0 = q
    OBVIOUS
  <2> QED BY <2>1
<1> QED BY <1>4, <1>5, BalanceSum

(* A request that is queued, and no other.                                 *)
LEMMA RequestsQueued ==
    ASSUME NEW n \in Names, NEW p \in BOOLEAN, UNCHANGED <<delayed, taskVars>>,
           n \in queue' => n \in queue \/ p
    PROVE  Requests(n)' <= Requests(n) + One(p)
BY DEF Requests, One, taskVars

(* And none at all.                                                        *)
LEMMA RequestsKept ==
    ASSUME NEW n \in Names, SameRequests(n)
    PROVE  Requests(n)' <= Requests(n) + 0
BY DEF Requests, One, SameRequests

------------------------------------------------------------------------------
(* What each action costs a name.                                          *)

(* An event of the cloud pays for the request it enqueues; a deletion      *)
(* takes the object away that its event is paid from.                      *)
LEMMA BalancedCloud ==
    ASSUME OInv, [Next]_vars, NEW n \in Names, ~Publishes(n), NEW m \in Names,
           Publishes(m) \/ RemoteDelete(m) \/ DeliverRemote(m) \/ RelistRemote(m)
    PROVE  Balanced(n)
<1>1. /\ Counted /\ Counted' /\ RemoteTypes /\ left \in [Disturbances -> Nat]
      /\ Len(remoteEvents[n]) \in Nat
  <2>1. RemoteTypes /\ left \in [Disturbances -> Nat]
    BY TypeOKParts DEF OInv, VInv, TInv, TypeOK
  <2> QED BY <2>1, CountedNext DEF RemoteTypes
<1>2. /\ SameLocal(n) /\ localRv'[n] = localRv[n]
      /\ UNCHANGED <<delayed, taskVars>> /\ inflight' = inflight
      /\ left' = left \/ Spend("relist")
      /\ queue \subseteq queue' /\ queue' \subseteq queue \cup {m}
      /\ RemoteDelete(n) => queue' = queue
  BY DEF Publishes, RemotePut, RemoteDelete, DeliverRemote, RelistRemote, Enqueue, SameLocal,
         localVars
<1>3. Disturbed' = Disturbed /\ Disturbed \in Int
  BY <1>1, <1>2, SpendCounts DEF Counted
<1>4. /\ Edge(n)' + Gone(n) <= Edge(n) + Made(n) + 0 /\ LateCost(n)' <= LateCost(n) + 0
  <2>1. Edge(n)' = Edge(n) /\ Gone(n) = 0 /\ Made(n) = 0 /\ LateCost(n)' = LateCost(n)
    BY <1>2, EdgeKept DEF LateCost
  <2> QED BY <1>1, <2>1 DEF Counted
<1>5. CASE m # n
  <2>1. SameRemote(n)
    <3>1. CASE Publishes(m) \/ RemoteDelete(m)
      BY <1>1, <1>5, <3>1
         DEF Publishes, RemotePut, RemoteDelete, StoreRemote, RemoteTypes, SameRemote
    <3>2. CASE DeliverRemote(m) \/ RelistRemote(m)
      BY <1>1, <1>5, <3>2 DEF DeliverRemote, RelistRemote, RemoteTypes, SameRemote
    <3> QED BY <3>1, <3>2
  <2>2. SameRequests(n)
    BY <1>2, <1>5 DEF SameRequests, taskVars
  <2>3. Requests(n)' <= Requests(n) + 0 /\ 0 <= 3 * (Disturbed' - Disturbed)
    BY <1>3, <2>2, RequestsKept
  <2> QED BY <1>1, <1>2, <2>1, <2>3, BalancedKept DEF SameRight
<1>6. CASE m = n /\ RemoteDelete(n)
  <2>1. /\ remote[n] # None /\ remote'[n] = None
        /\ remoteEvents'[n] \in {remoteEvents[n], Append(remoteEvents[n], None)}
    BY <1>1, <1>6 DEF RemoteDelete, StoreRemote, EnvScoped, RemoteTypes
  <2>2. Len(Append(remoteEvents[n], None)) = Len(remoteEvents[n]) + 1
    BY <1>1 DEF RemoteTypes
  <2>3. Cloud(n)' <= Cloud(n) + 0
    BY <1>1, <2>1, <2>2 DEF Cloud, One
  <2>4. Requests(n)' <= Requests(n) + 0
    BY <1>2, <1>6, RequestsKept DEF SameRequests, taskVars
  <2>5. 0 + 0 + 0 + 0 <= 3 * (Disturbed' - Disturbed)
    BY <1>3
  <2> QED BY <1>1, <1>4, <2>3, <2>4, <2>5, BalanceSum
<1>7. CASE m = n /\ (DeliverRemote(n) \/ RelistRemote(n))
  <2>1. Cloud(n)' <= Cloud(n) + -1
    <3>1. remote'[n] = remote[n] /\ Len(remoteEvents'[n]) <= Len(remoteEvents[n]) - 1
          /\ Len(remoteEvents'[n]) \in Nat
      <4>1. CASE DeliverRemote(n)
        <5>1. remoteEvents[n] # <<>> /\ remoteEvents'[n] = Tail(remoteEvents[n])
              /\ remote'[n] = remote[n]
          BY <1>1, <4>1 DEF DeliverRemote, RemoteTypes
        <5>2. /\ Len(Tail(remoteEvents[n])) = Len(remoteEvents[n]) - 1
              /\ Len(remoteEvents[n]) >= 1
          BY <1>1, <5>1 DEF RemoteTypes
        <5> QED BY <1>1, <5>1, <5>2
      <4>2. CASE RelistRemote(n)
        <5>1. /\ Len(remoteEvents[n]) > 1 /\ remoteEvents'[n] = <<>> /\ remote'[n] = remote[n]
          BY <1>1, <4>2 DEF RelistRemote, RemoteTypes
        <5>2. Len(<<>>) = 0
          OBVIOUS
        <5> QED BY <1>1, <5>1, <5>2
      <4> QED BY <1>7, <4>1, <4>2
    <3>2. One(remote'[n] # None) = One(remote[n] # None) /\ One(remote[n] # None) \in Int
      BY <3>1 DEF One
    <3>3. /\ Cloud(n) = Len(remoteEvents[n]) + One(remote[n] # None)
          /\ Cloud(n)' = Len(remoteEvents'[n]) + One(remote'[n] # None)
      BY DEF Cloud
    <3> QED BY <1>1, <3>1, <3>2, <3>3
  <2>2. Requests(n)' <= Requests(n) + 1
    <3>1. Requests(n)' <= Requests(n) + One(TRUE)
      BY <1>2, RequestsQueued
    <3> QED BY <3>1 DEF One
  <2>3. 1 + -1 + 0 + 0 <= 3 * (Disturbed' - Disturbed)
    BY <1>3
  <2> QED BY <1>1, <1>4, <2>1, <2>2, <2>3, BalanceSum
<1>8. CASE m = n /\ Publishes(m)
  BY <1>8
<1> QED BY <1>5, <1>6, <1>7, <1>8

(* A user pays himself, and a resync; events of the edge pay for theirs.   *)
LEMMA BalancedEdge ==
    ASSUME OInv, Sequenced, Followed, [Next]_vars, NEW n \in Names, NEW m \in Names,
           LocalUser(m) \/ DeliverLocal(m) \/ RelistLocal(m) \/ Resync(m)
    PROVE  Balanced(n)
<1>1. /\ Counted /\ Counted' /\ LocalTypes /\ left \in [Disturbances -> Nat]
  BY CountedNext, TypeOKParts DEF OInv, VInv, TInv, TypeOK
<1>2. /\ SameRemote(n) /\ UNCHANGED <<delayed, taskVars>> /\ inflight' = inflight
      /\ queue \subseteq queue' /\ queue' \subseteq queue \cup {m}
      /\ LocalUser(m) => queue' = queue
  BY DEF LocalUser, DeliverLocal, RelistLocal, Resync, Enqueue, SameRemote, remoteVars
<1>3. /\ Disturbed \in Int
      /\ LocalUser(m) \/ Resync(m) => Disturbed' = Disturbed + 1
      /\ DeliverLocal(m) \/ RelistLocal(m) => Disturbed' = Disturbed
  BY <1>1, SpendCounts DEF Counted, LocalUser, Resync, DeliverLocal, RelistLocal
<1>4. Cloud(n)' <= Cloud(n) + 0 /\ LateCost(n)' <= LateCost(n) + 0
  <2>1. Cloud(n)' = Cloud(n) /\ LateCost(n)' = LateCost(n)
    BY <1>2 DEF SameRemote, Cloud, LateCost
  <2> QED BY <1>1, <2>1 DEF Counted
<1>5. CASE m # n \/ Resync(m)
  <2>1. SameLocal(n) /\ localRv'[n] = localRv[n]
    <3>1. CASE LocalUser(m) /\ m # n
      BY <1>1, <3>1, LocalUserStores, StoreOther
    <3>2. CASE (DeliverLocal(m) \/ RelistLocal(m)) /\ m # n
      BY <1>1, <3>2 DEF DeliverLocal, RelistLocal, SameLocal, LocalTypes
    <3>3. CASE Resync(m)
      BY <3>3 DEF Resync, SameLocal, localVars
    <3> QED BY <1>5, <3>1, <3>2, <3>3
  <2>2. CASE m # n
    <3>1. SameRequests(n)
      BY <1>2, <2>2 DEF SameRequests, taskVars
    <3>2. Requests(n)' <= Requests(n) + 0 /\ 0 <= 3 * (Disturbed' - Disturbed)
      BY <1>3, <3>1, RequestsKept
    <3> QED BY <1>1, <1>2, <2>1, <3>2, BalancedKept DEF SameRight
  <2>3. CASE Resync(m)
    <3>1. Requests(n)' <= Requests(n) + One(TRUE)
      BY <1>2, RequestsQueued
    <3>2. Requests(n)' <= Requests(n) + 1 /\ 1 <= 3 * (Disturbed' - Disturbed)
      BY <1>3, <2>3, <3>1 DEF One
    <3> QED BY <1>1, <1>2, <2>1, <3>2, BalancedKept DEF SameRight
  <2> QED BY <1>5, <2>2, <2>3
<1>6. CASE m = n /\ LocalUser(n)
  <2>1. PICK new \in LocalObject \cup {None} : StoreLocal(n, new)
    BY <1>1, <1>6, LocalUserStores
  <2>2. /\ Edge(n) \in Nat /\ Edge(n)' \in Nat /\ Gone(n) \in Nat /\ Made(n) \in Nat
        /\ new # None => Edge(n)' <= Edge(n) + 2 /\ Gone(n) = 0
        /\ new = None => Edge(n)' <= Edge(n) + 1 /\ Gone(n) <= 1
    BY <2>1, EdgeStored
  <2>3. Edge(n)' + Gone(n) <= Edge(n) + Made(n) + 2
    BY <2>2
  <2>4. Requests(n)' <= Requests(n) + 0
    BY <1>2, <1>6, RequestsKept DEF SameRequests, taskVars
  <2>5. 0 + 0 + 2 + 0 <= 3 * (Disturbed' - Disturbed)
    BY <1>3, <1>6
  <2> QED BY <1>1, <1>4, <2>3, <2>4, <2>5, BalanceSum
<1>7. CASE m = n /\ (DeliverLocal(n) \/ RelistLocal(n))
  <2> DEFINE s == localEvents[n]
             c == localCache[n]
  <2>1. c \in Copied /\ s \in Seq(Copied) /\ localRv[n] \in Nat
    BY <1>1 DEF LocalTypes, Copied
  <2>2. /\ local'[n] = local[n] /\ localRv'[n] = localRv[n]
        /\ DeliverLocal(n) => /\ s # <<>> /\ localCache'[n] = Head(s) /\ localEvents'[n] = Tail(s)
                              /\ n \in queue' => n \in queue \/ LocalEventPasses(c, Head(s))
        /\ ~DeliverLocal(n) => Len(s) > 1 /\ localEvents'[n] = <<>>
    BY <1>1, <1>7 DEF DeliverLocal, RelistLocal, LocalTypes, Enqueue
  <2>3. Gone(n) = 0 /\ Made(n) = 0
    BY <2>2 DEF Gone, Made, One
  <2>4. ASSUME NEW b \in {0, 1}, Reports(localCache'[n], localEvents'[n]) + b <= Reports(c, s),
               Reports(localCache'[n], localEvents'[n]) \in Nat, Reports(c, s) \in Nat,
               Requests(n)' <= Requests(n) + b
        PROVE  Balanced(n)
    <3>1. Edge(n)' + Gone(n) <= Edge(n) + Made(n) + -b
      BY <2>1, <2>2, <2>3, <2>4 DEF Edge
    <3>2. b + 0 + -b + 0 <= 3 * (Disturbed' - Disturbed) /\ -b \in Int
      BY <1>3, <1>7
    <3> QED BY <1>1, <1>4, <2>4, <3>1, <3>2, BalanceSum
  <2>5. CASE DeliverLocal(n)
    <3> DEFINE pass == LocalEventPasses(c, Head(s))
    <3>1. /\ Reports(c, s) \in Nat /\ Reports(Head(s), Tail(s)) \in Nat
          /\ Reports(Head(s), Tail(s)) + One(pass) <= Reports(c, s)
      BY <2>1, <2>2, <2>5, ReportsShifted
    <3>2. n \in queue' => n \in queue \/ pass
      BY <2>2, <2>5
    <3> HIDE DEF pass, c, s
    <3>3. Requests(n)' <= Requests(n) + One(pass)
      <4>1. CASE n \in queue' /\ n \notin queue
        BY <1>2, <3>2, <4>1 DEF Requests, One, taskVars
      <4>2. CASE ~(n \in queue' /\ n \notin queue)
        BY <1>2, <4>2 DEF Requests, One, taskVars
      <4> QED BY <4>1, <4>2
    <3>4. One(pass) \in {0, 1}
      BY DEF One
    <3> QED BY <2>2, <2>4, <2>5, <3>1, <3>3, <3>4
  <2>6. CASE ~DeliverLocal(n)
    <3>1. Len(s) \in Nat /\ Len(s) > 1 /\ s # <<>>
      BY <2>1, <2>2, <2>6
    <3>2. Reports(c, s) \in Nat /\ Reports(c, s) >= 1
      BY <3>1 DEF Reports, One
    <3>3. Reports(localCache'[n], localEvents'[n]) = 0
      BY <2>2, <2>6 DEF Reports
    <3>4. Requests(n)' <= Requests(n) + One(TRUE)
      BY <1>2, RequestsQueued
    <3>5. Requests(n)' <= Requests(n) + 1
      BY <3>4 DEF One
    <3> HIDE DEF c, s
    <3>6. Reports(localCache'[n], localEvents'[n]) + 1 <= Reports(c, s)
          /\ Reports(localCache'[n], localEvents'[n]) \in Nat
      BY <3>2, <3>3
    <3> QED BY <2>4, <3>2, <3>5, <3>6
  <2> QED BY <2>5, <2>6
<1> QED BY <1>5, <1>6, <1>7

(* The worker: a write takes the request that it is made for, unless the   *)
(* call fails.                                                             *)
LEMMA BalancedWorker ==
    ASSUME OInv, Sequenced, Followed, Signed(pending), [Next]_vars, NEW n \in Names,
           \/ \E m \in Names : Begin(m) \/ TimerFires(m)
           \/ ReadLocal \/ WriteAccepted \/ WriteRefused \/ WriteFails
    PROVE  Balanced(n)
<1>1. /\ Counted /\ Counted' /\ LocalTypes /\ ControllerTypes /\ left \in [Disturbances -> Nat]
      /\ PendingIsCurrent /\ n # None
  <2>1. LocalTypes /\ ControllerTypes /\ PendingIsCurrent /\ left \in [Disturbances -> Nat]
    BY TypeOKParts DEF OInv, VInv, TInv, TypeOK
  <2> QED BY <2>1, CountedNext, NoneAssumption
<1>2. SameRemote(n) /\ inflight' = inflight
  BY DEF Begin, TimerFires, ReadLocal, WriteAccepted, WriteRefused, WriteFails, SameRemote,
         remoteVars
<1>3. Cloud(n)' <= Cloud(n) + 0 /\ LateCost(n)' <= LateCost(n) + 0
  <2>1. Cloud(n)' = Cloud(n) /\ LateCost(n)' = LateCost(n)
    BY <1>2 DEF SameRemote, Cloud, LateCost
  <2> QED BY <1>1, <2>1 DEF Counted
<1>4. UNCHANGED left => Disturbed' = Disturbed
  BY DEF Disturbed, Spent
<1>5. Disturbed \in Int
  BY <1>1 DEF Counted
<1>6. ASSUME UNCHANGED localVars, UNCHANGED left, Requests(n)' <= Requests(n) + 0
      PROVE  Balanced(n)
  <2>1. SameRight(n)
    BY <1>2, <1>6 DEF SameRight, SameLocal, localVars
  <2>2. 0 <= 3 * (Disturbed' - Disturbed)
    BY <1>4, <1>5, <1>6
  <2> QED BY <1>1, <1>2, <1>6, <2>1, <2>2, BalancedKept
<1>7. ASSUME NEW m \in Names, Begin(m) \/ TimerFires(m)
      PROVE  Balanced(n)
  <2>1. UNCHANGED localVars /\ UNCHANGED left
    BY <1>7 DEF Begin, TimerFires
  <2>2. Requests(n)' <= Requests(n) + 0
    <3>1. CASE Begin(m)
      BY <1>1, <3>1 DEF Begin, Requests, One
    <3>2. CASE TimerFires(m)
      BY <3>2 DEF TimerFires, Requests, One, taskVars
    <3> QED BY <1>7, <3>1, <3>2
  <2> QED BY <1>6, <2>1, <2>2
<1>8. ASSUME ReadLocal
      PROVE  Balanced(n)
  <2>1. UNCHANGED localVars /\ UNCHANGED left /\ queue' = queue /\ delayed' = delayed
        /\ current' \in {current, None}
    BY <1>8 DEF ReadLocal, Finish
  <2>2. Requests(n)' <= Requests(n) + 0
    BY <1>1, <2>1 DEF Requests, One
  <2> QED BY <1>6, <2>1, <2>2
<1>9. ASSUME WriteRefused
      PROVE  Balanced(n)
  <2>1. UNCHANGED localVars /\ UNCHANGED left /\ queue' = queue /\ current' = None
        /\ delayed' \in {delayed, delayed \cup {current}}
    BY <1>9 DEF WriteRefused, Finish
  <2>2. Requests(n)' <= Requests(n) + 0
    BY <1>1, <2>1 DEF Requests, One
  <2> QED BY <1>6, <2>1, <2>2
<1>10. ASSUME Writing(pending)
       PROVE  /\ pending.name = current /\ current \in Names
              /\ current = n => Edge(n)' + Gone(n) <= Edge(n) + Made(n) + 1
              /\ current # n => Edge(n)' + Gone(n) <= Edge(n) + Made(n) + 0
  <2>1. pending # None /\ pending.name = current /\ current \in Names /\ pending \in Writes
    BY <1>1, <1>10 DEF Writing, PendingIsCurrent, ControllerTypes
  <2>2. current = n => Edge(n)' + Gone(n) <= Edge(n) + Made(n) + 1
    BY <1>10, <2>1, WriteEdge
  <2>3. ASSUME current # n
        PROVE  Edge(n)' + Gone(n) <= Edge(n) + Made(n) + 0
    <3>1. SameLocal(n) /\ localRv'[n] = localRv[n]
      BY <1>1, <1>10, <2>1, <2>3, StoreOther DEF Writing, Apply
    <3>2. Edge(n)' = Edge(n) /\ Gone(n) = 0 /\ Made(n) = 0
      BY <3>1, EdgeKept
    <3> QED BY <1>1, <3>2 DEF Counted
  <2> QED BY <2>1, <2>2, <2>3
<1>11. ASSUME WriteAccepted
       PROVE  Balanced(n)
  <2>1. /\ Writing(pending) /\ UNCHANGED left /\ queue' = queue /\ delayed' = delayed
        /\ current' = None
    BY <1>11 DEF WriteAccepted, Writing, Finish
  <2>2. 0 + 0 + 0 + 0 <= 3 * (Disturbed' - Disturbed)
        /\ -1 + 0 + 1 + 0 <= 3 * (Disturbed' - Disturbed)
    BY <1>4, <1>5, <2>1
  <2>3. CASE current = n
    <3>1. Requests(n)' <= Requests(n) + -1
      BY <1>1, <2>1, <2>3 DEF Requests, One
    <3> QED BY <1>1, <1>3, <1>10, <2>1, <2>2, <2>3, <3>1, BalanceSum
  <2>4. CASE current # n
    <3>1. Requests(n)' <= Requests(n) + 0
      BY <1>1, <2>1, <2>4 DEF Requests, One
    <3> QED BY <1>1, <1>3, <1>10, <2>1, <2>2, <2>4, <3>1, BalanceSum
  <2> QED BY <2>3, <2>4
<1>12. ASSUME WriteFails
       PROVE  Balanced(n)
  <2>1. /\ queue' = queue /\ current' = None /\ delayed' = delayed \cup {current}
        /\ (Writing(pending) \/ UNCHANGED localVars) /\ Spend("fault")
    BY <1>12 DEF WriteFails, Writing, Finish
  <2>2. Disturbed' = Disturbed + 1
    BY <1>1, <1>12, SpendCounts DEF WriteFails
  <2>3. Requests(n)' <= Requests(n) + 0
    BY <1>1, <2>1 DEF Requests, One
  <2>4. Edge(n)' + Gone(n) <= Edge(n) + Made(n) + 1
    <3>1. CASE Writing(pending)
      <4>1. Edge(n) \in Nat /\ Edge(n)' \in Nat /\ Gone(n) \in Nat /\ Made(n) \in Nat
        BY <1>1 DEF Counted, Gone, Made, One
      <4> QED BY <1>10, <3>1, <4>1
    <3>2. CASE UNCHANGED localVars
      <4>1. Edge(n)' = Edge(n) /\ Gone(n) = 0 /\ Made(n) = 0 /\ Edge(n) \in Nat
        BY <1>1, <3>2, EdgeKept DEF localVars, SameLocal, Counted
      <4> QED BY <4>1
    <3> QED BY <2>1, <3>1, <3>2
  <2>5. 0 + 0 + 1 + 0 <= 3 * (Disturbed' - Disturbed)
    BY <1>5, <2>2
  <2> QED BY <1>1, <1>3, <2>3, <2>4, <2>5, BalanceSum
<1> QED BY <1>7, <1>8, <1>9, <1>11, <1>12

(* A late write has been paid when the controller that sent it crashed.    *)
LEMMA BalancedLate ==
    ASSUME OInv, Sequenced, Followed, Signed(inflight), [Next]_vars, NEW n \in Names, LateWrite
    PROVE  Balanced(n)
<1>1. /\ Counted /\ Counted' /\ LocalTypes /\ ControllerTypes
  <2>1. LocalTypes /\ ControllerTypes
    BY TypeOKParts DEF OInv, VInv, TInv
  <2> QED BY <2>1, CountedNext
<1>2. /\ SameRemote(n) /\ SameRequests(n) /\ UNCHANGED left
      /\ inflight # None /\ inflight' = None
      /\ Writing(inflight) \/ UNCHANGED localVars
  BY DEF LateWrite, Writing, SameRemote, SameRequests, remoteVars, taskVars
<1>3. Requests(n)' <= Requests(n) + 0
  BY <1>2, RequestsKept
<1>4. Cloud(n)' <= Cloud(n) + 0
  <2>1. Cloud(n)' = Cloud(n)
    BY <1>2 DEF SameRemote, Cloud
  <2> QED BY <1>1, <2>1 DEF Counted
<1>5. Disturbed' = Disturbed /\ Disturbed \in Int
  BY <1>1, <1>2 DEF Disturbed, Spent, Counted
<1> DEFINE cost == LateCost(n)
<1>6. /\ LateCost(n)' = 0 /\ cost \in {0, 1, 2}
      /\ inflight.name = n => cost = IF inflight.op = "update" THEN 1 ELSE 2
  BY <1>2 DEF LateCost
<1> HIDE DEF cost
<1>7. Edge(n)' + Gone(n) <= Edge(n) + Made(n) + cost
  <2>1. CASE Writing(inflight) /\ inflight.name = n
    <3> DEFINE price == IF inflight.op = "update" THEN 1 ELSE 2
    <3>1. Edge(n)' + Gone(n) <= Edge(n) + Made(n) + price
      BY <2>1, WriteEdge
    <3>2. cost = price
      BY <1>6, <2>1
    <3> HIDE DEF price
    <3> QED BY <3>1, <3>2
  <2>2. CASE ~(Writing(inflight) /\ inflight.name = n)
    <3>1. SameLocal(n) /\ localRv'[n] = localRv[n]
      <4>1. CASE UNCHANGED localVars
        BY <4>1 DEF localVars, SameLocal
      <4>2. CASE Writing(inflight) /\ inflight.name # n
        <5>1. inflight \in Writes /\ inflight.name \in Names
          BY <1>1, <1>2 DEF ControllerTypes, Writes
        <5> QED BY <1>1, <4>2, <5>1, StoreOther DEF Writing, Apply
      <4> QED BY <1>2, <2>2, <4>1, <4>2
    <3>2. Edge(n)' = Edge(n) /\ Gone(n) = 0 /\ Made(n) = 0 /\ Edge(n) \in Nat
      BY <1>1, <3>1, EdgeKept DEF Counted
    <3>3. Edge(n) + 0 <= Edge(n) + 0 + cost
      BY <1>6, <3>2
    <3> QED BY <3>2, <3>3
  <2> QED BY <2>1, <2>2
<1>8. LateCost(n)' <= LateCost(n) + -cost /\ cost \in Int /\ -cost \in Int
  <2>1. LateCost(n) = cost
    BY DEF cost
  <2>2. 0 <= cost + -cost /\ cost \in Int /\ -cost \in Int
    BY <1>6
  <2> QED BY <1>6, <2>1, <2>2
<1>9. 0 + 0 + cost + -cost <= 3 * (Disturbed' - Disturbed)
  <2>1. 0 + 0 + cost + -cost = 0
    BY <1>8
  <2>2. 0 <= 3 * (Disturbed' - Disturbed)
    BY <1>5
  <2> QED BY <2>1, <2>2
<1> QED BY <1>1, <1>3, <1>4, <1>7, <1>8, <1>9, BalanceSum

(* A restart pays for a request, an absence and a version; what the worker *)
(* had in hand pays for a write that is left on its way.                   *)
LEMMA AllowedRestarted ==
    ASSUME OInv, Allowed, [Next]_vars, NEW n \in Names, Restarts
    PROVE  AllowedNext(n)
<1>1. /\ Counted /\ Counted' /\ RemoteTypes /\ LocalTypes /\ ControllerTypes
      /\ PendingIsCurrent /\ RemoteOrdered /\ HeldBehind /\ n # None
      /\ left \in [Disturbances -> Nat]
  <2>1. /\ RemoteTypes /\ LocalTypes /\ ControllerTypes /\ PendingIsCurrent
        /\ RemoteOrdered /\ HeldBehind /\ left \in [Disturbances -> Nat]
    BY TypeOKParts DEF OInv, VInv, TInv, TypeOK
  <2> QED BY <2>1, CountedNext, NoneAssumption
<1>2. PICK newEnvs \in EnvChoices : Restart(newEnvs)
  BY DEF Restarts
<1>3. /\ remoteCache'[n] = EnvScoped(remote[n], newEnvs) /\ remoteEvents'[n] = <<>>
      /\ localEvents'[n] = <<>> /\ delayed' = {} /\ current' = None /\ pending' = None
      /\ inflight' \in (IF inflight = None THEN {None, pending} ELSE {inflight})
      /\ UNCHANGED <<remote, remoteRv, local, localRv>>
      /\ Spend("restart")
  BY <1>2 DEF Restart, RemoteList
<1>4. PICK f \in 0..remoteRv[n] : Floor(n, f) /\ Paid(n, f)
  BY DEF Allowed
<1> DEFINE rv == remoteRv[n]
           g == IF rv = 0 THEN 0 ELSE rv - 1
<1>5. rv \in Nat /\ g \in 0..rv /\ g \in Nat /\ remoteRv'[n] = rv
  BY <1>1, <1>3 DEF Counted
<1>6. remoteCache'[n] # None => remoteCache'[n].rv = rv /\ rv > 0
  BY <1>1, <1>3 DEF EnvScoped, RemoteOrdered, RemoteTypes, RemoteObject, Versions
<1>7. View(n)' = RvOf(remoteCache'[n])
  BY <1>1, <1>3 DEF View, RvOf
<1>8. FloorNext(n, g)
  <2>1. View(n)' # 0 => g < View(n)'
    BY <1>5, <1>6, <1>7 DEF RvOf
  <2>2. Later(remoteEvents'[n], g)
    BY <1>3, RisingListed
  <2> QED BY <1>5, <1>6, <2>1, <2>2 DEF FloorNext
<1> DEFINE req == Requests(n)
           reqNext == Requests(n)'
           cloud == Cloud(n)
           cloudNext == Cloud(n)'
           edge == Edge(n)
           edgeNext == Edge(n)'
           late == LateCost(n)
           lateNext == LateCost(n)'
           gap == Gap(n, f)
           gapNext == GapNext(n, g)
           spent == Disturbed
           a == Absence(n)
           b == Absence(n)'
<1>9. /\ req \in Nat /\ reqNext \in Nat /\ cloud \in Nat /\ cloudNext \in Nat
      /\ edge \in Nat /\ edgeNext \in Nat /\ late \in Nat /\ lateNext \in Nat
      /\ spent \in Int /\ a \in {0, 1} /\ b \in {0, 1}
      /\ f \in Nat /\ f <= rv
  BY <1>1, <1>4, <1>5 DEF Counted
<1>10. gap = a + (rv - f) /\ gapNext = b + (rv - g)
  BY <1>3 DEF Gap, GapNext
<1>11. gap \in Nat /\ gapNext \in Nat /\ gapNext <= (IF rv = 0 THEN 0 ELSE 2)
  <2>1. rv = 0 => b = 0
    BY <1>5 DEF Absence, One
  <2> HIDE DEF rv, a, b, gap, gapNext
  <2> QED BY <1>5, <1>9, <1>10, <2>1
<1>12. reqNext <= 1
  BY <1>1, <1>3 DEF Requests, One
<1>13. cloudNext <= cloud
  <2>1. Len(remoteEvents'[n]) = 0 /\ One(remote'[n] # None) = One(remote[n] # None)
    BY <1>3
  <2>2. Len(remoteEvents[n]) \in Nat /\ One(remote[n] # None) \in Int
    BY <1>1 DEF RemoteTypes, One
  <2>3. /\ cloud = Len(remoteEvents[n]) + One(remote[n] # None)
        /\ cloudNext = Len(remoteEvents'[n]) + One(remote'[n] # None)
    BY DEF Cloud
  <2> HIDE DEF cloud, cloudNext
  <2> QED BY <2>1, <2>2, <2>3
<1>14. edgeNext <= edge
  <2>1. edgeNext = localRv[n]
    <3>1. Reports(localCache'[n], localEvents'[n]) = 0
      BY <1>3 DEF Reports
    <3> QED BY <1>1, <1>3, <3>1 DEF Edge, Counted
  <2> QED BY <1>1, <2>1 DEF Counted
<1>15. lateNext + gapNext <= req + late + gap + 2
  <2>1. CASE lateNext <= late
    <3> HIDE DEF rv, g, req, late, lateNext, gap, gapNext
    <3> QED BY <1>9, <1>11, <2>1
  <2>2. CASE ~(lateNext <= late)
    <3>1. inflight' # None /\ inflight'.name = n
      BY <1>9, <2>2 DEF LateCost
    <3>2. inflight' = pending /\ inflight = None
      <4>1. inflight # None => inflight' = inflight
        BY <1>3
      <4>2. inflight' = inflight => lateNext = late
        BY DEF LateCost
      <4> QED BY <1>3, <1>9, <2>2, <3>1, <4>1, <4>2
    <3>3. pending # None /\ pending.name = n /\ current = n
      BY <1>1, <3>1, <3>2 DEF PendingIsCurrent
    <3>4. lateNext = IF pending.op = "update" THEN 1 ELSE 2
      BY <3>1, <3>2 DEF LateCost
    <3>5. req >= 1
      BY <3>3 DEF Requests, One
    <3>6. CASE pending.op = "update"
      <4>1. lateNext = 1
        BY <3>4, <3>6
      <4> HIDE DEF rv, g, req, late, lateNext, gap, gapNext
      <4> QED BY <1>9, <1>11, <3>5, <4>1
    <3>7. CASE pending.op # "update"
      <4>1. lateNext = 2
        BY <3>4, <3>7
      <4>2. rv > 0 => gap >= 1
        <5>1. CASE pending.op = "delete"
          <6>1. View(n) = 0
            BY <1>1, <3>3, <5>1 DEF View, Puts
          <6>2. rv > 0 => a = 1
            BY <6>1 DEF Absence, One
          <6> HIDE DEF rv, a, gap
          <6> QED BY <1>5, <1>9, <1>10, <6>2
        <5>2. CASE pending.op # "delete"
          <6>1. pending \in Writes /\ pending.obj.lastRemote # None
            BY <1>1, <3>3, <5>2 DEF HeldBehind, Puts, ControllerTypes
          <6>2. View(n) = pending.obj.lastRemote /\ View(n) # 0
            BY <1>1, <3>3, <5>2, <6>1 DEF View, Puts, Writes, LocalObject, Versions
          <6>3. View(n) \in Nat /\ View(n) <= rv /\ f < View(n)
            BY <1>4, <6>2, ViewType DEF Floor
          <6> DEFINE v == View(n)
          <6> HIDE DEF rv, a, gap, v
          <6>4. v \in Nat /\ v <= rv /\ f < v
            BY <6>3 DEF v
          <6> QED BY <1>5, <1>9, <1>10, <6>4
        <5> QED BY <5>1, <5>2
      <4> HIDE DEF rv, g, req, late, lateNext, gap, gapNext
      <4> QED BY <1>5, <1>9, <1>11, <3>5, <4>1, <4>2
    <3> QED BY <3>6, <3>7
  <2> QED BY <2>1, <2>2
<1>16. (req + cloud + edge + late) + gap <= 4 * rv + 3 * spent
  BY <1>4 DEF Paid, Weight
<1>17. Disturbed' = spent + 1
  BY <1>1, <1>3, SpendCounts
<1>18. (reqNext + cloudNext + edgeNext + lateNext) + gapNext <= 4 * rv + 3 * (spent + 1)
  <2> HIDE DEF rv, g, req, reqNext, cloud, cloudNext, edge, edgeNext, late, lateNext, gap,
               gapNext, spent
  <2> QED BY <1>5, <1>9, <1>11, <1>12, <1>13, <1>14, <1>15, <1>16
<1>19. PaidNext(n, g)
  BY <1>5, <1>17, <1>18 DEF PaidNext, Weight
<1> QED BY <1>5, <1>8, <1>19 DEF AllowedNext

(* What happened to a name goes on paying for what is done about it.       *)
LEMMA AllowedSteps ==
    ASSUME OInv, Watched, ReadScoped, Sequenced, Followed, Signed(pending), Signed(inflight),
           Allowed, [Next]_vars, NEW n \in Names
    PROVE  AllowedNext(n)
<1>1. CASE Restarts
  BY <1>1, AllowedRestarted
<1>2. CASE Publishes(n)
  BY <1>2, AllowedPublished
<1>3. CASE ~Restarts /\ ~Publishes(n)
  <2>1. Shrunk(n)
    <3>1. RemoteTypes
      BY TypeOKParts DEF OInv, VInv, TInv
    <3> QED BY <1>3, <3>1, RemoteMoved, Shrinks
  <2>2. Balanced(n)
    <3>1. ASSUME NEW m \in Names,
                 Publishes(m) \/ RemoteDelete(m) \/ DeliverRemote(m) \/ RelistRemote(m)
          PROVE  Balanced(n)
      BY <1>3, <3>1, BalancedCloud
    <3>2. ASSUME NEW m \in Names,
                 LocalUser(m) \/ DeliverLocal(m) \/ RelistLocal(m) \/ Resync(m)
          PROVE  Balanced(n)
      BY <3>2, BalancedEdge
    <3>3. CASE \/ \E m \in Names : Begin(m) \/ TimerFires(m)
               \/ ReadLocal \/ WriteAccepted \/ WriteRefused \/ WriteFails
      BY <3>3, BalancedWorker
    <3>4. CASE LateWrite
      BY <3>4, BalancedLate
    <3>5. CASE UNCHANGED vars
      <4>1. /\ SameRight(n) /\ SameRequests(n) /\ inflight' = inflight /\ left' = left
        BY <3>5 DEF vars, remoteVars, localVars, taskVars, SameRight, SameRemote, SameLocal,
                    SameRequests
      <4>2. Counted /\ Counted' /\ Disturbed' = Disturbed
        BY <4>1, CountedNext DEF Disturbed, Spent
      <4>3. Requests(n)' <= Requests(n) + 0
        BY <4>1, RequestsKept
      <4>4. 0 <= 3 * (Disturbed' - Disturbed)
        BY <4>2 DEF Counted
      <4> QED BY <4>1, <4>2, <4>3, <4>4, BalancedKept
    <3> QED BY <1>3, <3>1, <3>2, <3>3, <3>4, <3>5 DEF Next, Publishes, Restarts
  <2> QED BY <1>3, <2>1, <2>2, AllowedBalanced
<1> QED BY <1>1, <1>2, <1>3

------------------------------------------------------------------------------
(* The inductive invariant holds at first.                                 *)
LEMMA LInvInit == Init => LInv
<1> SUFFICES ASSUME Init PROVE LInv
  OBVIOUS
<1>1. /\ \A n \in Names : /\ remote[n] = None /\ remoteCache[n] = None /\ remoteRv[n] = 0
                          /\ remoteEvents[n] = <<>> /\ localRv[n] = 0
                          /\ local[n] = None /\ localCache[n] = None
                          /\ localEvents[n] = <<>> /\ Have(n) = None
      /\ current = None /\ pending = None /\ inflight = None /\ remoteRead = None
      /\ queue = {} /\ delayed = {} /\ left = Budget /\ None \notin Names
  BY NoneAssumption DEF Init, Have, ManagedScoped
<1>2. Len(<<>>) = 0 /\ DOMAIN <<>> = {} /\ (\A i \in 0..Len(<<>>) : i = 0)
  OBVIOUS
<1>3. Watched
  BY <1>1, <1>2 DEF Watched, Link, EnvScoped
<1>4. Agreed
  BY <1>1, <1>2, NoneAssumption DEF Agreed, Known
<1>5. Sequenced /\ Followed
  BY <1>1, <1>2, RisingListed DEF Sequenced, Followed, Link
<1>6. Signed(pending) /\ Signed(inflight) /\ ReadScoped
  BY <1>1 DEF Signed, Puts, ReadScoped
<1>7. Allowed
  <2>1. ASSUME NEW n \in Names
        PROVE  0 \in 0..remoteRv[n] /\ Floor(n, 0) /\ Paid(n, 0)
    <3>1. View(n) = 0
      BY <1>1, <2>1 DEF View, RvOf
    <3>2. Floor(n, 0)
      BY <1>1, <2>1, <3>1, RisingListed DEF Floor
    <3>3. Requests(n) = 0 /\ LateCost(n) = 0 /\ Absence(n) = 0
      BY <1>1, <2>1 DEF Requests, LateCost, Absence, One
    <3>4. Cloud(n) = 0 /\ Edge(n) = 0
      <4>1. Len(remoteEvents[n]) = 0 /\ One(remote[n] # None) = 0 /\ localRv[n] = 0
        BY <1>1, <1>2, <2>1 DEF One
      <4>2. Reports(localCache[n], localEvents[n]) = 0
        BY <1>1, <2>1 DEF Reports
      <4> QED BY <4>1, <4>2 DEF Cloud, Edge
    <3>5. Disturbed = 0
      BY <1>1, ConstantsAssumption DEF Disturbed, Spent, Disturbances
    <3>6. Paid(n, 0)
      BY <1>1, <2>1, <3>3, <3>4, <3>5 DEF Paid, Weight, Gap
    <3> QED BY <1>1, <2>1, <3>2, <3>6
  <2> QED BY <2>1 DEF Allowed
<1> QED BY <1>3, <1>4, <1>5, <1>6, <1>7, OInvInit DEF LInv

(* Every step keeps it.                                                    *)
LEMMA LInvNext == LInv /\ [Next]_vars => LInv'
<1> SUFFICES ASSUME LInv, [Next]_vars PROVE LInv'
  OBVIOUS
<1>1. /\ OInv /\ Watched /\ Agreed /\ ReadScoped /\ Sequenced /\ Followed
      /\ Signed(pending) /\ Signed(inflight) /\ Allowed
  BY DEF LInv
<1>2. OInv' /\ Watched' /\ Agreed' /\ ReadScoped'
  BY <1>1, OInvNext, WatchNext, ReadScopedNext
<1>3. Sequenced' /\ Followed'
  <2>1. \A n \in Names : Ordered(n) /\ Later(remoteEvents'[n], View(n)')
    BY <1>1, SequencedRemote
  <2>2. \A n \in Names :
           /\ Rising(localCache'[n], localEvents'[n])
           /\ Link(localCache'[n], localEvents'[n], Len(localEvents'[n])) = HaveNext(n)
    BY <1>1, LocalNext
  <2> QED BY <2>1, <2>2 DEF Sequenced, Followed, Ordered, Have, HaveNext
<1>4. Signed(pending)' /\ Signed(inflight)'
  BY <1>1, SignedSteps DEF Signed, SignedNext
<1>5. Allowed'
  <2>1. \A n \in Names : AllowedNext(n)
    BY <1>1, AllowedSteps
  <2> QED BY <2>1 DEF Allowed, AllowedNext, Floor, FloorNext, Paid, PaidNext, Gap, GapNext
<1> QED BY <1>2, <1>3, <1>4, <1>5 DEF LInv

(* What is written has been paid.                                          *)
LEMMA WritesAllowed == LInv => NoWriteLoop
<1> SUFFICES ASSUME LInv, NEW n \in Names
             PROVE  localRv[n] <= 4 * remoteRv[n] + 3 * Disturbed
  BY DEF NoWriteLoop, Disturbed
<1>1. Counted
  BY CountedNow DEF LInv
<1>2. PICK f \in 0..remoteRv[n] : Paid(n, f)
  BY DEF LInv, Allowed
<1> DEFINE req == Requests(n)
           cloud == Cloud(n)
           edge == Edge(n)
           late == LateCost(n)
           a == Absence(n)
           rv == remoteRv[n]
           total == 4 * remoteRv[n] + 3 * Disturbed
<1>3. /\ req \in Nat /\ cloud \in Nat /\ edge \in Nat /\ late \in Nat /\ a \in Nat
      /\ rv \in Nat /\ f \in 0..rv /\ total \in Int
      /\ localRv[n] \in Nat /\ localRv[n] <= edge
  BY <1>1 DEF Counted
<1>4. (req + cloud + edge + late) + (a + (rv - f)) <= total
  BY <1>2 DEF Paid, Weight, Gap
<1> HIDE DEF req, cloud, edge, late, a, rv, total
<1>5. localRv[n] <= total
  BY <1>3, <1>4
<1> QED BY <1>5 DEF total

(* The controller does not feed itself: MirroringReconciler's writes to a  *)
(* name are bounded by what happened to it, however many reconciliations   *)
(* the echoes of its own writes, retries, stale reads and relists start,   *)
(* and also if the kind's merger makes each of them write.                 *)
THEOREM NoFeedback == Spec => []NoWriteLoop
<1>1. LInv /\ [Next]_vars => LInv'
  BY LInvNext
<1> QED BY <1>1, LInvInit, WritesAllowed, PTL DEF Spec

=============================================================================
