---------------------------- MODULE MirrorProofs ----------------------------
(***************************************************************************)
(* Theorems about Mirror, for every value of its constants.                *)
(***************************************************************************)
EXTENDS Mirror, TLAPS

(* A request of a name, an operation and an object is a write.             *)
LEMMA RequestType ==
    ASSUME NEW n \in Names, NEW op \in Ops, NEW obj \in LocalObject
    PROVE  Request(n, op, obj) \in Writes
BY DEF Request, Writes

(* Appending to one of a family of sequences keeps the family's type.      *)
LEMMA AppendType ==
    ASSUME NEW S, NEW I, NEW f \in [I -> Seq(S)], NEW i \in I, NEW e \in S
    PROVE  [f EXCEPT ![i] = Append(f[i], e)] \in [I -> Seq(S)]
<1>1. Append(f[i], e) \in Seq(S)
  OBVIOUS
<1> QED BY <1>1

(* The write a reconciliation decides on is well formed.                   *)
LEMMA DecideType ==
    ASSUME NEW n \in Names,
           NEW rem \in RemoteObject \cup {None},
           NEW loc \in LocalObject \cup {None},
           NEW envSet
    PROVE  Decide(n, rem, loc, envSet) \in Writes \cup {None}
<1>1. CASE rem = None /\ loc = None
  BY <1>1 DEF Decide
<1>2. CASE rem # None /\ loc = None
  <2> DEFINE obj == UpdateLastGeneration(Merged(rem, NewObject(rem)))
  <2>1. obj \in LocalObject
    BY <1>2 DEF LocalObject, RemoteObject, UpdateLastGeneration, Merged, NewObject,
                Versions, EmptyRv
  <2>2. Decide(n, rem, loc, envSet) = Request(n, "create", obj)
    BY <1>2 DEF Decide
  <2> QED BY <2>1, <2>2, RequestType DEF Ops
<1>3. CASE loc # None
  <2>1. Request(n, "delete", loc) \in Writes
    BY <1>3, RequestType DEF Ops
  <2>2. ASSUME rem # None
        PROVE  Request(n, "update", UpdateLastGeneration(Merged(rem, loc))) \in Writes
    <3> DEFINE obj == UpdateLastGeneration(Merged(rem, loc))
    <3>1. obj \in LocalObject
      BY <1>3, <2>2 DEF LocalObject, RemoteObject, UpdateLastGeneration, Merged,
                        Versions, EmptyRv
    <3> QED BY <3>1, RequestType DEF Ops
  <2> QED BY <1>3, <2>1, <2>2 DEF Decide
<1> QED BY <1>1, <1>2, <1>3

(* What storing an object, or removing it, does to the variables of the    *)
(* edge cluster keeps their types.                                         *)
LocalTypes ==
    /\ local \in [Names -> LocalObject \cup {None}]
    /\ localRv \in [Names -> Nat]
    /\ localCache \in [Names -> LocalObject \cup {None}]
    /\ localEvents \in [Names -> Seq(LocalObject \cup {None})]

RemoteTypes ==
    /\ remote \in [Names -> RemoteObject \cup {None}]
    /\ remoteRv \in [Names -> Nat]
    /\ remoteCache \in [Names -> RemoteObject \cup {None}]
    /\ remoteEvents \in [Names -> Seq(RemoteObject \cup {None})]

(* The managed cache scope lets an object through or hides it.             *)
LEMMA ManagedScopedType ==
    ASSUME NEW obj \in LocalObject \cup {None}
    PROVE  ManagedScoped(obj) \in LocalObject \cup {None}
BY DEF ManagedScoped

(* The environment cache scope lets an object through or hides it.         *)
LEMMA EnvScopedType ==
    ASSUME NEW obj \in RemoteObject \cup {None}, NEW envSet
    PROVE  EnvScoped(obj, envSet) \in RemoteObject \cup {None}
BY DEF EnvScoped

(* The local API server keeps its types when it stores or deletes an object. *)
LEMMA StoreLocalType ==
    ASSUME LocalTypes,
           NEW n \in Names, NEW new \in LocalObject \cup {None},
           StoreLocal(n, new)
    PROVE  LocalTypes'
<1> DEFINE stored == IF new = None THEN None ELSE [new EXCEPT !.rv = localRv[n] + 1]
           is == ManagedScoped(stored)
<1>1. stored \in LocalObject \cup {None}
  <2>1. localRv[n] + 1 \in Versions
    BY DEF LocalTypes, Versions
  <2> QED BY <2>1 DEF LocalObject
<1>2. is \in LocalObject \cup {None}
  BY <1>1, ManagedScopedType
<1>3. /\ local' = [local EXCEPT ![n] = stored]
      /\ localRv' \in {localRv, [localRv EXCEPT ![n] = @ + 1]}
      /\ localEvents' \in {localEvents, [localEvents EXCEPT ![n] = Append(@, is)]}
      /\ localCache' = localCache
  BY DEF StoreLocal
<1> HIDE DEF stored, is
<1>4. local' \in [Names -> LocalObject \cup {None}]
  BY <1>1, <1>3 DEF LocalTypes
<1>5. localRv' \in [Names -> Nat]
  BY <1>3 DEF LocalTypes
<1>6. localEvents' \in [Names -> Seq(LocalObject \cup {None})]
  <2> DEFINE S == LocalObject \cup {None}
  <2>1. localEvents \in [Names -> Seq(S)] /\ is \in S
    BY <1>2 DEF LocalTypes
  <2> HIDE DEF S
  <2>2. [localEvents EXCEPT ![n] = Append(localEvents[n], is)] \in [Names -> Seq(S)]
    BY <2>1, AppendType
  <2>3. localEvents' \in [Names -> Seq(S)]
    BY <1>3, <2>1, <2>2
  <2> QED BY <2>3 DEF S
<1> QED BY <1>3, <1>4, <1>5, <1>6 DEF LocalTypes

(* The remote API server keeps its types when it stores or deletes an object. *)
LEMMA StoreRemoteType ==
    ASSUME RemoteTypes,
           NEW n \in Names, NEW new \in RemoteObject \cup {None},
           StoreRemote(n, new)
    PROVE  RemoteTypes'
<1> DEFINE is == EnvScoped(new, envs)
<1>1. is \in RemoteObject \cup {None}
  BY EnvScopedType
<1>2. /\ remote' = [remote EXCEPT ![n] = new]
      /\ remoteRv' \in {remoteRv, [remoteRv EXCEPT ![n] = @ + 1]}
      /\ remoteEvents' \in {remoteEvents, [remoteEvents EXCEPT ![n] = Append(@, is)]}
      /\ remoteCache' = remoteCache
  BY DEF StoreRemote
<1> HIDE DEF is
<1>3. remoteRv' \in [Names -> Nat]
  BY <1>2 DEF RemoteTypes
<1>4. remoteEvents' \in [Names -> Seq(RemoteObject \cup {None})]
  <2> DEFINE S == RemoteObject \cup {None}
  <2>1. remoteEvents \in [Names -> Seq(S)] /\ is \in S
    BY <1>1 DEF RemoteTypes
  <2> HIDE DEF S
  <2>2. [remoteEvents EXCEPT ![n] = Append(remoteEvents[n], is)] \in [Names -> Seq(S)]
    BY <2>1, AppendType
  <2>3. remoteEvents' \in [Names -> Seq(S)]
    BY <1>2, <2>1, <2>2
  <2> QED BY <2>3 DEF S
<1> QED BY <1>2, <1>3, <1>4 DEF RemoteTypes

(* So it does when it carries out a write of the controller.               *)
LEMMA ApplyType ==
    ASSUME LocalTypes, NEW w \in Writes, Apply(w)
    PROVE  LocalTypes'
<1>1. /\ w.name \in Names
      /\ (IF w.op = "delete" THEN None ELSE w.obj) \in LocalObject \cup {None}
  BY DEF Writes
<1> QED BY <1>1, StoreLocalType DEF Apply

------------------------------------------------------------------------------
(* The types of the controller's own variables.                            *)
ControllerTypes ==
    /\ envs \in EnvChoices
    /\ queue \subseteq Names
    /\ delayed \subseteq Names
    /\ current \in Names \cup {None}
    /\ remoteRead \in RemoteObject \cup {None}
    /\ pending \in Writes \cup {None}
    /\ inflight \in Writes \cup {None}
    /\ left \in [Disturbances -> Nat]

(* TypeOK taken apart by who writes the variables.                         *)
LEMMA TypeOKParts == TypeOK <=> LocalTypes /\ RemoteTypes /\ ControllerTypes
BY DEF TypeOK, LocalTypes, RemoteTypes, ControllerTypes

(* Spending a disturbance keeps the type of the budget.                    *)
LEMMA SpendType ==
    ASSUME left \in [Disturbances -> Nat], NEW d \in Disturbances \ {"all"}, Spend(d)
    PROVE  left' \in [Disturbances -> Nat]
<1>1. left["all"] \in Nat /\ left[d] \in Nat /\ "all" \in Disturbances
  BY DEF Disturbances
<1> QED BY <1>1 DEF Spend

(* Whatever an edge user does is one call of the local API server.         *)
LEMMA LocalUserStores ==
    ASSUME LocalTypes, NEW n \in Names, LocalUser(n)
    PROVE  \E new \in LocalObject \cup {None} : StoreLocal(n, new)
<1>1. ASSUME NEW d \in Data, UserCreates(n, d)
      PROVE  \E new \in LocalObject \cup {None} : StoreLocal(n, new)
  <2>1. [managed |-> FALSE, data |-> d, rv |-> EmptyRv, lastGen |-> None,
         lastRemote |-> None] \in LocalObject
    BY DEF LocalObject, EmptyRv
  <2> QED BY <1>1, <2>1 DEF UserCreates
<1>2. ASSUME NEW d \in Data, UserEdits(n, d)
      PROVE  \E new \in LocalObject \cup {None} : StoreLocal(n, new)
  <2>1. [local[n] EXCEPT !.data = d] \in LocalObject
    BY <1>2 DEF UserEdits, LocalTypes, LocalObject
  <2> QED BY <1>2, <2>1 DEF UserEdits
<1>3. ASSUME NEW d \in Data, UserReplaces(n, d)
      PROVE  \E new \in LocalObject \cup {None} : StoreLocal(n, new)
  <2>1. [local[n] EXCEPT !.data = d, !.lastGen = None, !.lastRemote = None]
          \in LocalObject
    BY <1>3 DEF UserReplaces, LocalTypes, LocalObject
  <2> QED BY <1>3, <2>1 DEF UserReplaces
<1>4. ASSUME UserUnmanages(n)
      PROVE  \E new \in LocalObject \cup {None} : StoreLocal(n, new)
  <2>1. [local[n] EXCEPT !.managed = FALSE] \in LocalObject
    BY <1>4 DEF UserUnmanages, LocalTypes, LocalObject
  <2> QED BY <1>4, <2>1 DEF UserUnmanages
<1>5. ASSUME UserDeletes(n)
      PROVE  \E new \in LocalObject \cup {None} : StoreLocal(n, new)
  BY <1>5 DEF UserDeletes
<1> QED BY <1>1, <1>2, <1>3, <1>4, <1>5 DEF LocalUser

(* So it keeps the types.                                                  *)
LEMMA LocalUserType ==
    ASSUME TypeOK, NEW n \in Names, LocalUser(n)
    PROVE  TypeOK'
<1>1. LocalTypes /\ RemoteTypes /\ ControllerTypes
  BY TypeOKParts
<1>2. \E new \in LocalObject \cup {None} : StoreLocal(n, new)
  BY <1>1, LocalUserStores
<1>3. LocalTypes'
  BY <1>1, <1>2, StoreLocalType
<1>4. RemoteTypes'
  BY <1>1 DEF LocalUser, remoteVars, RemoteTypes
<1>5. ControllerTypes'
  <2>1. left' \in [Disturbances -> Nat]
    BY <1>1, SpendType DEF LocalUser, ControllerTypes, Disturbances
  <2> QED BY <1>1, <2>1 DEF LocalUser, taskVars, ControllerTypes
<1> QED BY <1>3, <1>4, <1>5, TypeOKParts DEF TypeOK, LocalTypes, RemoteTypes, ControllerTypes

(* Ending a reconciliation leaves the worker idle.                         *)
LEMMA FinishType ==
    ASSUME delayed \subseteq Names, current \in Names, NEW requeue, Finish(requeue)
    PROVE  /\ delayed' \subseteq Names
           /\ current' = None /\ remoteRead' = None /\ pending' = None
BY DEF Finish

(* The write a worker is about to send belongs to the name it works on.    *)
PendingIsCurrent == pending # None => current \in Names /\ pending.name = current

TInv == TypeOK /\ PendingIsCurrent

(* The initial state satisfies the type invariant.                         *)
LEMMA TInvInit == Init => TInv
<1> SUFFICES ASSUME Init PROVE TInv
  OBVIOUS
<1>1. /\ \A S : <<>> \in Seq(S)
      /\ Budget \in [Disturbances -> Nat]
  BY ConstantsAssumption
<1> QED BY <1>1 DEF Init, TInv, TypeOK, PendingIsCurrent

(* Users of the two clusters keep the type invariant.                      *)
LEMMA TInvRemote ==
    ASSUME TInv, NEW n \in Names,
           \/ \E env \in EnvLabels, d \in Data : RemotePut(n, env, d)
           \/ RemoteDelete(n)
    PROVE  TInv'
<1>1. LocalTypes /\ RemoteTypes /\ ControllerTypes
  BY TypeOKParts DEF TInv
<1>2. \E new \in RemoteObject \cup {None} : StoreRemote(n, new)
  <2>1. ASSUME NEW env \in EnvLabels, NEW d \in Data, RemotePut(n, env, d)
        PROVE  \E new \in RemoteObject \cup {None} : StoreRemote(n, new)
    <3>1. remoteRv[n] + 1 \in Versions
      BY <1>1 DEF RemoteTypes, Versions
    <3>2. [env |-> env, data |-> d, rv |-> remoteRv[n] + 1] \in RemoteObject
      BY <3>1 DEF RemoteObject
    <3> QED BY <2>1, <3>2 DEF RemotePut
  <2>2. ASSUME RemoteDelete(n)
        PROVE  \E new \in RemoteObject \cup {None} : StoreRemote(n, new)
    BY <2>2 DEF RemoteDelete
  <2> QED BY <2>1, <2>2
<1>3. RemoteTypes'
  BY <1>1, <1>2, StoreRemoteType
<1>4. UNCHANGED <<localVars, envs, queue, delayed, taskVars, inflight, left>>
  BY DEF RemotePut, RemoteDelete
<1> QED BY <1>1, <1>3, <1>4 DEF TInv, TypeOK, LocalTypes, RemoteTypes, ControllerTypes,
                               PendingIsCurrent, localVars, taskVars

(* The watches keep it.                                                    *)
LEMMA TInvDeliver ==
    ASSUME TInv, NEW n \in Names,
           DeliverRemote(n) \/ DeliverLocal(n) \/ RelistRemote(n) \/ RelistLocal(n)
             \/ Resync(n)
    PROVE  TInv'
<1>1. LocalTypes /\ RemoteTypes /\ ControllerTypes /\ PendingIsCurrent
  BY TypeOKParts DEF TInv
<1>2. CASE DeliverRemote(n)
  <2>1. /\ Head(remoteEvents[n]) \in RemoteObject \cup {None}
        /\ Tail(remoteEvents[n]) \in Seq(RemoteObject \cup {None})
    BY <1>1, <1>2 DEF DeliverRemote, RemoteTypes
  <2>2. RemoteTypes'
    BY <1>1, <1>2, <2>1 DEF DeliverRemote, RemoteTypes
  <2> QED BY <1>1, <1>2, <2>2 DEF DeliverRemote, Enqueue, localVars, taskVars, TInv, TypeOK,
                      LocalTypes, RemoteTypes, ControllerTypes, PendingIsCurrent
<1>3. CASE DeliverLocal(n)
  <2>1. /\ Head(localEvents[n]) \in LocalObject \cup {None}
        /\ Tail(localEvents[n]) \in Seq(LocalObject \cup {None})
    BY <1>1, <1>3 DEF DeliverLocal, LocalTypes
  <2>2. LocalTypes'
    BY <1>1, <1>3, <2>1 DEF DeliverLocal, LocalTypes
  <2> QED BY <1>1, <1>3, <2>2 DEF DeliverLocal, Enqueue, remoteVars, taskVars, TInv, TypeOK,
                      LocalTypes, RemoteTypes, ControllerTypes, PendingIsCurrent
<1>4. CASE RelistRemote(n)
  <2>1. EnvScoped(remote[n], envs) \in RemoteObject \cup {None}
    BY <1>1, EnvScopedType DEF RemoteTypes
  <2>2. <<>> \in Seq(RemoteObject \cup {None})
    OBVIOUS
  <2>3. RemoteTypes'
    BY <1>1, <1>4, <2>1, <2>2 DEF RelistRemote, RemoteTypes
  <2>4. left' \in [Disturbances -> Nat]
    BY <1>1, <1>4, SpendType DEF RelistRemote, ControllerTypes, Disturbances
  <2> QED BY <1>1, <1>4, <2>3, <2>4 DEF RelistRemote, Enqueue, localVars, taskVars, TInv,
                      TypeOK, LocalTypes, RemoteTypes, ControllerTypes, PendingIsCurrent
<1>5. CASE RelistLocal(n)
  <2>1. ManagedScoped(local[n]) \in LocalObject \cup {None}
    BY <1>1, ManagedScopedType DEF LocalTypes
  <2>2. <<>> \in Seq(LocalObject \cup {None})
    OBVIOUS
  <2>3. LocalTypes'
    BY <1>1, <1>5, <2>1, <2>2 DEF RelistLocal, LocalTypes
  <2>4. left' \in [Disturbances -> Nat]
    BY <1>1, <1>5, SpendType DEF RelistLocal, ControllerTypes, Disturbances
  <2> QED BY <1>1, <1>5, <2>3, <2>4 DEF RelistLocal, Enqueue, remoteVars, taskVars, TInv,
                      TypeOK, LocalTypes, RemoteTypes, ControllerTypes, PendingIsCurrent
<1>6. CASE Resync(n)
  <2>1. left' \in [Disturbances -> Nat]
    BY <1>1, <1>6, SpendType DEF Resync, ControllerTypes, Disturbances
  <2> QED BY <1>1, <1>6, <2>1 DEF Resync, Enqueue, remoteVars, localVars, taskVars, TInv,
                      TypeOK, LocalTypes, RemoteTypes, ControllerTypes, PendingIsCurrent
<1> QED BY <1>2, <1>3, <1>4, <1>5, <1>6

(* The worker keeps it.                                                    *)
LEMMA TInvWorker ==
    ASSUME TInv,
           \/ \E n \in Names : Begin(n) \/ TimerFires(n)
           \/ ReadLocal \/ WriteAccepted \/ WriteRefused \/ WriteFails
    PROVE  TInv'
<1>1. LocalTypes /\ RemoteTypes /\ ControllerTypes /\ PendingIsCurrent
  BY TypeOKParts DEF TInv
<1>2. ASSUME NEW n \in Names, Begin(n)
      PROVE  TInv'
  <2>1. remoteRead' \in RemoteObject \cup {None}
    BY <1>1, <1>2 DEF Begin, RemoteTypes
  <2>2. pending = None
    BY <1>1, <1>2, NoneAssumption DEF Begin, PendingIsCurrent
  <2> QED BY <1>1, <1>2, <2>1, <2>2 DEF Begin, remoteVars, localVars, TInv, TypeOK,
                      LocalTypes, RemoteTypes, ControllerTypes, PendingIsCurrent
<1>3. ASSUME NEW n \in Names, TimerFires(n)
      PROVE  TInv'
  BY <1>1, <1>3 DEF TimerFires, remoteVars, localVars, taskVars, TInv, TypeOK,
                    LocalTypes, RemoteTypes, ControllerTypes, PendingIsCurrent
<1>4. CASE ReadLocal
  <2> DEFINE write == Decide(current, remoteRead, localCache[current], envs)
  <2>1. current \in Names
    BY <1>1, <1>4 DEF ReadLocal, ControllerTypes
  <2>2. write \in Writes \cup {None}
    BY <1>1, <2>1, DecideType DEF LocalTypes, ControllerTypes
  <2>3. write # None => write.name = current
    BY DEF Decide, Request
  <2>4. /\ IF write = None THEN Finish(FALSE)
           ELSE pending' = write /\ remoteRead' = None /\ UNCHANGED <<current, delayed>>
        /\ UNCHANGED <<remoteVars, localVars, envs, queue, inflight, left>>
    BY <1>4 DEF ReadLocal
  <2> HIDE DEF write
  <2>5. ControllerTypes' /\ PendingIsCurrent'
    <3>1. CASE write = None
      BY <1>1, <2>1, <2>4, <3>1 DEF Finish, ControllerTypes, PendingIsCurrent
    <3>2. CASE write # None
      BY <1>1, <2>1, <2>2, <2>3, <2>4, <3>2 DEF ControllerTypes, PendingIsCurrent
    <3> QED BY <3>1, <3>2
  <2>6. LocalTypes' /\ RemoteTypes'
    BY <1>1, <2>4 DEF remoteVars, localVars, LocalTypes, RemoteTypes
  <2> QED BY <2>5, <2>6 DEF TInv, TypeOK, LocalTypes, RemoteTypes, ControllerTypes
<1>5. CASE WriteAccepted
  <2>1. pending \in Writes /\ current \in Names
    BY <1>1, <1>5 DEF WriteAccepted, ControllerTypes, PendingIsCurrent
  <2>2. LocalTypes'
    BY <1>1, <1>5, <2>1, ApplyType DEF WriteAccepted
  <2>3. ControllerTypes' /\ PendingIsCurrent'
    BY <1>1, <1>5, <2>1, FinishType DEF WriteAccepted, ControllerTypes, PendingIsCurrent
  <2> QED BY <1>1, <1>5, <2>2, <2>3 DEF WriteAccepted, remoteVars, TInv, TypeOK,
                      LocalTypes, RemoteTypes, ControllerTypes
<1>6. CASE WriteRefused
  <2>1. current \in Names
    BY <1>1, <1>6 DEF WriteRefused, PendingIsCurrent
  <2>2. ControllerTypes' /\ PendingIsCurrent'
    BY <1>1, <1>6, <2>1, FinishType DEF WriteRefused, ControllerTypes, PendingIsCurrent
  <2> QED BY <1>1, <1>6, <2>2 DEF WriteRefused, remoteVars, localVars, TInv, TypeOK,
                      LocalTypes, RemoteTypes, ControllerTypes
<1>7. CASE WriteFails
  <2>1. pending \in Writes /\ current \in Names
    BY <1>1, <1>7 DEF WriteFails, ControllerTypes, PendingIsCurrent
  <2>2. LocalTypes'
    <3>1. CASE Apply(pending)
      BY <1>1, <2>1, <3>1, ApplyType
    <3>2. CASE UNCHANGED localVars
      BY <1>1, <3>2 DEF localVars, LocalTypes
    <3> QED BY <1>7, <3>1, <3>2 DEF WriteFails
  <2>3. left' \in [Disturbances -> Nat]
    BY <1>1, <1>7, SpendType DEF WriteFails, ControllerTypes, Disturbances
  <2>4. ControllerTypes' /\ PendingIsCurrent'
    BY <1>1, <1>7, <2>1, <2>3, FinishType DEF WriteFails, ControllerTypes, PendingIsCurrent
  <2> QED BY <1>1, <1>7, <2>2, <2>4 DEF WriteFails, remoteVars, TInv, TypeOK,
                      LocalTypes, RemoteTypes, ControllerTypes
<1> QED BY <1>2, <1>3, <1>4, <1>5, <1>6, <1>7

(* A restart keeps it.                                                     *)
LEMMA TInvRestart ==
    ASSUME TInv, NEW newEnvs \in EnvChoices, Restart(newEnvs)
    PROVE  TInv'
<1>1. LocalTypes /\ RemoteTypes /\ ControllerTypes
  BY TypeOKParts DEF TInv
<1>2. remoteCache' \in [Names -> RemoteObject \cup {None}]
  BY <1>1, EnvScopedType DEF Restart, RemoteList, RemoteTypes
<1>3. localCache' \in [Names -> LocalObject \cup {None}]
  BY <1>1, ManagedScopedType DEF Restart, LocalTypes
<1>4. /\ remoteEvents' \in [Names -> Seq(RemoteObject \cup {None})]
      /\ localEvents' \in [Names -> Seq(LocalObject \cup {None})]
  BY DEF Restart
<1>5. left' \in [Disturbances -> Nat]
  BY <1>1, SpendType DEF Restart, ControllerTypes, Disturbances
<1>6. inflight' \in Writes \cup {None}
  BY <1>1 DEF Restart, ControllerTypes
<1> QED BY <1>1, <1>2, <1>3, <1>4, <1>5, <1>6 DEF Restart, TInv, TypeOK,
           LocalTypes, RemoteTypes, ControllerTypes, PendingIsCurrent

(* A late write keeps it.                                                  *)
LEMMA TInvLateWrite ==
    ASSUME TInv, LateWrite
    PROVE  TInv'
<1>1. LocalTypes /\ RemoteTypes /\ ControllerTypes /\ PendingIsCurrent
  BY TypeOKParts DEF TInv
<1>2. inflight \in Writes
  BY <1>1 DEF LateWrite, ControllerTypes
<1>3. LocalTypes'
  <2>1. CASE Apply(inflight)
    BY <1>1, <1>2, <2>1, ApplyType
  <2>2. CASE UNCHANGED localVars
    BY <1>1, <2>2 DEF localVars, LocalTypes
  <2> QED BY <2>1, <2>2 DEF LateWrite
<1> QED BY <1>1, <1>3 DEF LateWrite, remoteVars, taskVars, TInv, TypeOK,
           LocalTypes, RemoteTypes, ControllerTypes, PendingIsCurrent

(* Every step keeps the type invariant.                                    *)
LEMMA TInvNext == TInv /\ [Next]_vars => TInv'
<1> SUFFICES ASSUME TInv, [Next]_vars PROVE TInv'
  OBVIOUS
<1>1. ASSUME NEW n \in Names, LocalUser(n)
      PROVE  TInv'
  BY <1>1, LocalUserType DEF TInv, LocalUser, PendingIsCurrent, taskVars
<1>2. CASE UNCHANGED vars
  BY <1>2 DEF vars, remoteVars, localVars, taskVars, TInv, TypeOK, PendingIsCurrent
<1> QED BY <1>1, <1>2, TInvRemote, TInvDeliver, TInvWorker, TInvRestart, TInvLateWrite
        DEF Next

(* Type correctness: in every behaviour of the mirroring, with any names,  *)
(* data, environments and bounds, every variable keeps its type.           *)
THEOREM TypeCorrect == Spec => []TypeOK
<1>1. Spec => []TInv
  BY TInvInit, TInvNext, PTL DEF Spec
<1>2. TInv => TypeOK
  BY DEF TInv
<1> QED BY <1>1, <1>2, PTL

------------------------------------------------------------------------------
(* A version that names only managed states keeps doing so when the object *)
(* changes: the new state has a version of its own.                        *)
SeenNext(n, rv) ==
    /\ rv \in Versions /\ rv <= localRv'[n]
    /\ local'[n] # None /\ local'[n].rv = rv => local'[n].managed

(* A version once seen managed stays so: new states get new versions.      *)
LEMMA SeenKept ==
    ASSUME LocalTypes, NEW n \in Names, NEW new \in LocalObject \cup {None},
           StoreLocal(n, new), NEW m \in Names, NEW rv, Seen(m, rv)
    PROVE  SeenNext(m, rv)
<1>1. localRv[m] \in Nat /\ localRv'[m] \in Nat /\ localRv'[m] >= localRv[m] /\ rv \in Nat
  BY DEF StoreLocal, LocalTypes, Seen, Versions
<1>2. rv \in Versions /\ rv <= localRv'[m]
  BY <1>1 DEF Seen
<1>3. CASE m # n
  <2>1. local'[m] = local[m]
    BY <1>3 DEF StoreLocal, LocalTypes
  <2> QED BY <1>2, <2>1 DEF Seen, SeenNext
<1>4. CASE m = n
  <2>1. local'[m] # None => local'[m].rv = localRv[m] + 1
    BY <1>4 DEF StoreLocal, LocalTypes, LocalObject
  <2>2. rv # localRv[m] + 1
    BY <1>1 DEF Seen
  <2> QED BY <1>2, <2>1, <2>2 DEF SeenNext
<1> QED BY <1>3, <1>4

(* A write to the local API server keeps the versions in order.            *)
LEMMA VersionsStored ==
    ASSUME LocalTypes, StoredVersions, CachedVersions,
           NEW n \in Names, NEW new \in LocalObject \cup {None}, StoreLocal(n, new)
    PROVE  StoredVersions' /\ CachedVersions'
<1> DEFINE stored == IF new = None THEN None ELSE [new EXCEPT !.rv = localRv[n] + 1]
           is == ManagedScoped(stored)
<1>1. /\ local' = [local EXCEPT ![n] = stored]
      /\ localRv' = IF new = None THEN localRv ELSE [localRv EXCEPT ![n] = @ + 1]
      /\ \/ localEvents' = localEvents
         \/ localEvents' = [localEvents EXCEPT ![n] = Append(@, is)]
      /\ localCache' = localCache
  BY DEF StoreLocal
<1>2. stored # None => /\ stored.rv = localRv[n] + 1
                       /\ localRv'[n] = localRv[n] + 1
                       /\ localRv[n] + 1 \in Versions
  BY <1>1 DEF LocalTypes, LocalObject, Versions
<1>3. is # None => is = stored /\ stored.managed
  BY DEF ManagedScoped
<1> HIDE DEF stored, is
<1>4. StoredVersions'
  <2> SUFFICES ASSUME NEW m \in Names, local'[m] # None
               PROVE  local'[m].rv \in Versions /\ local'[m].rv <= localRv'[m]
    BY DEF StoredVersions
  <2>1. CASE m = n
    BY <1>1, <1>2, <2>1 DEF LocalTypes, Versions
  <2>2. CASE m # n
    BY <1>1, <2>2 DEF LocalTypes, StoredVersions
  <2> QED BY <2>1, <2>2
<1>5. is # None => SeenNext(n, is.rv)
  <2> SUFFICES ASSUME is # None PROVE SeenNext(n, is.rv)
    OBVIOUS
  <2>1. is = stored /\ stored.managed /\ stored # None /\ local'[n] = stored
    BY <1>1, <1>3 DEF LocalTypes
  <2>2. is.rv = localRv'[n] /\ is.rv \in Versions
    BY <1>2, <2>1
  <2> QED BY <2>1, <2>2 DEF SeenNext, Versions
<1>6. CachedVersions'
  <2> SUFFICES ASSUME NEW m \in Names
               PROVE  /\ localCache'[m] # None => SeenNext(m, localCache'[m].rv)
                      /\ \A i \in DOMAIN localEvents'[m] :
                            localEvents'[m][i] # None => SeenNext(m, localEvents'[m][i].rv)
    BY DEF CachedVersions, Seen, SeenNext
  <2>1. localCache'[m] # None => SeenNext(m, localCache'[m].rv)
    BY <1>1, SeenKept DEF CachedVersions
  <2>2. ASSUME NEW i \in DOMAIN localEvents'[m], localEvents'[m][i] # None
        PROVE  SeenNext(m, localEvents'[m][i].rv)
    <3>1. CASE i \in DOMAIN localEvents[m] /\ localEvents'[m][i] = localEvents[m][i]
      <4>1. Seen(m, localEvents[m][i].rv)
        BY <2>2, <3>1 DEF CachedVersions
      <4> QED BY <3>1, <4>1, SeenKept
    <3>2. CASE m = n /\ localEvents'[m][i] = is
      BY <1>5, <2>2, <3>2
    <3>3. \/ i \in DOMAIN localEvents[m] /\ localEvents'[m][i] = localEvents[m][i]
          \/ m = n /\ localEvents'[m][i] = is
      <4>1. localEvents[m] \in Seq(LocalObject \cup {None})
        BY DEF LocalTypes
      <4>2. localEvents'[m] = localEvents[m] \/ (m = n /\ localEvents'[m] = Append(localEvents[m], is))
        BY <1>1 DEF LocalTypes
      <4> QED BY <2>2, <4>1, <4>2
    <3> QED BY <3>1, <3>2, <3>3
  <2> QED BY <2>1, <2>2
<1> QED BY <1>4, <1>6

(* Carrying out a write keeps every known version managed.                 *)
LEMMA VersionsApplied ==
    ASSUME LocalTypes, ManagedVersions, NEW w \in Writes, Apply(w),
           NEW x \in Writes, x.op = "update" => Seen(x.name, x.obj.rv)
    PROVE  /\ StoredVersions' /\ CachedVersions'
           /\ x.op = "update" => SeenNext(x.name, x.obj.rv)
<1>1. /\ w.name \in Names /\ x.name \in Names
      /\ (IF w.op = "delete" THEN None ELSE w.obj) \in LocalObject \cup {None}
  BY DEF Writes
<1>2. StoredVersions' /\ CachedVersions'
  BY <1>1, VersionsStored DEF Apply, ManagedVersions
<1>3. x.op = "update" => SeenNext(x.name, x.obj.rv)
  BY <1>1, SeenKept DEF Apply
<1> QED BY <1>2, <1>3

(* Steps that leave the local API server and both writes alone.            *)
LEMMA SeenUnchanged ==
    ASSUME UNCHANGED <<local, localRv>>
    PROVE  /\ StoredVersions => StoredVersions'
           /\ \A n, rv : Seen(n, rv) => SeenNext(n, rv)
BY DEF StoredVersions, Seen, SeenNext

(* The part of ManagedVersions about the two writes, after a step that     *)
(* changes nothing that was ever seen to a version of unmanaged objects.   *)
LEMMA UpdatesKept ==
    ASSUME UpdateVersions,
           \A w \in {pending, inflight} :
              w # None /\ w.op = "update" /\ Seen(w.name, w.obj.rv)
                 => SeenNext(w.name, w.obj.rv),
           pending' \in {None, pending}, inflight' \in {None, pending, inflight}
    PROVE  UpdateVersions'
BY DEF UpdateVersions, Seen, SeenNext

(* A step that leaves the local cluster and its cache alone does too.      *)
LEMMA VersionsQuiet ==
    ASSUME ManagedVersions, UNCHANGED localVars,
           pending' \in {None, pending}, inflight' = inflight
    PROVE  ManagedVersions'
<1>1. UpdateVersions'
  BY UpdatesKept, SeenUnchanged DEF ManagedVersions, localVars
<1> QED BY <1>1 DEF ManagedVersions, StoredVersions, CachedVersions, localVars, Seen

(* A delivery or a relist puts managed versions only into the cache.       *)
LEMMA VersionsDelivered ==
    ASSUME TypeOK, ManagedVersions, NEW n \in Names, DeliverLocal(n) \/ RelistLocal(n)
    PROVE  ManagedVersions'
<1>1. /\ UNCHANGED <<local, localRv, pending, inflight>>
  BY DEF DeliverLocal, RelistLocal, taskVars
<1>2. StoredVersions' /\ UpdateVersions'
  BY <1>1, SeenUnchanged, UpdatesKept DEF ManagedVersions
<1>3. ASSUME NEW new, localCache' = [localCache EXCEPT ![n] = new],
             new # None => Seen(n, new.rv)
      PROVE  \A m \in Names : localCache'[m] # None => Seen(m, localCache'[m].rv)
  BY <1>3 DEF ManagedVersions, CachedVersions, TypeOK
<1>4. CASE DeliverLocal(n)
  <2>1. localEvents[n] \in Seq(LocalObject \cup {None}) /\ localEvents[n] # <<>>
    BY <1>4 DEF DeliverLocal, TypeOK
  <2>2. 1 \in DOMAIN localEvents[n] /\ Head(localEvents[n]) = localEvents[n][1]
    BY <2>1
  <2>3. \A m \in Names : localCache'[m] # None => Seen(m, localCache'[m].rv)
    BY <1>3, <1>4, <2>2 DEF DeliverLocal, ManagedVersions, CachedVersions
  <2>4. ASSUME NEW m \in Names, NEW i \in DOMAIN localEvents'[m]
        PROVE  \E j \in DOMAIN localEvents[m] : localEvents'[m][i] = localEvents[m][j]
    <3>1. CASE m # n
      BY <1>4, <2>4, <3>1 DEF DeliverLocal, TypeOK
    <3>2. CASE m = n
      <4>1. localEvents'[m] = Tail(localEvents[m])
        BY <1>4, <3>2 DEF DeliverLocal, TypeOK
      <4>2. i + 1 \in DOMAIN localEvents[m] /\ localEvents'[m][i] = localEvents[m][i + 1]
        BY <2>1, <2>4, <3>2, <4>1
      <4> QED BY <4>2
    <3> QED BY <3>1, <3>2
  <2>5. CachedVersions'
    BY <1>1, <2>3, <2>4 DEF ManagedVersions, CachedVersions, Seen
  <2> QED BY <1>2, <2>5 DEF ManagedVersions
<1>5. CASE RelistLocal(n)
  <2> DEFINE new == ManagedScoped(local[n])
  <2>1. new # None => Seen(n, new.rv)
    BY DEF ManagedScoped, ManagedVersions, StoredVersions, Seen
  <2>2. /\ localCache' = [localCache EXCEPT ![n] = new]
        /\ localEvents' = [localEvents EXCEPT ![n] = <<>>]
    BY <1>5 DEF RelistLocal
  <2> HIDE DEF new
  <2>3. \A m \in Names : localCache'[m] # None => Seen(m, localCache'[m].rv)
    BY <1>3, <2>1, <2>2
  <2>4. CachedVersions'
    BY <1>1, <2>2, <2>3 DEF ManagedVersions, CachedVersions, Seen, TypeOK
  <2> QED BY <1>2, <2>4 DEF ManagedVersions
<1> QED BY <1>4, <1>5

(* A decision takes its version from the cache.                            *)
LEMMA VersionsRead ==
    ASSUME TInv, ManagedVersions, ReadLocal
    PROVE  ManagedVersions'
<1> DEFINE loc == localCache[current]
           write == Decide(current, remoteRead, loc, envs)
<1>1. current \in Names
  BY DEF TInv, TypeOK, ReadLocal
<1>2. UNCHANGED localVars /\ inflight' = inflight /\ pending' \in {None, write}
  BY DEF ReadLocal, Finish
<1>3. write # None /\ write.op = "update" => Seen(write.name, write.obj.rv)
  <2> SUFFICES ASSUME write # None, write.op = "update"
               PROVE  Seen(write.name, write.obj.rv)
    OBVIOUS
  <2>1. loc # None /\ write = Request(current, "update", UpdateLastGeneration(Merged(remoteRead, loc)))
    BY DEF Decide, Request
  <2>2. write.name = current /\ write.obj.rv = loc.rv
    BY <2>1 DEF Request, UpdateLastGeneration, Merged
  <2> QED BY <1>1, <2>1, <2>2 DEF ManagedVersions, CachedVersions
<1> HIDE DEF write, loc
<1>4. UpdateVersions'
  BY <1>2, <1>3 DEF ManagedVersions, UpdateVersions, Seen, localVars
<1> QED BY <1>2, <1>4 DEF ManagedVersions, StoredVersions, CachedVersions, localVars, Seen

(* A write reaches the local API server, the controller's own or a user's. *)
LEMMA VersionsWritten ==
    ASSUME TypeOK, ManagedVersions,
           NEW n \in Names, NEW new \in LocalObject \cup {None}, StoreLocal(n, new),
           pending' \in {None, pending}, inflight' \in {None, inflight}
    PROVE  ManagedVersions'
<1>1. LocalTypes /\ ControllerTypes
  BY TypeOKParts
<1>2. StoredVersions' /\ CachedVersions'
  BY <1>1, VersionsStored DEF ManagedVersions
<1>3. ASSUME NEW w \in {pending, inflight}, w # None, w.op = "update",
             Seen(w.name, w.obj.rv)
      PROVE  SeenNext(w.name, w.obj.rv)
  <2>1. w.name \in Names
    BY <1>1, <1>3 DEF ControllerTypes, Writes
  <2> QED BY <1>1, <1>3, <2>1, SeenKept
<1>4. UpdateVersions'
  BY <1>3, UpdatesKept DEF ManagedVersions
<1> QED BY <1>2, <1>4 DEF ManagedVersions

(* A restarted controller lists managed objects only.                      *)
LEMMA VersionsRestart ==
    ASSUME TypeOK, ManagedVersions, NEW newEnvs \in EnvChoices, Restart(newEnvs)
    PROVE  ManagedVersions'
<1>1. UNCHANGED <<local, localRv>> /\ pending' = None
  BY DEF Restart
<1>2. inflight' \in {None, pending, inflight}
  BY DEF Restart
<1>3. StoredVersions' /\ UpdateVersions'
  BY <1>1, <1>2, SeenUnchanged, UpdatesKept DEF ManagedVersions
<1>4. CachedVersions'
  <2>1. ASSUME NEW m \in Names, localCache'[m] # None
        PROVE  Seen(m, localCache'[m].rv)
    <3>1. localCache'[m] = ManagedScoped(local[m])
      BY DEF Restart
    <3>2. localCache'[m] = local[m] /\ local[m] # None /\ local[m].managed
      BY <2>1, <3>1 DEF ManagedScoped
    <3> QED BY <3>2 DEF ManagedVersions, StoredVersions, Seen
  <2>2. \A m \in Names : localEvents'[m] = <<>>
    BY DEF Restart
  <2> QED BY <1>1, <2>1, <2>2 DEF CachedVersions, Seen
<1> QED BY <1>3, <1>4 DEF ManagedVersions

VInv == TInv /\ ManagedVersions

(* Every step keeps the managed versions.                                  *)
LEMMA VInvNext == VInv /\ [Next]_vars => VInv'
<1> SUFFICES ASSUME VInv, [Next]_vars PROVE ManagedVersions'
  BY TInvNext DEF VInv
<1>1. TInv /\ TypeOK /\ LocalTypes /\ ControllerTypes
  BY TypeOKParts DEF VInv, TInv
<1>2. ManagedVersions
  BY DEF VInv
<1>3. ASSUME NEW n \in Names,
             \/ \E env \in EnvLabels, d \in Data : RemotePut(n, env, d)
             \/ RemoteDelete(n) \/ DeliverRemote(n) \/ RelistRemote(n) \/ Resync(n)
             \/ Begin(n) \/ TimerFires(n)
      PROVE  ManagedVersions'
  <2>1. UNCHANGED localVars /\ pending' = pending /\ inflight' = inflight
    BY <1>3 DEF RemotePut, RemoteDelete, DeliverRemote, RelistRemote, Resync, Begin,
                TimerFires, taskVars
  <2> QED BY <1>2, <2>1, VersionsQuiet
<1>4. CASE WriteRefused \/ UNCHANGED vars
  <2>1. UNCHANGED localVars /\ pending' \in {None, pending} /\ inflight' = inflight
    BY <1>4 DEF WriteRefused, Finish, vars, taskVars
  <2> QED BY <1>2, <2>1, VersionsQuiet
<1>5. ASSUME NEW n \in Names, DeliverLocal(n) \/ RelistLocal(n)
      PROVE  ManagedVersions'
  BY <1>1, <1>2, <1>5, VersionsDelivered
<1>6. CASE ReadLocal
  BY <1>1, <1>2, <1>6, VersionsRead
<1>7. ASSUME NEW n \in Names, LocalUser(n)
      PROVE  ManagedVersions'
  <2>1. \E new \in LocalObject \cup {None} : StoreLocal(n, new)
    BY <1>1, <1>7, LocalUserStores
  <2>2. pending' = pending /\ inflight' = inflight
    BY <1>7 DEF LocalUser, taskVars
  <2> QED BY <1>1, <1>2, <2>1, <2>2, VersionsWritten
<1>8. ASSUME NEW w \in Writes, Apply(w),
             pending' \in {None, pending}, inflight' \in {None, inflight}
      PROVE  ManagedVersions'
  <2>1. /\ w.name \in Names
        /\ (IF w.op = "delete" THEN None ELSE w.obj) \in LocalObject \cup {None}
    BY <1>8 DEF Writes
  <2> QED BY <1>1, <1>2, <1>8, <2>1, VersionsWritten DEF Apply
<1>9. CASE WriteAccepted \/ WriteFails
  <2>1. pending \in Writes
    BY <1>1, <1>9 DEF WriteAccepted, WriteFails, ControllerTypes
  <2>2. Apply(pending) \/ UNCHANGED localVars
    BY <1>9 DEF WriteAccepted, WriteFails
  <2>3. pending' = None /\ inflight' = inflight
    BY <1>9 DEF WriteAccepted, WriteFails, Finish
  <2> QED BY <1>2, <1>8, <2>1, <2>2, <2>3, VersionsQuiet
<1>10. CASE LateWrite
  <2>1. inflight \in Writes
    BY <1>1, <1>10 DEF LateWrite, ControllerTypes
  <2>2. pending' = pending /\ inflight' = None
    BY <1>10 DEF LateWrite, taskVars
  <2>3. CASE Apply(inflight)
    BY <1>8, <2>1, <2>2, <2>3
  <2>4. CASE UNCHANGED localVars
    <3>1. UpdateVersions'
      BY <1>2, <2>2, <2>4, UpdatesKept, SeenUnchanged DEF ManagedVersions, localVars
    <3> QED BY <1>2, <2>4, <3>1 DEF ManagedVersions, StoredVersions, CachedVersions,
                                    localVars, Seen
  <2> QED BY <1>10, <2>3, <2>4 DEF LateWrite
<1>11. ASSUME NEW newEnvs \in EnvChoices, Restart(newEnvs)
       PROVE  ManagedVersions'
  BY <1>1, <1>2, <1>11, VersionsRestart
<1> QED BY <1>1, <1>3, <1>4, <1>5, <1>6, <1>7, <1>9, <1>10, <1>11 DEF Next

(* No version is known in the initial state.                               *)
LEMMA VInvInit == Init => VInv
<1> SUFFICES ASSUME Init PROVE VInv
  OBVIOUS
<1>1. ManagedVersions
  BY DEF Init, ManagedVersions, StoredVersions, CachedVersions, UpdateVersions
<1> QED BY <1>1, TInvInit DEF VInv

(* Every version the controller could still base an update on names only   *)
(* managed states of the object.                                           *)
THEOREM VersionsManaged == Spec => []ManagedVersions
<1>1. Spec => []VInv
  BY VInvInit, VInvNext, PTL DEF Spec
<1>2. VInv => ManagedVersions
  BY DEF VInv
<1> QED BY <1>1, <1>2, PTL

(* An accepted write to an unmanaged object can only be a delete.          *)
LEMMA OverwriteManaged ==
    ASSUME LocalTypes, NEW w \in Writes, w.op = "update" => Seen(w.name, w.obj.rv),
           Accepted(w), Apply(w), NEW n \in Names, local[n] # None, ~local[n].managed
    PROVE  local'[n] \in {None, local[n]}
<1>1. CASE n # w.name
  BY <1>1 DEF Apply, StoreLocal, LocalTypes
<1>2. CASE n = w.name
  <2>1. w.op # "create"
    BY <1>2 DEF Accepted
  <2>2. w.op # "update"
    <3> SUFFICES ASSUME w.op = "update" PROVE FALSE
      OBVIOUS
    <3>1. w.obj.rv \in {EmptyRv, local[n].rv} /\ w.obj.rv \in Versions
      BY <1>2 DEF Accepted, Seen
    <3>2. w.obj.rv = local[n].rv
      BY <3>1 DEF Versions, EmptyRv
    <3> QED BY <1>2, <3>2 DEF Seen
  <2>3. w.op = "delete"
    BY <2>1, <2>2 DEF Writes, Ops
  <2> QED BY <1>2, <2>3 DEF Apply, StoreLocal, LocalTypes
<1> QED BY <1>1, <1>2

(* The controller never overwrites an object it does not manage, whatever  *)
(* stale state it acted on and however late its write arrives.             *)
THEOREM UnmanagedSafe == Spec => UnmanagedUntouched
<1> DEFINE Kept == \A n \in Names :
         (WriteAccepted \/ WriteFails \/ LateWrite) /\ local[n] # None /\ ~local[n].managed
            => local'[n] = None \/ local'[n] = local[n]
<1>1. VInv /\ [Next]_vars => [Kept]_vars
  <2> SUFFICES ASSUME VInv, NEW n \in Names, WriteAccepted \/ WriteFails \/ LateWrite,
                      local[n] # None, ~local[n].managed
               PROVE  local'[n] \in {None, local[n]}
    OBVIOUS
  <2>1. LocalTypes /\ ControllerTypes /\ UpdateVersions
    BY TypeOKParts DEF VInv, TInv, ManagedVersions
  <2>2. ASSUME NEW w \in {pending, inflight}, w # None, Accepted(w), Apply(w)
        PROVE  local'[n] \in {None, local[n]}
    BY <2>1, <2>2, OverwriteManaged DEF ControllerTypes, UpdateVersions
  <2>3. UNCHANGED localVars => local'[n] = local[n]
    BY DEF localVars
  <2> QED BY <2>2, <2>3 DEF WriteAccepted, WriteFails, LateWrite
<1>2. Spec => []VInv
  BY VInvInit, VInvNext, PTL DEF Spec
<1> QED BY <1>1, <1>2, PTL DEF Spec, UnmanagedUntouched

------------------------------------------------------------------------------
(* A copy never goes back to an older version of the remote object: the    *)
(* inductive invariant behind NoRegress, and its proof.                    *)

(* The mirroring will not read a version of n older than v any more: v is  *)
(* not newer than the cached object or an undelivered event.               *)
Behind(n, v) ==
    /\ v <= remoteRv[n]
    /\ remoteCache[n] # None => v <= remoteCache[n].rv
    /\ \A i \in DOMAIN remoteEvents[n] :
          remoteEvents[n][i] # None => v <= remoteEvents[n][i].rv

(* The cloud's object has the last version, and the events of the remote   *)
(* watch come in the order of their versions, none older than the cache.   *)
RemoteOrdered ==
    \A n \in Names :
        /\ remote[n] # None => remote[n].rv = remoteRv[n]
        /\ remoteCache[n] # None => Behind(n, remoteCache[n].rv)
        /\ \A i \in DOMAIN remoteEvents[n] : remoteEvents[n][i] # None =>
              /\ remoteEvents[n][i].rv <= remoteRv[n]
              /\ \A j \in DOMAIN remoteEvents[n] :
                    j >= i /\ remoteEvents[n][j] # None
                       => remoteEvents[n][i].rv <= remoteEvents[n][j].rv

Puts(w) == w # None /\ w.op # "delete"

(* Every version the edge holds, has read or is about to write is behind.  *)
HeldBehind ==
    /\ \A n \in Names : local[n] # None /\ local[n].lastRemote # None
                           => Behind(n, local[n].lastRemote)
    /\ remoteRead # None => current # None /\ Behind(current, remoteRead.rv)
    /\ Puts(pending) => pending.obj.lastRemote # None
                        /\ Behind(pending.name, pending.obj.lastRemote)
    /\ Puts(inflight) => inflight.obj.lastRemote # None
                         /\ Behind(inflight.name, inflight.obj.lastRemote)

(* Version v of n is not older than the copy, nor than what a late write   *)
(* would make of it.                                                       *)
Ahead(n, v) ==
    /\ local[n] # None /\ local[n].lastRemote # None => local[n].lastRemote <= v
    /\ Puts(inflight) /\ inflight.name = n => inflight.obj.lastRemote <= v

(* What the worker has read or decided is ahead; a late update would be    *)
(* accepted only by an object that it does not take back.                  *)
WritesAhead ==
    /\ remoteRead # None => Ahead(current, remoteRead.rv)
    /\ Puts(pending) => Ahead(pending.name, pending.obj.lastRemote)
    /\ inflight # None /\ inflight.op = "update" =>
          LET obj == local[inflight.name]
          IN  obj # None /\ obj.rv = inflight.obj.rv /\ obj.lastRemote # None
                 => obj.lastRemote <= inflight.obj.lastRemote

OInv == VInv /\ RemoteOrdered /\ HeldBehind /\ WritesAhead

------------------------------------------------------------------------------
(* Behind in the next state.                                               *)
BehindNext(n, v) ==
    /\ v <= remoteRv'[n]
    /\ remoteCache'[n] # None => v <= remoteCache'[n].rv
    /\ \A i \in DOMAIN remoteEvents'[n] :
          remoteEvents'[n][i] # None => v <= remoteEvents'[n][i].rv

BehindKept == \A n \in Names, v \in Versions : Behind(n, v) => BehindNext(n, v)

(* What a step makes of the remote watch of one name.                      *)
OrderedNext(n) ==
    /\ remote'[n] # None => remote'[n].rv = remoteRv'[n]
    /\ remoteCache'[n] # None => BehindNext(n, remoteCache'[n].rv)
    /\ \A i \in DOMAIN remoteEvents'[n] : remoteEvents'[n][i] # None =>
          /\ remoteEvents'[n][i].rv <= remoteRv'[n]
          /\ \A j \in DOMAIN remoteEvents'[n] :
                j >= i /\ remoteEvents'[n][j] # None
                   => remoteEvents'[n][i].rv <= remoteEvents'[n][j].rv

(* A name whose remote side a step leaves alone stays in order.            *)
LEMMA OrderQuiet ==
    ASSUME RemoteOrdered, NEW n \in Names,
           remote'[n] = remote[n], remoteRv'[n] = remoteRv[n],
           remoteCache'[n] = remoteCache[n], remoteEvents'[n] = remoteEvents[n]
    PROVE  OrderedNext(n) /\ \A v \in Versions : Behind(n, v) => BehindNext(n, v)
BY DEF RemoteOrdered, OrderedNext, Behind, BehindNext

(* A version the cloud gives out is newer than everything watched so far.  *)
LEMMA OrderStored ==
    ASSUME RemoteTypes, RemoteOrdered,
           NEW n \in Names, NEW new \in RemoteObject \cup {None},
           new # None => new.rv = remoteRv[n] + 1, StoreRemote(n, new)
    PROVE  RemoteOrdered' /\ BehindKept
<1> DEFINE is == EnvScoped(new, envs)
<1>1. /\ remote' = [remote EXCEPT ![n] = new]
      /\ remoteRv' = IF new = None THEN remoteRv ELSE [remoteRv EXCEPT ![n] = @ + 1]
      /\ \/ remoteEvents' = remoteEvents
         \/ remoteEvents' = [remoteEvents EXCEPT ![n] = Append(@, is)]
      /\ remoteCache' = remoteCache
  BY DEF StoreRemote
<1>2. is # None => is = new /\ is # None
  BY DEF EnvScoped
<1> HIDE DEF is
<1>3. ASSUME NEW m \in Names, m # n
      PROVE  OrderedNext(m) /\ \A v \in Versions : Behind(m, v) => BehindNext(m, v)
  <2>1. /\ remote'[m] = remote[m] /\ remoteRv'[m] = remoteRv[m]
        /\ remoteCache'[m] = remoteCache[m] /\ remoteEvents'[m] = remoteEvents[m]
    BY <1>1, <1>3 DEF RemoteTypes
  <2> QED BY <2>1, OrderQuiet
<1>4. /\ remoteRv[n] \in Nat /\ remoteRv'[n] \in Nat /\ remoteRv[n] <= remoteRv'[n]
      /\ remoteCache'[n] = remoteCache[n]
      /\ remote'[n] = new
      /\ new # None => remoteRv'[n] = new.rv
  BY <1>1 DEF RemoteTypes
<1>5. ASSUME NEW i \in DOMAIN remoteEvents'[n], remoteEvents'[n][i] # None
      PROVE  \/ i \in DOMAIN remoteEvents[n] /\ remoteEvents'[n][i] = remoteEvents[n][i]
             \/ /\ remoteEvents'[n][i].rv = remoteRv'[n]
                /\ \A j \in DOMAIN remoteEvents'[n] : j <= i
  <2>1. remoteEvents[n] \in Seq(RemoteObject \cup {None})
    BY DEF RemoteTypes
  <2>2. remoteEvents'[n] = remoteEvents[n] \/ remoteEvents'[n] = Append(remoteEvents[n], is)
    BY <1>1 DEF RemoteTypes
  <2>3. CASE remoteEvents'[n] = remoteEvents[n]
    BY <1>5, <2>3
  <2>4. CASE remoteEvents'[n] = Append(remoteEvents[n], is)
    <3>1. \/ i \in DOMAIN remoteEvents[n] /\ remoteEvents'[n][i] = remoteEvents[n][i]
          \/ i = Len(remoteEvents[n]) + 1 /\ remoteEvents'[n][i] = is
      BY <1>5, <2>1, <2>4
    <3>2. \A j \in DOMAIN remoteEvents'[n] : j <= Len(remoteEvents[n]) + 1
      BY <2>1, <2>4
    <3> QED BY <1>2, <1>4, <1>5, <3>1, <3>2
  <2> QED BY <2>2, <2>3, <2>4
<1>6. \A v \in Versions : Behind(n, v) => BehindNext(n, v)
  BY <1>4, <1>5 DEF Behind, BehindNext, Versions
<1>7. OrderedNext(n)
  <2>1. remoteCache'[n] # None => BehindNext(n, remoteCache'[n].rv)
    BY <1>4, <1>6 DEF RemoteOrdered, RemoteTypes, RemoteObject
  <2>2. ASSUME NEW i \in DOMAIN remoteEvents'[n], remoteEvents'[n][i] # None
        PROVE  /\ remoteEvents'[n][i].rv <= remoteRv'[n]
               /\ \A j \in DOMAIN remoteEvents'[n] :
                     j >= i /\ remoteEvents'[n][j] # None
                        => remoteEvents'[n][i].rv <= remoteEvents'[n][j].rv
    <3>1. \A k \in DOMAIN remoteEvents[n] : remoteEvents[n][k] # None
             => remoteEvents[n][k].rv \in Nat /\ remoteEvents[n][k].rv <= remoteRv'[n]
      BY <1>4 DEF RemoteOrdered, RemoteTypes, RemoteObject, Versions
    <3>2. remoteEvents'[n][i].rv <= remoteRv'[n]
      BY <1>4, <1>5, <2>2, <3>1
    <3>3. ASSUME NEW j \in DOMAIN remoteEvents'[n], j >= i, remoteEvents'[n][j] # None
          PROVE  remoteEvents'[n][i].rv <= remoteEvents'[n][j].rv
      <4>1. CASE /\ i \in DOMAIN remoteEvents[n] /\ remoteEvents'[n][i] = remoteEvents[n][i]
                 /\ j \in DOMAIN remoteEvents[n] /\ remoteEvents'[n][j] = remoteEvents[n][j]
        BY <2>2, <3>3, <4>1 DEF RemoteOrdered
      <4>2. CASE remoteEvents'[n][j].rv = remoteRv'[n]
        BY <3>2, <4>2
      <4>3. CASE /\ remoteEvents'[n][i].rv = remoteRv'[n]
                 /\ \A k \in DOMAIN remoteEvents'[n] : k <= i
        <5>1. i \in Nat /\ j \in Nat
          BY <1>1 DEF RemoteTypes
        <5> QED BY <1>4, <3>3, <4>3, <5>1
      <4> QED BY <1>5, <2>2, <3>3, <4>1, <4>2, <4>3
    <3> QED BY <3>2, <3>3
  <2>3. remote'[n] # None => remote'[n].rv = remoteRv'[n]
    BY <1>4
  <2> QED BY <2>1, <2>2, <2>3 DEF OrderedNext
<1> QED BY <1>3, <1>6, <1>7 DEF RemoteOrdered, OrderedNext, BehindKept, Behind, BehindNext

(* A delivery moves the oldest event into the cache.                       *)
LEMMA OrderDelivered ==
    ASSUME RemoteTypes, RemoteOrdered, NEW n \in Names, DeliverRemote(n)
    PROVE  RemoteOrdered' /\ BehindKept
<1>1. /\ remote' = remote /\ remoteRv' = remoteRv
      /\ remoteCache' = [remoteCache EXCEPT ![n] = Head(remoteEvents[n])]
      /\ remoteEvents' = [remoteEvents EXCEPT ![n] = Tail(@)]
      /\ remoteEvents[n] \in Seq(RemoteObject \cup {None}) /\ remoteEvents[n] # <<>>
  BY DEF DeliverRemote, RemoteTypes
<1>2. ASSUME NEW m \in Names, m # n
      PROVE  OrderedNext(m) /\ \A v \in Versions : Behind(m, v) => BehindNext(m, v)
  <2>1. /\ remote'[m] = remote[m] /\ remoteRv'[m] = remoteRv[m]
        /\ remoteCache'[m] = remoteCache[m] /\ remoteEvents'[m] = remoteEvents[m]
    BY <1>1, <1>2 DEF RemoteTypes
  <2> QED BY <2>1, OrderQuiet
<1>3. /\ remoteCache'[n] = remoteEvents[n][1] /\ 1 \in DOMAIN remoteEvents[n]
      /\ remoteEvents'[n] = Tail(remoteEvents[n])
  BY <1>1 DEF RemoteTypes
<1>4. \A i \in DOMAIN remoteEvents'[n] :
         /\ i \in Nat /\ i >= 1 /\ i + 1 \in DOMAIN remoteEvents[n]
         /\ remoteEvents'[n][i] = remoteEvents[n][i + 1]
  <2> DEFINE S == RemoteObject \cup {None}
             s == remoteEvents[n]
  <2>1. s \in Seq(S) /\ s # <<>> /\ remoteEvents'[n] = Tail(s)
    BY <1>1, <1>3
  <2> HIDE DEF S, s
  <2>2. ASSUME NEW i \in DOMAIN Tail(s)
        PROVE  i \in Nat /\ i >= 1 /\ i + 1 \in DOMAIN s /\ Tail(s)[i] = s[i + 1]
    BY <2>1, <2>2
  <2> QED BY <2>1, <2>2 DEF s
<1>5. \A v \in Versions : Behind(n, v) => BehindNext(n, v)
  BY <1>1, <1>3, <1>4 DEF Behind, BehindNext
<1>6. OrderedNext(n)
  <2>1. \A i \in DOMAIN remoteEvents'[n] : remoteEvents'[n][i] # None =>
          /\ remoteEvents'[n][i].rv <= remoteRv'[n]
          /\ \A j \in DOMAIN remoteEvents'[n] :
                j >= i /\ remoteEvents'[n][j] # None
                   => remoteEvents'[n][i].rv <= remoteEvents'[n][j].rv
    <3>1. \A i, j \in DOMAIN remoteEvents'[n] : j >= i => j + 1 >= i + 1
      BY <1>4
    <3> QED BY <1>1, <1>4, <3>1 DEF RemoteOrdered
  <2>2. remoteCache'[n] # None => BehindNext(n, remoteCache'[n].rv)
    <3>1. \A i \in DOMAIN remoteEvents'[n] : i + 1 >= 1
      BY <1>4
    <3>2. remoteCache'[n] # None => remoteCache'[n].rv \in Versions
      BY <1>1, <1>3 DEF RemoteObject
    <3> QED BY SMTT(30), <1>1, <1>3, <1>4, <3>1, <3>2 DEF RemoteOrdered, BehindNext, Versions
  <2>3. remote'[n] # None => remote'[n].rv = remoteRv'[n]
    BY <1>1 DEF RemoteOrdered
  <2> QED BY <2>1, <2>2, <2>3 DEF OrderedNext
<1> QED BY <1>2, <1>5, <1>6 DEF RemoteOrdered, OrderedNext, BehindKept, Behind, BehindNext

(* A list shows the last version and leaves no event.                      *)
LEMMA OrderListed ==
    ASSUME RemoteTypes, RemoteOrdered, UNCHANGED <<remote, remoteRv>>, NEW n \in Names,
           NEW envSet, remoteCache'[n] = EnvScoped(remote[n], envSet), remoteEvents'[n] = <<>>
    PROVE  OrderedNext(n) /\ \A v \in Versions : Behind(n, v) => BehindNext(n, v)
<1>1. DOMAIN remoteEvents'[n] = {}
  OBVIOUS
<1>2. remoteCache'[n] # None => remoteCache'[n].rv = remoteRv[n] /\ remoteRv[n] \in Nat
  BY DEF EnvScoped, RemoteOrdered, RemoteTypes
<1> QED BY <1>1, <1>2 DEF OrderedNext, Behind, BehindNext, RemoteOrdered

(* The remote side stays in order in every step, and what was behind stays *)
(* behind.                                                                 *)
LEMMA OrderNext ==
    ASSUME TInv, RemoteOrdered, [Next]_vars
    PROVE  RemoteOrdered' /\ BehindKept
<1>1. RemoteTypes
  BY TypeOKParts DEF TInv
<1>2. ASSUME \A n \in Names :
                OrderedNext(n) /\ \A v \in Versions : Behind(n, v) => BehindNext(n, v)
      PROVE  RemoteOrdered' /\ BehindKept
  BY <1>2 DEF RemoteOrdered, OrderedNext, BehindKept, Behind, BehindNext
<1>3. CASE UNCHANGED remoteVars
  BY <1>2, <1>3, OrderQuiet DEF remoteVars
<1>4. ASSUME NEW n \in Names, NEW env \in EnvLabels, NEW d \in Data, RemotePut(n, env, d)
      PROVE  RemoteOrdered' /\ BehindKept
  <2> DEFINE new == [env |-> env, data |-> d, rv |-> remoteRv[n] + 1]
  <2>1. new \in RemoteObject /\ new.rv = remoteRv[n] + 1
    BY <1>1 DEF RemoteTypes, RemoteObject, Versions
  <2>2. StoreRemote(n, new)
    BY <1>4 DEF RemotePut
  <2> HIDE DEF new
  <2> QED BY <1>1, <2>1, <2>2, OrderStored
<1>5. ASSUME NEW n \in Names, RemoteDelete(n)
      PROVE  RemoteOrdered' /\ BehindKept
  BY <1>1, <1>5, OrderStored DEF RemoteDelete
<1>6. ASSUME NEW n \in Names, DeliverRemote(n)
      PROVE  RemoteOrdered' /\ BehindKept
  BY <1>1, <1>6, OrderDelivered
<1>7. ASSUME NEW n \in Names, RelistRemote(n)
      PROVE  RemoteOrdered' /\ BehindKept
  <2>1. /\ UNCHANGED <<remote, remoteRv>>
        /\ remoteCache' = [remoteCache EXCEPT ![n] = EnvScoped(remote[n], envs)]
        /\ remoteEvents' = [remoteEvents EXCEPT ![n] = <<>>]
    BY <1>7 DEF RelistRemote
  <2>2. OrderedNext(n) /\ \A v \in Versions : Behind(n, v) => BehindNext(n, v)
    BY <1>1, <2>1, OrderListed DEF RemoteTypes
  <2>3. ASSUME NEW m \in Names, m # n
        PROVE  OrderedNext(m) /\ \A v \in Versions : Behind(m, v) => BehindNext(m, v)
    BY <1>1, <2>1, <2>3, OrderQuiet DEF RemoteTypes
  <2> QED BY <1>2, <2>2, <2>3
<1>8. ASSUME NEW newEnvs \in EnvChoices, Restart(newEnvs)
      PROVE  RemoteOrdered' /\ BehindKept
  BY <1>1, <1>2, <1>8, OrderListed DEF Restart, RemoteList
<1> QED BY <1>3, <1>4, <1>5, <1>6, <1>7, <1>8
        DEF Next, vars, LocalUser, DeliverLocal, RelistLocal, Resync, Begin, TimerFires,
            ReadLocal, WriteAccepted, WriteRefused, WriteFails, LateWrite

------------------------------------------------------------------------------
(* Where the versions of the next state come from.                         *)
HeldFrom ==
    /\ \A n \in Names : local'[n] # None /\ local'[n].lastRemote # None
                           => Behind(n, local'[n].lastRemote)
    /\ remoteRead' # None => current' # None /\ Behind(current', remoteRead'.rv)
    /\ Puts(pending') => pending'.obj.lastRemote # None
                         /\ Behind(pending'.name, pending'.obj.lastRemote)
    /\ Puts(inflight') => inflight'.obj.lastRemote # None
                          /\ Behind(inflight'.name, inflight'.obj.lastRemote)

(* They stay behind.                                                       *)
LEMMA HeldKept ==
    ASSUME TypeOK', BehindKept, HeldFrom
    PROVE  HeldBehind'
<1>1. ASSUME NEW n \in Names, NEW v \in Versions \cup {None}, v # None, Behind(n, v)
      PROVE  BehindNext(n, v)
  BY <1>1 DEF BehindKept
<1>2. \A n \in Names : local'[n] # None /\ local'[n].lastRemote # None
         => BehindNext(n, local'[n].lastRemote)
  BY <1>1 DEF HeldFrom, TypeOK, LocalObject
<1>3. remoteRead' # None => current' # None /\ BehindNext(current', remoteRead'.rv)
  <2>1. remoteRead' # None => remoteRead'.rv \in Versions
    BY DEF TypeOK, RemoteObject
  <2>2. current' # None => current' \in Names
    BY DEF TypeOK
  <2> QED BY <2>1, <2>2 DEF HeldFrom, BehindKept
<1>4. ASSUME NEW w \in Writes \cup {None},
             Puts(w) => w.obj.lastRemote # None /\ Behind(w.name, w.obj.lastRemote)
      PROVE  Puts(w) => w.obj.lastRemote # None /\ BehindNext(w.name, w.obj.lastRemote)
  BY <1>1, <1>4 DEF Puts, Writes, LocalObject
<1>5. /\ Puts(pending') => pending'.obj.lastRemote # None
                           /\ BehindNext(pending'.name, pending'.obj.lastRemote)
      /\ Puts(inflight') => inflight'.obj.lastRemote # None
                            /\ BehindNext(inflight'.name, inflight'.obj.lastRemote)
  BY <1>4 DEF HeldFrom, TypeOK
<1> QED BY <1>2, <1>3, <1>5 DEF HeldBehind, BehindNext, Behind, Puts

(* What storing an object does to the one name.                            *)
LEMMA StoredCopy ==
    ASSUME LocalTypes, NEW n \in Names, NEW new \in LocalObject \cup {None},
           StoreLocal(n, new)
    PROVE  /\ \A m \in Names \ {n} : local'[m] = local[m]
           /\ new = None => local'[n] = None
           /\ new # None => /\ local'[n] = [new EXCEPT !.rv = localRv[n] + 1]
                            /\ local'[n] # None
                            /\ local'[n].rv = localRv[n] + 1
                            /\ local'[n].managed = new.managed
                            /\ local'[n].data = new.data
                            /\ local'[n].lastRemote = new.lastRemote
<1> DEFINE stored == [new EXCEPT !.rv = localRv[n] + 1]
<1>1. new # None => /\ stored \in LocalObject /\ stored.rv = localRv[n] + 1
                    /\ stored.managed = new.managed /\ stored.data = new.data
                    /\ stored.lastRemote = new.lastRemote
  <2>1. localRv[n] + 1 \in Versions
    BY DEF LocalTypes, Versions
  <2> QED BY <2>1 DEF LocalObject
<1>2. new # None => stored # None
  BY <1>1, NoneAssumption
<1>3. local' = [local EXCEPT ![n] = IF new = None THEN None ELSE stored]
  BY DEF StoreLocal
<1> HIDE DEF stored
<1>4. local'[n] = IF new = None THEN None ELSE stored
  BY <1>3 DEF LocalTypes
<1>5. \A m \in Names \ {n} : local'[m] = local[m]
  BY <1>3 DEF LocalTypes
<1> QED BY <1>1, <1>2, <1>4, <1>5 DEF stored

(* What the users of the edge cluster may do to an object.                 *)
Touched(n) ==
    /\ \A m \in Names \ {n} : local'[m] = local[m]
    /\ local'[n] # None =>
         /\ local'[n].rv = localRv[n] + 1
         /\ IF local[n] = None THEN ~local'[n].managed /\ local'[n].lastRemote = None
            ELSE /\ local'[n].managed => local[n].managed
                 /\ local'[n].lastRemote \in {local[n].lastRemote, None}
    /\ local'[n] = None => local[n] # None

(* They do no more than that.                                              *)
LEMMA UserTouches ==
    ASSUME LocalTypes, NEW n \in Names, LocalUser(n)
    PROVE  Touched(n)
<1>1. ASSUME NEW d \in Data, UserCreates(n, d)
      PROVE  Touched(n)
  <2> DEFINE new == [managed |-> FALSE, data |-> d, rv |-> EmptyRv, lastGen |-> None,
                     lastRemote |-> None]
  <2>1. new \in LocalObject
    BY DEF LocalObject, EmptyRv
  <2>2. new.managed = FALSE /\ new.lastRemote = None
    OBVIOUS
  <2>3. StoreLocal(n, new) /\ local[n] = None
    BY <1>1 DEF UserCreates
  <2> HIDE DEF new
  <2>4. new # None
    BY <2>1, NoneAssumption
  <2>5. /\ \A m \in Names \ {n} : local'[m] = local[m]
        /\ local'[n] # None
        /\ local'[n].rv = localRv[n] + 1
        /\ local'[n].managed = FALSE
        /\ local'[n].lastRemote = None
    BY <2>1, <2>2, <2>3, <2>4, StoredCopy
  <2> QED BY <2>3, <2>5 DEF Touched
<1>2. ASSUME NEW d \in Data, UserEdits(n, d)
      PROVE  Touched(n)
  <2> DEFINE new == [local[n] EXCEPT !.data = d]
  <2>1. /\ local[n] \in LocalObject /\ local[n] # None /\ local[n].managed
        /\ StoreLocal(n, new)
    BY <1>2 DEF UserEdits, LocalTypes
  <2>2. /\ new \in LocalObject /\ new # None
        /\ new.managed = local[n].managed /\ new.lastRemote = local[n].lastRemote
    BY <2>1, NoneAssumption DEF LocalObject
  <2> HIDE DEF new
  <2> QED BY ZenonT(30), <2>1, <2>2, StoredCopy DEF Touched
<1>3. ASSUME NEW d \in Data, UserReplaces(n, d)
      PROVE  Touched(n)
  <2> DEFINE new == [local[n] EXCEPT !.data = d, !.lastGen = None, !.lastRemote = None]
  <2>1. /\ local[n] \in LocalObject /\ local[n] # None /\ local[n].managed
        /\ StoreLocal(n, new)
    BY <1>3 DEF UserReplaces, LocalTypes
  <2>2. /\ new \in LocalObject /\ new # None
        /\ new.managed = local[n].managed /\ new.lastRemote = None
    BY <2>1, NoneAssumption DEF LocalObject
  <2> HIDE DEF new
  <2> QED BY <2>1, <2>2, StoredCopy DEF Touched
<1>4. ASSUME UserUnmanages(n)
      PROVE  Touched(n)
  <2> DEFINE new == [local[n] EXCEPT !.managed = FALSE]
  <2>1. /\ local[n] \in LocalObject /\ local[n] # None /\ local[n].managed
        /\ StoreLocal(n, new)
    BY <1>4 DEF UserUnmanages, LocalTypes
  <2>2. /\ new \in LocalObject /\ new # None
        /\ ~new.managed /\ new.lastRemote = local[n].lastRemote
    BY <2>1, NoneAssumption DEF LocalObject
  <2> HIDE DEF new
  <2> QED BY <2>1, <2>2, StoredCopy DEF Touched
<1>5. ASSUME UserDeletes(n)
      PROVE  Touched(n)
  BY <1>5, StoredCopy DEF UserDeletes, Touched
<1> QED BY <1>1, <1>2, <1>3, <1>4, <1>5 DEF LocalUser

(* What a decision to store an object stores: the remote object it read.   *)
LEMMA DecidePuts ==
    ASSUME NEW n \in Names, NEW rem \in RemoteObject \cup {None},
           NEW loc \in LocalObject \cup {None}, NEW envSet,
           NEW d, d = Decide(n, rem, loc, envSet), Puts(d)
    PROVE  /\ rem # None
           /\ d.name = n
           /\ d.obj.lastRemote = rem.rv /\ d.obj.data = rem.data /\ d.obj.managed
<1>1. \/ /\ rem # None /\ loc = None
         /\ d = Request(n, "create", UpdateLastGeneration(Merged(rem, NewObject(rem))))
      \/ /\ rem # None /\ loc # None
         /\ d = Request(n, "update", UpdateLastGeneration(Merged(rem, loc)))
      \/ d = Request(n, "delete", loc)
      \/ d = None
  BY DEF Decide
<1>2. d # None /\ d.op # "delete"
  BY DEF Puts
<1>3. \E base : rem # None /\ d.name = n /\ d.obj = UpdateLastGeneration(Merged(rem, base))
  BY <1>1, <1>2 DEF Request
<1>4. ASSUME NEW base
      PROVE  LET obj == UpdateLastGeneration(Merged(rem, base))
             IN  obj.lastRemote = rem.rv /\ obj.data = rem.data /\ obj.managed
  BY DEF UpdateLastGeneration, Merged
<1> QED BY <1>3, <1>4

(* What carrying out a write does to the objects.                          *)
LEMMA AppliedCopy ==
    ASSUME LocalTypes, NEW w \in Writes, Apply(w)
    PROVE  /\ w.name \in Names
           /\ \A m \in Names \ {w.name} : local'[m] = local[m]
           /\ w.op = "delete" => local'[w.name] = None
           /\ w.op # "delete" => /\ local'[w.name] # None
                                 /\ local'[w.name].rv = localRv[w.name] + 1
                                 /\ local'[w.name].managed = w.obj.managed
                                 /\ local'[w.name].data = w.obj.data
                                 /\ local'[w.name].lastRemote = w.obj.lastRemote
<1>1. w.name \in Names /\ w.obj \in LocalObject /\ w.obj # None
  BY NoneAssumption DEF Writes
<1>2. CASE w.op = "delete"
  <2>1. StoreLocal(w.name, None)
    BY <1>2 DEF Apply
  <2> QED BY <1>1, <1>2, <2>1, StoredCopy
<1>3. CASE w.op # "delete"
  <2>1. StoreLocal(w.name, w.obj)
    BY <1>3 DEF Apply
  <2>2. w.obj \in LocalObject \cup {None}
    BY <1>1
  <2> QED BY ONLY LocalTypes, <1>1, <1>3, <2>1, <2>2, StoredCopy
<1> QED BY <1>2, <1>3

(* The three ways in which a step leaves or changes the local objects.     *)
LocalStep ==
    \/ UNCHANGED <<local, localRv>>
    \/ \E n \in Names : LocalUser(n)
    \/ WriteAccepted /\ Apply(pending)
    \/ WriteFails /\ Apply(pending) /\ Accepted(pending)
    \/ LateWrite /\ Apply(inflight) /\ Accepted(inflight)

(* There are no others.                                                    *)
LEMMA LocalSteps == [Next]_vars => LocalStep
<1>1. ASSUME NEW n \in Names,
             \/ \E env \in EnvLabels, d \in Data : RemotePut(n, env, d)
             \/ RemoteDelete(n)
             \/ DeliverRemote(n) \/ DeliverLocal(n)
             \/ RelistRemote(n) \/ RelistLocal(n) \/ Resync(n)
             \/ Begin(n) \/ TimerFires(n)
      PROVE  UNCHANGED <<local, localRv>>
  BY <1>1 DEF RemotePut, RemoteDelete, DeliverRemote, DeliverLocal, RelistRemote, RelistLocal,
              Resync, Begin, TimerFires, localVars
<1>2. ASSUME ReadLocal \/ WriteRefused \/ UNCHANGED vars
      PROVE  UNCHANGED <<local, localRv>>
  BY <1>2 DEF ReadLocal, WriteRefused, vars, localVars
<1>3. WriteAccepted \/ WriteFails \/ LateWrite => LocalStep
  BY DEF WriteAccepted, WriteFails, LateWrite, LocalStep, localVars
<1>4. ASSUME NEW newEnvs \in EnvChoices, Restart(newEnvs)
      PROVE  UNCHANGED <<local, localRv>>
  BY <1>4 DEF Restart
<1> QED BY <1>1, <1>2, <1>3, <1>4 DEF Next, LocalStep

(* A local object gets its version of the remote object from an edge user  *)
(* who leaves it alone, or from a write.                                   *)
LEMMA CopiesBehind ==
    ASSUME TypeOK, HeldBehind, LocalStep, NEW n \in Names,
           local'[n] # None, local'[n].lastRemote # None
    PROVE  Behind(n, local'[n].lastRemote)
<1>1. LocalTypes /\ ControllerTypes
  BY TypeOKParts
<1>2. ASSUME NEW w \in Writes, w # None, Apply(w),
             Puts(w) => Behind(w.name, w.obj.lastRemote)
      PROVE  Behind(n, local'[n].lastRemote)
  BY <1>1, <1>2, AppliedCopy DEF HeldBehind, Puts
<1>3. ASSUME NEW m \in Names, LocalUser(m)
      PROVE  Behind(n, local'[n].lastRemote)
  <2>1. Touched(m)
    BY <1>1, <1>3, UserTouches
  <2> QED BY <2>1 DEF Touched, HeldBehind
<1>4. CASE UNCHANGED <<local, localRv>>
  BY <1>4 DEF HeldBehind
<1>5. CASE (WriteAccepted \/ WriteFails) /\ Apply(pending)
  BY <1>1, <1>2, <1>5 DEF WriteAccepted, WriteFails, HeldBehind, ControllerTypes
<1>6. CASE LateWrite /\ Apply(inflight)
  BY <1>1, <1>2, <1>6 DEF LateWrite, HeldBehind, ControllerTypes
<1> QED BY <1>3, <1>4, <1>5, <1>6 DEF LocalStep

(* Where the worker's variables and the late write come from.              *)
TaskStep ==
    \/ UNCHANGED <<current, remoteRead, pending, inflight>>
    \/ \E n \in Names : Begin(n)
    \/ ReadLocal /\ pending' # None
    \/ /\ current' = None /\ remoteRead' = None /\ pending' = None
       /\ inflight' \in {None, pending, inflight}
    \/ LateWrite

(* Every step is one of these.                                             *)
LEMMA TaskSteps == [Next]_vars => TaskStep
<1>1. ASSUME NEW n \in Names,
             \/ \E env \in EnvLabels, d \in Data : RemotePut(n, env, d)
             \/ RemoteDelete(n) \/ LocalUser(n)
             \/ DeliverRemote(n) \/ DeliverLocal(n)
             \/ RelistRemote(n) \/ RelistLocal(n) \/ Resync(n) \/ TimerFires(n)
      PROVE  UNCHANGED <<current, remoteRead, pending, inflight>>
  BY <1>1 DEF RemotePut, RemoteDelete, LocalUser, DeliverRemote, DeliverLocal, RelistRemote,
              RelistLocal, Resync, TimerFires, taskVars
<1>2. UNCHANGED vars => UNCHANGED <<current, remoteRead, pending, inflight>>
  BY DEF vars, taskVars
<1>3. WriteAccepted \/ WriteRefused \/ WriteFails => TaskStep
  BY DEF WriteAccepted, WriteRefused, WriteFails, Finish, TaskStep
<1>4. ReadLocal => TaskStep
  BY DEF ReadLocal, Finish, TaskStep
<1>5. ASSUME NEW newEnvs \in EnvChoices, Restart(newEnvs)
      PROVE  TaskStep
  BY <1>5 DEF Restart, TaskStep
<1> QED BY <1>1, <1>2, <1>3, <1>4, <1>5 DEF Next, TaskStep

(* Nothing gets hold of a version that is not behind.                      *)
LEMMA HeldNext ==
    ASSUME TypeOK, RemoteOrdered, HeldBehind, LocalStep, TaskStep
    PROVE  HeldFrom
<1>1. \A n \in Names : local'[n] # None /\ local'[n].lastRemote # None
         => Behind(n, local'[n].lastRemote)
  BY CopiesBehind
<1>2. CASE UNCHANGED <<current, remoteRead, pending, inflight>>
  BY <1>1, <1>2 DEF HeldBehind, HeldFrom
<1>3. ASSUME NEW n \in Names, Begin(n)
      PROVE  HeldFrom
  <2>1. n # None
    BY NoneAssumption
  <2> QED BY <1>1, <1>3, <2>1 DEF Begin, RemoteOrdered, HeldBehind, HeldFrom
<1>4. CASE ReadLocal /\ pending' # None
  <2>1. current \in Names /\ remoteRead \in RemoteObject \cup {None}
        /\ localCache[current] \in LocalObject \cup {None}
    BY <1>4 DEF ReadLocal, TypeOK
  <2>2. /\ pending' = Decide(current, remoteRead, localCache[current], envs)
        /\ remoteRead' = None /\ inflight' = inflight
    BY <1>4 DEF ReadLocal, Finish
  <2>3. Puts(pending') => /\ remoteRead # None
                          /\ pending'.name = current /\ pending'.obj.lastRemote = remoteRead.rv
    BY <2>1, <2>2, DecidePuts
  <2>4. remoteRead # None => remoteRead.rv # None
    BY <2>1, NoneAssumption DEF RemoteObject, Versions
  <2> QED BY <1>1, <2>2, <2>3, <2>4 DEF HeldBehind, HeldFrom
<1>5. CASE remoteRead' = None /\ pending' = None /\ inflight' \in {None, pending, inflight}
  BY <1>1, <1>5 DEF HeldBehind, HeldFrom, Puts
<1>6. CASE LateWrite
  BY <1>1, <1>6 DEF LateWrite, taskVars, HeldBehind, HeldFrom, Puts
<1> QED BY <1>2, <1>3, <1>4, <1>5, <1>6 DEF TaskStep

------------------------------------------------------------------------------
(* Ahead in the next state.                                                *)
AheadNext(n, v) ==
    /\ local'[n] # None /\ local'[n].lastRemote # None => local'[n].lastRemote <= v
    /\ Puts(inflight') /\ inflight'.name = n => inflight'.obj.lastRemote <= v

(* What is ahead stays ahead unless the worker itself writes.              *)
LEMMA AheadKept ==
    ASSUME TypeOK, LocalStep, ~WriteAccepted, ~WriteFails, inflight' \in {None, inflight},
           NEW n \in Names, NEW v, Ahead(n, v)
    PROVE  AheadNext(n, v)
<1>1. LocalTypes /\ ControllerTypes
  BY TypeOKParts
<1>2. Puts(inflight') /\ inflight'.name = n => inflight'.obj.lastRemote <= v
  BY DEF Ahead, Puts
<1>3. CASE UNCHANGED <<local, localRv>>
  BY <1>2, <1>3 DEF Ahead, AheadNext
<1>4. ASSUME NEW m \in Names, LocalUser(m)
      PROVE  AheadNext(n, v)
  <2>1. Touched(m)
    BY <1>1, <1>4, UserTouches
  <2> QED BY <1>2, <2>1 DEF Touched, Ahead, AheadNext
<1>5. CASE LateWrite /\ Apply(inflight)
  <2>1. inflight \in Writes /\ inflight # None
    BY <1>1, <1>5 DEF LateWrite, ControllerTypes
  <2>2. /\ \A m \in Names \ {inflight.name} : local'[m] = local[m]
        /\ inflight.op = "delete" => local'[inflight.name] = None
        /\ inflight.op # "delete" =>
              local'[inflight.name].lastRemote = inflight.obj.lastRemote
    BY <1>1, <1>5, <2>1, AppliedCopy
  <2> QED BY <1>2, <2>1, <2>2 DEF Ahead, AheadNext, Puts
<1> QED BY <1>3, <1>4, <1>5 DEF LocalStep

(* A late update goes back to no older version, or is refused.             *)
LateAhead(w, objs) ==
    w # None /\ w.op = "update" =>
        LET obj == objs[w.name]
        IN  obj # None /\ obj.rv = w.obj.rv /\ obj.lastRemote # None
               => obj.lastRemote <= w.obj.lastRemote

(* It stays so: an object that changes gets a version of its own.          *)
LEMMA LateAheadKept ==
    ASSUME TypeOK, LocalStep, NEW w \in Writes, LateAhead(w, local),
           w.op = "update" => Seen(w.name, w.obj.rv)
    PROVE  LateAhead(w, local')
<1> SUFFICES ASSUME w.op = "update" PROVE LateAhead(w, local')
  BY DEF LateAhead
<1>1. LocalTypes /\ ControllerTypes
  BY TypeOKParts
<1>2. w.name \in Names /\ w.obj.rv # localRv[w.name] + 1
  BY <1>1 DEF Seen, Writes, LocalTypes, Versions
<1>3. ASSUME local'[w.name] # None =>
                local'[w.name] = local[w.name] \/ local'[w.name].rv = localRv[w.name] + 1
      PROVE  LateAhead(w, local')
  BY <1>2, <1>3 DEF LateAhead
<1>4. ASSUME NEW n \in Names, LocalUser(n)
      PROVE  LateAhead(w, local')
  <2>1. Touched(n)
    BY <1>1, <1>4, UserTouches
  <2> QED BY <1>2, <1>3, <2>1 DEF Touched
<1>5. ASSUME NEW x \in Writes, Apply(x)
      PROVE  LateAhead(w, local')
  BY <1>1, <1>2, <1>3, <1>5, AppliedCopy
<1>6. CASE UNCHANGED <<local, localRv>>
  BY <1>3, <1>6
<1>7. WriteAccepted \/ WriteFails => pending \in Writes
  BY <1>1 DEF WriteAccepted, WriteFails, ControllerTypes
<1>8. LateWrite => inflight \in Writes
  BY <1>1 DEF LateWrite, ControllerTypes
<1> QED BY <1>4, <1>5, <1>6, <1>7, <1>8 DEF LocalStep

(* What is behind is not newer than what is read now.                      *)
LEMMA ReadIsAhead ==
    ASSUME RemoteOrdered, HeldBehind, NEW n \in Names, remoteCache[n] # None
    PROVE  Ahead(n, remoteCache[n].rv)
BY DEF HeldBehind, Behind, Ahead, Puts

(* The worker's read, its decision and the late write keep their lead.     *)
LEMMA AheadStep ==
    ASSUME VInv, RemoteOrdered, HeldBehind, WritesAhead, Next, LocalStep
    PROVE  WritesAhead'
<1>1. TypeOK /\ LocalTypes /\ ControllerTypes /\ UpdateVersions /\ PendingIsCurrent
  BY TypeOKParts DEF VInv, TInv, ManagedVersions
<1>2. ASSUME inflight' = inflight \/ inflight' = None
      PROVE  inflight' # None => LateAhead(inflight', local')
  <2>1. inflight # None => inflight \in Writes /\ LateAhead(inflight, local)
                           /\ (inflight.op = "update" => Seen(inflight.name, inflight.obj.rv))
    BY <1>1 DEF ControllerTypes, WritesAhead, LateAhead, UpdateVersions
  <2> QED BY <1>1, <1>2, <2>1, LateAheadKept
<1>3. ASSUME remoteRead' # None => AheadNext(current', remoteRead'.rv),
             Puts(pending') => AheadNext(pending'.name, pending'.obj.lastRemote),
             inflight' # None => LateAhead(inflight', local')
      PROVE  WritesAhead'
  BY <1>3 DEF WritesAhead, AheadNext, Ahead, LateAhead, Puts
<1>4. ASSUME remoteRead' = None, pending' = None, inflight' \in {None, inflight}
      PROVE  WritesAhead'
  BY <1>2, <1>3, <1>4 DEF Puts
<1>5. ASSUME UNCHANGED <<current, remoteRead, pending>>, inflight' \in {None, inflight},
             ~WriteAccepted, ~WriteFails
      PROVE  WritesAhead'
  <2>1. ASSUME remoteRead # None PROVE AheadNext(current, remoteRead.rv)
    BY <1>1, <1>5, <2>1, AheadKept DEF ControllerTypes, WritesAhead, HeldBehind
  <2>2. ASSUME Puts(pending) PROVE AheadNext(pending.name, pending.obj.lastRemote)
    <3>1. pending.name \in Names
      BY <1>1, <2>2 DEF Puts, PendingIsCurrent
    <3> QED BY <1>1, <1>5, <2>2, <3>1, AheadKept DEF WritesAhead
  <2> QED BY <1>2, <1>3, <1>5, <2>1, <2>2
<1>6. ASSUME NEW n \in Names,
             \/ \E env \in EnvLabels, d \in Data : RemotePut(n, env, d)
             \/ RemoteDelete(n) \/ LocalUser(n)
             \/ DeliverRemote(n) \/ DeliverLocal(n)
             \/ RelistRemote(n) \/ RelistLocal(n) \/ Resync(n) \/ TimerFires(n)
      PROVE  WritesAhead'
  <2>1. UNCHANGED <<current, remoteRead, pending, inflight>>
    BY <1>6 DEF RemotePut, RemoteDelete, LocalUser, DeliverRemote, DeliverLocal,
                RelistRemote, RelistLocal, Resync, TimerFires, taskVars
  <2>2. ~(WriteAccepted \/ WriteFails)
    <3>1. WriteAccepted \/ WriteFails => pending # None /\ pending' = None
      BY DEF WriteAccepted, WriteFails, Finish
    <3> QED BY <2>1, <3>1
  <2> QED BY <1>5, <2>1, <2>2
<1>7. ASSUME NEW n \in Names, Begin(n)
      PROVE  WritesAhead'
  <2>1. /\ current' = n /\ remoteRead' = remoteCache[n] /\ pending' = pending
        /\ UNCHANGED <<local, localRv, inflight>> /\ current = None
    BY <1>7 DEF Begin, localVars
  <2>2. pending = None
    BY <1>1, <2>1, NoneAssumption DEF PendingIsCurrent
  <2>3. remoteRead' # None => AheadNext(current', remoteRead'.rv)
    BY <2>1, ReadIsAhead DEF Ahead, AheadNext
  <2> QED BY <1>2, <1>3, <2>1, <2>2, <2>3 DEF Puts
<1>8. CASE ReadLocal
  <2>1. /\ UNCHANGED <<local, localRv, inflight>> /\ current \in Names
        /\ remoteRead \in RemoteObject \cup {None}
        /\ localCache[current] \in LocalObject \cup {None}
    BY <1>1, <1>8 DEF ReadLocal, localVars, TypeOK
  <2>2. /\ remoteRead' = None
        /\ pending' # None => pending' = Decide(current, remoteRead, localCache[current], envs)
    BY <1>8 DEF ReadLocal, Finish
  <2>3. Puts(pending') => AheadNext(pending'.name, pending'.obj.lastRemote)
    <3>1. Puts(pending') => /\ remoteRead # None /\ pending'.name = current
                            /\ pending'.obj.lastRemote = remoteRead.rv
      <4>1. Puts(pending') => pending' # None
        BY DEF Puts
      <4> QED BY <2>1, <2>2, <4>1, DecidePuts
    <3> QED BY <2>1, <3>1 DEF WritesAhead, Ahead, AheadNext
  <2> QED BY <1>2, <1>3, <2>1, <2>2, <2>3
<1>9. CASE WriteAccepted \/ WriteRefused \/ WriteFails
  BY <1>4, <1>9 DEF WriteAccepted, WriteRefused, WriteFails, Finish
<1>10. CASE LateWrite
  <2>1. ~(WriteAccepted \/ WriteFails)
    <3>1. WriteAccepted \/ WriteFails => pending # None /\ pending' = None
      BY DEF WriteAccepted, WriteFails, Finish
    <3> QED BY <1>10, <3>1 DEF LateWrite, taskVars
  <2> QED BY <1>5, <1>10, <2>1 DEF LateWrite, taskVars
<1>11. ASSUME NEW newEnvs \in EnvChoices, Restart(newEnvs)
       PROVE  WritesAhead'
  <2>1. /\ remoteRead' = None /\ pending' = None /\ UNCHANGED <<local, localRv>>
        /\ inflight' \in {None, pending, inflight}
    BY <1>11 DEF Restart
  <2>2. CASE inflight' = pending /\ pending # None
    <3>1. pending.op = "update" => Ahead(pending.name, pending.obj.lastRemote)
      BY <2>2 DEF WritesAhead, Puts
    <3>2. LateAhead(inflight', local')
      BY <2>1, <2>2, <3>1 DEF LateAhead, Ahead
    <3> QED BY <1>3, <2>1, <3>2 DEF Puts
  <2>3. CASE inflight' \in {None, inflight}
    BY <1>4, <2>1, <2>3
  <2> QED BY <2>1, <2>2, <2>3
<1> QED BY <1>6, <1>7, <1>8, <1>9, <1>10, <1>11 DEF Next

(* The inductive invariant.                                                *)
LEMMA OInvInit == Init => OInv
<1> SUFFICES ASSUME Init PROVE RemoteOrdered /\ HeldBehind /\ WritesAhead
  BY VInvInit DEF OInv
<1> QED BY DEF Init, RemoteOrdered, HeldBehind, WritesAhead, Puts

(* Every step keeps the order of what the controller reads.                *)
LEMMA OInvNext == OInv /\ [Next]_vars => OInv'
<1> SUFFICES ASSUME OInv, [Next]_vars PROVE OInv'
  OBVIOUS
<1>1. VInv /\ TInv /\ TypeOK /\ RemoteOrdered /\ HeldBehind /\ WritesAhead
  BY DEF OInv, VInv, TInv
<1>2. VInv' /\ TypeOK'
  BY <1>1, VInvNext DEF VInv, TInv
<1>3. RemoteOrdered' /\ BehindKept
  BY <1>1, OrderNext
<1>4. LocalStep /\ TaskStep
  BY LocalSteps, TaskSteps
<1>5. HeldBehind'
  BY <1>1, <1>2, <1>3, <1>4, HeldNext, HeldKept
<1>6. WritesAhead'
  <2>1. CASE UNCHANGED vars
    BY <1>1, <2>1 DEF vars, localVars, taskVars, WritesAhead, Ahead, Puts
  <2> QED BY <1>1, <1>4, <2>1, AheadStep
<1> QED BY <1>2, <1>3, <1>5, <1>6 DEF OInv

(* No accepted write takes a copy back.                                    *)
LEMMA StepForward ==
    ASSUME OInv, LocalStep, NEW n \in Names,
           local[n] # None, local[n].lastRemote # None,
           local'[n] # None, local'[n].lastRemote # None
    PROVE  local'[n].lastRemote >= local[n].lastRemote
<1>1. /\ LocalTypes /\ ControllerTypes /\ UpdateVersions /\ HeldBehind /\ WritesAhead
      /\ local[n].lastRemote \in Nat
  BY TypeOKParts DEF OInv, VInv, TInv, ManagedVersions, LocalTypes, LocalObject, Versions
<1>2. CASE UNCHANGED <<local, localRv>>
  <2>1. local'[n].lastRemote = local[n].lastRemote
    BY <1>2
  <2> QED BY <1>1, <2>1
<1>3. ASSUME NEW m \in Names, LocalUser(m)
      PROVE  local'[n].lastRemote >= local[n].lastRemote
  <2>1. Touched(m)
    BY <1>1, <1>3, UserTouches
  <2>2. local'[n].lastRemote = local[n].lastRemote
    BY <2>1 DEF Touched
  <2> QED BY <1>1, <2>2
<1>4. ASSUME NEW w \in Writes, Accepted(w), Apply(w),
             w.op = "update" => Seen(w.name, w.obj.rv),
             w.op = "update" /\ w.obj.rv = local[w.name].rv
                => w.obj.lastRemote # None
                   /\ (local[w.name].lastRemote # None
                          => local[w.name].lastRemote <= w.obj.lastRemote)
      PROVE  local'[n].lastRemote >= local[n].lastRemote
  <2>1. CASE n # w.name
    <3>1. local'[n].lastRemote = local[n].lastRemote
      BY <1>1, <1>4, <2>1, AppliedCopy
    <3> QED BY <1>1, <3>1
  <2>2. CASE n = w.name
    <3>1. w.op \notin {"create", "delete"}
      BY <1>1, <1>4, <2>2, AppliedCopy DEF Accepted
    <3>2. w.op = "update"
      BY <3>1 DEF Writes, Ops
    <3>3. w.obj.rv = local[n].rv
      BY <1>4, <2>2, <3>2 DEF Accepted, Seen, Versions, EmptyRv
    <3>4. local'[n].lastRemote = w.obj.lastRemote /\ w.obj.lastRemote \in Nat
      <4>1. local'[n].lastRemote = w.obj.lastRemote
        BY <1>1, <1>4, <2>2, <3>2, AppliedCopy
      <4>2. w.obj.lastRemote \in Versions \cup {None}
        BY DEF Writes, LocalObject
      <4> QED BY <1>4, <2>2, <3>2, <3>3, <4>1, <4>2 DEF Versions
    <3> QED BY <1>1, <1>4, <2>2, <3>2, <3>3, <3>4
  <2> QED BY <2>1, <2>2
<1>5. CASE pending # None /\ Accepted(pending) /\ Apply(pending)
  <2>1. pending \in Writes /\ (pending.op = "update" => Seen(pending.name, pending.obj.rv))
    BY <1>1, <1>5 DEF ControllerTypes, UpdateVersions
  <2>2. pending.op = "update" /\ pending.obj.rv = local[pending.name].rv
          => /\ pending.obj.lastRemote # None
             /\ local[pending.name].lastRemote # None
                   => local[pending.name].lastRemote <= pending.obj.lastRemote
    BY <1>1, <1>5 DEF HeldBehind, WritesAhead, Ahead, Puts, Accepted
  <2> QED BY <1>4, <1>5, <2>1, <2>2
<1>6. CASE inflight # None /\ Accepted(inflight) /\ Apply(inflight)
  <2>1. inflight \in Writes /\ (inflight.op = "update" => Seen(inflight.name, inflight.obj.rv))
    BY <1>1, <1>6 DEF ControllerTypes, UpdateVersions
  <2>2. inflight.op = "update" /\ inflight.obj.rv = local[inflight.name].rv
          => /\ inflight.obj.lastRemote # None
             /\ local[inflight.name].lastRemote # None
                   => local[inflight.name].lastRemote <= inflight.obj.lastRemote
    BY <1>1, <1>6 DEF HeldBehind, WritesAhead, Puts, Accepted
  <2> QED BY <1>4, <1>6, <2>1, <2>2
<1> QED BY <1>2, <1>3, <1>5, <1>6 DEF LocalStep, WriteAccepted, WriteFails, LateWrite

(* As long as a copy exists it moves forward only: reconcileRequest writes *)
(* the version it read, and neither a stale cache, nor a retry, nor a      *)
(* write of a crashed controller puts an older one over a newer one.       *)
THEOREM ForwardOnly == Spec => NoRegress
<1> DEFINE Forward == \A n \in Names :
         /\ local[n] # None /\ local[n].lastRemote # None
         /\ local'[n] # None /\ local'[n].lastRemote # None
         => local'[n].lastRemote >= local[n].lastRemote
<1>1. OInv /\ [Next]_vars => [Forward]_vars
  BY LocalSteps, StepForward
<1>2. Spec => []OInv
  BY OInvInit, OInvNext, PTL DEF Spec
<1> QED BY <1>1, <1>2, PTL DEF Spec, NoRegress

==============================================================================
