---------------------------- MODULE MirrorHistory ----------------------------
(***************************************************************************)
(* Mirror with a history variable, the states every object went through in *)
(* the cloud, and the refinement mapping by which it implements            *)
(* OneWayMirror.                                                           *)
(***************************************************************************)
EXTENDS Mirror

VARIABLE history  \* history[n]: the states of remote[n] so far, oldest first

historyVars == <<vars, history>>

HistoryInit == Init /\ history = [n \in Names |-> <<>>]

HistoryNext ==
    /\ Next
    /\ history' = [n \in Names |-> IF remote'[n] = remote[n] THEN history[n]
                                   ELSE Append(history[n], remote'[n])]

HistorySpec == HistoryInit /\ [][HistoryNext]_historyVars

------------------------------------------------------------------------------
(* The edge's object as OneWayMirror sees it.                              *)
Copies == [managed : BOOLEAN, data : Data, from : Versions \cup {None}]

ASSUME CopiesAssumption == None \notin Copies

Copy(obj) == IF obj = None THEN None
             ELSE [managed |-> obj.managed, data |-> obj.data, from |-> obj.lastRemote]

Abstract == INSTANCE OneWayMirror WITH
    version <- remoteRv,
    copy <- [n \in Names |-> Copy(local[n])],
    touches <- Budget["user"] - left["user"]

(* Caches, queues, stale reads, lost answers, retries, crashes and late    *)
(* writes notwithstanding, all one sees at the edge is OneWayMirror: every *)
(* object the reconciler stores is a version the cloud published, with     *)
(* that version's data, and never over a newer or an unmanaged one.        *)
MirrorsOneWay == Abstract!Spec

(* The cloud withdrew version v of n from the controller's environments:   *)
(* at that version or after it the object was deleted or labelled for      *)
(* other environments.                                                     *)
Withdrawn(n, v) ==
    \E i \in DOMAIN history[n] :
        /\ history[n][i] # None => history[n][i].env \notin envs
        /\ \A j \in DOMAIN history[n] :
              history[n][j] # None => (history[n][j].rv = v => j <= i)

(* A running controller deletes a copy only if the cloud withdrew it: no   *)
(* reconciliation that reads too early, in a cache that is not filled or   *)
(* one that lags, takes away an object that was published all the time.    *)
(* (The late delete of a crashed controller may.)                          *)
DeletionsWarranted ==
    [][\A n \in Names :
         /\ WriteAccepted \/ WriteFails
         /\ local[n] # None /\ local[n].managed /\ local[n].lastRemote # None
         /\ local'[n] = None
         => Withdrawn(n, local[n].lastRemote)]_historyVars
==============================================================================
