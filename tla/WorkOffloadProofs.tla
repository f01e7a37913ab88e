-------------------------- MODULE WorkOffloadProofs --------------------------
(* Every share the offloading loop computes, stores or applies is a        *)
(* percentage, for any services, inertia annotations and interleaving; a   *)
(* run moves a share towards what its metrics call for and never past it;  *)
(* and at most 100 runs bring it there.                                    *)
EXTENDS WorkOffload, WellFoundedInduction, TLAPS

USE DEF Percent, Items, Phases, Disturbances

(* What the loop knows between reading a share and setting it: the service *)
(* has a result, the list has a last service, and an item that is still in *)
(* the store has the value that was read.                                  *)
LoopInv ==
    /\ phase \in {"recover", "apply"} => last # None
    /\ got # None => /\ phase = "apply"
                     /\ got.service \in todo
                     /\ results[got.service] # None
                     /\ store[got.service] # None => store[got.service].value = got.traffic

IInv == TypeOK /\ LoopInv

(* Clamp makes a percentage of any number.                                 *)
LEMMA ClampRange ==
    ASSUME NEW x \in Int
    PROVE  Clamp(x) \in Percent
BY DEF Clamp

(* The share taken up again from an annotation is a percentage.            *)
LEMMA RecoveredRange ==
    ASSUME NEW a \in Percent \cup {None}
    PROVE  Recovered(a) \in Percent
BY OffloadAssumption DEF Recovered, ParseInt

(* Blend is a number for every inertia that is one.                        *)
LEMMA BlendType ==
    ASSUME NEW t \in Percent, NEW d \in Percent, NEW q \in Int
    PROVE  Blend(t, d, q) \in Int
BY DEF Blend

(* With an inertia of at most 1 the blend lies between what it blends, and *)
(* so between percentages: clamping does not change it.                    *)
LEMMA BlendBetween ==
    ASSUME NEW t \in Percent, NEW d \in Percent, NEW q \in 0..4
    PROVE  Between(Clamp(Blend(t, d, q)), t, d)
<1>1. CASE q = 0
  BY <1>1 DEF Between, Clamp, Blend
<1>2. CASE q = 1
  BY <1>2 DEF Between, Clamp, Blend
<1>3. CASE q = 2
  BY <1>3 DEF Between, Clamp, Blend
<1>4. CASE q = 3
  BY <1>4 DEF Between, Clamp, Blend
<1>5. CASE q = 4
  BY <1>5 DEF Between, Clamp, Blend
<1> QED
  BY <1>1, <1>2, <1>3, <1>4, <1>5

(* A run sets percentages, whatever the inertia annotation is.             *)
LEMMA SharesRange ==
    ASSUME NEW t \in Percent, NEW d \in Percent, NEW q \in Int \cup {Extreme}
    PROVE  Shares(t, d, q) \subseteq Percent
<1>1. CASE q = Extreme
  BY <1>1 DEF Shares
<1>2. CASE q # Extreme
  <2>1. Clamp(Blend(t, d, q)) \in Percent
    BY <1>2, BlendType, ClampRange
  <2> QED
    BY <1>2, <2>1 DEF Shares
<1> QED
  BY <1>1, <1>2

(* With a number that is not extreme it sets the blend.                    *)
LEMMA SharesBlend ==
    ASSUME NEW t, NEW d, NEW q \in Int
    PROVE  Shares(t, d, q) = {Clamp(Blend(t, d, q))}
BY OffloadAssumption DEF Shares

(* What the store answers for a service is a percentage.                   *)
LEMMA StoreReadRange ==
    ASSUME TypeOK, NEW s \in Services
    PROVE  StoreRead(s) \in Percent
BY DEF TypeOK, StoreRead

(* Setting an item to a percentage keeps the type of the store.            *)
LEMMA StoreSetType ==
    ASSUME TypeOK, NEW s \in Services, NEW v \in Percent, StoreSet(s, v)
    PROVE  store' \in [Services -> Items \cup {None}]
BY DEF TypeOK, StoreSet

(* Spending a disturbance keeps the type of the budget.                    *)
LEMMA SpendType ==
    ASSUME TypeOK, NEW d \in Disturbances, Spend(d)
    PROVE  left' \in [Disturbances -> Nat]
BY DEF TypeOK, Spend

(* The initial state is well typed.                                        *)
LEMMA InitType == Init => TypeOK
<1> SUFFICES ASSUME Init PROVE TypeOK
  OBVIOUS
<1>1. left \in [Disturbances -> Nat]
  BY OffloadAssumption DEF Init
<1> QED
  BY <1>1 DEF Init, TypeOK

(* Every step keeps the types; setting a share needs what LoopInv knows.   *)
LEMMA StepType == IInv /\ [Next]_vars => TypeOK'
<1> SUFFICES ASSUME TypeOK, LoopInv, [Next]_vars PROVE TypeOK'
  BY DEF IInv
<1>1. ASSUME NEW s \in Services, LoadShifts(s) PROVE TypeOK'
  <2>1. PICK d \in Desired \cup {None} : wanted' = [wanted EXCEPT ![s] = d]
    BY <1>1 DEF LoadShifts
  <2>2. wanted' \in [Services -> Percent \cup {None}]
    BY <2>1, OffloadAssumption DEF TypeOK
  <2>3. left' \in [Disturbances -> Nat]
    BY <1>1, SpendType DEF LoadShifts
  <2> QED
    BY <1>1, <2>2, <2>3 DEF LoadShifts, loopVars, TypeOK
<1>2. ASSUME NEW s \in Services, Expire(s) PROVE TypeOK'
  <2>1. store' \in [Services -> Items \cup {None}]
    <3>1. store[s] \in Items
      BY <1>2 DEF Expire, TypeOK
    <3>2. [store[s] EXCEPT !.expired = TRUE] \in Items
      BY <3>1
    <3>3. store' = [store EXCEPT ![s] = [store[s] EXCEPT !.expired = TRUE]]
      BY <1>2 DEF Expire
    <3> QED
      BY <3>2, <3>3 DEF TypeOK
  <2>2. left' \in [Disturbances -> Nat]
    BY <1>2, SpendType DEF Expire
  <2> QED
    BY <1>2, <2>1, <2>2 DEF Expire, loopVars, TypeOK
<1>3. ASSUME NEW s \in Services, Recover(s) PROVE TypeOK'
  <2>1. store' \in [Services -> Items \cup {None}]
    <3>1. Recovered(seen[s]) \in Percent
      BY RecoveredRange DEF TypeOK
    <3>2. CASE store[s] # None
      BY <1>3, <3>2 DEF Recover, TypeOK
    <3>3. CASE store[s] = None
      BY <1>3, <3>1, <3>3, StoreSetType DEF Recover
    <3> QED
      BY <3>2, <3>3
  <2> QED
    BY <1>3, <2>1 DEF Recover, TypeOK
<1>4. ASSUME NEW s \in Services, ApplyGet(s) PROVE TypeOK'
  <2>1. got' \in [service : Services, traffic : Percent] \cup {None}
    BY <1>4, StoreReadRange DEF ApplyGet, TypeOK
  <2>2. todo' \subseteq Services
    BY <1>4 DEF ApplyGet, TypeOK
  <2> QED
    BY <1>4, <2>1, <2>2 DEF ApplyGet, TypeOK
<1>5. ASSUME NEW s \in Services, ReconcileRead(s) PROVE TypeOK'
  <2>1. Recovered(applied[s]) \in Percent
    BY RecoveredRange DEF TypeOK
  <2>2. reconciled' \in [Services -> Percent \cup {None}]
    BY <1>5, <2>1 DEF ReconcileRead, TypeOK
  <2> QED
    BY <1>5, <2>2 DEF ReconcileRead, loopVars, TypeOK
<1>6. ASSUME NEW s \in Services, ReconcileWrite(s) PROVE TypeOK'
  BY <1>6 DEF ReconcileWrite, loopVars, TypeOK
<1>7. CASE StartRun
  BY <1>7 DEF StartRun, TypeOK
<1>8. CASE SkipRun \/ ListingFails
  <2>1. left' \in [Disturbances -> Nat]
    BY <1>8, SpendType DEF SkipRun, ListingFails
  <2> QED
    BY <1>8, <2>1 DEF SkipRun, ListingFails, loopVars, TypeOK
<1>9. CASE StartApply
  BY <1>9 DEF StartApply, TypeOK
<1>10. CASE ApplySet
  (* The result is a percentage because a preserved service is not read.   *)
  <2>0. /\ got.service \in Services
        /\ got.traffic \in Percent
        /\ results[got.service] \in Percent
        /\ Inertia[last] \in Int \cup {Extreme}
    BY <1>10, OffloadAssumption DEF ApplySet, LoopInv, TypeOK
  <2>1. PICK share \in Percent : StoreSet(got.service, share)
    BY <1>10, <2>0, SharesRange DEF ApplySet
  <2>2. store' \in [Services -> Items \cup {None}]
    BY <2>0, <2>1, StoreSetType
  <2> QED
    BY <1>10, <2>2 DEF ApplySet, TypeOK
<1>11. CASE EndRun
  BY <1>11 DEF EndRun, TypeOK
<1>12. CASE CleanUp
  <2>1. store' \in [Services -> Items \cup {None}]
    BY <1>12 DEF CleanUp, TypeOK
  <2> QED
    BY <1>12, <2>1 DEF CleanUp, loopVars, TypeOK
<1>13. CASE Restart
  <2>1. left' \in [Disturbances -> Nat]
    BY <1>13, SpendType DEF Restart
  <2> QED
    BY <1>13, <2>1 DEF Restart, TypeOK
<1>14. CASE UNCHANGED vars
  BY <1>14 DEF vars, loopVars, TypeOK
<1> QED
  BY <1>1, <1>2, <1>3, <1>4, <1>5, <1>6, <1>7, <1>8, <1>9, <1>10, <1>11, <1>12, <1>13, <1>14
     DEF Next

(* Every step keeps what the loop knows: only the cleanup and the expiry   *)
(* touch the store between a read and a set, and neither changes a value.  *)
LEMMA StepLoop == IInv /\ [Next]_vars => LoopInv'
<1> SUFFICES ASSUME TypeOK, LoopInv, [Next]_vars PROVE LoopInv'
  BY DEF IInv
<1>1. ASSUME NEW s \in Services, LoadShifts(s) PROVE LoopInv'
  BY <1>1 DEF LoadShifts, loopVars, LoopInv
<1>2. ASSUME NEW s \in Services, Expire(s) PROVE LoopInv'
  BY <1>2 DEF Expire, loopVars, LoopInv, TypeOK
<1>3. ASSUME NEW s \in Services, Recover(s) PROVE LoopInv'
  BY <1>3 DEF Recover, LoopInv
<1>4. ASSUME NEW s \in Services, ApplyGet(s) PROVE LoopInv'
  BY <1>4 DEF ApplyGet, StoreRead, LoopInv
<1>5. ASSUME NEW s \in Services, ReconcileRead(s) PROVE LoopInv'
  BY <1>5 DEF ReconcileRead, loopVars, LoopInv
<1>6. ASSUME NEW s \in Services, ReconcileWrite(s) PROVE LoopInv'
  BY <1>6 DEF ReconcileWrite, loopVars, LoopInv
<1>7. CASE StartRun
  BY <1>7, OffloadAssumption DEF StartRun, LoopInv
<1>8. CASE SkipRun \/ ListingFails
  BY <1>8 DEF SkipRun, ListingFails, loopVars, LoopInv
<1>9. CASE StartApply
  BY <1>9 DEF StartApply, LoopInv
<1>10. CASE ApplySet
  BY <1>10 DEF ApplySet, LoopInv
<1>11. CASE EndRun
  <2>1. got = None
    <3> SUFFICES ASSUME got # None PROVE FALSE
      OBVIOUS
    <3> QED
      BY <1>11 DEF EndRun, LoopInv, TypeOK
  <2> QED
    BY <1>11, <2>1 DEF EndRun, LoopInv
<1>12. CASE CleanUp
  BY <1>12 DEF CleanUp, loopVars, LoopInv, TypeOK
<1>13. CASE Restart
  BY <1>13 DEF Restart, LoopInv
<1>14. CASE UNCHANGED vars
  BY <1>14 DEF vars, loopVars, LoopInv
<1> QED
  BY <1>1, <1>2, <1>3, <1>4, <1>5, <1>6, <1>7, <1>8, <1>9, <1>10, <1>11, <1>12, <1>13, <1>14
     DEF Next

(* The inductive invariant holds in every reachable state.                 *)
LEMMA Invariance == Spec => []IInv
<1>1. Init => IInv
  BY InitType DEF IInv, Init, LoopInv
<1>2. IInv /\ [Next]_vars => IInv'
  BY StepType, StepLoop DEF IInv
<1> QED
  BY <1>1, <1>2, PTL DEF Spec

(* Shares are percentages: a run's arithmetic, whatever the annotations    *)
(* say, never stores or applies anything else (runnable.go, run).          *)
THEOREM SharesArePercentages == Spec => []TypeOK
BY Invariance, PTL DEF IInv

(* A run that uses an inertia from 0 to 1 moves a stored share towards the *)
(* share its metrics called for and never past it, although the inertia    *)
(* may be another service's and the cleanup may run in between.  The other *)
(* services may have any annotation at all, negative or not a number.      *)
THEOREM NoOvershoot == Spec => NeverOvershoots
<1>1. IInv /\ [Next]_vars =>
        [\A s \in Services :
           store[s] # None /\ store'[s] # None /\ store'[s].value # store[s].value
             => /\ got # None
                /\ Inertia[last] \in 0..4 => Between(store'[s].value, store[s].value, results[s])]_vars
  <2> SUFFICES ASSUME TypeOK, LoopInv, Next,
                      NEW s \in Services,
                      store[s] # None, store'[s] # None, store'[s].value # store[s].value
               PROVE  /\ got # None
                      /\ Inertia[last] \in 0..4
                           => Between(store'[s].value, store[s].value, results[s])
    BY DEF IInv
  <2>1. ~\E t \in Services : \/ LoadShifts(t) \/ Expire(t) \/ ApplyGet(t)
                             \/ ReconcileRead(t) \/ ReconcileWrite(t)
    BY DEF LoadShifts, Expire, ApplyGet, ReconcileRead, ReconcileWrite, TypeOK
  <2>2. ~\E t \in Services : Recover(t)
    BY DEF Recover, StoreSet, TypeOK
  <2>3. ~(StartRun \/ SkipRun \/ ListingFails \/ StartApply \/ EndRun \/ CleanUp \/ Restart)
    BY DEF StartRun, SkipRun, ListingFails, StartApply, EndRun, CleanUp, Restart, TypeOK
  <2>4. ApplySet
    BY <2>1, <2>2, <2>3 DEF Next
  <2>5. /\ s = got.service
        /\ got.traffic \in Percent
        /\ results[s] \in Percent
        /\ store[s].value = got.traffic
    BY <2>4 DEF ApplySet, StoreSet, LoopInv, TypeOK
  <2>6. ASSUME Inertia[last] \in 0..4
        PROVE  Between(store'[s].value, store[s].value, results[s])
    <3>1. StoreSet(s, Clamp(Blend(got.traffic, results[s], Inertia[last])))
      BY <2>4, <2>5, <2>6, SharesBlend DEF ApplySet
    <3>2. store'[s].value = Clamp(Blend(got.traffic, results[s], Inertia[last]))
      BY <3>1 DEF StoreSet, TypeOK
    <3> QED
      BY <2>5, <2>6, <3>2, BlendBetween
  <2> QED
    BY <2>4, <2>6 DEF ApplySet
<1> QED
  BY <1>1, Invariance, PTL DEF Spec, NeverOvershoots

------------------------------------------------------------------------------
(* How soon a share settles.                                               *)

(* With an inertia from 0 to 0.75 the blend differs from the share, unless *)
(* rounding down keeps it where it is, just below the goal.                *)
LEMMA BlendCloser ==
    ASSUME NEW t \in Percent, NEW d \in Percent, NEW q \in 0..3
    PROVE  LET next == Clamp(Blend(t, d, q))
           IN  \/ next - d \in -RoundingError..0
               \/ Between(next, t, d) /\ next # t
<1>1. CASE q = 0
  BY <1>1 DEF Between, Clamp, Blend, RoundingError
<1>2. CASE q = 1
  BY <1>2 DEF Between, Clamp, Blend, RoundingError
<1>3. CASE q = 2
  BY <1>3 DEF Between, Clamp, Blend, RoundingError
<1>4. CASE q = 3
  BY <1>4 DEF Between, Clamp, Blend, RoundingError
<1> QED
  BY <1>1, <1>2, <1>3, <1>4

(* Once within the rounding error the share stays there.                   *)
LEMMA BlendStays ==
    ASSUME NEW t \in Percent, NEW d \in Percent, NEW q \in 0..3, t - d \in -RoundingError..0
    PROVE  Clamp(Blend(t, d, q)) - d \in -RoundingError..0
<1>0. q \in 0..4 /\ q \in Int
  OBVIOUS
<1>1. Between(Clamp(Blend(t, d, q)), t, d)
  BY <1>0, BlendBetween
<1>2. Clamp(Blend(t, d, q)) \in Int
  <2>1. Blend(t, d, q) \in Int
    BY <1>0, BlendType
  <2> QED
    BY <2>1, ClampRange
<1>3. t \in Int /\ d \in Int
  OBVIOUS
<1> QED
  BY <1>1, <1>2, <1>3 DEF Between, RoundingError

(* Every run comes closer (run in runnable.go), for any services, although *)
(* the inertia may be another service's and the reconciler and the cleanup *)
(* may be at work between its two accesses to the store.                   *)
THEOREM RunsComeCloser == Spec => ComesCloser
<1>1. IInv /\ [Next]_vars =>
        [ApplySet /\ store[got.service] # None /\ Inertia[last] \in 0..3 =>
           LET before == store[got.service].value
               after  == store'[got.service].value
               goal   == results[got.service]
           IN  \/ after - goal \in -RoundingError..0
               \/ Between(after, before, goal) /\ after # before]_vars
  <2> SUFFICES ASSUME TypeOK, LoopInv, ApplySet, store[got.service] # None,
                      Inertia[last] \in 0..3
               PROVE  LET before == store[got.service].value
                          after  == store'[got.service].value
                          goal   == results[got.service]
                      IN  \/ after - goal \in -RoundingError..0
                          \/ Between(after, before, goal) /\ after # before
    BY DEF IInv
  <2> DEFINE s == got.service
  <2>1. /\ s \in Services
        /\ got.traffic \in Percent
        /\ results[s] \in Percent
        /\ store[s].value = got.traffic
    BY DEF ApplySet, LoopInv, TypeOK
  <2>2. StoreSet(s, Clamp(Blend(got.traffic, results[s], Inertia[last])))
    BY <2>1, SharesBlend DEF ApplySet
  <2>3. store'[s].value = Clamp(Blend(got.traffic, results[s], Inertia[last]))
    BY <2>1, <2>2 DEF StoreSet, TypeOK
  <2> HIDE DEF s
  <2>4. LET next == Clamp(Blend(got.traffic, results[s], Inertia[last]))
        IN  \/ next - results[s] \in -RoundingError..0
            \/ Between(next, got.traffic, results[s]) /\ next # got.traffic
    BY <2>1, BlendCloser
  <2> QED
    BY <2>1, <2>3, <2>4 DEF s
<1> QED
  BY <1>1, Invariance, PTL DEF Spec, ComesCloser

(* Induction over the natural numbers, for a set of them: the library's    *)
(* well-founded induction without its operator parameter.                  *)
LEMMA SetInduction ==
    ASSUME NEW T, 0 \in T, \A n \in Nat : n \in T => n + 1 \in T
    PROVE  Nat \subseteq T
<1> DEFINE rest == Nat \ T
<1>1. SUFFICES ASSUME rest # {} PROVE FALSE
  OBVIOUS
<1>2. PICK x \in rest : \A y \in rest : ~ (<<y, x>> \in OpToRel(<, Nat))
  <2>1. rest \subseteq Nat
    OBVIOUS
  <2> HIDE DEF rest
  <2> QED
    BY <1>1, <2>1, NatLessThanWellFounded, WFMin
<1>3. x \in Nat /\ x # 0
  OBVIOUS
<1>4. x - 1 \in Nat /\ x - 1 \notin T
  BY <1>3
<1>5. <<x - 1, x>> \in OpToRel(<, Nat)
  BY <1>3, <1>4 DEF OpToRel
<1> QED
  BY <1>2, <1>4, <1>5

(* As long as the metrics call for the same share, 100 runs bring any share *)
(* to within the rounding error of it, and it stays there: what Settles    *)
(* rests on, with the number of runs it takes at most (run, SetTraffic).   *)
THEOREM ShareSettles ==
    ASSUME NEW goal \in Percent, NEW q \in 0..3, NEW share \in [Nat -> Percent],
           \A n \in Nat : share[n + 1] = Clamp(Blend(share[n], goal, q))
    PROVE  \A n \in Nat : n >= 100 => share[n] - goal \in -RoundingError..0
<1> DEFINE There(n) == share[n] - goal \in -RoundingError..0
           Near(n) == share[n] - goal <= 100 - n /\ goal - share[n] <= 100 - n
           T == {n \in Nat : There(n) \/ Near(n)}
<1>1. goal \in 0..100 /\ \A n \in Nat : share[n] \in 0..100
  OBVIOUS
<1>2. 0 \in T
  <2> DEFINE first == share[0]
  <2>1. first \in 0..100
    BY <1>1
  <2> HIDE DEF first
  <2>2. first - goal <= 100 - 0 /\ goal - first <= 100 - 0
    BY <1>1, <2>1
  <2>3. Near(0)
    BY <2>2 DEF first
  <2> QED
    BY <2>3
<1>3. ASSUME NEW n \in Nat, n \in T PROVE n + 1 \in T
  <2>1. share[n] \in Percent /\ share[n + 1] \in Percent
        /\ share[n + 1] = Clamp(Blend(share[n], goal, q))
    OBVIOUS
  <2>2. CASE There(n)
    <3>1. There(n + 1)
      BY <2>1, <2>2, BlendStays
    <3> QED
      BY <3>1
  <2>3. CASE Near(n)
    <3>1. There(n + 1) \/ (Between(share[n + 1], share[n], goal) /\ share[n + 1] # share[n])
      BY <2>1, BlendCloser
    <3>2. CASE There(n + 1)
      BY <3>2
    <3>3. CASE Between(share[n + 1], share[n], goal) /\ share[n + 1] # share[n]
      <4> DEFINE before == share[n]
                 after == share[n + 1]
      <4>1. before \in Int /\ after \in Int /\ goal \in Int /\ after # before
        BY <1>1, <3>3
      <4>2. Between(after, before, goal)
        BY <3>3
      <4>3. before - goal <= 100 - n /\ goal - before <= 100 - n
        BY <2>3
      <4> HIDE DEF before, after
      <4>4. after - goal <= 100 - (n + 1) /\ goal - after <= 100 - (n + 1)
        BY <4>1, <4>2, <4>3 DEF Between
      <4>5. Near(n + 1)
        BY <4>4 DEF after
      <4> QED
        BY <4>5
    <3> QED
      BY <3>1, <3>2, <3>3
  <2> QED
    BY <1>3, <2>2, <2>3
<1>4. Nat \subseteq T
  <2> HIDE DEF T
  <2> QED
    BY <1>2, <1>3, SetInduction
<1>5. ASSUME NEW n \in Nat, n >= 100 PROVE There(n)
  <2>1. There(n) \/ Near(n)
    BY <1>4
  <2>2. CASE Near(n)
    <3>1. share[n] = goal
      BY <1>1, <1>5, <2>2
    <3> QED
      BY <1>1, <3>1 DEF RoundingError
  <2> QED
    BY <2>1, <2>2
<1> QED
  BY <1>5

==============================================================================
