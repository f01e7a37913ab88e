----------------------------- MODULE WorkOffload -----------------------------
(***************************************************************************)
(* How the share of a service's traffic that is offloaded to the cloud is  *)
(* computed, kept and applied: the loop of EdgeWorkOffload (run), the      *)
(* traffic store with its cleanup, and the Service reconciler that reads   *)
(* the store and writes the share into the local service.                  *)
(*                                                                         *)
(* A share is a percentage.  Inertia is in quarters (3 is the default of   *)
(* 0.75) and may be negative, since ParseFloat takes any number; integer   *)
(* division then computes what the code's float32 and int64 conversions    *)
(* compute.  Of the listing only its failure is modelled here, which       *)
(* blocks the loop (see ListServices).                                     *)
(***************************************************************************)
EXTENDS Integers, FiniteSets

CONSTANTS
    Services,     \* the services labelled for compute offloading
    Inertia,      \* Inertia[s]: the traffic-inertia annotation, in quarters
    Extreme,      \* an inertia that is NaN, infinite, or too large for the conversion to int64
    Desired,      \* shares the latency of a service can call for
    MaxShifts,    \* bound: changes of the load, all services together
    MaxExpiries,  \* bound: store items that reach their time to live
    MaxFailures,  \* bound: failed listings or failed measurements
    MaxRestarts,  \* bound: restarts of the controller
    None

Percent == 0..100

ASSUME OffloadAssumption ==
    /\ Inertia \in [Services -> Int \cup {Extreme}]
    /\ Extreme \notin Int
    /\ Desired \subseteq Percent
    /\ {MaxShifts, MaxExpiries, MaxFailures, MaxRestarts} \subseteq Nat
    /\ None \notin Int
    /\ None \notin Services

VARIABLES
    wanted,   \* wanted[s]: the share the measured latency calls for, None: no usage data
    store,    \* store[s]: the item [value, expired] of the traffic store, or None
    phase,    \* of the loop: "wait", "recover", "apply", or "blocked" for ever
    todo,     \* services the loop has still to recover or to apply
    results,  \* results[s]: the strategy's result for s, None: preserve, or dealt with
    seen,     \* seen[s]: traffic annotation in the list of services, None: none, or dealt with
    last,     \* the last service of the list
    got,      \* [service, traffic] read from the store to be updated, or None
    reconciled, \* reconciled[s]: the share a reconciliation is about to write, or None
    applied,  \* applied[s]: traffic annotation and split of the local service, or None
    left      \* left[d]: how many more disturbances of kind d may happen

loopVars == <<phase, todo, results, seen, last, got>>
vars == <<wanted, store, loopVars, reconciled, applied, left>>

Disturbances == {"shift", "expire", "fail", "restart"}
Phases == {"wait", "recover", "apply", "blocked"}
Items == [value : Percent, expired : BOOLEAN]

Spend(d) == left[d] > 0 /\ left' = [left EXCEPT ![d] = @ - 1]

------------------------------------------------------------------------------
(* Arithmetic.                                                             *)

UnclampedMutant(traffic) == traffic

Clamp(traffic) == IF traffic > 100 THEN 100 ELSE IF traffic < 0 THEN 0 ELSE traffic

UnweightedMutant(traffic, desired, quarters) == (traffic * 4 + desired * (4 - quarters)) \div 4

(* int64(float32(traffic) * inertia + float32(desired) * (1 - inertia)).   *)
(* The conversion rounds towards zero, the division down: they differ on   *)
(* negative numbers only, which are clamped to 0.                          *)
Blend(traffic, desired, quarters) == (traffic * quarters + desired * (4 - quarters)) \div 4

(* The shares that may come of it.  What the conversion makes of NaN and   *)
(* of numbers out of range depends on the platform.                        *)
Shares(traffic, desired, quarters) ==
    IF quarters = Extreme THEN {0, 100} ELSE {Clamp(Blend(traffic, desired, quarters))}

(* strconv.ParseInt of a traffic annotation; a missing one is "".          *)
ParseInt(annotation) ==
    IF annotation = None THEN [ok |-> FALSE, value |-> 0]
                         ELSE [ok |-> TRUE, value |-> annotation]

(* The share taken up again for a service the store has no item for.  The  *)
(* code keeps the parsed value if parsing fails.                           *)
Recovered(annotation) ==
    IF ~ParseInt(annotation).ok THEN ParseInt(annotation).value ELSE 0

------------------------------------------------------------------------------
Init ==
    /\ wanted = [s \in Services |-> None]
    /\ store = [s \in Services |-> None]
    /\ phase = "wait"
    /\ todo = {}
    /\ results = [s \in Services |-> None]
    /\ seen = [s \in Services |-> None]
    /\ last = None
    /\ got = None
    /\ reconciled = [s \in Services |-> None]
    /\ applied = [s \in Services |-> None]
    /\ left = [d \in Disturbances |-> CASE d = "shift" -> MaxShifts
                                        [] d = "expire" -> MaxExpiries
                                        [] d = "fail" -> MaxFailures
                                        [] d = "restart" -> MaxRestarts]

(* The load changes: the latency of s calls for another share, or s has no *)
(* requests and so no usage data.                                          *)
LoadShifts(s) ==
    /\ Spend("shift")
    /\ \E d \in Desired \cup {None} : d # wanted[s] /\ wanted' = [wanted EXCEPT ![s] = d]
    /\ UNCHANGED <<store, loopVars, reconciled, applied>>

(* A period has passed; the services are listed and the strategy executed. *)
StartRun ==
    /\ phase = "wait"
    /\ Services # {}
    /\ phase' = "recover"
    /\ todo' = Services
    /\ seen' = applied
    /\ results' = wanted
    /\ last' \in Services
    /\ UNCHANGED <<wanted, store, got, reconciled, applied, left>>

(* The strategy fails (Execute returns an error): the run is skipped.      *)
SkipRun ==
    /\ phase = "wait"
    /\ Services # {}
    /\ Spend("fail")
    /\ UNCHANGED <<wanted, store, loopVars, reconciled, applied>>

(* The listing fails: listServices never returns, and there are no runs    *)
(* any more until the controller is restarted.                             *)
ListingFails ==
    /\ phase = "wait"
    /\ Spend("fail")
    /\ phase' = "blocked"
    /\ UNCHANGED <<wanted, store, todo, results, seen, last, got, reconciled, applied>>

StoreSet(s, value) == store' = [store EXCEPT ![s] = [value |-> value, expired |-> FALSE]]

(* Recover what last traffic was set to.                                   *)
Recover(s) ==
    /\ phase = "recover"
    /\ s \in todo
    /\ IF store[s] # None THEN UNCHANGED store ELSE StoreSet(s, Recovered(seen[s]))
    /\ todo' = todo \ {s}
    /\ seen' = [seen EXCEPT ![s] = None]
    /\ UNCHANGED <<wanted, phase, results, last, got, reconciled, applied, left>>

StartApply ==
    /\ phase = "recover" /\ todo = {}
    /\ phase' = "apply"
    /\ todo' = Services
    /\ UNCHANGED <<wanted, store, results, seen, last, got, reconciled, applied, left>>

StoreReadMutant(s) == 0

StoreRead(s) == IF store[s] = None THEN 0 ELSE store[s].value

ApplyGet(s) ==
    /\ phase = "apply" /\ got = None
    /\ s \in todo
    /\ IF results[s] = None           \* PreserveTraffic
       THEN todo' = todo \ {s} /\ UNCHANGED got
       ELSE got' = [service |-> s, traffic |-> StoreRead(s)] /\ UNCHANGED todo
    /\ UNCHANGED <<wanted, store, phase, results, seen, last, reconciled, applied, left>>

(* SetTraffic.  Every result points to the variable of the loop that made  *)
(* it, so the inertia annotation read is that of the list's last service.  *)
ApplySet ==
    /\ phase = "apply" /\ got # None
    /\ \E share \in Shares(got.traffic, results[got.service], Inertia[last]) :
          StoreSet(got.service, share)
    /\ todo' = todo \ {got.service}
    /\ results' = [results EXCEPT ![got.service] = None]
    /\ got' = None
    /\ UNCHANGED <<wanted, phase, seen, last, reconciled, applied, left>>

EndRun ==
    /\ phase = "apply" /\ todo = {}
    /\ phase' = "wait"
    /\ last' = None
    /\ UNCHANGED <<wanted, store, todo, results, seen, got, reconciled, applied, left>>

------------------------------------------------------------------------------
(* The store.                                                              *)

(* An hour has passed since the item of s was last set.                    *)
Expire(s) ==
    /\ store[s] # None /\ ~store[s].expired
    /\ Spend("expire")
    /\ store' = [store EXCEPT ![s].expired = TRUE]
    /\ UNCHANGED <<wanted, loopVars, reconciled, applied>>

CleanUp ==
    /\ \E s \in Services : store[s] # None /\ store[s].expired
    /\ store' = [s \in Services |-> IF store[s] # None /\ store[s].expired THEN None
                                                                           ELSE store[s]]
    /\ UNCHANGED <<wanted, loopVars, reconciled, applied, left>>

(* The reconciler, at least once a period for each service: it reads the   *)
(* store (or falls back on the annotation) and updates the service.        *)
ReconcileRead(s) ==
    /\ reconciled[s] = None
    /\ reconciled' = [reconciled EXCEPT ![s] =
                        IF store[s] # None THEN store[s].value ELSE Recovered(applied[s])]
    /\ UNCHANGED <<wanted, store, loopVars, applied, left>>

ReconcileWrite(s) ==
    /\ reconciled[s] # None
    /\ applied' = [applied EXCEPT ![s] = reconciled[s]]
    /\ reconciled' = [reconciled EXCEPT ![s] = None]
    /\ UNCHANGED <<wanted, store, loopVars, left>>

(* The controller restarts; the annotations of the services survive.       *)
Restart ==
    /\ Spend("restart")
    /\ store' = [s \in Services |-> None]
    /\ phase' = "wait"
    /\ todo' = {}
    /\ results' = [s \in Services |-> None]
    /\ seen' = [s \in Services |-> None]
    /\ last' = None
    /\ got' = None
    /\ reconciled' = [s \in Services |-> None]
    /\ UNCHANGED <<wanted, applied>>

------------------------------------------------------------------------------
Next ==
    \/ \E s \in Services : \/ LoadShifts(s) \/ Expire(s)
                           \/ Recover(s) \/ ApplyGet(s)
                           \/ ReconcileRead(s) \/ ReconcileWrite(s)
    \/ StartRun \/ SkipRun \/ ListingFails \/ StartApply \/ ApplySet \/ EndRun
    \/ CleanUp
    \/ Restart

Spec == Init /\ [][Next]_vars

(* The loop is a goroutine that is always scheduled again, each service is *)
(* requeued every period, and the cleanup has a timer of its own.          *)
Fairness ==
    /\ WF_vars(StartRun) /\ WF_vars(StartApply) /\ WF_vars(ApplySet) /\ WF_vars(EndRun)
    /\ \A s \in Services : /\ WF_vars(Recover(s)) /\ WF_vars(ApplyGet(s))
                           /\ WF_vars(ReconcileRead(s)) /\ WF_vars(ReconcileWrite(s))
    /\ WF_vars(CleanUp)

FairSpec == Spec /\ Fairness

------------------------------------------------------------------------------
(* Properties.                                                             *)

(* Every share that is stored, about to be written or applied is a         *)
(* percentage, whatever the inertia annotation says: the Knative webhook   *)
(* would refuse the two traffic targets otherwise.                         *)
TypeOK ==
    /\ wanted \in [Services -> Percent \cup {None}]
    /\ store \in [Services -> Items \cup {None}]
    /\ phase \in Phases
    /\ todo \subseteq Services
    /\ results \in [Services -> Percent \cup {None}]
    /\ seen \in [Services -> Percent \cup {None}]
    /\ last \in Services \cup {None}
    /\ got \in [service : Services, traffic : Percent] \cup {None}
    /\ reconciled \in [Services -> Percent \cup {None}]
    /\ applied \in [Services -> Percent \cup {None}]
    /\ left \in [Disturbances -> Nat]

(* A run never overshoots: if the inertia annotation it uses is a number   *)
(* from 0 to 1, it moves a stored share towards the share its metrics      *)
(* called for, and no further, whatever is cleaned up in between.  With a  *)
(* negative one it would: -0.5 takes a share from 0 past 60 to 90.         *)
Between(v, a, b) == (a <= v /\ v <= b) \/ (b <= v /\ v <= a)

NeverOvershoots ==
    [][\A s \in Services :
         store[s] # None /\ store'[s] # None /\ store'[s].value # store[s].value
            => /\ got # None
               /\ Inertia[last] \in 0..4 => Between(store'[s].value, store[s].value, results[s])]_vars

(* And it gets there: each run brings a stored share nearer to what its    *)
(* metrics called for, unless it is within the rounding error already, if  *)
(* the inertia it uses is between 0 and 0.75, the default.                 *)
RoundingError == 3

ComesCloser ==
    [][ApplySet /\ store[got.service] # None /\ Inertia[last] \in 0..3 =>
         LET before == store[got.service].value
             after  == store'[got.service].value
             goal   == results[got.service]
         IN  \/ after - goal \in -RoundingError..0
             \/ Between(after, before, goal) /\ after # before]_vars

(* Once the load of a service stays the same, the share applied to it      *)
(* comes, and stays, within the rounding error of what that load calls     *)
(* for, through cleanups, restarts and runs whose measurement fails.  A    *)
(* listing that failed is the exception: it blocks the loop.               *)
Settles ==
    \A s \in Services :
        <>[](wanted[s] # None /\ phase # "blocked"
               => /\ applied[s] # None
                  /\ applied[s] - wanted[s] \in -RoundingError..RoundingError)

(* What the comments of run ("recover what last traffic was set to") and   *)
(* of reconcileKService ("parse it from annotations") say: the share of a  *)
(* service changes only to what a run computed, so an item missing from    *)
(* the store (after a restart or a cleanup) makes no difference.           *)
ShareKept ==
    [][\A s \in Services :
         reconciled[s] = None /\ reconciled'[s] # None /\ store[s] = None /\ applied[s] # None
            => reconciled'[s] = applied[s]]_vars

==============================================================================
