---------------------------- MODULE OneWayMirror ----------------------------
(***************************************************************************)
(* What one-way mirroring promises, without caches, queues, retries and    *)
(* crashes: the cloud publishes versions of named objects, and the edge    *)
(* has, for each name, no object or one that is a genuine copy of one      *)
(* published version (its data and its version number together), moves     *)
(* forward only and is never put over an object of the edge's own users.   *)
(***************************************************************************)
EXTENDS Integers, Sequences

CONSTANTS
    Names,      \* object names
    EnvLabels,  \* values of the environment label
    Data,       \* contents
    None        \* no object, no version

VARIABLES
    version,    \* version[n]: the last version the cloud gave to n
    history,    \* history[n]: the states n went through in the cloud, None when deleted
    copy,       \* copy[n]: the edge's object, or None
    touches     \* how often users of the edge cluster changed an object

vars == <<version, history, copy, touches>>

Init ==
    /\ version = [n \in Names |-> 0]
    /\ history = [n \in Names |-> <<>>]
    /\ copy = [n \in Names |-> None]
    /\ touches = 0

(* The users of the cloud.                                                 *)
Publish(n, env, d) ==
    /\ version' = [version EXCEPT ![n] = @ + 1]
    /\ history' = [history EXCEPT
                     ![n] = Append(@, [env |-> env, data |-> d, rv |-> version'[n]])]
    /\ UNCHANGED <<copy, touches>>

Retract(n) ==
    /\ history' = [history EXCEPT ![n] = Append(@, None)]
    /\ UNCHANGED <<version, copy, touches>>

(* The users of the edge cluster: to an object they find they may do       *)
(* anything except put it under management or give it another version.     *)
Touch(n, new) ==
    /\ CASE new = None -> copy[n] # None
         [] new # None /\ copy[n] = None -> ~new.managed /\ new.from = None
         [] OTHER -> (new.managed => copy[n].managed) /\ new.from \in {copy[n].from, None}
    /\ touches' = touches + 1
    /\ copy' = [copy EXCEPT ![n] = new]
    /\ UNCHANGED <<version, history>>

(* The mirror writes a published version over nothing or over a managed    *)
(* copy that is not newer.                                                 *)
Propagate(n, i) ==
    /\ history[n][i] # None
    /\ \/ copy[n] = None
       \/ /\ copy[n].managed
          /\ copy[n].from = None \/ copy[n].from <= history[n][i].rv
    /\ copy' = [copy EXCEPT ![n] = [managed |-> TRUE, data |-> history[n][i].data,
                                    from |-> history[n][i].rv]]
    /\ UNCHANGED <<version, history, touches>>

(* The mirror removes a copy.  The name must have been published once: a   *)
(* name the cloud never used is left to the users of the edge.             *)
Withdraw(n) ==
    /\ history[n] # <<>>
    /\ copy' = [copy EXCEPT ![n] = None]
    /\ UNCHANGED <<version, history, touches>>

Next ==
    \E n \in Names :
        \/ \E env \in EnvLabels, d \in Data : Publish(n, env, d)
        \/ Retract(n)
        \/ \E new \in {copy'[n]} : Touch(n, new)
        \/ \E i \in DOMAIN history[n] : Propagate(n, i)
        \/ Withdraw(n)

Spec == Init /\ [][Next]_vars
==============================================================================
