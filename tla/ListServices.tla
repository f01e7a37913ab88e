----------------------------- MODULE ListServices -----------------------------
(***************************************************************************)
(* How the loop of EdgeWorkOffload gets the services of a run: the loop    *)
(* (Start), and the two goroutines each call of listServices starts, a     *)
(* producer that lists and a consumer that collects.  They meet on three   *)
(* unbuffered channels: listChan (producer to consumer), doneChan          *)
(* (consumer to loop) and errChan (producer to loop); a send and its       *)
(* receive are one step.  The client reads from a cache, which answers a   *)
(* listing in one piece, without a continuation token.                     *)
(***************************************************************************)
EXTENDS Integers, Sequences, FiniteSets

CONSTANT Services   \* the services that may be labelled for offloading

VARIABLES
    loop,      \* "wait", "collect" (<-doneChan), "select" (errChan or ctx), "run", "exited"
    producer,  \* "list", "push" (listChan <-), "report" (errChan <-), "cancel", "ended"
    consumer,  \* "receive", "announce" (doneChan <-), "ended"
    timer,     \* has the evaluation period passed?
    stopped,   \* is the context of the manager cancelled?
    cancelled, \* has the producer cancelled the context of this call?
    listed,    \* what List returned in this call
    collected, \* the lists the consumer has received
    given,     \* the services of the run
    leaked     \* is a producer of an earlier call left blocked for good?

callVars == <<producer, consumer, cancelled, listed, collected>>
vars == <<loop, timer, stopped, callVars, given, leaked>>

Init ==
    /\ loop = "wait"
    /\ producer = "ended"
    /\ consumer = "ended"
    /\ timer = FALSE
    /\ stopped = FALSE
    /\ cancelled = FALSE
    /\ listed = {}
    /\ collected = <<>>
    /\ given = {}
    /\ leaked = FALSE

------------------------------------------------------------------------------
(* The manager and the clock.                                              *)

Stop ==
    /\ ~stopped
    /\ stopped' = TRUE
    /\ UNCHANGED <<loop, timer, callVars, given, leaked>>

TimerFires ==
    /\ loop = "wait" /\ ~timer
    /\ timer' = TRUE
    /\ UNCHANGED <<loop, stopped, callVars, given, leaked>>

------------------------------------------------------------------------------
(* The loop.  A select with several ready cases takes any of them.         *)

(* A new call has channels of its own: a goroutine of the last call that   *)
(* still has something to send is never received from again.               *)
CallList ==
    /\ loop = "wait" /\ timer
    /\ loop' = "collect"
    /\ timer' = FALSE
    /\ leaked' = (leaked \/ producer \in {"list", "push", "report"})
    /\ producer' = "list"
    /\ consumer' = "receive"
    /\ cancelled' = FALSE
    /\ listed' = {}
    /\ collected' = <<>>
    /\ UNCHANGED <<stopped, given>>

Exit ==
    /\ loop = "wait" /\ stopped
    /\ loop' = "exited"
    /\ timer' = FALSE
    /\ UNCHANGED <<stopped, callVars, given, leaked>>

AnyDoneMutant == cancelled

(* The context of a call is done when either of the two is cancelled.      *)
ContextDone == cancelled \/ stopped

Items(lists) == UNION {lists[i] : i \in DOMAIN lists}

ReturnServices ==
    /\ loop = "select" /\ ContextDone
    /\ loop' = "run"
    /\ given' = Items(collected)
    /\ UNCHANGED <<timer, stopped, callVars, leaked>>

(* <-errChan: the run is skipped.                                          *)
ReturnError ==
    /\ loop = "select" /\ producer = "report"
    /\ loop' = "wait"
    /\ producer' = "cancel"
    /\ UNCHANGED <<timer, stopped, consumer, cancelled, listed, collected, given, leaked>>

Run ==
    /\ loop = "run"
    /\ loop' = "wait"
    /\ given' = {}
    /\ UNCHANGED <<timer, stopped, callVars, leaked>>

------------------------------------------------------------------------------
(* The producer.                                                           *)

CancelFirstMutant ==
    /\ producer = "list"
    /\ listed' \in SUBSET Services
    /\ producer' = "push"
    /\ cancelled' = TRUE
    /\ UNCHANGED <<loop, timer, stopped, consumer, collected, given, leaked>>

List ==
    /\ producer = "list"
    /\ listed' \in SUBSET Services
    /\ producer' = "push"
    /\ UNCHANGED <<loop, timer, stopped, consumer, cancelled, collected, given, leaked>>

ListFails ==
    /\ producer = "list"
    /\ producer' = "report"
    /\ UNCHANGED <<loop, timer, stopped, consumer, cancelled, listed, collected, given, leaked>>

ListAgainMutant ==
    /\ producer = "push" /\ consumer = "receive"
    /\ collected' = Append(collected, listed)
    /\ producer' = "list"
    /\ UNCHANGED <<loop, timer, stopped, consumer, cancelled, listed, given, leaked>>

(* listChan: there is no continuation token, so the producer is finished.  *)
Push ==
    /\ producer = "push" /\ consumer = "receive"
    /\ collected' = Append(collected, listed)
    /\ producer' = "cancel"
    /\ UNCHANGED <<loop, timer, stopped, consumer, cancelled, listed, given, leaked>>

NoCancelMutant ==
    /\ producer = "cancel"
    /\ producer' = "ended"
    /\ UNCHANGED <<loop, timer, stopped, consumer, cancelled, listed, collected, given, leaked>>

(* The deferred cancel.                                                    *)
Cancel ==
    /\ producer = "cancel"
    /\ cancelled' = TRUE
    /\ producer' = "ended"
    /\ UNCHANGED <<loop, timer, stopped, consumer, listed, collected, given, leaked>>

------------------------------------------------------------------------------
(* The consumer.                                                           *)

Finish ==
    /\ consumer = "receive" /\ ContextDone
    /\ consumer' = "announce"
    /\ UNCHANGED <<loop, timer, stopped, producer, cancelled, listed, collected, given, leaked>>

(* doneChan.                                                               *)
Announce ==
    /\ consumer = "announce" /\ loop = "collect"
    /\ consumer' = "ended"
    /\ loop' = "select"
    /\ UNCHANGED <<timer, stopped, producer, cancelled, listed, collected, given, leaked>>

------------------------------------------------------------------------------
(* What happens besides the runs.                                          *)
Listing ==
    \/ Stop \/ TimerFires
    \/ CallList \/ Exit \/ ReturnServices \/ ReturnError
    \/ List \/ ListFails \/ Push \/ Cancel
    \/ Finish \/ Announce

Next == Listing \/ Run

Spec == Init /\ [][Next]_vars

(* Goroutines that can go on do, and timers fire.  A select chooses at     *)
(* random among its ready cases, so the loop does not forever prefer the   *)
(* timer to a cancelled context.                                           *)
Fairness ==
    /\ WF_vars(TimerFires) /\ WF_vars(CallList) /\ SF_vars(Exit)
    /\ WF_vars(ReturnServices \/ ReturnError)
    /\ WF_vars(List \/ ListFails) /\ WF_vars(Push) /\ WF_vars(Cancel)
    /\ WF_vars(Finish) /\ WF_vars(Announce)

FairSpec == Spec /\ Fairness /\ WF_vars(Run)

------------------------------------------------------------------------------
(* Properties.                                                             *)

(* Every variable keeps its type, and a call collects one list at most.    *)
TypeOK ==
    /\ loop \in {"wait", "collect", "select", "run", "exited"}
    /\ producer \in {"list", "push", "report", "cancel", "ended"}
    /\ consumer \in {"receive", "announce", "ended"}
    /\ timer \in BOOLEAN /\ stopped \in BOOLEAN
    /\ cancelled \in BOOLEAN /\ leaked \in BOOLEAN
    /\ listed \subseteq Services
    /\ collected = <<>> \/ \E found \in SUBSET Services : collected = <<found>>
    /\ given \subseteq Services

(* A run gets exactly the services that were listed, although the context  *)
(* that ends the collection is cancelled by the one who sends the list;    *)
(* only the end of the manager may leave it with none.                     *)
RunsOnWhatWasListed == loop = "run" => given = listed \/ (stopped /\ given = {})

(* No call leaves a goroutine behind, except when the manager ends.        *)
NoLeak == leaked => stopped

(* When the manager's context is cancelled the loop ends, wherever it is.  *)
StopEndsLoop == stopped ~> loop = "exited"

(* The loop always comes back to its timer, unless a listing has failed.   *)
OnlyFailureBlocks == []<>(loop \in {"wait", "exited"}) \/ <>[](producer = "report")

(* What Start logs when listServices fails: that it skips this run, to go  *)
(* on with the next.                                                       *)
FailureSkipsRun == producer = "report" ~> loop \in {"wait", "exited"}

==============================================================================
