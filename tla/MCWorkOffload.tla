---------------------------- MODULE MCWorkOffload ----------------------------
(* Values of the inertia annotations for model checking: all services at   *)
(* the default of 0.75; or one of them at -100, which throws every share   *)
(* but the one called for to one end of the clamp or the other, and the    *)
(* others at 0.25.                                                         *)
EXTENDS WorkOffload

DefaultInertia == [s \in Services |-> 3]

NegativeInertia == [s \in Services |-> IF s = CHOOSE t \in Services : TRUE THEN -400 ELSE 1]
==============================================================================
