---------------------------- MODULE MCEvaluation ----------------------------
(* Values of the annotations for model checking Evaluation.                *)
EXTENDS Evaluation

DefaultLimits == [s \in Services |-> DefaultSettings]
=============================================================================
