------------------------------ MODULE MCOperator ------------------------------
(* Bounds of the operator for TLC.                                         *)
EXTENDS Operator

CONSTANTS Edges, Kubes, Clusters, Deletions, Edits, Faults, Restarts, Total

MCBudget ==
    [c \in Changes |-> CASE c = "edge" -> Edges [] c = "kubeconfig" -> Kubes
                         [] c = "cluster" -> Clusters [] c = "deletion" -> Deletions
                         [] c = "edit" -> Edits [] c = "fault" -> Faults [] c = "restart" -> Restarts [] c = "all" -> Total]

==============================================================================
