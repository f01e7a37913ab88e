SPECIFICATION FairSpec
CONSTANTS
    Confs = {c1, c2}
    Environments = {v1, v2}
    Kubeconfigs = {k1}
    Owned = TRUE
    Recreated = FALSE
    Edges = 2
    Kubes = 1
    Clusters = 1
    Deletions = 1
    Edits = 1
    Faults = 1
    Restarts = 1
    Total = 3
    Budget <- MCBudget
    None = None
INVARIANTS TypeOK QuietMeansCurrent
PROPERTIES DeploymentFollows WorkerReturns DependentsGo
CHECK_DEADLOCK FALSE
