SPECIFICATION FairSpec
CONSTANTS
    Confs = {c1}
    Environments = {v1}
    Kubeconfigs = {k1, k2}
    Owned = TRUE
    Recreated = FALSE
    Edges = 1
    Kubes = 2
    Clusters = 1
    Deletions = 0
    Edits = 0
    Faults = 0
    Restarts = 0
    Total = 4
    Budget <- MCBudget
    None = None
PROPERTIES KubeconfigFollows
CHECK_DEADLOCK FALSE
