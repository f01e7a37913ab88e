SPECIFICATION FairSpec
CONSTANTS
    Names = {n1}
    EnvLabels = {edge, other}
    Data = {d1, d2}
    EnvChoices = {{edge}, {other}}
    KeepAnnotations = FALSE
    UserOps = {"create", "edit", "unmanage", "delete"}
    RelistSides = {"remote"}
    MaxRemoteRv = 2
    Users = 1
    Faults = 0
    Restarts = 1
    Relists = 1
    Resyncs = 0
    Total = 2
    Budget <- MCBudget
    None = None
INVARIANTS SettledInSync
PROPERTIES Convergence
CHECK_DEADLOCK FALSE
