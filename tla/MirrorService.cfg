SPECIFICATION HistorySpec
CONSTANTS
    Names = {n1}
    EnvLabels = {edge, other}
    Data = {d1, d2}
    EnvChoices = {{edge}, {other}}
    KeepAnnotations = TRUE
    UserOps = {"create", "edit", "unmanage", "delete"}
    RelistSides = {"remote"}
    MaxRemoteRv = 2
    Users = 1
    Faults = 1
    Restarts = 1
    Relists = 1
    Resyncs = 1
    Total = 3
    Budget <- MCBudget
    None = None
SYMMETRY DataSymmetry
INVARIANTS SettledInSync
PROPERTIES DeletionsWarranted MirrorsOneWay
CHECK_DEADLOCK FALSE
