SPECIFICATION Spec
CONSTANTS
    Names = {n1}
    EnvLabels = {edge, other}
    Data = {d1, d2}
    EnvChoices = {{edge}, {other}}
    KeepAnnotations = FALSE
    UserOps = {"create", "edit", "replace", "unmanage", "delete"}
    RelistSides = {"remote", "local"}
    MaxRemoteRv = 2
    Users = 2
    Faults = 2
    Restarts = 2
    Relists = 2
    Resyncs = 2
    Total = 2
    Budget <- MCBudget
    None = None
SYMMETRY DataSymmetry
INVARIANTS TypeOK NoWriteLoop ManagedVersions
PROPERTIES UnmanagedUntouched NoRegress
CHECK_DEADLOCK FALSE
