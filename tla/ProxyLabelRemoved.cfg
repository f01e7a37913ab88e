SPECIFICATION FairSpec
CONSTANTS
    Hosts = {h1}
    Shares = {40}
    Fixed = {None}
    RemoteUrl = "absolute"
    Remotes = 2
    Stores = 1
    Statuses = 0
    Faults = 0
    Restarts = 0
    Total = 3
    Budget <- MCBudget
    None = None
PROPERTIES TargetGoes
CHECK_DEADLOCK FALSE
