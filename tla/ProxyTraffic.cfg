SPECIFICATION FairSpec
CONSTANTS
    Hosts = {h1}
    Shares = {40}
    Fixed = {None, 120}
    RemoteUrl = "absolute"
    Remotes = 2
    Stores = 1
    Statuses = 1
    Faults = 1
    Restarts = 1
    Total = 3
    Budget <- MCBudget
    None = None
INVARIANTS TypeOK SplitRecorded RefusalsExplained
PROPERTIES SplitComes RequestsReachCloud ConfigurationGoes
CHECK_DEADLOCK FALSE
