SPECIFICATION FairSpec
CONSTANTS
    Services = {s1}
PROPERTIES FailureSkipsRun
CHECK_DEADLOCK FALSE
