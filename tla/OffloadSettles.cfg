SPECIFICATION FairSpec
CONSTANTS
    Services = {s1}
    Inertia <- DefaultInertia
    Desired = {0, 60}
    Extreme = Extreme
    MaxShifts = 2
    MaxExpiries = 1
    MaxFailures = 1
    MaxRestarts = 1
    None = None
PROPERTIES ComesCloser Settles
CHECK_DEADLOCK FALSE
