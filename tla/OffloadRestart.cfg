SPECIFICATION Spec
CONSTANTS
    Services = {s1}
    Inertia <- DefaultInertia
    Desired = {100}
    Extreme = Extreme
    MaxShifts = 1
    MaxExpiries = 0
    MaxFailures = 0
    MaxRestarts = 1
    None = None
PROPERTIES ShareKept
CHECK_DEADLOCK FALSE
