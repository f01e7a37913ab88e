SPECIFICATION Spec
CONSTANTS
    Services = {s1, s2}
    Inertia <- NegativeInertia
    Desired = {60}
    Extreme = Extreme
    MaxShifts = 1
    MaxExpiries = 1
    MaxFailures = 1
    MaxRestarts = 1
    None = None
INVARIANTS TypeOK
PROPERTIES NeverOvershoots
CHECK_DEADLOCK FALSE
