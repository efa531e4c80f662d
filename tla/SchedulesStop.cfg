\* A stop and a restart of the host.
SPECIFICATION Spec
CONSTANTS
    a = a
    b = b
    a1 = a1
    a2 = a2
    b1 = b1
    Task = {a, b}
    Run = {a1, a2, b1}
    TaskOf <- MCTaskOf
    Slots = 1
    None = None
    MaxActs = 2
    MaxFaults = 1
INVARIANT
    StopReachesRuntime
CHECK_DEADLOCK FALSE
