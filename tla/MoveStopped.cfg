CONSTANTS
    LastFile = 2
    Elsewhere = {2}
    Turn = {t0}
    Before = {t0}
    MaxOpens = 0
    MaxFaults = 0
    MaxCrashes = 1
SPECIFICATION Spec
INVARIANT StoppedMoveIsFinished
CHECK_DEADLOCK FALSE
