CONSTANTS
    LastFile = 2
    Elsewhere = {2}
    Turn = {t0, t1, t2}
    Before = {t0}
    MaxOpens = 2
    MaxFaults = 1
    MaxCrashes = 2
SPECIFICATION Spec
INVARIANTS TypeOK NothingLost NoHalfMove StopsOnlyAtALock
PROPERTIES LeavesOpenSessions
\* A move that is over, or given up, with nobody left to disturb it.
CHECK_DEADLOCK FALSE
