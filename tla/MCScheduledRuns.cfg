\* Two tasks, one with two runs, and one slot: a runtime or the host is killed,
\* or a write is refused.
SPECIFICATION FairSpec
CONSTANTS
    a = a
    b = b
    a1 = a1
    a2 = a2
    b1 = b1
    Task = {a, b}
    Run = {a1, a2, b1}
    TaskOf <- MCTaskOf
    Slots = 1
    None = None
    MaxActs = 2
    MaxFaults = 1
INVARIANTS
    TypeOK
    OneActivePerTask
    PromptOnce
PROPERTIES
    StopIsFinal
    RunsSettle
CHECK_DEADLOCK FALSE
