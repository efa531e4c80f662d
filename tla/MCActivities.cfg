SPECIFICATION FairSpec
CONSTANTS
    Command <- MCCommand
    Talks <- MCTalks
    Calls <- MCCalls
    Person = person
    Plans <- MCPlans
    MaxStops = 1
    MaxFaults = 1
    MaxInterrupts = 1
INVARIANTS
    TypeOK
    ToldOnce
    OutputOnce
PROPERTY
    RowsFinish
CHECK_DEADLOCK FALSE
