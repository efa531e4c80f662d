CONSTANTS
    Client = {c1}
    Key = {"answer", "reasoning"}
    Big = {2}
    Limit = 3
    MaxEvents = 5
    MaxStates = 3
    MaxJoins = 2
SPECIFICATION Spec
INVARIANTS TypeOK NoSilentLoss StatusIsCurrent
PROPERTIES StatusNeverGoesBack
\* The runtime has said everything it had to say and nobody joins any more.
CHECK_DEADLOCK FALSE
