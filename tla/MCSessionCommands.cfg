SPECIFICATION FairSpec
CONSTANTS
    Reply = {a}
    Control = {c}
    Named = {a}
    ParentReply = {p}
    Yield = {y}
    About <- MCAbout
    StoreLimit = 1
    PendingLimit = 1
    LogLimit = 1
    MaxPosts = 2
    MaxRuns = 2
    MaxFaults = 2
    MaxDecisions = 1
    MaxDirect = 1
    None = None
INVARIANTS TypeOK RunsOnce FirstReplyWins PendingIsAwaited
PROPERTY RepliesSettle
CHECK_DEADLOCK FALSE
