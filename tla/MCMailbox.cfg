\* A named report, an unnamed message that expires and a blank one; the window
\* keeps one id, and the runtime is killed once.
SPECIFICATION FairSpec
CONSTANTS
    Mail = {report, note, blank}
    Named = {report}
    Body <- OwnBody
    Blank = {blank}
    Permitted = {report, note, blank}
    Report = {report}
    Lasting = {report, blank}
    InboxCap = 2
    Window = 1
    MaxSends = 3
    MaxCrashes = 1
INVARIANTS
    TypeOK
    NothingLost
    AtMostOnce
    SaveIsConsistent
    KeptUntilSaved
PROPERTIES
    Delivered
