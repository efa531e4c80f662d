\* A runtime killed after a wait took a report and before the next save.
SPECIFICATION Spec
CONSTANTS
    Mail = {report, note}
    Named = {report}
    Body <- OwnBody
    Blank = {}
    Permitted = {report, note}
    Report = {report}
    Lasting = {report}
    InboxCap = 2
    Window = 2
    MaxSends = 4
    MaxCrashes = 1
INVARIANT
    AcknowledgedOnceSaved
