\* An insert asked for as one turn ends interrupts the next.
SPECIFICATION FairSpec
CONSTANTS
    Text = {hello, more}
    Slash = {}
    Mail = {}
    Control = {}
    Reverting = {}
    Rename = {}
    GuidanceLimit = 1
    ControlLimit = 1
    None = None
INVARIANT
    InsertStopsOnlyItsStep
CHECK_DEADLOCK FALSE
