\* Two messages, one a command, mail, a control that reverts and a rename.
SPECIFICATION FairSpec
CONSTANTS
    Text = {hello, more}
    Slash = {more}
    Mail = {mail}
    Control = {revert}
    Reverting = {revert}
    Rename = {title}
    GuidanceLimit = 1
    ControlLimit = 1
    None = None
INVARIANTS
    TypeOK
    RunsOnce
    RetiredOwesNothing
    WaitingIsIdle
PROPERTIES
    Heard
CHECK_DEADLOCK FALSE
