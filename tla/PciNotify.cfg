CONSTANTS
    Windows = {FALSE}
    Refreshed = FALSE
    Notifiers = {"stamp"}
    MaxRings = 2
SPECIFICATION Spec
INVARIANT NotifyFindsBH
CHECK_DEADLOCK FALSE
