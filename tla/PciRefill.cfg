CONSTANTS
    Windows = {FALSE}
    Refreshed = FALSE
    Notifiers = {}
    MaxRings = 3
SPECIFICATION Spec
INVARIANT RefillHasSeenTheWork
CHECK_DEADLOCK FALSE
