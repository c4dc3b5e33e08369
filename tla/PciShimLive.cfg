CONSTANTS
    Windows = {TRUE, FALSE}
    Refreshed = FALSE
    Notifiers = {}
    MaxRings = 3
SPECIFICATION FairSpec
PROPERTIES WorkIsDrained PresentIsPainted StopEnds
CHECK_DEADLOCK FALSE
