CONSTANTS
    Windows = {TRUE, FALSE}
    Refreshed = TRUE
    Notifiers = {"stamp"}
    MaxRings = 4
SPECIFICATION Spec
INVARIANTS TypeOK NoWakeLost NoActionStranded PaintIsComing ThreadsEndFirst JoinsCanReturn
PROPERTY OnlyTheRefillForgets
CHECK_DEADLOCK FALSE
