CONSTANTS
    Mapping = {map1}
    Span = {}
    Packed = {}
    Addr = {a1}
    Ram = ram
    Slot = {r1, window}
    Window = window
    Image = {g1}
    MaxView = 2
SPECIFICATION Spec
INVARIANT CachedViewIsAlwaysMapped
CHECK_DEADLOCK FALSE
