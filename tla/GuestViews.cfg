CONSTANTS
    Mapping = {map1}
    Span = {span1}
    Packed = {pack1}
    Addr = {a1, a2}
    Ram = ram
    Slot = {r1, window}
    Window = window
    Image = {g1}
    MaxView = 2
SPECIFICATION Spec
INVARIANTS TypeOK NoReadAfterUnmap CachedViewIsMapped NoViewForgotten
           AliasNamesItsView
CHECK_DEADLOCK FALSE
