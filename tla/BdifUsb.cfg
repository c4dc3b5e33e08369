SPECIFICATION FairSpec
CONSTANTS
    MaxPacket = 2
    Addr = {setup, data, hole}
    Writable = {setup, data}
    Streams <- MCStreams
CHECK_DEADLOCK TRUE
INVARIANTS TypeOK StashIsPromoted NoIdleFrame RoomIsKept
PROPERTIES FramesStayWhole ReadyStaysIntact StreamIsTaken ImplementsMailbox
