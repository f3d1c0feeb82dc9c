CONSTANTS
    Local = {a, b}
    Remote = {c}
    Timed = {b}
    MaxChunks = 1
    MaxMessages = 2
SPECIFICATION FairSpec
INVARIANTS
    ReadersOwnTheirChunk
PROPERTIES
    Broadcasts
    Delivered
    ShutdownEnds
CHECK_DEADLOCK FALSE
