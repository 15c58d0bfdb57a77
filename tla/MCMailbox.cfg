SPECIFICATION FairSpec
CONSTANTS
    tiny = tiny
    small = small
    medium = medium
    large = large
    Msg <- MCMsg
    Size <- MCSize
    Header <- MCHeader
    InitialBuffer <- MCInitialBuffer
INVARIANT TypeOK
INVARIANT NothingLost
INVARIANT BufferBounded
PROPERTY ImplementsQueue
PROPERTY AllGot
CHECK_DEADLOCK FALSE
