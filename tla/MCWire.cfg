CONSTANTS
    Keys <- MCKeys
    Ids <- MCIds
    Addrs <- MCAddrs
    ChainIds <- MCChainIds
    Sends <- MCSends
    BufSize = 3
    MaxFrames = 3
    MaxLength = 10
SPECIFICATION FairSpec
INVARIANT TypeOK
INVARIANT ReadInOrder
INVARIANT ContentKept
INVARIANT NoneSkipped
PROPERTY ImplementsPipe
PROPERTY AllHandled
CHECK_DEADLOCK FALSE
