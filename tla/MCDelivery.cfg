SPECIFICATION FairSpec
CONSTANTS
    Alice = Alice
    Bob = Bob
    c1 = c1
    m1 = m1
    m2 = m2
    NoMsg = NoMsg
    Node <- MCNode
    Peer <- MCPeer
    MsgId <- MCMsgId
    ConsensusId <- MCConsensusId
    Sender <- MCSender
    Bannable = {Bob}
    Restartable = {Bob}
    Threshold = 10
    WireCap = 2
    MaxFaults = 1
INVARIANT TypeOK
INVARIANT ConfirmedUnlessCrashed
INVARIANT ConsensusRetained
INVARIANT SingleCopy
INVARIANT AtMostOnce
INVARIANT MessagesInOrder
PROPERTY ImplementsChannel
 
CHECK_DEADLOCK FALSE
