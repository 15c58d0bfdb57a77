SPECIFICATION FairSpec
CONSTANTS
    Alice = Alice
    Bob = Bob
    c1 = c1
    m1 = m1
    m2 = m2
    NoMsg = NoMsg
    Node <- MCNode
    Peer <- MCPeer
    MsgId <- LiveIds
    ConsensusId <- MCConsensusId
    Sender <- LiveSender
    Bannable = {}
    Restartable = {}
    Threshold = 10
    WireCap = 2
    MaxFaults = 2
PROPERTY ConsensusSettled
CHECK_DEADLOCK FALSE
