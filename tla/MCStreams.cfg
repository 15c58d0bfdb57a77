SPECIFICATION FairSpec
CONSTANTS
    Start = {1}
    MaxStreams = 3
    MaxFaults = 1
INVARIANT TypeOK
INVARIANT WriteStreamThere
PROPERTY TerminatedForEver
PROPERTY StreamGreeted
PROPERTY PeerHeard
PROPERTY SendersEnd
CHECK_DEADLOCK FALSE
