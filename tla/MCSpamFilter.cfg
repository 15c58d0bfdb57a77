SPECIFICATION Spec
CONSTANTS
    m1 = m1
    m2 = m2
    m3 = m3
    m4 = m4
    m5 = m5
    MsgId <- MCMsgId
    Threshold <- MCThreshold
    CountMod <- MCCountMod
    MaxProcessed <- MCMaxProcessed
SYMMETRY Symmetry
INVARIANT TypeOK
INVARIANT WindowExact
INVARIANT NoRedelivery
CHECK_DEADLOCK FALSE
