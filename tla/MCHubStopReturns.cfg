SPECIFICATION FairSpec
CONSTANTS
    c1 = c1
    Nobody = Nobody
    Conn = {c1}
    MaxQueue = 1
PROPERTY StopReturns
CHECK_DEADLOCK FALSE
