SPECIFICATION FairSpec
CONSTANTS
    c1 = c1
    Nobody = Nobody
    Conn = {c1}
    MaxQueue = 2
INVARIANT TypeOK
INVARIANT SendCycleWakes
PROPERTY StopEndsOrStuck
PROPERTY CyclesEnd
CHECK_DEADLOCK FALSE
