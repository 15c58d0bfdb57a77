SPECIFICATION Spec
CONSTANTS
    Start = {0, 1}
    MaxStreams = 3
    MaxFaults = 1
INVARIANT NoNilUse
CHECK_DEADLOCK FALSE
