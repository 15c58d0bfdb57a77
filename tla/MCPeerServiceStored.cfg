SPECIFICATION Spec
CONSTANTS
    p1 = p1
    p2 = p2
    k1 = k1
    k2 = k2
    m1 = m1
    m2 = m2
    NoKey = NoKey
    PeerId <- TwoPeers
    Key = {k1, k2}
    KeysOf <- OneShowsTwoKeys
    Bootstrap = {p1}
    Msg = {m1, m2}
    MaxBans = 2
PROPERTY StoredNotSentToBanned
CHECK_DEADLOCK FALSE
