--------------------------- MODULE MCPeerService ----------------------------
(* PeerService with two peers, one of which shows two keys, its own and the *)
(* other's.                                                                 *)
EXTENDS PeerService

CONSTANTS p1, p2, k1, k2, m1, m2

TwoPeers == {p1, p2}
OneShowsTwoKeys == [p \in TwoPeers |-> IF p = p1 THEN {k1} ELSE {k1, k2}]

=============================================================================
