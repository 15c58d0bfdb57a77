------------------------------- MODULE MCWire -------------------------------
(***************************************************************************)
(* Three frames of every kind: a message without data and one larger than  *)
(* the buffer, signatures with either recovery id, peers with and without  *)
(* an address; chain ids at the boundaries of the signature's format.      *)
(***************************************************************************)
EXTENDS Wire

MCKeys == {"key"}
MCIds == {"p", "q", "r"}
MCAddrs == {"a", "b"}
MCChainIds == {0, 1, 109, 110, 255}

Peer(id, addr) == [PublicKey |-> "key", Id |-> id, Addr |-> addr]

MCSends ==
    {[kind |-> "Message", content |-> [size |-> n]] : n \in {0, 3}}
    \union {[kind |-> "Signature", content |-> [v |-> v, Addr |-> "a"]] : v \in RecoveryId}
    \union {[kind |-> "GetPeersReply",
             content |-> [peers |-> <<Peer("p", "a"), Peer("q", NoAddr), Peer("r", "b")>>]]}

=============================================================================
