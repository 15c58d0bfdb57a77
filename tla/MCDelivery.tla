----------------------------- MODULE MCDelivery -----------------------------
(* Delivery between two ends, Alice and Bob.                               *)
EXTENDS Delivery

CONSTANTS Alice, Bob, c1, m1, m2

MCNode == {Alice, Bob}
MCPeer == [n \in MCNode |-> IF n = Alice THEN Bob ELSE Alice]

\* Alice sends a consensus and two plain messages, Bob none.
MCMsgId == {c1, m1, m2}
MCSender == [id \in MCMsgId |-> Alice]

\* A consensus message and a plain one, for the counterexamples.
LiveIds == {c1, m1}
LiveSender == [id \in LiveIds |-> Alice]

MCConsensusId == {c1}

=============================================================================
