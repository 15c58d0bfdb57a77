------------------------------ MODULE Channel -------------------------------
(***************************************************************************)
(* What the application may expect of two connected hubs: Send accepts     *)
(* messages, and the peer's application is given some of them.  No message *)
(* is given twice, none that was not accepted, and plain messages come in  *)
(* the order of acceptance, with gaps.  A consensus message is settled     *)
(* (the sender stops resending it) only after the peer has got it.  A node *)
(* gives what it has got to its application one behind the other, so that  *)
(* the last one may not be given yet.  A node that restarts may get again  *)
(* what it got before, and may lose the last one.                          *)
(*                                                                         *)
(* Delivery implements this specification; it owes the rest, that          *)
(* consensus messages do arrive, to its fairness.                          *)
(***************************************************************************)
EXTENDS Integers, Sequences

CONSTANTS Node, Peer, MsgId, ConsensusId, Sender

VARIABLES
    accepted,   \* by Send, in order
    got,        \* at a node since its last start, in order
    gotBefore,  \* before that, and given to the application
    lost,       \* before that, and not given
    settled     \* consensus messages known to have arrived

vars == <<accepted, got, gotBefore, lost, settled>>

Elements(s) == {s[k] : k \in 1 .. Len(s)}

\* The place of an id in a history that holds it.
PlaceIn(s, id) == CHOOSE k \in 1 .. Len(s) : s[k] = id

Init ==
    /\ accepted = [n \in Node |-> <<>>]
    /\ got = [n \in Node |-> <<>>]
    /\ gotBefore = [n \in Node |-> {}]
    /\ lost = [n \in Node |-> {}]
    /\ settled = [n \in Node |-> {}]

Accept(n, id) ==
    /\ Sender[id] = n
    /\ id \notin Elements(accepted[n])
    /\ accepted' = [accepted EXCEPT ![n] = Append(@, id)]
    /\ UNCHANGED <<got, gotBefore, lost, settled>>

\* No plain message that was accepted later has arrived already.
InOrder(n, id) ==
    \A other \in Elements(got[n]) \ ConsensusId :
        PlaceIn(accepted[Peer[n]], other) < PlaceIn(accepted[Peer[n]], id)

Deliver(n, id) ==
    /\ id \in Elements(accepted[Peer[n]])
    /\ id \notin Elements(got[n])
    /\ id \in ConsensusId \/ InOrder(n, id)
    /\ got' = [got EXCEPT ![n] = Append(@, id)]
    /\ UNCHANGED <<accepted, gotBefore, lost, settled>>

Settle(n, id) ==
    /\ id \in ConsensusId
    /\ id \in Elements(accepted[n])
    /\ id \in Elements(got[Peer[n]]) \union gotBefore[Peer[n]] \union lost[Peer[n]]
    /\ settled' = [settled EXCEPT ![n] = @ \union {id}]
    /\ UNCHANGED <<accepted, got, gotBefore, lost>>

\* All that the node has got was given to its application, but for the last perhaps.
Restart(n) ==
    /\ \E given \in {k \in 0 .. Len(got[n]) : k >= Len(got[n]) - 1} :
          /\ gotBefore' = [gotBefore EXCEPT ![n] = @ \union {got[n][k] : k \in 1 .. given}]
          /\ lost' = [lost EXCEPT ![n] = @ \union {got[n][k] : k \in given + 1 .. Len(got[n])}]
    /\ got' = [got EXCEPT ![n] = <<>>]
    /\ UNCHANGED <<accepted, settled>>

Next ==
    \E n \in Node :
        \/ Restart(n)
        \/ \E id \in MsgId : Accept(n, id) \/ Deliver(n, id) \/ Settle(n, id)

Spec == Init /\ [][Next]_vars

=============================================================================
