------------------------------ MODULE Delivery ------------------------------
(***************************************************************************)
(* The message protocol between two hubs: on each side one Connection      *)
(* object, with the goroutine of sendMessageCycle, the goroutine of        *)
(* receiveMessageCycle, and the application that calls Send.               *)
(*                                                                         *)
(* A Message is sent once per successful write.  A Consensus message goes  *)
(* out as a MessageConfirmRequest, and after every successful write it is  *)
(* put at the end of the queue again, until a ConfirmReply with its id was *)
(* received.  The receiver answers a request the first time it sees the    *)
(* id and ignores it afterwards.                                           *)
(*                                                                         *)
(* Each side writes to its own outbound stream, which is the inbound       *)
(* stream of the other side.  A stream is a FIFO of frames that may die at *)
(* any moment: of the frames in flight a prefix still arrives, and writes  *)
(* may succeed for a while before one of them reports the failure.         *)
(*                                                                         *)
(* The receive filter is represented by what SpamFilter proves of it: the  *)
(* frames handed on are those whose id is not in the window receivedMsgId. *)
(* A hub may stop and start again: it then knows nothing of its earlier    *)
(* life, while the Connection at the other side goes on.  Signature and    *)
(* peer list frames and Terminate are outside this module.                 *)
(***************************************************************************)
EXTENDS Integers, Sequences, FiniteSets

CONSTANTS
    Node,          \* the connection's ends
    Peer,          \* the end at the other side
    MsgId,         \* ids of the messages the applications send
    ConsensusId,   \* those sent with the flag that makes them Consensus
    Sender,        \* the end whose application sends the message
    Bannable,      \* the ends whose application may ban its peer
    Restartable,   \* the ends that may restart
    Threshold,     \* SpamStoreThreshold
    WireCap,       \* bound: frames in flight (the stream's flow control window)
    MaxFaults,     \* bound: stream failures and restarts
    NoMsg          \* no message

\* What the queue holds: a message's id tells its kind.
Envelop ==
    [kind : {"Message"}, id : MsgId \ ConsensusId]
    \union [kind : {"Consensus", "ConfirmReply"}, id : ConsensusId]

ASSUME PeerAssumption ==
    /\ Peer \in [Node -> Node]
    /\ \A n \in Node : Peer[n] # n /\ Peer[Peer[n]] = n
ASSUME MsgAssumption ==
    /\ ConsensusId \subseteq MsgId
    /\ Sender \in [MsgId -> Node]
    /\ NoMsg \notin MsgId \union Envelop
ASSUME BoundAssumption ==
    /\ Bannable \subseteq Node
    /\ Restartable \subseteq Node
    /\ Threshold \in Nat \ {0}
    /\ WireCap \in Nat \ {0}
    /\ MaxFaults \in Nat

VARIABLES
    isBanned,         \* the peer is banned
    messageQueue,     \* envelopes waiting for the send cycle
    msgToSend,        \* the envelope the send cycle holds
    sendCycle,        \* where the send cycle is
    confirmReceived,  \* the map from ids to "was the confirmation received?"
    outboundStream,   \* the stream object of the send cycle
    wire,             \* frames in flight from a node to its peer
    receivedMsgId,    \* the window of the receive filter
    handing,          \* the request answered but not yet given to the application
    accepted,         \* history: messages Send put in the queue
    delivered,        \* history: messages given to the application since the last start
    gotBefore,        \* history: those it had got before that
    lost,             \* history: those answered but not yet given to it at a restart
    settled,          \* history: consensus messages no longer sent: confirmed
    dropped,          \* history: messages lost with a cleared queue or a restart
    faults            \* stream failures and restarts so far

appVars == <<isBanned, accepted, gotBefore, lost>>
sendVars == <<msgToSend, sendCycle, settled, dropped>>
receiveVars == <<receivedMsgId, handing, delivered>>
vars == <<isBanned, messageQueue, msgToSend, sendCycle, confirmReceived,
          outboundStream, wire, receivedMsgId, handing, accepted, delivered,
          gotBefore, lost, settled, dropped, faults>>

\* What a stream carries.
Frame ==
    [kind : {"Message"}, id : MsgId \ ConsensusId]
    \union [kind : {"MessageConfirmRequest", "ConfirmReply"}, id : ConsensusId]

\* The entry of a map that holds no entry is "unknown".
Confirm == {"unknown", "awaited", "received"}

NewEnvelop(id) ==
    [kind |-> IF id \in ConsensusId THEN "Consensus" ELSE "Message", id |-> id]

\* Faulty: the frame keeps the envelope's kind, which names another frame kind.
FrameOfSameKind(e) == [kind |-> e.kind, id |-> e.id]

NewFrame(e) ==
    [kind |-> IF e.kind = "Consensus" THEN "MessageConfirmRequest" ELSE e.kind,
     id |-> e.id]

Elements(s) == {s[k] : k \in 1 .. Len(s)}
Prefix(s, k) == SubSeq(s, 1, k)

\* Envelopes of the application among some: not the replies.
OwnIds(envelopes) == {e.id : e \in {f \in envelopes : f.kind # "ConfirmReply"}}

TypeOK ==
    /\ isBanned \in [Node -> BOOLEAN]
    /\ messageQueue \in [Node -> Seq(Envelop)]
    /\ msgToSend \in [Node -> Envelop \union {NoMsg}]
    /\ sendCycle \in [Node -> {"check", "take", "attempt"}]
    /\ confirmReceived \in [Node -> [MsgId -> Confirm]]
    /\ outboundStream \in [Node -> {"nil", "open", "broken"}]
    /\ wire \in [Node -> Seq(Frame)]
    /\ receivedMsgId \in [Node -> Seq(MsgId)]
    /\ handing \in [Node -> MsgId \union {NoMsg}]
    /\ accepted \in [Node -> Seq(MsgId)]
    /\ delivered \in [Node -> Seq(MsgId)]
    /\ gotBefore \in [Node -> SUBSET MsgId]
    /\ lost \in [Node -> SUBSET MsgId]
    /\ settled \in [Node -> SUBSET ConsensusId]
    /\ dropped \in [Node -> SUBSET MsgId]
    /\ faults \in 0 .. MaxFaults

Init ==
    /\ isBanned = [n \in Node |-> FALSE]
    /\ messageQueue = [n \in Node |-> <<>>]
    /\ msgToSend = [n \in Node |-> NoMsg]
    /\ sendCycle = [n \in Node |-> "check"]
    /\ confirmReceived = [n \in Node |-> [id \in MsgId |-> "unknown"]]
    /\ outboundStream = [n \in Node |-> "nil"]
    /\ wire = [n \in Node |-> <<>>]
    /\ receivedMsgId = [n \in Node |-> <<>>]
    /\ handing = [n \in Node |-> NoMsg]
    /\ accepted = [n \in Node |-> <<>>]
    /\ delivered = [n \in Node |-> <<>>]
    /\ gotBefore = [n \in Node |-> {}]
    /\ lost = [n \in Node |-> {}]
    /\ settled = [n \in Node |-> {}]
    /\ dropped = [n \in Node |-> {}]
    /\ faults = 0

-----------------------------------------------------------------------------
(* The application.                                                        *)

\* Send.  A message to a banned peer is ignored, which changes nothing.
Send(n, id) ==
    /\ Sender[id] = n
    /\ id \notin Elements(accepted[n])
    /\ ~isBanned[n]
    /\ messageQueue' = [messageQueue EXCEPT ![n] = Append(@, NewEnvelop(id))]
    /\ accepted' = [accepted EXCEPT ![n] = Append(@, id)]
    /\ UNCHANGED <<isBanned, gotBefore, lost, sendVars, confirmReceived, outboundStream,
                   wire, receiveVars, faults>>

BanPeer(n) ==
    /\ n \in Bannable
    /\ isBanned' = [isBanned EXCEPT ![n] = TRUE]
    /\ UNCHANGED <<messageQueue, sendVars, confirmReceived, outboundStream, wire,
                   receiveVars, accepted, gotBefore, lost, faults>>

RemoveFromBanList(n) ==
    /\ n \in Bannable
    /\ isBanned' = [isBanned EXCEPT ![n] = FALSE]
    /\ UNCHANGED <<messageQueue, sendVars, confirmReceived, outboundStream, wire,
                   receiveVars, accepted, gotBefore, lost, faults>>

-----------------------------------------------------------------------------
(* sendMessageCycle.                                                       *)

GoTo(n, label) == sendCycle' = [sendCycle EXCEPT ![n] = label]

\* After checkOutboundStream: fetch a message unless one is left from before.
AfterCheck(n) == GoTo(n, IF msgToSend[n] = NoMsg THEN "take" ELSE "attempt")

\* checkOutboundStream when the hosts are connected: a missing stream is opened;
\* at the other side it replaces the old one, whose unread frames are lost.
CheckOutboundStream(n) ==
    /\ sendCycle[n] = "check"
    /\ outboundStream' = [outboundStream EXCEPT ![n] = IF @ = "nil" THEN "open" ELSE @]
    /\ wire' = [wire EXCEPT ![n] = IF outboundStream[n] = "nil" THEN <<>> ELSE @]
    /\ AfterCheck(n)
    /\ UNCHANGED <<appVars, messageQueue, msgToSend, settled, dropped,
                   confirmReceived, receiveVars, faults>>

\* checkOutboundStream when the hosts lost their connection: both streams are
\* reset, so what was in flight in either direction is lost, and the peer's own
\* stream is dead without the peer having noticed.  The hosts are connected again
\* and the stream is opened, or one of the two fails and the check is repeated.
Reconnect(n) ==
    /\ sendCycle[n] = "check"
    /\ faults < MaxFaults
    /\ faults' = faults + 1
    /\ wire' = [wire EXCEPT ![n] = <<>>, ![Peer[n]] = <<>>]
    /\ \E reopened \in BOOLEAN :
          /\ outboundStream' = [outboundStream EXCEPT
                                   ![n] = IF reopened THEN "open" ELSE "nil",
                                   ![Peer[n]] = IF @ = "open" THEN "broken" ELSE @]
          /\ IF reopened THEN AfterCheck(n) ELSE GoTo(n, "check")
    /\ UNCHANGED <<appVars, messageQueue, msgToSend, settled, dropped,
                   confirmReceived, receiveVars>>

\* DequeueOrWait returns an envelope.
TakeMessage(n) ==
    /\ sendCycle[n] = "take"
    /\ messageQueue[n] # <<>>
    /\ msgToSend' = [msgToSend EXCEPT ![n] = Head(messageQueue[n])]
    /\ messageQueue' = [messageQueue EXCEPT ![n] = Tail(@)]
    /\ GoTo(n, "attempt")
    /\ UNCHANGED <<appVars, settled, dropped, confirmReceived, outboundStream, wire,
                   receiveVars, faults>>

\* Faulty: taking any entry of the map for a confirmation.
KnownToMap(n) ==
    /\ msgToSend[n].kind = "Consensus"
    /\ confirmReceived[n][msgToSend[n].id] # "unknown"

Confirmed(n) ==
    /\ msgToSend[n].kind = "Consensus"
    /\ confirmReceived[n][msgToSend[n].id] = "received"

\* The confirmation of the message is there: it is not sent again.
SettleMessage(n) ==
    /\ sendCycle[n] = "attempt"
    /\ Confirmed(n)
    /\ confirmReceived' = [confirmReceived EXCEPT ![n][msgToSend[n].id] = "unknown"]
    /\ settled' = [settled EXCEPT ![n] = @ \union {msgToSend[n].id}]
    /\ msgToSend' = [msgToSend EXCEPT ![n] = NoMsg]
    /\ GoTo(n, "check")
    /\ UNCHANGED <<appVars, messageQueue, dropped, outboundStream, wire,
                   receiveVars, faults>>

\* A consensus message about to be written has an entry in the map.
AwaitConfirmation(n) ==
    confirmReceived' =
        IF msgToSend[n].kind = "Consensus"
        THEN [confirmReceived EXCEPT ![n][msgToSend[n].id] =
                 IF @ = "unknown" THEN "awaited" ELSE @]
        ELSE confirmReceived

\* Faulty: a consensus message is not queued again once its write succeeded.
WriteOnce(n) ==
    /\ sendCycle[n] = "attempt"
    /\ ~Confirmed(n)
    /\ outboundStream[n] = "open" => Len(wire[n]) < WireCap
    /\ AwaitConfirmation(n)
    /\ wire' = [wire EXCEPT ![n] = IF outboundStream[n] = "open"
                                   THEN Append(@, NewFrame(msgToSend[n])) ELSE @]
    /\ msgToSend' = [msgToSend EXCEPT ![n] = NoMsg]
    /\ GoTo(n, "check")
    /\ UNCHANGED <<appVars, messageQueue, settled, dropped, outboundStream,
                   receiveVars, faults>>

\* Write succeeds.  On a dead stream it may, but the frame goes nowhere.
WriteMessage(n) ==
    /\ sendCycle[n] = "attempt"
    /\ ~Confirmed(n)
    /\ outboundStream[n] = "open" => Len(wire[n]) < WireCap
    /\ AwaitConfirmation(n)
    /\ wire' = [wire EXCEPT ![n] = IF outboundStream[n] = "open"
                                   THEN Append(@, NewFrame(msgToSend[n])) ELSE @]
    /\ messageQueue' = [messageQueue EXCEPT ![n] =
                           IF msgToSend[n].kind = "Consensus"
                           THEN Append(@, msgToSend[n]) ELSE @]
    /\ msgToSend' = [msgToSend EXCEPT ![n] = NoMsg]
    /\ GoTo(n, "check")
    /\ UNCHANGED <<appVars, settled, dropped, outboundStream, receiveVars, faults>>

\* Write fails and the stream is reset.  Of the frames in flight, and of the
\* frame whose write failed, a prefix may still arrive.
WriteFails(n) ==
    /\ sendCycle[n] = "attempt"
    /\ ~Confirmed(n)
    /\ AwaitConfirmation(n)
    /\ outboundStream' = [outboundStream EXCEPT ![n] = "nil"]
    /\ GoTo(n, "check")
    /\ \/ /\ outboundStream[n] = "broken"
          /\ UNCHANGED <<wire, faults>>
       \/ /\ outboundStream[n] = "open"
          /\ faults < MaxFaults
          /\ faults' = faults + 1
          /\ \E k \in 0 .. Len(wire[n]) + 1 :
                wire' = [wire EXCEPT ![n] =
                            Prefix(Append(@, NewFrame(msgToSend[n])), k)]

\* Faulty: the message goes to the end of the queue, and is kept or not.
RetryLater(n) ==
    /\ WriteFails(n)
    /\ messageQueue' = [messageQueue EXCEPT ![n] = Append(@, msgToSend[n])]
    /\ msgToSend' = [msgToSend EXCEPT ![n] = NoMsg]
    /\ UNCHANGED <<appVars, settled, dropped, receiveVars>>
RetryTwice(n) ==
    /\ WriteFails(n)
    /\ messageQueue' = [messageQueue EXCEPT ![n] = Append(@, msgToSend[n])]
    /\ UNCHANGED <<appVars, msgToSend, settled, dropped, receiveVars>>


\* The message is kept for the next attempt.
RetryMessage(n) ==
    /\ WriteFails(n)
    /\ UNCHANGED <<appVars, messageQueue, msgToSend, settled, dropped, receiveVars>>

\* The message was tried for disconnectThreshold: it and the queue are dropped.
DropMessages(n) ==
    /\ WriteFails(n)
    /\ messageQueue' = [messageQueue EXCEPT ![n] = <<>>]
    /\ msgToSend' = [msgToSend EXCEPT ![n] = NoMsg]
    /\ dropped' = [dropped EXCEPT ![n] =
                      @ \union OwnIds(Elements(messageQueue[n]) \union {msgToSend[n]})]
    /\ UNCHANGED <<appVars, settled, receiveVars>>

-----------------------------------------------------------------------------
(* The network.                                                            *)

\* The stream dies; of the frames in flight a prefix still arrives.
BreakStream(n) ==
    /\ outboundStream[n] = "open"
    /\ faults < MaxFaults
    /\ faults' = faults + 1
    /\ outboundStream' = [outboundStream EXCEPT ![n] = "broken"]
    /\ \E k \in 0 .. Len(wire[n]) : wire' = [wire EXCEPT ![n] = Prefix(@, k)]
    /\ UNCHANGED <<appVars, messageQueue, sendVars, confirmReceived, receiveVars>>

-----------------------------------------------------------------------------
(* A restart.                                                              *)

\* The places an unsettled message may be in at its sender.
Held(n) == OwnIds(Elements(messageQueue[n]) \union ({msgToSend[n]} \ {NoMsg}))

\* What a node's application got, in this life of its hub and before.
Got(n) == Elements(delivered[n]) \union gotBefore[n]

\* The request that was answered and is not yet given to the application.
InHand(n) == {handing[n]} \ {NoMsg}

\* The messages whose requests were answered: of these the application got all but
\* the one in hand, and those that were in hand when the hub stopped.
Answered(n) == Got(n) \union InHand(n) \union lost[n]

\* The hub stops and is made again, with nothing but its key.  Its streams die, and
\* some of what it had written still arrives.  The message in hand is lost, and with
\* the window the memory of having answered its request.
Restart(n) ==
    /\ n \in Restartable
    /\ faults < MaxFaults
    /\ faults' = faults + 1
    /\ isBanned' = [isBanned EXCEPT ![n] = FALSE]
    /\ messageQueue' = [messageQueue EXCEPT ![n] = <<>>]
    /\ msgToSend' = [msgToSend EXCEPT ![n] = NoMsg]
    /\ sendCycle' = [sendCycle EXCEPT ![n] = "check"]
    /\ confirmReceived' = [confirmReceived EXCEPT ![n] = [id \in MsgId |-> "unknown"]]
    /\ outboundStream' = [outboundStream EXCEPT
                             ![n] = "nil",
                             ![Peer[n]] = IF @ = "open" THEN "broken" ELSE @]
    /\ \E k \in 0 .. Len(wire[n]) :
          wire' = [wire EXCEPT ![n] = Prefix(@, k), ![Peer[n]] = <<>>]
    /\ receivedMsgId' = [receivedMsgId EXCEPT ![n] = <<>>]
    /\ handing' = [handing EXCEPT ![n] = NoMsg]
    /\ delivered' = [delivered EXCEPT ![n] = <<>>]
    /\ gotBefore' = [gotBefore EXCEPT ![n] = Got(n)]
    /\ lost' = [lost EXCEPT ![n] = @ \union InHand(n)]
    /\ dropped' = [dropped EXCEPT ![n] = @ \union Held(n)]
    /\ UNCHANGED <<accepted, settled>>

-----------------------------------------------------------------------------
(* receiveMessageCycle.                                                    *)

\* Faulty: only ids of consensus messages are remembered.
RememberConsensus(n, id) ==
    receivedMsgId' = [receivedMsgId EXCEPT ![n] =
                         IF id \in ConsensusId THEN Append(@, id) ELSE @]

\* What the filter does with an id that is not in the window: it enters, and
\* when the window is full the oldest id leaves.
Remember(n, id) ==
    LET longer == Append(receivedMsgId[n], id)
    IN  receivedMsgId' = [receivedMsgId EXCEPT ![n] =
                             IF Len(longer) >= Threshold THEN Tail(longer) ELSE longer]

\* ReadOnce returns the next frame of the peer.
ReadFrame(n, frame) ==
    /\ handing[n] = NoMsg
    /\ wire[Peer[n]] # <<>>
    /\ frame = Head(wire[Peer[n]])
    /\ wire' = [wire EXCEPT ![Peer[n]] = Tail(@)]

\* A frame with a remembered id is ignored, whatever its kind.
IgnoreDuplicate(n) ==
    \E frame \in Frame :
        /\ ReadFrame(n, frame)
        /\ frame.id \in Elements(receivedMsgId[n])
        /\ UNCHANGED <<appVars, messageQueue, sendVars, confirmReceived,
                       outboundStream, receiveVars, faults>>

ReadNew(n, frame) ==
    /\ ReadFrame(n, frame)
    /\ frame.id \notin Elements(receivedMsgId[n])
    /\ Remember(n, frame.id)
    /\ UNCHANGED <<appVars, sendVars, outboundStream, faults>>

\* confirmationReceived.  An id without an entry is only logged.
ReceiveConfirmReply(n) ==
    \E frame \in Frame :
        /\ ReadNew(n, frame)
        /\ frame.kind = "ConfirmReply"
        /\ confirmReceived' = [confirmReceived EXCEPT ![n][frame.id] =
                                  IF @ = "unknown" THEN @ ELSE "received"]
        /\ UNCHANGED <<messageQueue, handing, delivered>>

\* A request is answered first; the application gets it in the next step.
ReceiveConfirmRequest(n) ==
    \E frame \in Frame :
        /\ ReadNew(n, frame)
        /\ frame.kind = "MessageConfirmRequest"
        /\ messageQueue' = [messageQueue EXCEPT ![n] =
                               Append(@, [kind |-> "ConfirmReply", id |-> frame.id])]
        /\ handing' = [handing EXCEPT ![n] = frame.id]
        /\ UNCHANGED <<confirmReceived, delivered>>

\* Faulty: a request of a banned peer was answered, but is not handed over.
HandOverUnlessBanned(n) ==
    /\ handing[n] # NoMsg
    /\ delivered' = [delivered EXCEPT ![n] =
                        IF isBanned[n] THEN @ ELSE Append(@, handing[n])]
    /\ handing' = [handing EXCEPT ![n] = NoMsg]
    /\ UNCHANGED <<appVars, messageQueue, sendVars, confirmReceived, outboundStream,
                   wire, receivedMsgId, faults>>

\* The request is given to the application, banned peer or not.
HandOver(n) ==
    /\ handing[n] # NoMsg
    /\ delivered' = [delivered EXCEPT ![n] = Append(@, handing[n])]
    /\ handing' = [handing EXCEPT ![n] = NoMsg]
    /\ UNCHANGED <<appVars, messageQueue, sendVars, confirmReceived, outboundStream,
                   wire, receivedMsgId, faults>>

\* A plain message is given to the application unless the peer is banned.
ReceiveMessage(n) ==
    \E frame \in Frame :
        /\ ReadNew(n, frame)
        /\ frame.kind = "Message"
        /\ delivered' = [delivered EXCEPT ![n] =
                            IF isBanned[n] THEN @ ELSE Append(@, frame.id)]
        /\ UNCHANGED <<messageQueue, confirmReceived, handing>>

-----------------------------------------------------------------------------

Application(n) ==
    \/ \E id \in MsgId : Send(n, id)
    \/ BanPeer(n)
    \/ RemoveFromBanList(n)

SendCycle(n) ==
    \/ CheckOutboundStream(n)
    \/ Reconnect(n)
    \/ TakeMessage(n)
    \/ SettleMessage(n)
    \/ WriteMessage(n)
    \/ RetryMessage(n)
    \/ DropMessages(n)

ReceiveCycle(n) ==
    \/ IgnoreDuplicate(n)
    \/ ReceiveConfirmReply(n)
    \/ ReceiveConfirmRequest(n)
    \/ HandOver(n)
    \/ ReceiveMessage(n)

Next ==
    \E n \in Node : \/ Application(n) \/ SendCycle(n) \/ ReceiveCycle(n)
                    \/ BreakStream(n) \/ Restart(n)

Spec == Init /\ [][Next]_vars

\* Both goroutines of a connection run.  Writing on a dead stream for ever, one
\* write fails in the end.  Applications and faults are not obliged to happen.
Fairness ==
    \A n \in Node :
        /\ WF_vars(SendCycle(n))
        /\ WF_vars(ReceiveCycle(n))
        /\ SF_vars(outboundStream[n] = "broken" /\ (RetryMessage(n) \/ DropMessages(n)))

FairSpec == Spec /\ Fairness

-----------------------------------------------------------------------------
(* What the protocol promises.                                             *)

\* A confirmation is taken for the end of the matter: the entry is removed and the
\* message not sent again ("we already sent this msg and received confirmation",
\* connection.go:312).  Then the peer's application should have the message, or be
\* about to get it from a hub that is alive.
ConfirmedWasDelivered ==
    \A n \in Node : \A id \in ConsensusId :
        confirmReceived[n][id] = "received" \/ id \in settled[n]
            => id \in Got(Peer[n]) \union InHand(Peer[n])

\* A confirmation is false of no other message than one that was in hand when the
\* peer's hub stopped, between the reply and onMessage: whatever else is lost,
\* repeated or written twice, whoever is banned and whichever end was restarted, a
\* confirmed or settled message was given to the application or is in hand
\* (connection.go:225-229, 310-321).
ConfirmedUnlessCrashed ==
    \A n \in Node : \A id \in ConsensusId :
        confirmReceived[n][id] = "received" \/ id \in settled[n] => id \in Answered(Peer[n])

\* The sender never loses track of a consensus message: from Send until it is
\* settled it waits in the queue or is held by the send cycle, unless the whole
\* queue was dropped after disconnectThreshold or with a restart; and it is settled
\* only once it left both (connection.go:286-298, 310-341, 358-366).
ConsensusRetained ==
    \A n \in Node : \A id \in ConsensusId \intersect Elements(accepted[n]) :
        (id \in Held(n)) <=> (id \notin settled[n] \union dropped[n])

\* Each message is in the sequence once; replies may repeat.
NoCopies(s) ==
    \A i, j \in 1 .. Len(s) : s[i] = s[j] /\ s[i].kind # "ConfirmReply" => i = j

\* Resending does not multiply: at most one copy of a message is at its sender,
\* in the queue or held by the send cycle (connection.go:338-341, 349-352).
SingleCopy ==
    \A n \in Node :
        /\ NoCopies(messageQueue[n])
        /\ msgToSend[n] # NoMsg /\ msgToSend[n].kind # "ConfirmReply"
              => msgToSend[n] \notin Elements(messageQueue[n])

\* The application gets no message twice between two starts of its hub.  This is the
\* filter's work, so it is checked for windows that remember all the ids in play
\* (connection.go:211-219 against the resends of 338-341 and 349-352).
AtMostOnce ==
    \A n \in Node :
        /\ \A i, j \in 1 .. Len(delivered[n]) : delivered[n][i] = delivered[n][j] => i = j
        /\ handing[n] \notin Elements(delivered[n])

\* All of it together: the connection implements the abstract channel, whose nodes
\* have a message from the moment its request is answered.
AbstractChannel == INSTANCE Channel WITH
    got <- [n \in Node |-> IF handing[n] = NoMsg THEN delivered[n]
                           ELSE Append(delivered[n], handing[n])]

\* The connection is a channel that gives no message twice unless the hub restarts,
\* keeps plain messages in order, loses to a restart the last message at most of those
\* it has, and settles only what has arrived: no interleaving of the four cycles, the
\* applications, the faults and restarts shows anything else (connection.go:199-370).
ImplementsChannel == AbstractChannel!Spec

\* Plain messages arrive in the order in which they were sent, with gaps where
\* some were lost: a retry does not let a later message overtake
\* (connection.go:286-298, 329-366).
MessagesInOrder ==
    \A n \in Node : \A i, j \in 1 .. Len(delivered[n]) :
        i < j /\ delivered[n][i] \notin ConsensusId /\ delivered[n][j] \notin ConsensusId
            => AbstractChannel!PlaceIn(accepted[Peer[n]], delivered[n][i])
                < AbstractChannel!PlaceIn(accepted[Peer[n]], delivered[n][j])

\* What a node holds or has in flight.
Carried(n) ==
    Elements(messageQueue[n]) \union Elements(wire[n]) \union ({msgToSend[n]} \ {NoMsg})
ReplyIds(n) == {x.id : x \in {y \in Carried(n) : y.kind = "ConfirmReply"}}

\* A reply goes out only for a request that was answered in some life of the hub: at
\* no place of its way back is there a reply to a message that was ignored
\* (connection.go:225-229).
RepliesTrue == \A n \in Node : ReplyIds(n) \subseteq Answered(n)


\* Every consensus message is sent again only until it is confirmed: it does not
\* stay in the queue for ever ("adding this msg to the end of the queue so it is
\* resent again", connection.go:340, until "we already sent this msg and received
\* confirmation", connection.go:312).
ConsensusSettled ==
    \A id \in ConsensusId :
        LET n == Sender[id] IN
        id \in Elements(accepted[n]) ~> id \in settled[n] \union dropped[n]

=============================================================================
