--------------------------- MODULE DeliveryProof ----------------------------
(***************************************************************************)
(* Theorems about Delivery, for every set of ends, of messages, and every  *)
(* window, wire capacity and number of faults.                             *)
(***************************************************************************)
EXTENDS Delivery, SequenceTheorems, TLAPS

\* The send cycle attempts to send only when it holds a message, and fetches one
\* only when it holds none.
HoldsMessage ==
    \A n \in Node :
        /\ sendCycle[n] = "attempt" => msgToSend[n] # NoMsg
        /\ sendCycle[n] = "take" => msgToSend[n] = NoMsg

TInv == TypeOK /\ HoldsMessage

-----------------------------------------------------------------------------
(* Sequences as sets of elements.                                          *)

LEMMA ElementsAppend ==
    ASSUME NEW S, NEW s \in Seq(S), NEW x
    PROVE  Elements(Append(s, x)) = Elements(s) \union {x}
<1>1. /\ Len(Append(s, x)) = Len(s) + 1 /\ Len(s) \in Nat
      /\ \A k \in 1 .. Len(s) : Append(s, x)[k] = s[k]
      /\ Append(s, x)[Len(s) + 1] = x
  OBVIOUS
<1>2. Elements(s) \union {x} \subseteq Elements(Append(s, x))
  BY <1>1 DEF Elements
<1>3. ASSUME NEW k \in 1 .. Len(s) + 1 PROVE Append(s, x)[k] \in Elements(s) \union {x}
  BY <1>1 DEF Elements
<1>4. QED
  BY <1>1, <1>2, <1>3 DEF Elements

LEMMA ElementsTail ==
    ASSUME NEW S, NEW s \in Seq(S), s # <<>>
    PROVE  /\ Tail(s) \in Seq(S)
           /\ Head(s) \in S
           /\ Elements(s) = Elements(Tail(s)) \union {Head(s)}
<1>1. /\ Tail(s) \in Seq(S) /\ Head(s) = s[1] /\ Len(s) \in Nat /\ Len(s) >= 1
      /\ Len(Tail(s)) = Len(s) - 1
      /\ \A k \in 1 .. Len(s) - 1 : Tail(s)[k] = s[k + 1]
  OBVIOUS
<1>2. Head(s) \in S
  BY <1>1
<1>3. Elements(Tail(s)) \union {Head(s)} \subseteq Elements(s)
  BY <1>1 DEF Elements
<1>4. ASSUME NEW k \in 1 .. Len(s)
      PROVE  s[k] \in Elements(Tail(s)) \union {Head(s)}
  <2>1. CASE k = 1
    BY <1>1, <2>1
  <2>2. CASE k # 1
    <3>1. k - 1 \in 1 .. Len(Tail(s)) /\ Tail(s)[k - 1] = s[k]
      BY <1>1, <2>2
    <3>. QED
      BY <3>1 DEF Elements
  <2>. QED
    BY <2>1, <2>2
<1>5. QED
  BY <1>1, <1>2, <1>3, <1>4 DEF Elements

LEMMA ElementsPrefix ==
    ASSUME NEW S, NEW s \in Seq(S), NEW k \in 0 .. Len(s)
    PROVE  /\ Prefix(s, k) \in Seq(S)
           /\ Elements(Prefix(s, k)) \subseteq Elements(s)
<1>1. /\ Prefix(s, k) \in Seq(S) /\ Len(Prefix(s, k)) = k /\ Len(s) \in Nat
      /\ \A i \in 1 .. k : Prefix(s, k)[i] = s[i]
  BY SubSeqProperties DEF Prefix
<1>2. QED
  BY <1>1 DEF Elements

LEMMA ElementsIn ==
    ASSUME NEW S, NEW s \in Seq(S)
    PROVE  Elements(s) \subseteq S
BY DEF Elements

-----------------------------------------------------------------------------
(* Types.                                                                  *)

LEMMA EnvelopTypes ==
    /\ \A id \in MsgId : NewEnvelop(id) \in Envelop
    /\ \A id \in ConsensusId : [kind |-> "ConfirmReply", id |-> id] \in Envelop
    /\ \A e \in Envelop :
          /\ NewFrame(e) \in Frame
          /\ e.id \in MsgId
          /\ e.kind # "Message" <=> e.id \in ConsensusId
    /\ \A f \in Frame : f.id \in MsgId /\ (f.kind # "Message" <=> f.id \in ConsensusId)
BY MsgAssumption DEF NewEnvelop, Envelop, NewFrame, Frame

LEMMA InitTInv == Init => TInv
BY EmptySeq, BoundAssumption
   DEF Init, TInv, TypeOK, HoldsMessage, Confirm

LEMMA RememberType ==
    ASSUME TypeOK, NEW n \in Node, NEW id \in MsgId, Remember(n, id)
    PROVE  receivedMsgId' \in [Node -> Seq(MsgId)]
<1> DEFINE longer == Append(receivedMsgId[n], id)
<1>0. receivedMsgId[n] \in Seq(MsgId)
  BY DEF TypeOK
<1>1. longer \in Seq(MsgId) /\ longer # <<>>
  BY <1>0, AppendProperties
<1>2. Tail(longer) \in Seq(MsgId)
  BY <1>1, ElementsTail
<1>3. QED
  BY <1>1, <1>2 DEF Remember, TypeOK

LEMMA ReadFrameType ==
    ASSUME TypeOK, NEW n \in Node, NEW frame, ReadFrame(n, frame)
    PROVE  /\ frame \in Frame /\ frame.id \in MsgId
           /\ wire' \in [Node -> Seq(Frame)]
<1>1. wire[Peer[n]] \in Seq(Frame) /\ wire[Peer[n]] # <<>>
  BY PeerAssumption DEF TypeOK, ReadFrame
<1>2. frame \in Frame /\ Tail(wire[Peer[n]]) \in Seq(Frame)
  BY <1>1, ElementsTail DEF ReadFrame
<1>3. QED
  BY <1>2, PeerAssumption, EnvelopTypes DEF TypeOK, ReadFrame

LEMMA WriteFailsType ==
    ASSUME TInv, NEW n \in Node, WriteFails(n)
    PROVE  /\ confirmReceived' \in [Node -> [MsgId -> Confirm]]
           /\ outboundStream' \in [Node -> {"nil", "open", "broken"}]
           /\ wire' \in [Node -> Seq(Frame)]
           /\ sendCycle' = [sendCycle EXCEPT ![n] = "check"]
           /\ faults' \in 0 .. MaxFaults
           /\ msgToSend[n] \in Envelop
<1>1. msgToSend[n] \in Envelop
  BY DEF TInv, TypeOK, HoldsMessage, WriteFails
<1>2. confirmReceived' \in [Node -> [MsgId -> Confirm]]
  BY <1>1, EnvelopTypes DEF TInv, TypeOK, WriteFails, AwaitConfirmation, Confirm
<1>3. wire' \in [Node -> Seq(Frame)] /\ faults' \in 0 .. MaxFaults
  <2>1. CASE UNCHANGED <<wire, faults>>
    BY <2>1 DEF TInv, TypeOK
  <2>2. CASE /\ faults < MaxFaults
             /\ faults' = faults + 1
             /\ \E k \in 0 .. Len(wire[n]) + 1 :
                   wire' = [wire EXCEPT ![n] = Prefix(Append(@, NewFrame(msgToSend[n])), k)]
    <3> DEFINE longer == Append(wire[n], NewFrame(msgToSend[n]))
    <3>1. longer \in Seq(Frame) /\ Len(longer) = Len(wire[n]) + 1
      BY <1>1, EnvelopTypes DEF TInv, TypeOK
    <3>2. \A k \in 0 .. Len(wire[n]) + 1 : Prefix(longer, k) \in Seq(Frame)
      BY <3>1, ElementsPrefix
    <3>3. wire' \in [Node -> Seq(Frame)]
      BY <2>2, <3>2 DEF TInv, TypeOK
    <3>. QED
      BY <2>2, <3>3, BoundAssumption DEF TInv, TypeOK
  <2>. QED
    BY <2>1, <2>2 DEF WriteFails
<1>4. QED
  BY <1>1, <1>2, <1>3 DEF TInv, TypeOK, WriteFails, GoTo

LEMMA AnsweredAndHeldTypes ==
    ASSUME TypeOK, NEW n \in Node
    PROVE  Got(n) \union InHand(n) \subseteq MsgId /\ Held(n) \subseteq MsgId
<1>1. /\ Elements(delivered[n]) \subseteq MsgId
      /\ Elements(messageQueue[n]) \subseteq Envelop
  BY ElementsIn DEF TypeOK
<1>2. Got(n) \union InHand(n) \subseteq MsgId
  BY <1>1 DEF Got, InHand, TypeOK
<1>3. Held(n) \subseteq MsgId
  BY <1>1, EnvelopTypes DEF Held, OwnIds, TypeOK
<1>. QED
  BY <1>2, <1>3

\* Every step keeps the types.
LEMMA TypeStep == TInv /\ [Next]_vars => TypeOK'
<1> SUFFICES ASSUME TInv, [Next]_vars PROVE TypeOK'
  OBVIOUS
<1> USE DEF TInv
<1>1. ASSUME NEW n \in Node, NEW id \in MsgId, Send(n, id) PROVE TypeOK'
  BY <1>1, EnvelopTypes DEF Send, TypeOK, sendVars, receiveVars
<1>2. ASSUME NEW n \in Node, BanPeer(n) \/ RemoveFromBanList(n) PROVE TypeOK'
  BY <1>2 DEF BanPeer, RemoveFromBanList, TypeOK, sendVars, receiveVars
<1>3. ASSUME NEW n \in Node, CheckOutboundStream(n) PROVE TypeOK'
  <2>1. wire' \in [Node -> Seq(Frame)]
    BY <1>3, EmptySeq DEF CheckOutboundStream, TypeOK
  <2>2. outboundStream' \in [Node -> {"nil", "open", "broken"}]
    BY <1>3 DEF CheckOutboundStream, TypeOK
  <2>. QED
    BY <1>3, <2>1, <2>2
       DEF CheckOutboundStream, AfterCheck, GoTo, TypeOK, appVars, receiveVars
<1>4. ASSUME NEW n \in Node, Reconnect(n) PROVE TypeOK'
  <2>1. wire' \in [Node -> Seq(Frame)]
    BY <1>4, EmptySeq, PeerAssumption DEF Reconnect, TypeOK
  <2>2. outboundStream' \in [Node -> {"nil", "open", "broken"}]
    <3> DEFINE Streams == {"nil", "open", "broken"}
    <3>1. PICK reopened \in BOOLEAN :
             outboundStream' = [outboundStream EXCEPT
                                   ![n] = IF reopened THEN "open" ELSE "nil",
                                   ![Peer[n]] = IF @ = "open" THEN "broken" ELSE @]
      BY <1>4, Zenon DEF Reconnect
    <3> DEFINE mine == IF reopened THEN "open" ELSE "nil"
               theirs == IF outboundStream[Peer[n]] = "open"
                         THEN "broken" ELSE outboundStream[Peer[n]]
    <3>2. outboundStream \in [Node -> Streams] /\ Peer[n] \in Node /\ Peer[n] # n
      BY PeerAssumption DEF TypeOK
    <3>3. mine \in Streams /\ theirs \in Streams
      BY <3>2
    <3>4. ASSUME NEW m \in Node PROVE outboundStream'[m] \in Streams
      <4>1. CASE m = n
        BY <3>1, <3>2, <3>3, <4>1
      <4>2. CASE m = Peer[n]
        BY <3>1, <3>2, <3>3, <4>2
      <4>3. CASE m # n /\ m # Peer[n]
        BY <3>1, <3>2, <4>3
      <4>. QED
        BY <4>1, <4>2, <4>3
    <3>5. outboundStream' = [m \in Node |-> outboundStream'[m]]
      BY <3>1, <3>2
    <3>. QED
      BY <3>4, <3>5
  <2>3. faults' \in 0 .. MaxFaults
    BY <1>4, BoundAssumption DEF Reconnect, TypeOK
  <2>4. sendCycle' \in [Node -> {"check", "take", "attempt"}]
    <3>1. AfterCheck(n) \/ GoTo(n, "check")
      BY <1>4 DEF Reconnect
    <3>. QED
      BY <3>1 DEF AfterCheck, GoTo, TypeOK
  <2>5. UNCHANGED <<appVars, messageQueue, msgToSend, settled, dropped,
                    confirmReceived, receiveVars>>
    BY <1>4 DEF Reconnect
  <2>. QED
    BY <2>1, <2>2, <2>3, <2>4, <2>5 DEF TypeOK, appVars, receiveVars
<1>5. ASSUME NEW n \in Node, TakeMessage(n) PROVE TypeOK'
  <2>1. /\ Head(messageQueue[n]) \in Envelop
        /\ Tail(messageQueue[n]) \in Seq(Envelop)
    BY <1>5, ElementsTail DEF TakeMessage, TypeOK
  <2>. QED
    BY <1>5, <2>1 DEF TakeMessage, GoTo, TypeOK, appVars, receiveVars
<1>6. ASSUME NEW n \in Node, SettleMessage(n) PROVE TypeOK'
  <2>1. msgToSend[n] \in Envelop
    BY <1>6 DEF SettleMessage, HoldsMessage, TypeOK
  <2>2. msgToSend[n].id \in MsgId
    BY <2>1, EnvelopTypes
  <2>3. msgToSend[n].id \in ConsensusId
    BY <1>6, <2>1, EnvelopTypes DEF SettleMessage, Confirmed
  <2>. QED
    BY <1>6, <2>2, <2>3 DEF SettleMessage, GoTo, TypeOK, Confirm, appVars, receiveVars
<1>7. ASSUME NEW n \in Node, WriteMessage(n) PROVE TypeOK'
  <2>1. msgToSend[n] \in Envelop /\ msgToSend[n].id \in MsgId
        /\ NewFrame(msgToSend[n]) \in Frame
    BY <1>7, EnvelopTypes DEF WriteMessage, HoldsMessage, TypeOK
  <2>2. confirmReceived' \in [Node -> [MsgId -> Confirm]]
    BY <1>7, <2>1 DEF WriteMessage, AwaitConfirmation, TypeOK, Confirm
  <2>3. wire' \in [Node -> Seq(Frame)]
    BY <1>7, <2>1, AppendProperties DEF WriteMessage, TypeOK
  <2>4. messageQueue' \in [Node -> Seq(Envelop)]
    BY <1>7, <2>1, AppendProperties DEF WriteMessage, TypeOK
  <2>. QED
    BY <1>7, <2>1, <2>2, <2>3, <2>4 DEF WriteMessage, GoTo, TypeOK, appVars, receiveVars
<1>8. ASSUME NEW n \in Node, RetryMessage(n) PROVE TypeOK'
  BY <1>8, WriteFailsType DEF RetryMessage, TypeOK, appVars, receiveVars
<1>9. ASSUME NEW n \in Node, DropMessages(n) PROVE TypeOK'
  <2>1. /\ messageQueue[n] \in Seq(Envelop)
        /\ msgToSend[n] \in Envelop
    BY <1>9, WriteFailsType DEF DropMessages, TypeOK
  <2>2. OwnIds(Elements(messageQueue[n]) \union {msgToSend[n]}) \subseteq MsgId
    BY <2>1, ElementsIn, EnvelopTypes DEF OwnIds
  <2>3. dropped' \in [Node -> SUBSET MsgId]
    BY <1>9, <2>2 DEF DropMessages, TypeOK
  <2>4. messageQueue' \in [Node -> Seq(Envelop)]
    BY <1>9, EmptySeq DEF DropMessages, TypeOK
  <2>. QED
    BY <1>9, WriteFailsType, <2>3, <2>4 DEF DropMessages, TypeOK, appVars, receiveVars
<1>10. ASSUME NEW n \in Node, BreakStream(n) PROVE TypeOK'
  <2>1. wire' \in [Node -> Seq(Frame)]
    BY <1>10, ElementsPrefix DEF BreakStream, TypeOK
  <2>2. faults' \in 0 .. MaxFaults
    BY <1>10, BoundAssumption DEF BreakStream, TypeOK
  <2>. QED
    BY <1>10, <2>1, <2>2 DEF BreakStream, TypeOK, appVars, sendVars, receiveVars
<1>11. ASSUME NEW n \in Node, IgnoreDuplicate(n) PROVE TypeOK'
  BY <1>11, ReadFrameType DEF IgnoreDuplicate, TypeOK, appVars, sendVars, receiveVars
<1>12. ASSUME NEW n \in Node, ReceiveConfirmReply(n) PROVE TypeOK'
  <2>1. PICK frame \in Frame :
           /\ ReadNew(n, frame)
           /\ confirmReceived' = [confirmReceived EXCEPT ![n][frame.id] =
                                     IF @ = "unknown" THEN @ ELSE "received"]
           /\ UNCHANGED <<messageQueue, handing, delivered>>
    BY <1>12 DEF ReceiveConfirmReply
  <2>2. frame.id \in MsgId /\ wire' \in [Node -> Seq(Frame)]
    BY <2>1, ReadFrameType DEF ReadNew
  <2>3. receivedMsgId' \in [Node -> Seq(MsgId)]
    BY <2>1, <2>2, RememberType DEF ReadNew
  <2>4. confirmReceived' \in [Node -> [MsgId -> Confirm]]
    BY <2>1, <2>2 DEF TypeOK, Confirm
  <2>. QED
    BY <2>1, <2>2, <2>3, <2>4 DEF ReadNew, TypeOK, appVars, sendVars
<1>13. ASSUME NEW n \in Node, ReceiveConfirmRequest(n) PROVE TypeOK'
  <2>1. PICK frame \in Frame :
           /\ ReadNew(n, frame)
           /\ messageQueue' = [messageQueue EXCEPT ![n] =
                                  Append(@, [kind |-> "ConfirmReply", id |-> frame.id])]
           /\ handing' = [handing EXCEPT ![n] = frame.id]
           /\ frame.kind = "MessageConfirmRequest"
           /\ UNCHANGED <<confirmReceived, delivered>>
    BY <1>13 DEF ReceiveConfirmRequest
  <2>2. frame.id \in MsgId /\ wire' \in [Node -> Seq(Frame)]
    BY <2>1, ReadFrameType DEF ReadNew
  <2>3. receivedMsgId' \in [Node -> Seq(MsgId)]
    BY <2>1, <2>2, RememberType DEF ReadNew
  <2>4. messageQueue' \in [Node -> Seq(Envelop)]
    BY <1>13, <2>1, <2>2, EnvelopTypes DEF TypeOK
  <2>. QED
    BY <2>1, <2>2, <2>3, <2>4 DEF ReadNew, TypeOK, appVars, sendVars
<1>14. ASSUME NEW n \in Node, HandOver(n) PROVE TypeOK'
  <2>1. handing[n] \in MsgId
    BY <1>14 DEF HandOver, TypeOK
  <2>. QED
    BY <1>14, <2>1 DEF HandOver, TypeOK, appVars, sendVars
<1>15. ASSUME NEW n \in Node, ReceiveMessage(n) PROVE TypeOK'
  <2>1. PICK frame \in Frame :
           /\ ReadNew(n, frame)
           /\ delivered' = [delivered EXCEPT ![n] =
                               IF isBanned[n] THEN @ ELSE Append(@, frame.id)]
           /\ UNCHANGED <<messageQueue, confirmReceived, handing>>
    BY <1>15 DEF ReceiveMessage
  <2>2. frame.id \in MsgId /\ wire' \in [Node -> Seq(Frame)]
    BY <2>1, ReadFrameType DEF ReadNew
  <2>3. receivedMsgId' \in [Node -> Seq(MsgId)]
    BY <2>1, <2>2, RememberType DEF ReadNew
  <2>4. delivered' \in [Node -> Seq(MsgId)]
    BY <2>1, <2>2 DEF TypeOK
  <2>. QED
    BY <2>1, <2>2, <2>3, <2>4 DEF ReadNew, TypeOK, appVars, sendVars
<1>16. ASSUME NEW n \in Node, Restart(n) PROVE TypeOK'
  <2>1. wire' \in [Node -> Seq(Frame)]
    <3>1. PICK k \in 0 .. Len(wire[n]) :
             wire' = [wire EXCEPT ![n] = Prefix(@, k), ![Peer[n]] = <<>>]
      BY <1>16 DEF Restart
    <3>2. Prefix(wire[n], k) \in Seq(Frame) /\ <<>> \in Seq(Frame)
      BY ElementsPrefix, EmptySeq DEF TypeOK
    <3>. QED
      BY <3>1, <3>2, PeerAssumption DEF TypeOK
  <2>2. outboundStream' \in [Node -> {"nil", "open", "broken"}]
    BY <1>16, PeerAssumption DEF Restart, TypeOK
  <2>3. faults' \in 0 .. MaxFaults
    BY <1>16, BoundAssumption DEF Restart, TypeOK
  <2>4. /\ gotBefore' \in [Node -> SUBSET MsgId] /\ lost' \in [Node -> SUBSET MsgId]
        /\ dropped' \in [Node -> SUBSET MsgId]
    BY <1>16, AnsweredAndHeldTypes DEF Restart, TypeOK
  <2>5. /\ messageQueue' \in [Node -> Seq(Envelop)]
        /\ receivedMsgId' \in [Node -> Seq(MsgId)]
        /\ delivered' \in [Node -> Seq(MsgId)]
    BY <1>16, EmptySeq DEF Restart, TypeOK
  <2>6. confirmReceived' \in [Node -> [MsgId -> Confirm]]
    BY <1>16 DEF Restart, TypeOK, Confirm
  <2>. QED
    BY <1>16, <2>1, <2>2, <2>3, <2>4, <2>5, <2>6 DEF Restart, TypeOK
<1>17. CASE UNCHANGED vars
  BY <1>17 DEF vars, TypeOK
<1>. QED
  BY <1>1, <1>2, <1>3, <1>4, <1>5, <1>6, <1>7, <1>8, <1>9, <1>10, <1>11, <1>12,
     <1>13, <1>14, <1>15, <1>16, <1>17 DEF Next, Application, SendCycle, ReceiveCycle

\* The send cycle comes to its attempt only with a message.
LEMMA HoldsMessageStep == TInv /\ [Next]_vars => HoldsMessage'
<1> SUFFICES ASSUME TInv, [Next]_vars PROVE HoldsMessage'
  OBVIOUS
<1> USE DEF TInv
<1>1. ASSUME NEW n \in Node, TakeMessage(n) PROVE HoldsMessage'
  <2>1. Head(messageQueue[n]) \in Envelop
    BY <1>1, ElementsTail DEF TakeMessage, TypeOK
  <2>2. Head(messageQueue[n]) # NoMsg
    BY <2>1, MsgAssumption
  <2>. QED
    BY <1>1, <2>2 DEF TakeMessage, GoTo, HoldsMessage, TypeOK
<1>2. ASSUME NEW n \in Node, CheckOutboundStream(n) \/ Reconnect(n)
      PROVE  HoldsMessage'
  BY <1>2 DEF CheckOutboundStream, Reconnect, AfterCheck, GoTo, HoldsMessage, TypeOK
<1>3. ASSUME NEW n \in Node,
             \/ SettleMessage(n) \/ WriteMessage(n)
             \/ RetryMessage(n) \/ DropMessages(n) \/ Restart(n)
      PROVE  HoldsMessage'
  BY <1>3 DEF SettleMessage, WriteMessage, RetryMessage, DropMessages, WriteFails,
              Restart, GoTo, HoldsMessage, TypeOK
<1>4. ASSUME NEW n \in Node, BreakStream(n) \/ ReceiveCycle(n) \/ Application(n)
      PROVE  HoldsMessage'
  <2>1. UNCHANGED <<sendCycle, msgToSend>>
    BY <1>4 DEF BreakStream, ReceiveCycle, Application, IgnoreDuplicate, ReadNew,
                ReceiveConfirmReply, ReceiveConfirmRequest, HandOver, ReceiveMessage,
                Send, BanPeer, RemoveFromBanList, sendVars
  <2>. QED
    BY <2>1 DEF HoldsMessage
<1>5. CASE UNCHANGED vars
  BY <1>5 DEF vars, HoldsMessage
<1>. QED
  BY <1>1, <1>2, <1>3, <1>4, <1>5 DEF Next, SendCycle

LEMMA TInvStep == TInv /\ [Next]_vars => TInv'
BY TypeStep, HoldsMessageStep DEF TInv

\* TypeOK, for every set of nodes and messages.
THEOREM TypesCorrect == Spec => []TypeOK
<1>1. TInv => TypeOK
  BY DEF TInv
<1>. QED
  BY InitTInv, TInvStep, <1>1, PTL DEF Spec

-----------------------------------------------------------------------------
(* Confirmations are true.                                                 *)

\* What was answered stays answered, a restart included: what the application had got
\* is in gotBefore then, and what was in hand is in lost.
LEMMA AnsweredGrows ==
    ASSUME TInv, [Next]_vars, NEW n \in Node
    PROVE  Answered(n) \subseteq Answered(n)'
<1> USE DEF TInv
<1>1. CASE UNCHANGED <<delivered, handing, gotBefore, lost>>
  BY <1>1 DEF Answered, Got, InHand, Elements
<1>2. ASSUME NEW a \in Node, ReceiveConfirmRequest(a)
      PROVE  Answered(n) \subseteq Answered(n)'
  <2>1. PICK frame \in Frame :
           /\ ReadNew(a, frame)
           /\ handing' = [handing EXCEPT ![a] = frame.id]
           /\ delivered' = delivered
    BY <1>2 DEF ReceiveConfirmRequest
  <2>2. handing[a] = NoMsg /\ UNCHANGED <<gotBefore, lost>>
    BY <2>1 DEF ReadNew, ReadFrame, appVars
  <2>. QED
    BY <2>1, <2>2 DEF Answered, Got, InHand, TypeOK, Elements
<1>3. ASSUME NEW a \in Node, HandOver(a)
      PROVE  Answered(n) \subseteq Answered(n)'
  <2>1. Elements(Append(delivered[a], handing[a])) = Elements(delivered[a]) \union {handing[a]}
    BY ElementsAppend DEF TypeOK
  <2>. QED
    BY <1>3, <2>1 DEF HandOver, Answered, Got, InHand, TypeOK, appVars
<1>4. ASSUME NEW a \in Node, ReceiveMessage(a)
      PROVE  Answered(n) \subseteq Answered(n)'
  <2>1. PICK frame \in Frame :
           /\ delivered' = [delivered EXCEPT ![a] =
                               IF isBanned[a] THEN @ ELSE Append(@, frame.id)]
           /\ UNCHANGED <<handing, gotBefore, lost>>
    BY <1>4 DEF ReceiveMessage, ReadNew, appVars
  <2>2. Elements(Append(delivered[a], frame.id)) = Elements(delivered[a]) \union {frame.id}
    BY ElementsAppend DEF TypeOK
  <2>. QED
    BY <2>1, <2>2 DEF Answered, Got, InHand, TypeOK
<1>5. ASSUME NEW a \in Node, Restart(a)
      PROVE  Answered(n) \subseteq Answered(n)'
  <2>1. CASE a = n
    BY <1>5, <2>1 DEF Restart, Answered, Got, InHand, TypeOK
  <2>2. CASE a # n
    BY <1>5, <2>2 DEF Restart, Answered, Got, InHand, TypeOK, Elements
  <2>. QED
    BY <2>1, <2>2
<1>6. \/ UNCHANGED <<delivered, handing, gotBefore, lost>>
      \/ \E a \in Node : \/ ReceiveConfirmRequest(a) \/ HandOver(a) \/ ReceiveMessage(a)
                        \/ Restart(a)
  <2>1. ASSUME NEW a \in Node, Application(a)
        PROVE  UNCHANGED <<delivered, handing, gotBefore, lost>>
    BY <2>1 DEF Application, Send, BanPeer, RemoveFromBanList, receiveVars
  <2>2. ASSUME NEW a \in Node, SendCycle(a)
        PROVE  UNCHANGED <<delivered, handing, gotBefore, lost>>
    <3>1. CASE CheckOutboundStream(a) \/ Reconnect(a) \/ TakeMessage(a) \/ SettleMessage(a)
      BY <3>1 DEF CheckOutboundStream, Reconnect, TakeMessage, SettleMessage,
                  appVars, receiveVars
    <3>2. CASE WriteMessage(a) \/ RetryMessage(a) \/ DropMessages(a)
      BY <3>2 DEF WriteMessage, RetryMessage, DropMessages, appVars, receiveVars
    <3>. QED
      BY <2>2, <3>1, <3>2 DEF SendCycle
  <2>3. ASSUME NEW a \in Node, IgnoreDuplicate(a) \/ ReceiveConfirmReply(a) \/ BreakStream(a)
        PROVE  UNCHANGED <<delivered, handing, gotBefore, lost>>
    BY <2>3 DEF IgnoreDuplicate, ReceiveConfirmReply, BreakStream, ReadNew,
                appVars, receiveVars
  <2>4. CASE UNCHANGED vars
    BY <2>4 DEF vars
  <2>. QED
    BY <2>1, <2>2, <2>3, <2>4 DEF Next, ReceiveCycle
<1>. QED
  BY <1>1, <1>2, <1>3, <1>4, <1>5, <1>6

\* What a frame says is what its envelope said, for a reply.
LEMMA FrameOfReply ==
    \A e \in Envelop :
        /\ NewFrame(e).id = e.id
        /\ NewFrame(e).kind = "ConfirmReply" <=> e.kind = "ConfirmReply"
BY DEF NewFrame, Envelop

\* Replies are not made up: a reply that is at a node after a step was there
\* before it, or its request was answered in the step.
LEMMA RepliesStep ==
    ASSUME TInv, [Next]_vars, NEW n \in Node
    PROVE  ReplyIds(n)' \subseteq ReplyIds(n) \union Answered(n)'
<1> USE DEF TInv
<1> DEFINE Q == messageQueue[n]
           W == wire[n]
<1>0. Q \in Seq(Envelop) /\ W \in Seq(Frame)
  BY DEF TypeOK
<1>1. ASSUME NEW x, x \in Carried(n)', x.kind = "ConfirmReply",
             \A y \in Carried(n) : y.kind = "ConfirmReply" => y.id # x.id
      PROVE  x.id \in Answered(n)'
  <2>1. CASE UNCHANGED <<messageQueue, wire, msgToSend>>
    BY <1>1, <2>1 DEF Carried, Elements
  <2>2. ASSUME NEW a \in Node, NEW id \in MsgId, Send(a, id) PROVE FALSE
    <3>1. Elements(Append(Q, NewEnvelop(id))) = Elements(Q) \union {NewEnvelop(id)}
      BY <1>0, ElementsAppend
    <3>2. NewEnvelop(id).kind # "ConfirmReply"
      BY DEF NewEnvelop
    <3>3. UNCHANGED <<wire, msgToSend>>
      BY <2>2 DEF Send, sendVars
    <3>4. Elements(messageQueue'[n]) \subseteq Elements(Q) \union {NewEnvelop(id)}
      BY <2>2, <3>1 DEF Send, TypeOK
    <3>. QED
      BY <1>1, <3>2, <3>3, <3>4 DEF Carried
  <2>3. ASSUME NEW a \in Node, CheckOutboundStream(a) \/ Reconnect(a) PROVE FALSE
    <3>1. wire'[n] = wire[n] \/ wire'[n] = <<>>
      <4>1. CASE CheckOutboundStream(a)
        BY <4>1 DEF CheckOutboundStream, TypeOK
      <4>2. CASE Reconnect(a)
        <5>1. wire' = [wire EXCEPT ![a] = <<>>, ![Peer[a]] = <<>>]
          BY <4>2 DEF Reconnect
        <5>. QED
          BY <5>1, PeerAssumption DEF TypeOK
      <4>. QED
        BY <2>3, <4>1, <4>2
    <3>2. Elements(<<>>) = {}
      BY DEF Elements
    <3>3. UNCHANGED <<messageQueue, msgToSend>>
      BY <2>3 DEF CheckOutboundStream, Reconnect
    <3>. QED
      BY <1>1, <3>1, <3>2, <3>3 DEF Carried
  <2>4. ASSUME NEW a \in Node, TakeMessage(a) PROVE FALSE
    <3>1. CASE a = n
      <4>1. Elements(Q) = Elements(Tail(Q)) \union {Head(Q)}
        BY <1>0, <2>4, <3>1, ElementsTail DEF TakeMessage
      <4>2. messageQueue'[n] = Tail(Q) /\ msgToSend'[n] = Head(Q) /\ wire' = wire
        BY <2>4, <3>1 DEF TakeMessage, TypeOK
      <4>. QED
        BY <1>1, <4>1, <4>2 DEF Carried
    <3>2. CASE a # n
      <4>1. messageQueue'[n] = Q /\ msgToSend'[n] = msgToSend[n] /\ wire' = wire
        BY <2>4, <3>2 DEF TakeMessage, TypeOK
      <4>. QED
        BY <1>1, <4>1 DEF Carried
    <3>. QED
      BY <3>1, <3>2
  <2>5. ASSUME NEW a \in Node, SettleMessage(a) PROVE FALSE
    <3>1. /\ messageQueue' = messageQueue /\ wire' = wire
          /\ msgToSend'[n] \in {msgToSend[n], NoMsg}
      BY <2>5 DEF SettleMessage, TypeOK
    <3>. QED
      BY <1>1, <3>1 DEF Carried
  <2>6. ASSUME NEW a \in Node, WriteMessage(a) PROVE FALSE
    <3> DEFINE e == msgToSend[n]
    <3>1. CASE a = n
      <4>1. e \in Envelop /\ e # NoMsg
        BY <2>6, <3>1, MsgAssumption DEF WriteMessage, HoldsMessage, TypeOK
      <4>2. /\ Elements(Append(W, NewFrame(e))) = Elements(W) \union {NewFrame(e)}
            /\ Elements(Append(Q, e)) = Elements(Q) \union {e}
        BY <1>0, ElementsAppend
      <4>3. /\ Elements(wire'[n]) \subseteq Elements(W) \union {NewFrame(e)}
            /\ Elements(messageQueue'[n]) \subseteq Elements(Q) \union {e}
            /\ msgToSend'[n] = NoMsg
        BY <2>6, <3>1, <4>2 DEF WriteMessage, TypeOK
      <4>. QED
        BY <1>1, <4>1, <4>3, FrameOfReply DEF Carried
    <3>2. CASE a # n
      <4>1. messageQueue'[n] = Q /\ msgToSend'[n] = e /\ wire'[n] = W
        BY <2>6, <3>2 DEF WriteMessage, TypeOK
      <4>. QED
        BY <1>1, <4>1 DEF Carried
    <3>. QED
      BY <3>1, <3>2
  <2>7. ASSUME NEW a \in Node, RetryMessage(a) \/ DropMessages(a) PROVE FALSE
    <3> DEFINE e == msgToSend[n]
               longer == Append(W, NewFrame(e))
    <3>1. /\ messageQueue'[n] \in {Q, <<>>}
          /\ msgToSend'[n] \in {e, NoMsg}
      BY <2>7 DEF RetryMessage, DropMessages, TypeOK
    <3>2. Elements(<<>>) = {}
      BY DEF Elements
    <3>3. CASE wire'[n] = W
      BY <1>1, <3>1, <3>2, <3>3 DEF Carried
    <3>4. CASE wire'[n] # W
      <4>1. a = n /\ \E k \in 0 .. Len(W) + 1 : wire'[n] = Prefix(longer, k)
        BY <2>7, <3>4 DEF RetryMessage, DropMessages, WriteFails, TypeOK
      <4>2. e \in Envelop /\ e # NoMsg
        BY <2>7, <4>1, WriteFailsType, MsgAssumption DEF RetryMessage, DropMessages
      <4>3. longer \in Seq(Frame) /\ Len(longer) = Len(W) + 1
        BY <1>0, <4>2, EnvelopTypes, AppendProperties
      <4>4. Elements(wire'[n]) \subseteq Elements(longer)
        BY <4>1, <4>3, ElementsPrefix
      <4>5. Elements(longer) = Elements(W) \union {NewFrame(e)}
        BY <1>0, ElementsAppend
      <4>. QED
        BY <1>1, <3>1, <3>2, <4>2, <4>4, <4>5, FrameOfReply DEF Carried
    <3>. QED
      BY <3>3, <3>4
  <2>8. ASSUME NEW a \in Node, BreakStream(a) PROVE FALSE
    <3>1. Elements(wire'[n]) \subseteq Elements(W)
      BY <1>0, <2>8, ElementsPrefix DEF BreakStream, TypeOK
    <3>2. UNCHANGED <<messageQueue, msgToSend>>
      BY <2>8 DEF BreakStream, sendVars
    <3>. QED
      BY <1>1, <3>1, <3>2 DEF Carried
  <2>9. ASSUME NEW a \in Node, NEW frame, ReadFrame(a, frame)
        PROVE  Elements(wire'[n]) \subseteq Elements(W)
    <3>1. CASE Peer[a] = n
      <4>1. Elements(W) = Elements(Tail(W)) \union {Head(W)} /\ wire'[n] = Tail(W)
        BY <1>0, <2>9, <3>1, ElementsTail DEF ReadFrame, TypeOK
      <4>. QED
        BY <4>1
    <3>2. CASE Peer[a] # n
      <4>1. wire'[n] = W
        BY <2>9, <3>2 DEF ReadFrame, TypeOK
      <4>. QED
        BY <4>1
    <3>. QED
      BY <3>1, <3>2
  <2>10. ASSUME NEW a \in Node,
                IgnoreDuplicate(a) \/ ReceiveConfirmReply(a) \/ ReceiveMessage(a)
         PROVE  FALSE
    <3>1. Elements(wire'[n]) \subseteq Elements(W)
      BY <2>9, <2>10 DEF IgnoreDuplicate, ReceiveConfirmReply, ReceiveMessage, ReadNew
    <3>2. UNCHANGED <<messageQueue, msgToSend>>
      BY <2>10 DEF IgnoreDuplicate, ReceiveConfirmReply, ReceiveMessage, ReadNew, sendVars
    <3>. QED
      BY <1>1, <3>1, <3>2 DEF Carried
  <2>11. ASSUME NEW a \in Node, ReceiveConfirmRequest(a) PROVE x.id \in Answered(n)'
    <3>1. PICK frame \in Frame :
             /\ ReadNew(a, frame)
             /\ messageQueue' = [messageQueue EXCEPT ![a] =
                                    Append(@, [kind |-> "ConfirmReply", id |-> frame.id])]
             /\ handing' = [handing EXCEPT ![a] = frame.id]
      BY <2>11 DEF ReceiveConfirmRequest
    <3> DEFINE reply == [kind |-> "ConfirmReply", id |-> frame.id]
    <3>2. Elements(wire'[n]) \subseteq Elements(W) /\ msgToSend' = msgToSend
      BY <2>9, <3>1 DEF ReadNew, sendVars
    <3>3. Elements(Append(Q, reply)) = Elements(Q) \union {reply}
      BY <1>0, ElementsAppend
    <3>4. CASE a = n
      <4>1. handing'[n] = frame.id /\ frame.id # NoMsg
        BY <3>1, <3>4, EnvelopTypes, MsgAssumption DEF TypeOK
      <4>2. frame.id \in Answered(n)'
        BY <4>1 DEF Answered, InHand
      <4>3. Elements(messageQueue'[n]) = Elements(Q) \union {reply}
        BY <3>1, <3>3, <3>4 DEF TypeOK
      <4>. QED
        BY <1>1, <3>2, <4>2, <4>3 DEF Carried
    <3>5. CASE a # n
      <4>1. messageQueue'[n] = Q
        BY <3>1, <3>5 DEF TypeOK
      <4>. QED
        BY <1>1, <3>2, <4>1 DEF Carried
    <3>. QED
      BY <3>4, <3>5
  <2>12. ASSUME NEW a \in Node, BanPeer(a) \/ RemoveFromBanList(a) \/ HandOver(a)
         PROVE  UNCHANGED <<messageQueue, wire, msgToSend>>
    BY <2>12 DEF BanPeer, RemoveFromBanList, HandOver, sendVars
  <2>13. ASSUME NEW a \in Node, Restart(a) PROVE FALSE
    <3>1. Elements(<<>>) = {}
      BY DEF Elements
    <3>2. Elements(wire'[n]) \subseteq Elements(W)
      <4>1. \A k \in 0 .. Len(W) : Elements(Prefix(W, k)) \subseteq Elements(W)
        BY <1>0, ElementsPrefix
      <4>2. wire'[n] \in {W, <<>>} \/ \E k \in 0 .. Len(W) : wire'[n] = Prefix(W, k)
        BY <2>13, PeerAssumption DEF Restart, TypeOK
      <4>. QED
        BY <3>1, <4>1, <4>2
    <3>3. messageQueue'[n] \in {Q, <<>>} /\ msgToSend'[n] \in {msgToSend[n], NoMsg}
      BY <2>13 DEF Restart, TypeOK
    <3>. QED
      BY <1>1, <3>1, <3>2, <3>3 DEF Carried
  <2>14. CASE UNCHANGED vars
    BY <2>1, <2>14 DEF vars
  <2>. QED
    BY <2>1, <2>2, <2>3, <2>4, <2>5, <2>6, <2>7, <2>8, <2>10, <2>11, <2>12, <2>13, <2>14
       DEF Next, Application, SendCycle, ReceiveCycle
<1>. QED
  BY <1>1 DEF ReplyIds

\* A confirmation that is at its sender after a step was there before it, or its
\* reply was in flight.
LEMMA ConfirmedStep ==
    ASSUME TInv, [Next]_vars, NEW n \in Node, NEW id \in ConsensusId,
           confirmReceived'[n][id] = "received" \/ id \in settled'[n]
    PROVE  \/ confirmReceived[n][id] = "received" \/ id \in settled[n]
           \/ id \in ReplyIds(Peer[n])
<1> USE DEF TInv
<1> USE MsgAssumption
<1>1. ASSUME NEW a \in Node, SettleMessage(a)
      PROVE  confirmReceived[n][id] = "received" \/ id \in settled[n]
  <2>1. /\ msgToSend[a].id \in MsgId
        /\ confirmReceived[a][msgToSend[a].id] = "received"
    BY <1>1, EnvelopTypes DEF SettleMessage, Confirmed, HoldsMessage, TypeOK
  <2>. QED
    BY <1>1, <2>1 DEF SettleMessage, TypeOK
<1>2. ASSUME NEW a \in Node, WriteMessage(a) \/ RetryMessage(a) \/ DropMessages(a)
      PROVE  confirmReceived[n][id] = "received" \/ id \in settled[n]
  <2>1. AwaitConfirmation(a) /\ settled' = settled /\ msgToSend[a].id \in MsgId
    BY <1>2, EnvelopTypes
       DEF WriteMessage, RetryMessage, DropMessages, WriteFails, HoldsMessage, TypeOK
  <2>. QED
    BY <2>1 DEF AwaitConfirmation, TypeOK
<1>3. ASSUME NEW a \in Node, ReceiveConfirmReply(a)
      PROVE  \/ confirmReceived[n][id] = "received" \/ id \in settled[n]
             \/ id \in ReplyIds(Peer[n])
  <2>1. PICK frame \in Frame :
           /\ ReadNew(a, frame)
           /\ frame.kind = "ConfirmReply"
           /\ confirmReceived' = [confirmReceived EXCEPT ![a][frame.id] =
                                     IF @ = "unknown" THEN @ ELSE "received"]
    BY <1>3 DEF ReceiveConfirmReply
  <2>2. settled' = settled /\ frame.id \in MsgId
    BY <2>1, EnvelopTypes DEF ReadNew, sendVars
  <2>3. frame.id \in ReplyIds(Peer[a])
    <3>1. wire[Peer[a]] \in Seq(Frame) /\ wire[Peer[a]] # <<>>
          /\ frame = Head(wire[Peer[a]])
      BY <2>1, PeerAssumption DEF ReadNew, ReadFrame, TypeOK
    <3>2. frame \in Elements(wire[Peer[a]])
      BY <3>1, ElementsTail
    <3>. QED
      BY <2>1, <3>2 DEF ReplyIds, Carried
  <2>4. CASE a = n /\ frame.id = id
    BY <2>3, <2>4
  <2>5. CASE ~(a = n /\ frame.id = id)
    <3>1. confirmReceived'[n][id] = confirmReceived[n][id]
      BY <2>1, <2>2, <2>5 DEF TypeOK
    <3>. QED
      BY <2>2, <3>1
  <2>. QED
    BY <2>4, <2>5
<1>4. CASE UNCHANGED <<confirmReceived, settled>>
  BY <1>4
<1>5. ASSUME NEW a \in Node, Restart(a)
      PROVE  confirmReceived[n][id] = "received" \/ id \in settled[n]
  BY <1>5 DEF Restart, TypeOK
<1>6. \/ UNCHANGED <<confirmReceived, settled>>
      \/ \E a \in Node : \/ SettleMessage(a) \/ WriteMessage(a) \/ RetryMessage(a)
                        \/ DropMessages(a) \/ ReceiveConfirmReply(a) \/ Restart(a)
  <2>1. ASSUME NEW a \in Node, Application(a) \/ BreakStream(a)
        PROVE  UNCHANGED <<confirmReceived, settled>>
    BY <2>1 DEF Application, Send, BanPeer, RemoveFromBanList, BreakStream, sendVars
  <2>2. ASSUME NEW a \in Node, CheckOutboundStream(a) \/ Reconnect(a) \/ TakeMessage(a)
        PROVE  UNCHANGED <<confirmReceived, settled>>
    BY <2>2 DEF CheckOutboundStream, Reconnect, TakeMessage, sendVars
  <2>3. ASSUME NEW a \in Node, IgnoreDuplicate(a) \/ ReceiveConfirmRequest(a) \/ HandOver(a)
                               \/ ReceiveMessage(a)
        PROVE  UNCHANGED <<confirmReceived, settled>>
    BY <2>3 DEF IgnoreDuplicate, ReceiveConfirmRequest, HandOver, ReceiveMessage,
                ReadNew, sendVars
  <2>4. CASE UNCHANGED vars
    BY <2>4 DEF vars
  <2>. QED
    BY <2>1, <2>2, <2>3, <2>4 DEF Next, SendCycle, ReceiveCycle
<1>. QED
  BY <1>1, <1>2, <1>3, <1>4, <1>5, <1>6

\* The invariant behind ConfirmedUnlessCrashed: a confirmation travels as a reply,
\* and every reply on the way, from the queue of the replying end to the frames
\* in flight, is true.
CInv == TInv /\ RepliesTrue /\ ConfirmedUnlessCrashed

LEMMA InitCInv == Init => CInv
<1> SUFFICES ASSUME Init PROVE CInv
  OBVIOUS
<1>1. RepliesTrue
  BY DEF Init, RepliesTrue, ReplyIds, Carried, Elements
<1>2. ConfirmedUnlessCrashed
  BY MsgAssumption DEF Init, ConfirmedUnlessCrashed
<1>. QED
  BY InitTInv, <1>1, <1>2 DEF CInv

LEMMA CInvStep == CInv /\ [Next]_vars => CInv'
<1> SUFFICES ASSUME CInv, [Next]_vars PROVE CInv'
  OBVIOUS
<1> USE DEF CInv
<1>1. TInv'
  BY TInvStep
<1>2. RepliesTrue'
  <2>1. SUFFICES ASSUME NEW n \in Node PROVE ReplyIds(n)' \subseteq Answered(n)'
    BY DEF RepliesTrue
  <2>2. ReplyIds(n)' \subseteq ReplyIds(n) \union Answered(n)' /\ Answered(n) \subseteq Answered(n)'
    BY RepliesStep, AnsweredGrows
  <2>. QED
    BY <2>2 DEF RepliesTrue
<1>3. ConfirmedUnlessCrashed'
  <2>1. SUFFICES ASSUME NEW n \in Node, NEW id \in ConsensusId,
                        confirmReceived'[n][id] = "received" \/ id \in settled'[n]
                 PROVE  id \in Answered(Peer[n])'
    BY DEF ConfirmedUnlessCrashed
  <2>2. Peer[n] \in Node
    BY PeerAssumption
  <2>3. \/ confirmReceived[n][id] = "received" \/ id \in settled[n]
        \/ id \in ReplyIds(Peer[n])
    BY <2>1, ConfirmedStep
  <2>4. id \in Answered(Peer[n])
    BY <2>2, <2>3 DEF ConfirmedUnlessCrashed, RepliesTrue
  <2>. QED
    BY <2>2, <2>4, AnsweredGrows
<1>. QED
  BY <1>1, <1>2, <1>3

\* A confirmation is false of no other message than one that was in hand when its hub
\* stopped (ConfirmedUnlessCrashed), for every window, every number of faults and
\* restarts and every set of messages.
THEOREM ConfirmationsTrueUnlessCrashed == Spec => []ConfirmedUnlessCrashed
<1>1. CInv => ConfirmedUnlessCrashed
  BY DEF CInv
<1>. QED
  BY InitCInv, CInvStep, <1>1, PTL DEF Spec

\* Nothing is lost in hand where no hub may restart.
LEMMA LostStep ==
    ASSUME Restartable = {}, [Next]_vars
    PROVE  lost' = lost
<1>1. ASSUME NEW a \in Node, Application(a) PROVE lost' = lost
  BY <1>1 DEF Application, Send, BanPeer, RemoveFromBanList
<1>2. ASSUME NEW a \in Node, SendCycle(a) PROVE lost' = lost
  BY <1>2 DEF SendCycle, CheckOutboundStream, Reconnect, TakeMessage, SettleMessage,
              WriteMessage, RetryMessage, DropMessages, appVars
<1>3. ASSUME NEW a \in Node, ReceiveCycle(a) PROVE lost' = lost
  BY <1>3 DEF ReceiveCycle, IgnoreDuplicate, ReceiveConfirmReply, ReceiveConfirmRequest,
              HandOver, ReceiveMessage, ReadNew, appVars
<1>4. ASSUME NEW a \in Node, BreakStream(a) PROVE lost' = lost
  BY <1>4 DEF BreakStream, appVars
<1>5. ASSUME NEW a \in Node, Restart(a) PROVE FALSE
  BY <1>5 DEF Restart
<1>6. CASE UNCHANGED vars
  BY <1>6 DEF vars
<1>. QED
  BY <1>1, <1>2, <1>3, <1>4, <1>5, <1>6 DEF Next

\* Where no hub crashes, a confirmation is true whatever happens to streams and
\* messages (ConfirmedWasDelivered): the one way to make it false is the restart.
THEOREM ConfirmationsTrue ==
    ASSUME Restartable = {}
    PROVE  Spec => []ConfirmedWasDelivered
<1> DEFINE NothingLost == lost = [n \in Node |-> {}]
<1>1. Init => NothingLost
  BY DEF Init
<1>2. NothingLost /\ [Next]_vars => NothingLost'
  BY LostStep
<1>3. CInv /\ NothingLost => ConfirmedWasDelivered
  BY PeerAssumption DEF CInv, ConfirmedUnlessCrashed, ConfirmedWasDelivered, Answered
<1>. QED
  BY InitCInv, CInvStep, <1>1, <1>2, <1>3, PTL DEF Spec

-----------------------------------------------------------------------------
(* The sender of a consensus message never loses track of it.              *)
(*                                                                         *)
(* That a settled message has left the sender needs SingleCopy; that the   *)
(* copy made by a resend is the only one needs to know that what a node    *)
(* holds, settled or dropped was accepted before (Known), because Send     *)
(* adds a message only if it is new.                                       *)

Known ==
    \A n \in Node : Held(n) \union settled[n] \union dropped[n] \subseteq Elements(accepted[n])

RInv == TInv /\ SingleCopy /\ Known /\ ConsensusRetained

-----------------------------------------------------------------------------
(* Sequences without copies.                                               *)

LEMMA NoCopiesAppend ==
    ASSUME NEW s \in Seq(Envelop), NoCopies(s), NEW e \in Envelop,
           e.kind = "ConfirmReply" \/ e \notin Elements(s)
    PROVE  NoCopies(Append(s, e))
<1> DEFINE longer == Append(s, e)
<1>1. /\ Len(s) \in Nat /\ Len(longer) = Len(s) + 1
      /\ \A k \in 1 .. Len(s) : longer[k] = s[k] /\ s[k] \in Elements(s)
      /\ longer[Len(s) + 1] = e
  BY DEF Elements
<1>2. SUFFICES ASSUME NEW i \in 1 .. Len(longer), NEW j \in 1 .. Len(longer),
                      longer[i] = longer[j], longer[i].kind # "ConfirmReply"
               PROVE  i = j
  BY DEF NoCopies
<1>3. CASE i \in 1 .. Len(s) /\ j \in 1 .. Len(s)
  BY <1>1, <1>2, <1>3 DEF NoCopies
<1>4. CASE i = Len(s) + 1 \/ j = Len(s) + 1
  BY <1>1, <1>2, <1>4
<1>. QED
  BY <1>1, <1>3, <1>4

LEMMA NoCopiesTail ==
    ASSUME NEW s \in Seq(Envelop), NoCopies(s), s # <<>>
    PROVE  /\ NoCopies(Tail(s))
           /\ Head(s).kind = "ConfirmReply" \/ Head(s) \notin Elements(Tail(s))
<1>1. /\ Len(s) \in Nat /\ Len(s) >= 1 /\ Len(Tail(s)) = Len(s) - 1 /\ Head(s) = s[1]
      /\ \A k \in 1 .. Len(s) - 1 : Tail(s)[k] = s[k + 1]
  OBVIOUS
<1>2. NoCopies(Tail(s))
  <2>1. SUFFICES ASSUME NEW i \in 1 .. Len(s) - 1, NEW j \in 1 .. Len(s) - 1,
                        Tail(s)[i] = Tail(s)[j], Tail(s)[i].kind # "ConfirmReply"
                 PROVE  i = j
    BY <1>1 DEF NoCopies
  <2>2. i + 1 = j + 1
    BY <1>1, <2>1 DEF NoCopies
  <2>. QED
    BY <2>2
<1>3. ASSUME Head(s).kind # "ConfirmReply", NEW k \in 1 .. Len(Tail(s)), Tail(s)[k] = Head(s)
      PROVE  FALSE
  <2>1. s[k + 1] = s[1] /\ k + 1 \in 1 .. Len(s) /\ 1 \in 1 .. Len(s)
    BY <1>1, <1>3
  <2>2. k + 1 = 1
    BY <1>1, <1>3, <2>1 DEF NoCopies
  <2>. QED
    BY <2>2
<1>. QED
  BY <1>2, <1>3 DEF Elements

\* The id of an own envelope tells the envelope.
LEMMA OwnEnvelop ==
    \A e, f \in Envelop :
        e.kind # "ConfirmReply" /\ f.kind # "ConfirmReply" /\ e.id = f.id => e = f
BY DEF Envelop

\* The ids among some envelopes and one more.
LEMMA OwnIdsAdd ==
    ASSUME NEW E, NEW e
    PROVE  OwnIds(E \union {e}) = OwnIds(E) \union (IF e.kind = "ConfirmReply" THEN {} ELSE {e.id})
BY DEF OwnIds

LEMMA OwnIdsEmpty == OwnIds({}) = {}
BY DEF OwnIds

-----------------------------------------------------------------------------

\* The part of RInv about one node.
RNode(n) ==
    /\ NoCopies(messageQueue[n])
    /\ msgToSend[n] # NoMsg /\ msgToSend[n].kind # "ConfirmReply"
          => msgToSend[n] \notin Elements(messageQueue[n])
    /\ Held(n) \union settled[n] \union dropped[n] \subseteq Elements(accepted[n])
    /\ \A id \in ConsensusId \intersect Elements(accepted[n]) :
          (id \in Held(n)) <=> (id \notin settled[n] \union dropped[n])

LEMMA RInvByNode == RInv <=> TInv /\ \A n \in Node : RNode(n)
BY DEF RInv, RNode, SingleCopy, Known, ConsensusRetained

\* What RNode(n) reads.
Local(n) == <<messageQueue[n], msgToSend[n], settled[n], dropped[n], accepted[n]>>

LEMMA LocalKeeps ==
    ASSUME NEW n \in Node, RNode(n), UNCHANGED Local(n)
    PROVE  RNode(n)'
BY DEF RNode, Local, Held

LEMMA InitRInv == Init => RInv
<1> SUFFICES ASSUME Init, NEW n \in Node PROVE RNode(n)
  BY InitTInv, RInvByNode
<1>1. /\ messageQueue[n] = <<>> /\ msgToSend[n] = NoMsg /\ settled[n] = {} /\ dropped[n] = {}
      /\ accepted[n] = <<>>
  BY DEF Init
<1>2. Elements(<<>>) = {}
  BY DEF Elements
<1>3. Held(n) = {}
  BY <1>1, <1>2, OwnIdsEmpty DEF Held
<1>. QED
  BY <1>1, <1>2, <1>3 DEF RNode, NoCopies

LEMMA SendKeeps ==
    ASSUME TInv, NEW n \in Node, RNode(n), NEW id \in MsgId, Send(n, id)
    PROVE  RNode(n)'
<1> DEFINE e == NewEnvelop(id)
           Q == messageQueue[n]
<1>1. /\ Q \in Seq(Envelop) /\ e \in Envelop /\ e.kind # "ConfirmReply" /\ e.id = id
      /\ accepted[n] \in Seq(MsgId)
  BY EnvelopTypes DEF TInv, TypeOK, NewEnvelop
<1>2. /\ messageQueue'[n] = Append(Q, e) /\ msgToSend'[n] = msgToSend[n]
      /\ settled'[n] = settled[n] /\ dropped'[n] = dropped[n]
      /\ accepted'[n] = Append(accepted[n], id)
      /\ id \notin Elements(accepted[n])
  BY DEF Send, sendVars, TInv, TypeOK
<1>3. /\ Elements(messageQueue'[n]) = Elements(Q) \union {e}
      /\ Elements(accepted'[n]) = Elements(accepted[n]) \union {id}
  BY <1>1, <1>2, ElementsAppend
<1>4. id \notin Held(n) \union settled[n] \union dropped[n]
  BY <1>2 DEF RNode
<1>5. e \notin Elements(Q) /\ e # msgToSend[n]
  <2>1. e # NoMsg
    BY <1>1, MsgAssumption
  <2>. QED
    BY <1>1, <1>4, <2>1 DEF Held, OwnIds
<1>6. NoCopies(messageQueue'[n])
  BY <1>1, <1>2, <1>5, NoCopiesAppend DEF RNode
<1>7. Held(n)' = Held(n) \union {id}
  <2> DEFINE C == Elements(Q) \union ({msgToSend[n]} \ {NoMsg})
  <2>1. Held(n)' = OwnIds(Elements(messageQueue'[n]) \union ({msgToSend'[n]} \ {NoMsg}))
    BY DEF Held
  <2>2. Elements(messageQueue'[n]) \union ({msgToSend'[n]} \ {NoMsg}) = C \union {e}
    BY <1>2, <1>3
  <2>3. OwnIds(C \union {e}) = OwnIds(C) \union {id}
    BY <1>1, OwnIdsAdd
  <2>. QED
    BY <2>1, <2>2, <2>3 DEF Held
<1>. QED
  BY <1>2, <1>3, <1>4, <1>5, <1>6, <1>7 DEF RNode

LEMMA TakeKeeps ==
    ASSUME TInv, NEW n \in Node, RNode(n), TakeMessage(n)
    PROVE  RNode(n)'
<1> DEFINE Q == messageQueue[n]
<1>1. Q \in Seq(Envelop) /\ Q # <<>> /\ msgToSend[n] = NoMsg
  BY DEF TInv, TypeOK, HoldsMessage, TakeMessage
<1>2. /\ messageQueue'[n] = Tail(Q) /\ msgToSend'[n] = Head(Q)
      /\ settled'[n] = settled[n] /\ dropped'[n] = dropped[n] /\ accepted'[n] = accepted[n]
  BY DEF TakeMessage, appVars, TInv, TypeOK
<1>3. /\ Elements(Q) = Elements(Tail(Q)) \union {Head(Q)}
      /\ Head(Q) # NoMsg
  BY <1>1, ElementsTail, MsgAssumption
<1>4. /\ NoCopies(Tail(Q))
      /\ Head(Q).kind = "ConfirmReply" \/ Head(Q) \notin Elements(Tail(Q))
  BY <1>1, NoCopiesTail DEF RNode
<1>5. Held(n)' = Held(n)
  <2>1. Elements(messageQueue'[n]) \union ({msgToSend'[n]} \ {NoMsg})
           = Elements(Q) \union ({msgToSend[n]} \ {NoMsg})
    BY <1>1, <1>2, <1>3
  <2>. QED
    BY <2>1 DEF Held
<1>. QED
  BY <1>2, <1>4, <1>5 DEF RNode

LEMMA SettleKeeps ==
    ASSUME TInv, NEW n \in Node, RNode(n), SettleMessage(n)
    PROVE  RNode(n)'
<1> DEFINE e == msgToSend[n]
           Q == messageQueue[n]
<1>1. /\ e \in Envelop /\ e # NoMsg /\ e.kind = "Consensus" /\ Q \in Seq(Envelop)
  BY MsgAssumption DEF TInv, TypeOK, HoldsMessage, SettleMessage, Confirmed
<1>2. /\ messageQueue'[n] = Q /\ msgToSend'[n] = NoMsg
      /\ settled'[n] = settled[n] \union {e.id} /\ dropped'[n] = dropped[n]
      /\ accepted'[n] = accepted[n]
  BY DEF SettleMessage, appVars, TInv, TypeOK
<1>3. Held(n) = OwnIds(Elements(Q)) \union {e.id}
  <2>1. Elements(Q) \union ({e} \ {NoMsg}) = Elements(Q) \union {e}
    BY <1>1
  <2>. QED
    BY <1>1, <2>1, OwnIdsAdd DEF Held
<1>4. Held(n)' = OwnIds(Elements(Q))
  <2>1. Elements(messageQueue'[n]) \union ({msgToSend'[n]} \ {NoMsg}) = Elements(Q)
    BY <1>2
  <2>. QED
    BY <2>1 DEF Held
<1>5. e.id \notin OwnIds(Elements(Q))
  <2>1. e \notin Elements(Q)
    BY <1>1 DEF RNode
  <2>2. Elements(Q) \subseteq Envelop
    BY <1>1, ElementsIn
  <2>. QED
    BY <1>1, <2>1, <2>2, OwnEnvelop DEF OwnIds
<1>. QED
  BY <1>2, <1>3, <1>4, <1>5 DEF RNode

LEMMA WriteKeeps ==
    ASSUME TInv, NEW n \in Node, RNode(n), WriteMessage(n)
    PROVE  RNode(n)'
<1> DEFINE e == msgToSend[n]
           Q == messageQueue[n]
<1>1. /\ e \in Envelop /\ e # NoMsg /\ Q \in Seq(Envelop)
  BY MsgAssumption DEF TInv, TypeOK, HoldsMessage, WriteMessage
<1>2. /\ messageQueue'[n] = (IF e.kind = "Consensus" THEN Append(Q, e) ELSE Q)
      /\ msgToSend'[n] = NoMsg
      /\ settled'[n] = settled[n] /\ dropped'[n] = dropped[n]
      /\ accepted'[n] = accepted[n]
  BY DEF WriteMessage, appVars, TInv, TypeOK
<1>3. Held(n) = OwnIds(Elements(Q) \union {e})
  <2>1. Elements(Q) \union ({e} \ {NoMsg}) = Elements(Q) \union {e}
    BY <1>1
  <2>. QED
    BY <2>1 DEF Held
<1>4. Held(n)' = OwnIds(Elements(messageQueue'[n]))
  <2>1. Elements(messageQueue'[n]) \union ({msgToSend'[n]} \ {NoMsg}) = Elements(messageQueue'[n])
    BY <1>2
  <2>. QED
    BY <2>1 DEF Held
<1>5. CASE e.kind = "Consensus"
  <2>1. Elements(messageQueue'[n]) = Elements(Q) \union {e}
    BY <1>1, <1>2, <1>5, ElementsAppend
  <2>2. NoCopies(messageQueue'[n])
    BY <1>1, <1>2, <1>5, NoCopiesAppend DEF RNode
  <2>. QED
    BY <1>2, <1>3, <1>4, <2>1, <2>2 DEF RNode
<1>6. CASE e.kind # "Consensus"
  <2>1. /\ Held(n) = OwnIds(Elements(Q)) \union (IF e.kind = "ConfirmReply" THEN {} ELSE {e.id})
        /\ Held(n)' = OwnIds(Elements(Q))
    BY <1>2, <1>3, <1>4, <1>6, OwnIdsAdd
  <2>2. e.kind # "ConfirmReply" => e.id \notin ConsensusId
    BY <1>1, <1>6 DEF Envelop
  <2>3. Held(n)' \subseteq Held(n) /\ Held(n) \intersect ConsensusId = Held(n)' \intersect ConsensusId
    BY <2>1, <2>2
  <2>. QED
    BY <1>2, <1>6, <2>3 DEF RNode
<1>. QED
  BY <1>5, <1>6

LEMMA DropKeeps ==
    ASSUME TInv, NEW n \in Node, RNode(n), DropMessages(n)
    PROVE  RNode(n)'
<1> DEFINE e == msgToSend[n]
           Q == messageQueue[n]
<1>1. e # NoMsg
  BY MsgAssumption, WriteFailsType DEF DropMessages
<1>2. /\ messageQueue'[n] = <<>> /\ msgToSend'[n] = NoMsg
      /\ settled'[n] = settled[n] /\ dropped'[n] = dropped[n] \union Held(n)
      /\ accepted'[n] = accepted[n]
  <2>1. Elements(Q) \union ({e} \ {NoMsg}) = Elements(Q) \union {e}
    BY <1>1
  <2>. QED
    BY <2>1 DEF DropMessages, appVars, TInv, TypeOK, Held
<1>3. Held(n)' = {}
  <2>1. Elements(<<>>) = {}
    BY DEF Elements
  <2>2. Elements(messageQueue'[n]) \union ({msgToSend'[n]} \ {NoMsg}) = {}
    BY <1>2, <2>1
  <2>. QED
    BY <2>2, OwnIdsEmpty DEF Held
<1>. QED
  BY <1>2, <1>3 DEF RNode, NoCopies

LEMMA RestartKeeps ==
    ASSUME TInv, NEW n \in Node, RNode(n), Restart(n)
    PROVE  RNode(n)'
<1>1. /\ messageQueue'[n] = <<>> /\ msgToSend'[n] = NoMsg
      /\ settled'[n] = settled[n] /\ dropped'[n] = dropped[n] \union Held(n)
      /\ accepted'[n] = accepted[n]
  BY DEF Restart, TInv, TypeOK
<1>2. Held(n)' = {}
  <2>1. Elements(<<>>) = {}
    BY DEF Elements
  <2>2. Elements(messageQueue'[n]) \union ({msgToSend'[n]} \ {NoMsg}) = {}
    BY <1>1, <2>1
  <2>. QED
    BY <2>2, OwnIdsEmpty DEF Held
<1>. QED
  BY <1>1, <1>2 DEF RNode, NoCopies

LEMMA AnswerKeeps ==
    ASSUME TInv, NEW n \in Node, RNode(n), ReceiveConfirmRequest(n)
    PROVE  RNode(n)'
<1> DEFINE Q == messageQueue[n]
<1>1. PICK frame \in Frame :
         /\ ReadNew(n, frame)
         /\ frame.kind = "MessageConfirmRequest"
         /\ messageQueue' = [messageQueue EXCEPT ![n] =
                                Append(@, [kind |-> "ConfirmReply", id |-> frame.id])]
  BY DEF ReceiveConfirmRequest
<1> DEFINE reply == [kind |-> "ConfirmReply", id |-> frame.id]
<1>2. /\ Q \in Seq(Envelop) /\ reply \in Envelop /\ reply.kind = "ConfirmReply"
  BY <1>1, EnvelopTypes DEF TInv, TypeOK
<1>3. /\ messageQueue'[n] = Append(Q, reply) /\ msgToSend' = msgToSend
      /\ settled' = settled /\ dropped' = dropped /\ accepted' = accepted
  BY <1>1 DEF ReadNew, appVars, sendVars, TInv, TypeOK
<1>4. Elements(messageQueue'[n]) = Elements(Q) \union {reply} /\ NoCopies(messageQueue'[n])
  BY <1>2, <1>3, ElementsAppend, NoCopiesAppend DEF RNode
<1>5. Held(n)' = Held(n)
  <2> DEFINE C == Elements(Q) \union ({msgToSend[n]} \ {NoMsg})
  <2>1. Elements(messageQueue'[n]) \union ({msgToSend'[n]} \ {NoMsg}) = C \union {reply}
    BY <1>3, <1>4
  <2>2. OwnIds(C \union {reply}) = OwnIds(C)
    BY <1>2, Zenon DEF OwnIds
  <2>. QED
    BY <2>1, <2>2 DEF Held
<1>. QED
  BY <1>2, <1>3, <1>4, <1>5 DEF RNode

-----------------------------------------------------------------------------

\* A step of one end leaves what the other end holds alone.
LEMMA OtherKeeps ==
    ASSUME TInv, NEW n \in Node, NEW a \in Node, a # n,
           \/ Application(a) \/ SendCycle(a) \/ BreakStream(a) \/ ReceiveCycle(a)
           \/ Restart(a)
    PROVE  UNCHANGED Local(n)
<1> USE DEF TInv, TypeOK, Local
<1>1. CASE Application(a)
  BY <1>1 DEF Application, Send, BanPeer, RemoveFromBanList, sendVars
<1>2. CASE CheckOutboundStream(a) \/ Reconnect(a) \/ BreakStream(a)
  BY <1>2 DEF CheckOutboundStream, Reconnect, BreakStream, appVars, sendVars
<1>3. CASE TakeMessage(a) \/ SettleMessage(a) \/ WriteMessage(a)
  BY <1>3 DEF TakeMessage, SettleMessage, WriteMessage, appVars
<1>4. CASE RetryMessage(a) \/ DropMessages(a)
  BY <1>4 DEF RetryMessage, DropMessages, appVars
<1>5. CASE ReceiveCycle(a)
  BY <1>5 DEF ReceiveCycle, IgnoreDuplicate, ReceiveConfirmReply, ReceiveConfirmRequest,
              HandOver, ReceiveMessage, ReadNew, appVars, sendVars
<1>6. CASE Restart(a)
  BY <1>6 DEF Restart
<1>. QED
  BY <1>1, <1>2, <1>3, <1>4, <1>5, <1>6 DEF SendCycle

LEMMA RInvStep == RInv /\ [Next]_vars => RInv'
<1> SUFFICES ASSUME RInv, [Next]_vars PROVE RInv'
  OBVIOUS
<1>1. TInv /\ TInv' /\ \A n \in Node : RNode(n)
  BY TInvStep, RInvByNode DEF RInv
<1>2. ASSUME NEW n \in Node PROVE RNode(n)'
  <2>1. CASE UNCHANGED Local(n)
    BY <1>1, <2>1, LocalKeeps
  <2>2. ASSUME NEW id \in MsgId, Send(n, id) PROVE RNode(n)'
    BY <1>1, <2>2, SendKeeps
  <2>3. CASE TakeMessage(n)
    BY <1>1, <2>3, TakeKeeps
  <2>4. CASE SettleMessage(n)
    BY <1>1, <2>4, SettleKeeps
  <2>5. CASE WriteMessage(n)
    BY <1>1, <2>5, WriteKeeps
  <2>6. CASE DropMessages(n)
    BY <1>1, <2>6, DropKeeps
  <2>7. CASE ReceiveConfirmRequest(n)
    BY <1>1, <2>7, AnswerKeeps
  <2>8. CASE \/ BanPeer(n) \/ RemoveFromBanList(n) \/ CheckOutboundStream(n) \/ Reconnect(n)
             \/ RetryMessage(n) \/ BreakStream(n) \/ IgnoreDuplicate(n)
             \/ ReceiveConfirmReply(n) \/ HandOver(n) \/ ReceiveMessage(n)
    <3>1. UNCHANGED Local(n)
      BY <2>8 DEF BanPeer, RemoveFromBanList, CheckOutboundStream, Reconnect, RetryMessage,
                  BreakStream, IgnoreDuplicate, ReceiveConfirmReply, HandOver, ReceiveMessage,
                  ReadNew, appVars, sendVars, Local
    <3>. QED
      BY <2>1, <3>1
  <2>9. CASE \E a \in Node : /\ a # n
                            /\ \/ Application(a) \/ SendCycle(a)
                               \/ BreakStream(a) \/ ReceiveCycle(a) \/ Restart(a)
    BY <1>1, <2>1, <2>9, OtherKeeps
  <2>10. CASE Restart(n)
    BY <1>1, <2>10, RestartKeeps
  <2>11. CASE UNCHANGED vars
    <3>1. UNCHANGED Local(n)
      BY <2>11 DEF vars, Local
    <3>. QED
      BY <2>1, <3>1
  <2>. QED
    BY <2>2, <2>3, <2>4, <2>5, <2>6, <2>7, <2>8, <2>9, <2>10, <2>11
       DEF Next, Application, SendCycle, ReceiveCycle
<1>3. RInv' <=> TInv' /\ \A n \in Node : RNode(n)'
  BY DEF RInv, RNode, SingleCopy, Known, ConsensusRetained
<1>. QED
  BY <1>1, <1>2, <1>3

\* The sender never loses track of a consensus message (ConsensusRetained).
THEOREM ConsensusNotLost == Spec => []ConsensusRetained
<1>1. RInv => ConsensusRetained
  BY DEF RInv
<1>. QED
  BY InitRInv, RInvStep, <1>1, PTL DEF Spec

\* Resending does not multiply (SingleCopy).
THEOREM ResendKeepsOneCopy == Spec => []SingleCopy
<1>1. RInv => SingleCopy
  BY DEF RInv
<1>. QED
  BY InitRInv, RInvStep, <1>1, PTL DEF Spec

=============================================================================
