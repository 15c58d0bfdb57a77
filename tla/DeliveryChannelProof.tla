------------------------ MODULE DeliveryChannelProof ------------------------
(***************************************************************************)
(* What the application at one end gets of the messages of the other: no   *)
(* message twice, plain messages in order, and nothing else than what the  *)
(* abstract Channel allows.                                                *)
(*                                                                         *)
(* All invariants here are about one direction, from Peer[n] to n.  A step *)
(* of the protocol does one of six things to it, whichever of the two ends *)
(* takes the step; StepEffect says so, and every invariant is shown to be  *)
(* kept by the six.                                                        *)
(***************************************************************************)
EXTENDS DeliveryProof, FiniteSetTheorems, FunctionTheorems

-----------------------------------------------------------------------------
(* More about sequences.                                                   *)

LEMMA TakePrefix ==
    ASSUME NEW S, NEW s \in Seq(S), NEW k \in 0 .. Len(s)
    PROVE  /\ Prefix(s, k) \in Seq(S)
           /\ Len(Prefix(s, k)) = k
           /\ \A i \in 1 .. k : Prefix(s, k)[i] = s[i]
BY SubSeqProperties DEF Prefix

LEMMA WholePrefix ==
    ASSUME NEW S, NEW s \in Seq(S)
    PROVE  /\ Prefix(s, Len(s)) = s
           /\ Prefix(s, 0) = <<>>
           /\ Len(s) \in 0 .. Len(s)
           /\ 0 \in 0 .. Len(s)
<1>1. Len(s) \in Nat
  OBVIOUS
<1>2. Prefix(s, 0) = <<>>
  BY SubSeqEmpty DEF Prefix
<1>3. /\ Prefix(s, Len(s)) \in Seq(S) /\ Len(Prefix(s, Len(s))) = Len(s)
      /\ \A i \in 1 .. Len(s) : Prefix(s, Len(s))[i] = s[i]
  BY <1>1, TakePrefix
<1>4. Prefix(s, Len(s)) = s
  BY <1>3, SeqEqual
<1>. QED
  BY <1>1, <1>2, <1>4

LEMMA EmptyHasNone == Elements(<<>>) = {} /\ Len(<<>>) = 0
BY DEF Elements

Distinct(s) == \A i, j \in 1 .. Len(s) : s[i] = s[j] => i = j

LEMMA DistinctAppend ==
    ASSUME NEW S, NEW s \in Seq(S), NEW x, x \notin Elements(s), Distinct(s)
    PROVE  Distinct(Append(s, x))
<1>1. /\ Len(s) \in Nat /\ Len(Append(s, x)) = Len(s) + 1
      /\ \A k \in 1 .. Len(s) : Append(s, x)[k] = s[k]
      /\ Append(s, x)[Len(s) + 1] = x
  OBVIOUS
<1>2. \A k \in 1 .. Len(s) : s[k] # x
  BY DEF Elements
<1>. QED
  BY <1>1, <1>2 DEF Distinct

-----------------------------------------------------------------------------
(* What a step does to the way from Peer[n] to n.                          *)

\* The queue of p stays, is emptied, or gets an envelope of a consensus message.
QueueKept(p) ==
    \/ messageQueue'[p] \in {messageQueue[p], <<>>}
    \/ \E e \in Envelop : /\ e.id \in ConsensusId
                          /\ messageQueue'[p] = Append(messageQueue[p], e)

\* Something is lost or the receiver restarts; nothing new is written or received.
Shrinks(n) ==
    /\ UNCHANGED accepted[Peer[n]]
    /\ \/ UNCHANGED <<delivered[n], handing[n], receivedMsgId[n]>>
       \/ delivered'[n] = <<>> /\ handing'[n] = NoMsg /\ receivedMsgId'[n] = <<>>
    /\ \E k \in 0 .. Len(wire[Peer[n]]) : wire'[Peer[n]] = Prefix(wire[Peer[n]], k)
    /\ msgToSend'[Peer[n]] \in {msgToSend[Peer[n]], NoMsg}
    /\ QueueKept(Peer[n])
    /\ outboundStream[Peer[n]] = "nil"
          => outboundStream'[Peer[n]] = "nil" \/ wire'[Peer[n]] = <<>>

\* The sender's application sends a message.
Accepts(n) ==
    /\ \E id \in MsgId :
          /\ id \notin Elements(accepted[Peer[n]])
          /\ accepted'[Peer[n]] = Append(accepted[Peer[n]], id)
          /\ messageQueue'[Peer[n]] = Append(messageQueue[Peer[n]], NewEnvelop(id))
    /\ UNCHANGED <<delivered[n], handing[n], receivedMsgId[n],
                   wire[Peer[n]], msgToSend[Peer[n]], outboundStream[Peer[n]]>>

\* The sender takes the next envelope from its queue.
Takes(n) ==
    /\ messageQueue[Peer[n]] # <<>>
    /\ msgToSend[Peer[n]] = NoMsg
    /\ msgToSend'[Peer[n]] = Head(messageQueue[Peer[n]])
    /\ messageQueue'[Peer[n]] = Tail(messageQueue[Peer[n]])
    /\ UNCHANGED <<accepted[Peer[n]], delivered[n], handing[n], receivedMsgId[n],
                   wire[Peer[n]], outboundStream[Peer[n]]>>

\* The sender writes on a stream that is alive.  It has the message no longer, or
\* the write failed and the stream is reset.
Writes(n) ==
    /\ msgToSend[Peer[n]] \in Envelop
    /\ outboundStream[Peer[n]] = "open"
    /\ \E k \in 0 .. Len(wire[Peer[n]]) + 1 :
          wire'[Peer[n]] = Prefix(Append(wire[Peer[n]], NewFrame(msgToSend[Peer[n]])), k)
    /\ \/ msgToSend'[Peer[n]] = NoMsg
       \/ UNCHANGED msgToSend[Peer[n]] /\ outboundStream'[Peer[n]] = "nil"
    /\ QueueKept(Peer[n])
    /\ UNCHANGED <<accepted[Peer[n]], delivered[n], handing[n], receivedMsgId[n]>>

\* The receiver reads a frame that its filter knows, or a new one.
ReadsOld(n, f) ==
    /\ f.id \in Elements(receivedMsgId[n])
    /\ UNCHANGED <<delivered[n], handing[n], receivedMsgId[n]>>
ReadsNew(n, f) ==
    /\ f.id \notin Elements(receivedMsgId[n])
    /\ Remember(n, f.id)
    /\ \/ /\ f.kind = "Message"
          /\ delivered'[n] \in {delivered[n], Append(delivered[n], f.id)}
          /\ handing'[n] = NoMsg
       \/ /\ f.kind = "MessageConfirmRequest"
          /\ delivered'[n] = delivered[n]
          /\ handing'[n] = f.id
       \/ /\ f.kind = "ConfirmReply"
          /\ delivered'[n] = delivered[n]
          /\ handing'[n] = NoMsg
Reads(n) ==
    /\ handing[n] = NoMsg
    /\ wire[Peer[n]] # <<>>
    /\ wire'[Peer[n]] = Tail(wire[Peer[n]])
    /\ ReadsOld(n, Head(wire[Peer[n]])) \/ ReadsNew(n, Head(wire[Peer[n]]))
    /\ UNCHANGED <<accepted[Peer[n]], msgToSend[Peer[n]], messageQueue[Peer[n]],
                   outboundStream[Peer[n]]>>

\* The receiver gives the request it answered to the application.
HandsOver(n) ==
    /\ handing[n] # NoMsg
    /\ delivered'[n] = Append(delivered[n], handing[n])
    /\ handing'[n] = NoMsg
    /\ UNCHANGED <<accepted[Peer[n]], receivedMsgId[n], wire[Peer[n]],
                   msgToSend[Peer[n]], messageQueue[Peer[n]], outboundStream[Peer[n]]>>

Effect(n) ==
    Shrinks(n) \/ Accepts(n) \/ Takes(n) \/ Writes(n) \/ Reads(n) \/ HandsOver(n)

\* What the way from Peer[n] to n consists of.
Way(n) ==
    <<accepted[Peer[n]], delivered[n], handing[n], receivedMsgId[n], wire[Peer[n]],
      msgToSend[Peer[n]], messageQueue[Peer[n]], outboundStream[Peer[n]]>>

\* A receive cycle changes what its own end has received and queued, and what is in
\* flight to it.
LEMMA ReceiveIsLocal ==
    ASSUME TypeOK, NEW a \in Node, ReceiveCycle(a)
    PROVE  /\ UNCHANGED <<accepted, msgToSend, outboundStream>>
           /\ \A b \in Node \ {a} : UNCHANGED <<delivered[b], handing[b], receivedMsgId[b],
                                              messageQueue[b]>>
           /\ \A b \in Node \ {Peer[a]} : UNCHANGED wire[b]
<1> USE DEF TypeOK
<1>1. CASE IgnoreDuplicate(a)
  BY <1>1 DEF IgnoreDuplicate, ReadFrame, appVars, sendVars, receiveVars
<1>2. CASE ReceiveConfirmReply(a)
  BY <1>2 DEF ReceiveConfirmReply, ReadNew, ReadFrame, Remember, appVars, sendVars
<1>3. CASE ReceiveConfirmRequest(a)
  BY <1>3 DEF ReceiveConfirmRequest, ReadNew, ReadFrame, Remember, appVars, sendVars
<1>4. CASE HandOver(a)
  BY <1>4 DEF HandOver, appVars, sendVars
<1>5. CASE ReceiveMessage(a)
  BY <1>5 DEF ReceiveMessage, ReadNew, ReadFrame, Remember, appVars, sendVars
<1>. QED
  BY <1>1, <1>2, <1>3, <1>4, <1>5 DEF ReceiveCycle

LEMMA WayTypes ==
    ASSUME TypeOK, NEW n \in Node
    PROVE  /\ Peer[n] \in Node /\ Peer[n] # n /\ Peer[Peer[n]] = n
           /\ accepted[Peer[n]] \in Seq(MsgId)
           /\ delivered[n] \in Seq(MsgId)
           /\ handing[n] \in MsgId \union {NoMsg}
           /\ receivedMsgId[n] \in Seq(MsgId)
           /\ wire[Peer[n]] \in Seq(Frame)
           /\ msgToSend[Peer[n]] \in Envelop \union {NoMsg}
           /\ messageQueue[Peer[n]] \in Seq(Envelop)
BY PeerAssumption DEF TypeOK

LEMMA SameShrinks ==
    ASSUME TypeOK, NEW n \in Node, UNCHANGED Way(n)
    PROVE  Shrinks(n)
<1>1. wire[Peer[n]] \in Seq(Frame)
  BY WayTypes
<1>2. \E k \in 0 .. Len(wire[Peer[n]]) : wire'[Peer[n]] = Prefix(wire[Peer[n]], k)
  BY <1>1, WholePrefix DEF Way
<1>. QED
  BY <1>2 DEF Shrinks, Way, QueueKept

\* Steps of the end that sends on this way.
LEMMA SenderEffect ==
    ASSUME TInv, NEW n \in Node, NEW p \in Node, p = Peer[n],
           Application(p) \/ SendCycle(p) \/ BreakStream(p) \/ Restart(p) \/ ReceiveCycle(p)
    PROVE  Effect(n)
<1> USE DEF TInv
<1>0. /\ p # n /\ Peer[p] = n /\ wire[p] \in Seq(Frame) /\ TypeOK
  BY WayTypes
<1>1. ASSUME NEW id \in MsgId, Send(p, id) PROVE Accepts(n)
  BY <1>0, <1>1 DEF Send, Accepts, sendVars, receiveVars, TypeOK
<1>2. CASE BanPeer(p) \/ RemoveFromBanList(p)
  <2>1. UNCHANGED Way(n)
    BY <1>2 DEF BanPeer, RemoveFromBanList, sendVars, receiveVars, Way
  <2>. QED
    BY <2>1, SameShrinks DEF Effect
<1>3. CASE CheckOutboundStream(p)
  <2>1. \E k \in 0 .. Len(wire[p]) : wire'[p] = Prefix(wire[p], k)
    BY <1>0, <1>3, WholePrefix DEF CheckOutboundStream, TypeOK
  <2>2. outboundStream[p] = "nil" => wire'[p] = <<>>
    BY <1>3 DEF CheckOutboundStream, TypeOK
  <2>3. UNCHANGED <<accepted, delivered, handing, receivedMsgId, msgToSend, messageQueue>>
    BY <1>3 DEF CheckOutboundStream, appVars, receiveVars
  <2>4. Shrinks(n)
    BY <2>1, <2>2, <2>3 DEF Shrinks, QueueKept
  <2>. QED
    BY <2>4 DEF Effect
<1>4. CASE Reconnect(p)
  <2>1. wire'[p] = <<>>
    BY <1>0, <1>4 DEF Reconnect, TypeOK
  <2>2. \E k \in 0 .. Len(wire[p]) : wire'[p] = Prefix(wire[p], k)
    BY <1>0, <2>1, WholePrefix
  <2>3. UNCHANGED <<accepted, delivered, handing, receivedMsgId, msgToSend, messageQueue>>
    BY <1>4 DEF Reconnect, appVars, receiveVars
  <2>4. Shrinks(n)
    BY <2>1, <2>2, <2>3 DEF Shrinks, QueueKept
  <2>. QED
    BY <2>4 DEF Effect
<1>5. CASE TakeMessage(p)
  <2>1. msgToSend[p] = NoMsg
    BY <1>5 DEF TakeMessage, HoldsMessage
  <2>2. Takes(n)
    BY <1>5, <2>1 DEF TakeMessage, Takes, appVars, receiveVars, TypeOK
  <2>. QED
    BY <2>2 DEF Effect
<1>6. CASE SettleMessage(p)
  <2>1. \E k \in 0 .. Len(wire[p]) : wire'[p] = Prefix(wire[p], k)
    BY <1>0, <1>6, WholePrefix DEF SettleMessage
  <2>2. /\ UNCHANGED <<accepted, delivered, handing, receivedMsgId, messageQueue,
                       outboundStream>>
        /\ msgToSend'[p] = NoMsg
    BY <1>6 DEF SettleMessage, appVars, receiveVars, TypeOK
  <2>3. Shrinks(n)
    BY <2>1, <2>2 DEF Shrinks, QueueKept
  <2>. QED
    BY <2>3 DEF Effect
<1>7. CASE WriteMessage(p)
  <2>1. msgToSend[p] \in Envelop
    BY <1>7 DEF WriteMessage, HoldsMessage, TypeOK
  <2>2. QueueKept(p)
    <3>1. CASE msgToSend[p].kind = "Consensus"
      <4>1. msgToSend[p].id \in ConsensusId
        BY <2>1, <3>1, EnvelopTypes
      <4>2. messageQueue'[p] = Append(messageQueue[p], msgToSend[p])
        BY <1>7, <3>1 DEF WriteMessage, TypeOK
      <4>. QED
        BY <2>1, <4>1, <4>2 DEF QueueKept
    <3>2. CASE msgToSend[p].kind # "Consensus"
      BY <1>7, <3>2 DEF WriteMessage, QueueKept, TypeOK
    <3>. QED
      BY <3>1, <3>2
  <2>3. /\ UNCHANGED <<accepted, delivered, handing, receivedMsgId, outboundStream>>
        /\ msgToSend'[p] = NoMsg
    BY <1>7 DEF WriteMessage, appVars, receiveVars, TypeOK
  <2>4. CASE outboundStream[p] = "open"
    <3> DEFINE longer == Append(wire[p], NewFrame(msgToSend[p]))
    <3>1. longer \in Seq(Frame) /\ Len(longer) = Len(wire[p]) + 1
      BY <1>0, <2>1, EnvelopTypes, AppendProperties
    <3>2. wire'[p] = longer
      BY <1>7, <2>4 DEF WriteMessage, TypeOK
    <3>3. \E k \in 0 .. Len(wire[p]) + 1 : wire'[p] = Prefix(longer, k)
      BY <3>1, <3>2, WholePrefix
    <3>4. Writes(n)
      BY <2>1, <2>2, <2>3, <2>4, <3>3 DEF Writes
    <3>. QED
      BY <3>4 DEF Effect
  <2>5. CASE outboundStream[p] # "open"
    <3>1. wire'[p] = wire[p]
      BY <1>7, <2>5 DEF WriteMessage, TypeOK
    <3>2. \E k \in 0 .. Len(wire[p]) : wire'[p] = Prefix(wire[p], k)
      BY <1>0, <3>1, WholePrefix
    <3>3. Shrinks(n)
      BY <2>2, <2>3, <3>2 DEF Shrinks
    <3>. QED
      BY <3>3 DEF Effect
  <2>. QED
    BY <2>4, <2>5
<1>8. CASE RetryMessage(p) \/ DropMessages(p)
  <2>1. WriteFails(p) /\ msgToSend[p] \in Envelop
    BY <1>8, WriteFailsType DEF RetryMessage, DropMessages
  <2>2. QueueKept(p)
    BY <1>8 DEF RetryMessage, DropMessages, QueueKept, TypeOK
  <2>3. /\ UNCHANGED <<accepted, delivered, handing, receivedMsgId>>
        /\ msgToSend'[p] \in {msgToSend[p], NoMsg}
        /\ outboundStream'[p] = "nil"
    BY <1>8 DEF RetryMessage, DropMessages, WriteFails, appVars, receiveVars, TypeOK
  <2>4. CASE outboundStream[p] = "broken"
    <3>1. wire'[p] = wire[p]
      BY <2>1, <2>4 DEF WriteFails
    <3>2. \E k \in 0 .. Len(wire[p]) : wire'[p] = Prefix(wire[p], k)
      BY <1>0, <3>1, WholePrefix
    <3>3. Shrinks(n)
      BY <2>2, <2>3, <3>2 DEF Shrinks
    <3>. QED
      BY <3>3 DEF Effect
  <2>5. CASE outboundStream[p] = "open"
    <3>1. \E k \in 0 .. Len(wire[p]) + 1 :
             wire'[p] = Prefix(Append(wire[p], NewFrame(msgToSend[p])), k)
      BY <2>1, <2>5 DEF WriteFails, TypeOK
    <3>2. Writes(n)
      BY <2>1, <2>2, <2>3, <2>5, <3>1 DEF Writes
    <3>. QED
      BY <3>2 DEF Effect
  <2>. QED
    BY <2>1, <2>4, <2>5 DEF WriteFails
<1>9. CASE BreakStream(p)
  <2>1. \E k \in 0 .. Len(wire[p]) : wire'[p] = Prefix(wire[p], k)
    BY <1>9 DEF BreakStream, TypeOK
  <2>2. /\ UNCHANGED <<accepted, delivered, handing, receivedMsgId, messageQueue, msgToSend>>
        /\ outboundStream[p] = "open"
    BY <1>9 DEF BreakStream, appVars, sendVars, receiveVars
  <2>3. Shrinks(n)
    BY <2>1, <2>2 DEF Shrinks, QueueKept
  <2>. QED
    BY <2>3 DEF Effect
<1>10. CASE Restart(p)
  <2>1. \E k \in 0 .. Len(wire[p]) : wire'[p] = Prefix(wire[p], k)
    BY <1>0, <1>10 DEF Restart, TypeOK
  <2>2. /\ UNCHANGED <<accepted[p], delivered[n], handing[n], receivedMsgId[n]>>
        /\ messageQueue'[p] = <<>> /\ msgToSend'[p] = NoMsg
        /\ outboundStream'[p] = "nil"
    BY <1>0, <1>10 DEF Restart, TypeOK
  <2>3. Shrinks(n)
    BY <2>1, <2>2 DEF Shrinks, QueueKept
  <2>. QED
    BY <2>3 DEF Effect
<1>11. CASE ReceiveCycle(p)
  <2>1. UNCHANGED <<accepted, delivered[n], handing[n], receivedMsgId[n], wire[p],
                    msgToSend, outboundStream>>
    BY <1>0, <1>11, ReceiveIsLocal
  <2>2. QueueKept(p)
    <3>1. CASE ReceiveConfirmRequest(p)
      <4>1. PICK frame \in Frame :
               /\ frame.kind = "MessageConfirmRequest"
               /\ messageQueue' = [messageQueue EXCEPT ![p] =
                                      Append(@, [kind |-> "ConfirmReply", id |-> frame.id])]
        BY <3>1 DEF ReceiveConfirmRequest
      <4> DEFINE reply == [kind |-> "ConfirmReply", id |-> frame.id]
      <4>2. frame.id \in ConsensusId
        BY <4>1, EnvelopTypes
      <4>3. reply \in Envelop /\ reply.id \in ConsensusId
        BY <4>2, EnvelopTypes
      <4>4. messageQueue'[p] = Append(messageQueue[p], reply)
        BY <4>1 DEF TypeOK
      <4>. QED
        BY <4>3, <4>4 DEF QueueKept
    <3>2. CASE ~ReceiveConfirmRequest(p)
      BY <1>11, <3>2 DEF ReceiveCycle, IgnoreDuplicate, ReceiveConfirmReply, HandOver,
                         ReceiveMessage, QueueKept
    <3>. QED
      BY <3>1, <3>2
  <2>3. \E k \in 0 .. Len(wire[p]) : wire'[p] = Prefix(wire[p], k)
    BY <1>0, <2>1, WholePrefix
  <2>4. Shrinks(n)
    BY <2>1, <2>2, <2>3 DEF Shrinks
  <2>. QED
    BY <2>4 DEF Effect
<1>. QED
  BY <1>1, <1>2, <1>3, <1>4, <1>5, <1>6, <1>7, <1>8, <1>9, <1>10, <1>11
     DEF Application, SendCycle, Effect

\* Steps of the end that receives on this way.
LEMMA ReceiverEffect ==
    ASSUME TInv, NEW n \in Node,
           Application(n) \/ SendCycle(n) \/ BreakStream(n) \/ Restart(n) \/ ReceiveCycle(n)
    PROVE  Effect(n)
<1> USE DEF TInv
<1> DEFINE p == Peer[n]
<1>0. /\ p \in Node /\ p # n /\ wire[p] \in Seq(Frame) /\ TypeOK
  BY WayTypes
<1>1. CASE \/ Application(n) \/ CheckOutboundStream(n) \/ TakeMessage(n) \/ SettleMessage(n)
           \/ WriteMessage(n) \/ RetryMessage(n) \/ DropMessages(n) \/ BreakStream(n)
  <2>1. CASE Application(n)
    <3>1. UNCHANGED Way(n)
      BY <1>0, <2>1 DEF Application, Send, BanPeer, RemoveFromBanList, sendVars,
                        receiveVars, Way, TypeOK
    <3>. QED
      BY <3>1, SameShrinks DEF Effect
  <2>2. CASE CheckOutboundStream(n) \/ TakeMessage(n) \/ SettleMessage(n) \/ BreakStream(n)
    <3>1. UNCHANGED Way(n)
      BY <1>0, <2>2 DEF CheckOutboundStream, TakeMessage, SettleMessage, BreakStream,
                        appVars, sendVars, receiveVars, Way, TypeOK
    <3>. QED
      BY <3>1, SameShrinks DEF Effect
  <2>3. CASE WriteMessage(n)
    <3>1. UNCHANGED Way(n)
      BY <1>0, <2>3 DEF WriteMessage, appVars, receiveVars, Way, TypeOK
    <3>. QED
      BY <3>1, SameShrinks DEF Effect
  <2>4. CASE RetryMessage(n) \/ DropMessages(n)
    <3>1. UNCHANGED Way(n)
      BY <1>0, <2>4 DEF RetryMessage, DropMessages, WriteFails, appVars, receiveVars, Way,
                        TypeOK
    <3>. QED
      BY <3>1, SameShrinks DEF Effect
  <2>. QED
    BY <1>1, <2>1, <2>2, <2>3, <2>4
<1>2. CASE Reconnect(n)
  <2>1. wire'[p] = <<>>
    BY <1>0, <1>2 DEF Reconnect, TypeOK
  <2>2. \E k \in 0 .. Len(wire[p]) : wire'[p] = Prefix(wire[p], k)
    BY <1>0, <2>1, WholePrefix
  <2>3. UNCHANGED <<accepted, delivered, handing, receivedMsgId, msgToSend, messageQueue>>
    BY <1>2 DEF Reconnect, appVars, receiveVars
  <2>4. Shrinks(n)
    BY <2>1, <2>2, <2>3 DEF Shrinks, QueueKept
  <2>. QED
    BY <2>4 DEF Effect
<1>3. CASE Restart(n)
  <2>1. wire'[p] = <<>>
    BY <1>0, <1>3 DEF Restart, TypeOK
  <2>2. \E k \in 0 .. Len(wire[p]) : wire'[p] = Prefix(wire[p], k)
    BY <1>0, <2>1, WholePrefix
  <2>3. /\ UNCHANGED <<accepted, msgToSend[p], messageQueue[p]>>
        /\ delivered'[n] = <<>> /\ handing'[n] = NoMsg /\ receivedMsgId'[n] = <<>>
    BY <1>0, <1>3 DEF Restart, TypeOK
  <2>4. Shrinks(n)
    BY <2>1, <2>2, <2>3 DEF Shrinks, QueueKept
  <2>. QED
    BY <2>4 DEF Effect
<1>4. CASE HandOver(n)
  <2>1. HandsOver(n)
    BY <1>4 DEF HandOver, HandsOver, appVars, sendVars, TypeOK
  <2>. QED
    BY <2>1 DEF Effect
<1>5. CASE IgnoreDuplicate(n)
  <2>1. PICK frame \in Frame :
           /\ ReadFrame(n, frame)
           /\ frame.id \in Elements(receivedMsgId[n])
           /\ UNCHANGED <<appVars, messageQueue, sendVars, confirmReceived,
                          outboundStream, receiveVars, faults>>
    BY <1>5 DEF IgnoreDuplicate
  <2>2. Reads(n)
    BY <1>0, <2>1 DEF ReadFrame, Reads, ReadsOld, appVars, sendVars, receiveVars, TypeOK
  <2>. QED
    BY <2>2 DEF Effect
<1>6. ASSUME NEW frame \in Frame, ReadNew(n, frame), ReadsNew(n, frame),
             UNCHANGED messageQueue[p]
      PROVE  Effect(n)
  <2>1. /\ handing[n] = NoMsg /\ wire[p] # <<>>
        /\ wire'[p] = Tail(wire[p]) /\ frame = Head(wire[p])
    BY <1>0, <1>6 DEF ReadNew, ReadFrame, TypeOK
  <2>2. UNCHANGED <<accepted[p], msgToSend[p], outboundStream[p]>>
    BY <1>6 DEF ReadNew, appVars, sendVars
  <2>3. Reads(n)
    BY <1>6, <2>1, <2>2 DEF Reads
  <2>. QED
    BY <2>3 DEF Effect
<1>7. CASE ReceiveConfirmReply(n)
  <2>1. PICK frame \in Frame :
           /\ ReadNew(n, frame)
           /\ frame.kind = "ConfirmReply"
           /\ UNCHANGED <<messageQueue, handing, delivered>>
    BY <1>7 DEF ReceiveConfirmReply
  <2>2. ReadsNew(n, frame)
    BY <2>1 DEF ReadNew, ReadFrame, ReadsNew
  <2>. QED
    BY <1>6, <2>1, <2>2
<1>8. CASE ReceiveConfirmRequest(n)
  <2>1. PICK frame \in Frame :
           /\ ReadNew(n, frame)
           /\ frame.kind = "MessageConfirmRequest"
           /\ messageQueue' = [messageQueue EXCEPT ![n] =
                                  Append(@, [kind |-> "ConfirmReply", id |-> frame.id])]
           /\ handing' = [handing EXCEPT ![n] = frame.id]
           /\ UNCHANGED <<confirmReceived, delivered>>
    BY <1>8 DEF ReceiveConfirmRequest
  <2>2. ReadsNew(n, frame)
    BY <2>1 DEF ReadNew, ReadsNew, TypeOK
  <2>3. UNCHANGED messageQueue[p]
    BY <1>0, <2>1 DEF TypeOK
  <2>. QED
    BY <1>6, <2>1, <2>2, <2>3
<1>9. CASE ReceiveMessage(n)
  <2>1. PICK frame \in Frame :
           /\ ReadNew(n, frame)
           /\ frame.kind = "Message"
           /\ delivered' = [delivered EXCEPT ![n] =
                               IF isBanned[n] THEN @ ELSE Append(@, frame.id)]
           /\ UNCHANGED <<messageQueue, confirmReceived, handing>>
    BY <1>9 DEF ReceiveMessage
  <2>2. ReadsNew(n, frame)
    BY <2>1 DEF ReadNew, ReadFrame, ReadsNew, TypeOK
  <2>. QED
    BY <1>6, <2>1, <2>2
<1>. QED
  BY <1>1, <1>2, <1>3, <1>4, <1>5, <1>7, <1>8, <1>9 DEF SendCycle, ReceiveCycle

\* Steps of other ends, of which a connection has none.
LEMMA OtherEffect ==
    ASSUME TInv, NEW n \in Node, NEW a \in Node, a # n, a # Peer[n],
           Application(a) \/ SendCycle(a) \/ BreakStream(a) \/ Restart(a) \/ ReceiveCycle(a)
    PROVE  UNCHANGED Way(n)
<1> DEFINE p == Peer[n]
<1>0. p \in Node /\ Peer[a] # n /\ Peer[a] # p
  BY PeerAssumption
<1>5. CASE ReceiveCycle(a)
  <2>1. TypeOK
    BY DEF TInv
  <2>2. UNCHANGED <<accepted[p], delivered[n], handing[n], receivedMsgId[n], wire[p],
                    msgToSend[p], messageQueue[p], outboundStream[p]>>
    BY <1>0, <1>5, <2>1, ReceiveIsLocal
  <2>. QED
    BY <2>2 DEF Way
<1> USE DEF TInv, TypeOK, Way
<1>1. CASE Application(a)
  <2>1. ASSUME NEW id \in MsgId, Send(a, id) PROVE UNCHANGED Way(n)
    BY <1>0, <2>1 DEF Send, sendVars, receiveVars
  <2>2. CASE BanPeer(a)
    BY <2>2 DEF BanPeer, sendVars, receiveVars
  <2>3. CASE RemoveFromBanList(a)
    BY <2>3 DEF RemoveFromBanList, sendVars, receiveVars
  <2>. QED
    BY <1>1, <2>1, <2>2, <2>3 DEF Application
<1>2. CASE CheckOutboundStream(a) \/ Reconnect(a) \/ BreakStream(a)
  <2>1. CASE CheckOutboundStream(a)
    BY <1>0, <2>1 DEF CheckOutboundStream, appVars, receiveVars
  <2>2. CASE Reconnect(a)
    BY <1>0, <2>2 DEF Reconnect, appVars, receiveVars
  <2>3. CASE BreakStream(a)
    BY <1>0, <2>3 DEF BreakStream, appVars, sendVars, receiveVars
  <2>. QED
    BY <1>2, <2>1, <2>2, <2>3
<1>3. CASE TakeMessage(a) \/ SettleMessage(a) \/ WriteMessage(a)
  BY <1>0, <1>3 DEF TakeMessage, SettleMessage, WriteMessage, appVars, receiveVars
<1>4. CASE RetryMessage(a) \/ DropMessages(a)
  BY <1>0, <1>4 DEF RetryMessage, DropMessages, WriteFails, appVars, receiveVars
<1>6. CASE Restart(a)
  <2>1. PICK k \in 0 .. Len(wire[a]) :
           wire' = [wire EXCEPT ![a] = Prefix(@, k), ![Peer[a]] = <<>>]
    BY <1>6 DEF Restart
  <2>2. UNCHANGED <<wire[p], outboundStream[p]>>
    BY <1>0, <1>6, <2>1 DEF Restart
  <2>3. UNCHANGED <<accepted[p], delivered[n], handing[n], receivedMsgId[n],
                    msgToSend[p], messageQueue[p]>>
    BY <1>0, <1>6 DEF Restart
  <2>. QED
    BY <2>2, <2>3
<1>. QED
  BY <1>1, <1>2, <1>3, <1>4, <1>5, <1>6 DEF SendCycle

\* A step does one of the six things to the way from Peer[n] to n, or nothing.
LEMMA StepEffect ==
    ASSUME TInv, [Next]_vars, NEW n \in Node
    PROVE  Effect(n)
<1>1. ASSUME NEW a \in Node,
             Application(a) \/ SendCycle(a) \/ BreakStream(a) \/ Restart(a) \/ ReceiveCycle(a)
      PROVE  Effect(n)
  <2>1. CASE a = n
    BY <1>1, <2>1, ReceiverEffect
  <2>2. CASE a = Peer[n]
    BY <1>1, <2>2, SenderEffect
  <2>3. CASE a # n /\ a # Peer[n]
    BY <1>1, <2>3, OtherEffect, SameShrinks DEF Effect, TInv
  <2>. QED
    BY <2>1, <2>2, <2>3
<1>2. CASE UNCHANGED vars
  <2>1. UNCHANGED Way(n)
    BY <1>2 DEF vars, Way
  <2>. QED
    BY <2>1, SameShrinks DEF Effect, TInv
<1>. QED
  BY <1>1, <1>2 DEF Next

-----------------------------------------------------------------------------
(* What arrives was sent.                                                  *)

\* What is given to the application, or about to be, and every message in flight,
\* was accepted from the other application; that application sends nothing twice.
Source(n) ==
    /\ Distinct(accepted[Peer[n]])
    /\ Elements(delivered[n]) \subseteq Elements(accepted[Peer[n]])
    /\ handing[n] # NoMsg => handing[n] \in ConsensusId \intersect Elements(accepted[Peer[n]])
    /\ \A f \in Elements(wire[Peer[n]]) :
          f.kind # "ConfirmReply" => f.id \in Elements(accepted[Peer[n]])

LEMMA InitSource ==
    ASSUME Init, NEW n \in Node
    PROVE  Source(n)
BY EmptyHasNone, PeerAssumption DEF Init, Source, Distinct

LEMMA FrameOfOwn ==
    \A e \in Envelop :
        /\ NewFrame(e) \in Frame /\ NewFrame(e).id = e.id
        /\ NewFrame(e).kind = "ConfirmReply" <=> e.kind = "ConfirmReply"
BY EnvelopTypes, FrameOfReply

LEMMA SourceStep ==
    ASSUME TypeOK, Known, NEW n \in Node, Source(n), Effect(n)
    PROVE  Source(n)'
<1> DEFINE p == Peer[n]
<1>0. /\ p \in Node /\ wire[p] \in Seq(Frame) /\ accepted[p] \in Seq(MsgId)
      /\ delivered[n] \in Seq(MsgId)
  BY WayTypes
<1>1. CASE Shrinks(n)
  <2>1. Elements(wire'[p]) \subseteq Elements(wire[p])
    BY <1>0, <1>1, ElementsPrefix DEF Shrinks
  <2>2. \/ UNCHANGED <<delivered[n], handing[n]>>
        \/ delivered'[n] = <<>> /\ handing'[n] = NoMsg
    BY <1>1 DEF Shrinks
  <2>. QED
    BY <1>1, <2>1, <2>2, EmptyHasNone DEF Shrinks, Source
<1>2. CASE Accepts(n)
  <2>1. PICK id \in MsgId : /\ id \notin Elements(accepted[p])
                            /\ accepted'[p] = Append(accepted[p], id)
    BY <1>2 DEF Accepts
  <2>2. /\ Elements(accepted'[p]) = Elements(accepted[p]) \union {id}
        /\ Distinct(accepted'[p])
    BY <1>0, <2>1, ElementsAppend, DistinctAppend DEF Source
  <2>. QED
    BY <1>2, <2>2 DEF Accepts, Source
<1>3. CASE Takes(n)
  BY <1>3 DEF Takes, Source
<1>4. CASE Writes(n)
  <2> DEFINE e == msgToSend[p]
             longer == Append(wire[p], NewFrame(e))
  <2>1. e \in Envelop /\ e # NoMsg
    BY <1>4, MsgAssumption DEF Writes
  <2>2. longer \in Seq(Frame) /\ Len(longer) = Len(wire[p]) + 1
    BY <1>0, <2>1, FrameOfOwn, AppendProperties
  <2>3. Elements(longer) = Elements(wire[p]) \union {NewFrame(e)}
    BY <1>0, ElementsAppend
  <2>4. Elements(wire'[p]) \subseteq Elements(wire[p]) \union {NewFrame(e)}
    <3>1. PICK k \in 0 .. Len(wire[p]) + 1 : wire'[p] = Prefix(longer, k)
      BY <1>4 DEF Writes
    <3>. QED
      BY <2>2, <2>3, <3>1, ElementsPrefix
  <2>5. e.kind # "ConfirmReply" => e.id \in Elements(accepted[p])
    <3>1. e.kind # "ConfirmReply" => e.id \in Held(p)
      BY <2>1 DEF Held, OwnIds
    <3>. QED
      BY <1>0, <3>1 DEF Known
  <2>. QED
    BY <1>4, <2>1, <2>4, <2>5, FrameOfOwn DEF Writes, Source
<1>5. CASE Reads(n)
  <2> DEFINE f == Head(wire[p])
  <2>1. /\ f \in Frame /\ f \in Elements(wire[p])
        /\ Elements(wire'[p]) \subseteq Elements(wire[p])
    BY <1>0, <1>5, ElementsTail DEF Reads
  <2>2. f.kind # "ConfirmReply" => f.id \in Elements(accepted[p])
    BY <2>1 DEF Source
  <2>3. f.kind = "MessageConfirmRequest" => f.id \in ConsensusId
    BY <2>1, EnvelopTypes
  <2>4. Elements(Append(delivered[n], f.id)) = Elements(delivered[n]) \union {f.id}
    BY <1>0, ElementsAppend
  <2>5. handing'[n] # NoMsg => handing'[n] \in ConsensusId \intersect Elements(accepted[p])
    BY <1>5, <2>2, <2>3 DEF Reads, ReadsOld, ReadsNew
  <2>6. Elements(delivered'[n]) \subseteq Elements(accepted[p])
    BY <1>5, <2>2, <2>4 DEF Reads, ReadsOld, ReadsNew, Source
  <2>. QED
    BY <1>5, <2>1, <2>5, <2>6 DEF Reads, Source
<1>6. CASE HandsOver(n)
  <2>1. Elements(delivered'[n]) = Elements(delivered[n]) \union {handing[n]}
    BY <1>0, <1>6, ElementsAppend DEF HandsOver
  <2>. QED
    BY <1>6, <2>1 DEF HandsOver, Source
<1>. QED
  BY <1>1, <1>2, <1>3, <1>4, <1>5, <1>6 DEF Effect

-----------------------------------------------------------------------------
(* No message twice.                                                       *)

\* The filter's window is large enough for every id there is.
AllFit == IsFiniteSet(MsgId) /\ Cardinality(MsgId) < Threshold

\* No id has left the window of n since its start.
NoneForgotten(n) == Len(receivedMsgId[n]) < Threshold - 1 \/ AllFit

\* Then the window knows all that the application got or is about to get, and that
\* is no message twice.
Remembered(n) ==
    /\ Distinct(receivedMsgId[n])
    /\ Distinct(delivered[n])
    /\ Elements(delivered[n]) \subseteq Elements(receivedMsgId[n])
    /\ handing[n] # NoMsg => handing[n] \in Elements(receivedMsgId[n])
    /\ handing[n] \notin Elements(delivered[n])

Window(n) == NoneForgotten(n) => Remembered(n)

LEMMA InitWindow ==
    ASSUME Init, NEW n \in Node
    PROVE  Window(n)
BY EmptyHasNone DEF Init, Window, Remembered, Distinct

\* A sequence without repetitions is not longer than there are elements.
LEMMA DistinctIsShort ==
    ASSUME NEW S, IsFiniteSet(S), NEW s \in Seq(S), Distinct(s)
    PROVE  Len(s) <= Cardinality(S)
<1>1. Len(s) \in Nat /\ s \in [1 .. Len(s) -> S]
  OBVIOUS
<1>2. s \in Injection(1 .. Len(s), S)
  BY <1>1, Fun_IsInj DEF Distinct
<1>3. Cardinality(1 .. Len(s)) <= Cardinality(S)
  BY <1>2, FS_Injection
<1>4. Cardinality(1 .. Len(s)) = Len(s)
  BY <1>1, FS_Interval
<1>. QED
  BY <1>3, <1>4

\* If no id has left the window after a new one was remembered, none had before,
\* and the id is now the last in the window.
LEMMA RememberGrows ==
    ASSUME TypeOK, NEW n \in Node, Window(n), NEW id \in MsgId,
           id \notin Elements(receivedMsgId[n]), Remember(n, id), NoneForgotten(n)'
    PROVE  /\ NoneForgotten(n)
           /\ receivedMsgId'[n] = Append(receivedMsgId[n], id)
<1> DEFINE W == receivedMsgId[n]
           longer == Append(W, id)
<1>1. /\ W \in Seq(MsgId) /\ longer \in Seq(MsgId) /\ longer # <<>>
      /\ Len(W) \in Nat /\ Len(longer) = Len(W) + 1 /\ Threshold \in Nat
  <2>1. W \in Seq(MsgId) /\ Threshold \in Nat
    BY BoundAssumption DEF TypeOK
  <2>. QED
    BY <2>1, AppendProperties, LenProperties
<1>2. receivedMsgId'[n] = IF Len(longer) >= Threshold THEN Tail(longer) ELSE longer
  <2>1. receivedMsgId \in [Node -> Seq(MsgId)]
    BY DEF TypeOK
  <2>. QED
    BY <2>1 DEF Remember
<1>3. CASE AllFit
  <2>1. NoneForgotten(n) /\ Distinct(W)
    BY <1>3 DEF NoneForgotten, Window, Remembered
  <2>2. Distinct(longer)
    BY <1>1, <2>1, DistinctAppend
  <2>3. Len(longer) <= Cardinality(MsgId) /\ Cardinality(MsgId) \in Nat
    BY <1>1, <1>3, <2>2, DistinctIsShort, FS_CardinalityType DEF AllFit
  <2>4. ~(Len(longer) >= Threshold)
    BY <1>1, <1>3, <2>3 DEF AllFit
  <2>. QED
    BY <1>2, <2>1, <2>4
<1>4. CASE ~AllFit
  <2>1. Len(receivedMsgId'[n]) < Threshold - 1
    BY <1>4 DEF NoneForgotten, AllFit
  <2>2. ~(Len(longer) >= Threshold)
    <3>1. Len(Tail(longer)) = Len(longer) - 1
      BY <1>1
    <3>. QED
      BY <1>1, <1>2, <2>1, <3>1
  <2>3. Len(W) < Threshold - 1
    BY <1>1, <1>2, <2>1, <2>2
  <2>. QED
    BY <1>2, <2>2, <2>3 DEF NoneForgotten
<1>. QED
  BY <1>3, <1>4

LEMMA WindowStep ==
    ASSUME TypeOK, NEW n \in Node, Window(n), Effect(n)
    PROVE  Window(n)'
<1> DEFINE p == Peer[n]
<1>0. /\ wire[p] \in Seq(Frame) /\ delivered[n] \in Seq(MsgId)
      /\ receivedMsgId[n] \in Seq(MsgId) /\ NoMsg \notin MsgId
  BY WayTypes, MsgAssumption
<1>1. CASE UNCHANGED <<delivered[n], handing[n], receivedMsgId[n]>>
  BY <1>1 DEF Window, NoneForgotten, AllFit, Remembered
<1>2. CASE delivered'[n] = <<>> /\ handing'[n] = NoMsg /\ receivedMsgId'[n] = <<>>
  BY <1>2, EmptyHasNone DEF Window, Remembered, Distinct
<1>3. CASE Reads(n) /\ ReadsNew(n, Head(wire[p]))
  <2> DEFINE f == Head(wire[p])
  <2>1. f \in Frame /\ f.id \in MsgId
    BY <1>0, <1>3, ElementsTail, EnvelopTypes DEF Reads
  <2>2. SUFFICES ASSUME NoneForgotten(n)' PROVE Remembered(n)'
    BY DEF Window
  <2>3. NoneForgotten(n) /\ receivedMsgId'[n] = Append(receivedMsgId[n], f.id)
    BY <1>3, <2>1, <2>2, RememberGrows DEF ReadsNew
  <2>4. Remembered(n) /\ f.id \notin Elements(receivedMsgId[n]) /\ handing[n] = NoMsg
    BY <1>3, <2>3 DEF Window, ReadsNew, Reads
  <2>5. /\ Elements(receivedMsgId'[n]) = Elements(receivedMsgId[n]) \union {f.id}
        /\ Distinct(receivedMsgId'[n])
    BY <1>0, <2>3, <2>4, ElementsAppend, DistinctAppend DEF Remembered
  <2>6. f.id \notin Elements(delivered[n]) /\ NoMsg \notin Elements(delivered[n])
    BY <1>0, <2>4, ElementsIn DEF Remembered
  <2>7. CASE delivered'[n] = delivered[n] /\ handing'[n] \in {NoMsg, f.id}
    BY <2>4, <2>5, <2>6, <2>7 DEF Remembered
  <2>8. CASE delivered'[n] = Append(delivered[n], f.id) /\ handing'[n] = NoMsg
    <3>1. /\ Elements(delivered'[n]) = Elements(delivered[n]) \union {f.id}
          /\ Distinct(delivered'[n])
      BY <1>0, <2>4, <2>6, <2>8, ElementsAppend, DistinctAppend DEF Remembered
    <3>2. NoMsg \notin Elements(delivered'[n])
      BY <1>0, <2>1, <2>6, <3>1
    <3>. QED
      BY <2>4, <2>5, <2>8, <3>1, <3>2 DEF Remembered
  <2>. QED
    BY <1>3, <2>7, <2>8 DEF ReadsNew
<1>4. CASE HandsOver(n)
  <2>1. SUFFICES ASSUME NoneForgotten(n)' PROVE Remembered(n)'
    BY DEF Window
  <2>2. Remembered(n) /\ receivedMsgId'[n] = receivedMsgId[n]
    BY <1>4, <2>1 DEF HandsOver, Window, NoneForgotten, AllFit
  <2>3. /\ Elements(delivered'[n]) = Elements(delivered[n]) \union {handing[n]}
        /\ Distinct(delivered'[n])
    BY <1>0, <1>4, <2>2, ElementsAppend, DistinctAppend DEF HandsOver, Remembered
  <2>4. NoMsg \notin Elements(delivered'[n])
    BY <1>0, <1>4, <2>3, ElementsIn DEF HandsOver
  <2>. QED
    BY <1>4, <2>2, <2>3, <2>4 DEF HandsOver, Remembered
<1>. QED
  BY <1>1, <1>2, <1>3, <1>4
     DEF Effect, Shrinks, Accepts, Takes, Writes, Reads, ReadsOld

-----------------------------------------------------------------------------
(* Plain messages in order.                                                *)

Plain(id) == id \notin ConsensusId

\* x has a place before one of y.
Precedes(s, x, y) == \E i, j \in 1 .. Len(s) : i < j /\ s[i] = x /\ s[j] = y

\* The plain messages of t are in the order of s.
InOrder(s, t) ==
    \A i, j \in 1 .. Len(t) :
        i < j /\ Plain(t[i]) /\ Plain(t[j]) => Precedes(s, t[i], t[j])
InOrderById(s, t) ==
    \A i, j \in 1 .. Len(t) :
        i < j /\ Plain(t[i].id) /\ Plain(t[j].id) => Precedes(s, t[i].id, t[j].id)

\* The id that the filter of n remembered last.
Latest(n, id) ==
    receivedMsgId[n] # <<>> /\ receivedMsgId[n][Len(receivedMsgId[n])] = id

\* What waits in the queue was accepted after everything on the way and received.
QueueLast(n) ==
    \A e \in Elements(messageQueue[Peer[n]]) : Plain(e.id) =>
        /\ \A d \in Elements(delivered[n]) :
              Plain(d) => Precedes(accepted[Peer[n]], d, e.id)
        /\ \A f \in Elements(wire[Peer[n]]) :
              Plain(f.id) => Precedes(accepted[Peer[n]], f.id, e.id)
        /\ msgToSend[Peer[n]] # NoMsg /\ Plain(msgToSend[Peer[n]].id)
              => Precedes(accepted[Peer[n]], msgToSend[Peer[n]].id, e.id)

\* What is in flight was accepted after what was received.  The one exception is a
\* message of which a first copy arrived although its write failed: the copy comes
\* next, and the filter still knows the id.
FlightAfterDelivered(n) ==
    \A d \in Elements(delivered[n]) : \A k \in 1 .. Len(wire[Peer[n]]) :
        Plain(d) /\ Plain(wire[Peer[n]][k].id) =>
            \/ Precedes(accepted[Peer[n]], d, wire[Peer[n]][k].id)
            \/ wire[Peer[n]][k].id = d /\ k = 1 /\ Latest(n, d)

\* So was the message of the send cycle, unless a write of it failed: then it may be
\* the last in flight, with no stream left, or have been the last that arrived.
HeldAfterDelivered(n) ==
    msgToSend[Peer[n]] # NoMsg /\ Plain(msgToSend[Peer[n]].id) =>
        \A d \in Elements(delivered[n]) : Plain(d) =>
            \/ Precedes(accepted[Peer[n]], d, msgToSend[Peer[n]].id)
            \/ /\ msgToSend[Peer[n]].id = d /\ Latest(n, d)
               /\ \/ wire[Peer[n]] = <<>>
                  \/ /\ outboundStream[Peer[n]] = "nil"
                     /\ \A f \in Elements(wire[Peer[n]]) : f.id = d
HeldAfterFlight(n) ==
    msgToSend[Peer[n]] # NoMsg /\ Plain(msgToSend[Peer[n]].id) =>
        \A k \in 1 .. Len(wire[Peer[n]]) : Plain(wire[Peer[n]][k].id) =>
            \/ Precedes(accepted[Peer[n]], wire[Peer[n]][k].id, msgToSend[Peer[n]].id)
            \/ /\ wire[Peer[n]][k].id = msgToSend[Peer[n]].id
               /\ outboundStream[Peer[n]] = "nil" /\ k = Len(wire[Peer[n]])

Order(n) ==
    /\ InOrder(accepted[Peer[n]], delivered[n])
    /\ InOrderById(accepted[Peer[n]], wire[Peer[n]])
    /\ InOrderById(accepted[Peer[n]], messageQueue[Peer[n]])
    /\ QueueLast(n)
    /\ FlightAfterDelivered(n)
    /\ HeldAfterDelivered(n)
    /\ HeldAfterFlight(n)

LEMMA InitOrder ==
    ASSUME Init, NEW n \in Node
    PROVE  Order(n)
<1>1. /\ Peer[n] \in Node /\ delivered[n] = <<>>
      /\ wire[Peer[n]] = <<>> /\ messageQueue[Peer[n]] = <<>> /\ msgToSend[Peer[n]] = NoMsg
  BY PeerAssumption DEF Init
<1>. QED
  BY <1>1, EmptyHasNone DEF Order, InOrder, InOrderById, QueueLast, FlightAfterDelivered,
                            HeldAfterDelivered, HeldAfterFlight

LEMMA PrecedesAppend ==
    ASSUME NEW S, NEW s \in Seq(S), NEW id
    PROVE  /\ \A x, y : Precedes(s, x, y) => Precedes(Append(s, id), x, y)
           /\ \A x \in Elements(s) : Precedes(Append(s, id), x, id)
<1>1. /\ Len(s) \in Nat /\ Len(Append(s, id)) = Len(s) + 1
      /\ \A k \in 1 .. Len(s) : Append(s, id)[k] = s[k]
      /\ Append(s, id)[Len(s) + 1] = id
  OBVIOUS
<1>2. ASSUME NEW x, NEW y, Precedes(s, x, y) PROVE Precedes(Append(s, id), x, y)
  BY <1>1, <1>2 DEF Precedes
<1>3. ASSUME NEW i \in 1 .. Len(s) PROVE Precedes(Append(s, id), s[i], id)
  BY <1>1 DEF Precedes
<1>. QED
  BY <1>2, <1>3 DEF Elements

\* A queue that is kept has the plain messages it had, in the order it had.
LEMMA QueueKeptOrder ==
    ASSUME TypeOK, NEW p \in Node, QueueKept(p), NEW s, InOrderById(s, messageQueue[p])
    PROVE  /\ InOrderById(s, messageQueue'[p])
           /\ \A e \in Elements(messageQueue'[p]) :
                 Plain(e.id) => e \in Elements(messageQueue[p])
<1> DEFINE Q == messageQueue[p]
<1>0. Q \in Seq(Envelop)
  BY DEF TypeOK
<1>1. CASE messageQueue'[p] = Q
  BY <1>1
<1>2. CASE messageQueue'[p] = <<>>
  BY <1>2, EmptyHasNone DEF InOrderById
<1>3. ASSUME NEW e \in Envelop, e.id \in ConsensusId, messageQueue'[p] = Append(Q, e)
      PROVE  /\ InOrderById(s, messageQueue'[p])
             /\ \A x \in Elements(messageQueue'[p]) : Plain(x.id) => x \in Elements(Q)
  <2>1. /\ Len(Q) \in Nat /\ Len(Append(Q, e)) = Len(Q) + 1
        /\ \A k \in 1 .. Len(Q) : Append(Q, e)[k] = Q[k]
        /\ Append(Q, e)[Len(Q) + 1] = e
    BY <1>0
  <2>2. ASSUME NEW i \in 1 .. Len(Q) + 1, NEW j \in 1 .. Len(Q) + 1, i < j,
               Plain(Append(Q, e)[i].id), Plain(Append(Q, e)[j].id)
        PROVE  Precedes(s, Append(Q, e)[i].id, Append(Q, e)[j].id)
    <3>1. i # Len(Q) + 1 /\ j # Len(Q) + 1
      BY <1>3, <2>1, <2>2 DEF Plain
    <3>2. /\ i \in 1 .. Len(Q) /\ j \in 1 .. Len(Q)
          /\ Append(Q, e)[i] = Q[i] /\ Append(Q, e)[j] = Q[j]
      BY <2>1, <3>1
    <3>. QED
      BY <2>2, <3>2 DEF InOrderById
  <2>3. Elements(Append(Q, e)) = Elements(Q) \union {e}
    BY <1>0, ElementsAppend
  <2>. QED
    BY <1>3, <2>1, <2>2, <2>3 DEF InOrderById, Plain
<1>. QED
  BY <1>1, <1>2, <1>3 DEF QueueKept

LEMMA ShrinkKeepsOrder ==
    ASSUME TypeOK, NEW n \in Node, Order(n), Shrinks(n)
    PROVE  Order(n)'
<1> DEFINE p == Peer[n]
           A == accepted[p]
           X == wire[p]
<1>0. p \in Node /\ X \in Seq(Frame)
  BY WayTypes
<1>1. accepted'[p] = A /\ QueueKept(p) /\ msgToSend'[p] \in {msgToSend[p], NoMsg}
  BY DEF Shrinks
<1>2. PICK k \in 0 .. Len(X) : wire'[p] = Prefix(X, k)
  BY DEF Shrinks
<1>3. /\ Len(X) \in Nat /\ Len(wire'[p]) = k
      /\ \A i \in 1 .. k : wire'[p][i] = X[i] /\ i \in 1 .. Len(X)
      /\ Elements(wire'[p]) \subseteq Elements(X)
  <2>1. Len(X) \in Nat
    BY <1>0, LenProperties
  <2>2. Len(Prefix(X, k)) = k /\ \A i \in 1 .. k : Prefix(X, k)[i] = X[i]
    BY <1>0, TakePrefix
  <2>3. Elements(Prefix(X, k)) \subseteq Elements(X)
    BY <1>0, ElementsPrefix
  <2>4. \A i \in 1 .. k : i \in 1 .. Len(X)
    BY <2>1
  <2>. QED
    BY <1>2, <2>1, <2>2, <2>3, <2>4, Zenon
<1>4. \/ delivered'[n] = delivered[n] /\ \A d : Latest(n, d) => Latest(n, d)'
      \/ delivered'[n] = <<>>
  BY DEF Shrinks, Latest
<1>5. /\ InOrderById(A, messageQueue'[p])
      /\ \A e \in Elements(messageQueue'[p]) :
            Plain(e.id) => e \in Elements(messageQueue[p])
  BY <1>0, <1>1, QueueKeptOrder DEF Order
<1>6. InOrder(A, delivered'[n]) /\ Elements(delivered'[n]) \subseteq Elements(delivered[n])
  BY <1>4, EmptyHasNone DEF Order, InOrder
<1>7. InOrderById(A, wire'[p])
  BY <1>3 DEF Order, InOrderById
<1>8. QueueLast(n)'
  BY <1>1, <1>3, <1>5, <1>6 DEF Order, QueueLast
<1>9. FlightAfterDelivered(n)'
  <2>1. CASE delivered'[n] = <<>>
    BY <2>1, EmptyHasNone DEF FlightAfterDelivered
  <2>2. CASE delivered'[n] = delivered[n] /\ \A d : Latest(n, d) => Latest(n, d)'
    BY <1>1, <1>3, <2>2 DEF Order, FlightAfterDelivered
  <2>. QED
    BY <1>4, <2>1, <2>2
<1>10. outboundStream[p] = "nil" => outboundStream'[p] = "nil" \/ wire'[p] = <<>>
  BY DEF Shrinks
<1>11. X = <<>> => wire'[p] = <<>>
  <2>1. SUFFICES ASSUME X = <<>> PROVE wire'[p] = <<>>
    OBVIOUS
  <2>2. k = 0
    BY <2>1
  <2>. QED
    BY <1>0, <1>2, <2>2, WholePrefix
<1>12. HeldAfterDelivered(n)'
  <2>1. CASE delivered'[n] = <<>>
    BY <2>1, EmptyHasNone DEF HeldAfterDelivered
  <2>2. CASE delivered'[n] = delivered[n] /\ \A d : Latest(n, d) => Latest(n, d)'
    BY <1>1, <1>3, <1>10, <1>11, <2>2 DEF Order, HeldAfterDelivered
  <2>. QED
    BY <1>4, <2>1, <2>2
<1>13. HeldAfterFlight(n)'
  <2>1. CASE msgToSend'[p] = NoMsg
    BY <2>1 DEF HeldAfterFlight
  <2>2. ASSUME msgToSend'[p] = msgToSend[p], msgToSend[p] # NoMsg, Plain(msgToSend[p].id),
               NEW i \in 1 .. Len(wire'[p]), Plain(wire'[p][i].id)
        PROVE  \/ Precedes(A, wire'[p][i].id, msgToSend[p].id)
               \/ /\ wire'[p][i].id = msgToSend[p].id
                  /\ outboundStream'[p] = "nil" /\ i = Len(wire'[p])
    <3>1. i \in 1 .. Len(X) /\ wire'[p][i] = X[i] /\ i \in 1 .. k
      BY <1>3, <2>2
    <3>2. \/ Precedes(A, X[i].id, msgToSend[p].id)
          \/ X[i].id = msgToSend[p].id /\ outboundStream[p] = "nil" /\ i = Len(X)
      BY <2>2, <3>1 DEF Order, HeldAfterFlight
    <3>3. wire'[p] # <<>>
      BY <1>3, <3>1, EmptyHasNone
    <3>4. i = Len(X) => i = Len(wire'[p])
      BY <1>3, <3>1
    <3>. QED
      BY <1>10, <3>1, <3>2, <3>3, <3>4
  <2>. QED
    BY <1>1, <2>1, <2>2 DEF HeldAfterFlight
<1>. QED
  BY <1>1, <1>5, <1>6, <1>7, <1>8, <1>9, <1>12, <1>13 DEF Order

LEMMA AcceptKeepsOrder ==
    ASSUME TypeOK, Known, NEW n \in Node, Source(n), Order(n), Accepts(n)
    PROVE  Order(n)'
<1> DEFINE p == Peer[n]
           A == accepted[p]
           Q == messageQueue[p]
<1>0. /\ p \in Node /\ A \in Seq(MsgId) /\ Q \in Seq(Envelop) /\ wire[p] \in Seq(Frame)
      /\ msgToSend[p] \in Envelop \union {NoMsg}
  BY WayTypes
<1>1. PICK id \in MsgId : /\ accepted'[p] = Append(A, id)
                          /\ messageQueue'[p] = Append(Q, NewEnvelop(id))
  BY DEF Accepts
<1>2. UNCHANGED <<delivered[n], handing[n], receivedMsgId[n],
                  wire[p], msgToSend[p], outboundStream[p]>>
  BY DEF Accepts
<1>3. \A x, y : Precedes(A, x, y) => Precedes(accepted'[p], x, y)
  BY <1>0, <1>1, PrecedesAppend
<1>4. \A x \in Elements(A) : Precedes(accepted'[p], x, id)
  BY <1>0, <1>1, PrecedesAppend
<1>5. Held(p) \subseteq Elements(A)
  BY <1>0 DEF Known
<1>6. \A e \in Elements(Q) : Plain(e.id) => e.id \in Elements(A)
  <2>1. SUFFICES ASSUME NEW e \in Elements(Q), Plain(e.id) PROVE e.id \in Held(p)
    BY <1>5
  <2>2. e \in Envelop
    BY <1>0, ElementsIn
  <2>3. e.kind # "ConfirmReply"
    BY <2>1, <2>2, EnvelopTypes DEF Plain
  <2>. QED
    BY <2>1, <2>3 DEF Held, OwnIds
<1>7. msgToSend[p] # NoMsg /\ Plain(msgToSend[p].id) => msgToSend[p].id \in Elements(A)
  <2>1. SUFFICES ASSUME msgToSend[p] # NoMsg, Plain(msgToSend[p].id)
                 PROVE  msgToSend[p].id \in Held(p)
    BY <1>5
  <2>2. msgToSend[p].kind # "ConfirmReply"
    BY <1>0, <2>1, EnvelopTypes DEF Plain
  <2>. QED
    BY <2>1, <2>2 DEF Held, OwnIds
<1>8. \A f \in Elements(wire[p]) : Plain(f.id) => f.id \in Elements(A)
  <2>1. \A f \in Elements(wire[p]) : f \in Frame
    BY <1>0, ElementsIn
  <2>2. \A f \in Elements(wire[p]) : Plain(f.id) => f.kind = "Message"
    BY <2>1, EnvelopTypes DEF Plain
  <2>. QED
    BY <2>2 DEF Source
<1>9. \A d \in Elements(delivered[n]) : d \in Elements(A)
  BY DEF Source
<1>10. /\ Len(Q) \in Nat /\ Len(messageQueue'[p]) = Len(Q) + 1
       /\ \A k \in 1 .. Len(Q) : messageQueue'[p][k] = Q[k] /\ Q[k] \in Elements(Q)
       /\ messageQueue'[p][Len(Q) + 1] = NewEnvelop(id) /\ NewEnvelop(id).id = id
  BY <1>0, <1>1 DEF Elements, NewEnvelop
<1>11. Elements(messageQueue'[p]) = Elements(Q) \union {NewEnvelop(id)}
  BY <1>0, <1>1, ElementsAppend
<1>12. InOrderById(accepted'[p], messageQueue'[p])
  <2>1. SUFFICES ASSUME NEW i \in 1 .. Len(Q) + 1, NEW j \in 1 .. Len(Q) + 1, i < j,
                        Plain(messageQueue'[p][i].id), Plain(messageQueue'[p][j].id)
                 PROVE  Precedes(accepted'[p], messageQueue'[p][i].id, messageQueue'[p][j].id)
    BY <1>10 DEF InOrderById
  <2>2. i \in 1 .. Len(Q)
    BY <1>10, <2>1
  <2>3. CASE j \in 1 .. Len(Q)
    BY <1>3, <1>10, <2>1, <2>2, <2>3 DEF Order, InOrderById
  <2>4. CASE j = Len(Q) + 1
    BY <1>4, <1>6, <1>10, <2>1, <2>2, <2>4
  <2>. QED
    BY <1>10, <2>3, <2>4
<1>13. InOrder(accepted'[p], delivered'[n]) /\ InOrderById(accepted'[p], wire'[p])
  BY <1>2, <1>3 DEF Order, InOrder, InOrderById
<1>14. QueueLast(n)'
  <2>1. ASSUME NEW e \in Elements(messageQueue'[p]), Plain(e.id)
        PROVE  /\ \A d \in Elements(delivered[n]) :
                     Plain(d) => Precedes(accepted'[p], d, e.id)
               /\ \A f \in Elements(wire[p]) :
                     Plain(f.id) => Precedes(accepted'[p], f.id, e.id)
               /\ msgToSend[p] # NoMsg /\ Plain(msgToSend[p].id)
                     => Precedes(accepted'[p], msgToSend[p].id, e.id)
    <3>1. CASE e \in Elements(Q)
      BY <1>3, <2>1, <3>1 DEF Order, QueueLast
    <3>2. CASE e = NewEnvelop(id)
      BY <1>4, <1>7, <1>8, <1>9, <1>10, <3>2
    <3>. QED
      BY <1>11, <2>1, <3>1, <3>2
  <2>. QED
    BY <1>2, <2>1 DEF QueueLast
<1>15. FlightAfterDelivered(n)'
  BY <1>2, <1>3 DEF Order, FlightAfterDelivered, Latest
<1>16. HeldAfterDelivered(n)' /\ HeldAfterFlight(n)'
  BY <1>2, <1>3 DEF Order, HeldAfterDelivered, HeldAfterFlight, Latest
<1>. QED
  BY <1>12, <1>13, <1>14, <1>15, <1>16 DEF Order

LEMMA TakeKeepsOrder ==
    ASSUME TypeOK, NEW n \in Node, Order(n), Takes(n)
    PROVE  Order(n)'
<1> DEFINE p == Peer[n]
           A == accepted[p]
           Q == messageQueue[p]
<1>0. p \in Node /\ Q \in Seq(Envelop) /\ Q # <<>>
  BY WayTypes DEF Takes
<1>1. /\ msgToSend'[p] = Head(Q) /\ messageQueue'[p] = Tail(Q)
      /\ UNCHANGED <<accepted[p], delivered[n], receivedMsgId[n], wire[p], outboundStream[p]>>
  BY DEF Takes
<1>2. /\ Len(Q) \in Nat /\ 1 \in 1 .. Len(Q) /\ Head(Q) = Q[1]
      /\ Len(Tail(Q)) = Len(Q) - 1
      /\ \A k \in 1 .. Len(Q) - 1 : Tail(Q)[k] = Q[k + 1] /\ k + 1 \in 1 .. Len(Q)
  BY <1>0
<1>3. Elements(Q) = Elements(Tail(Q)) \union {Head(Q)}
  BY <1>0, ElementsTail
<1>4. InOrderById(A, Tail(Q))
  <2>1. SUFFICES ASSUME NEW i \in 1 .. Len(Q) - 1, NEW j \in 1 .. Len(Q) - 1, i < j,
                        Plain(Tail(Q)[i].id), Plain(Tail(Q)[j].id)
                 PROVE  Precedes(A, Tail(Q)[i].id, Tail(Q)[j].id)
    BY <1>2 DEF InOrderById
  <2>2. /\ Tail(Q)[i] = Q[i + 1] /\ Tail(Q)[j] = Q[j + 1] /\ i + 1 < j + 1
        /\ i + 1 \in 1 .. Len(Q) /\ j + 1 \in 1 .. Len(Q)
    BY <1>2, <2>1
  <2>. QED
    BY <2>1, <2>2 DEF Order, InOrderById
<1>5. QueueLast(n)'
  <2>1. ASSUME NEW k \in 1 .. Len(Q) - 1, Plain(Tail(Q)[k].id), Plain(Head(Q).id)
        PROVE  Precedes(A, Head(Q).id, Tail(Q)[k].id)
    <3>1. Tail(Q)[k] = Q[k + 1] /\ k + 1 \in 1 .. Len(Q) /\ 1 < k + 1
      BY <1>2
    <3>. QED
      BY <1>2, <2>1, <3>1 DEF Order, InOrderById
  <2>2. \A e \in Elements(Tail(Q)) :
           Plain(e.id) /\ Plain(Head(Q).id) => Precedes(A, Head(Q).id, e.id)
    BY <1>2, <2>1 DEF Elements
  <2>. QED
    BY <1>1, <1>3, <2>2 DEF Order, QueueLast
<1>6. Head(Q) \in Elements(Q)
  BY <1>3
<1>7. HeldAfterDelivered(n)'
  BY <1>1, <1>6 DEF Order, QueueLast, HeldAfterDelivered
<1>8. HeldAfterFlight(n)'
  <2>1. \A k \in 1 .. Len(wire[p]) : wire[p][k] \in Elements(wire[p])
    BY DEF Elements
  <2>. QED
    BY <1>1, <1>6, <2>1 DEF Order, QueueLast, HeldAfterFlight
<1>9. FlightAfterDelivered(n)'
  BY <1>1 DEF Order, FlightAfterDelivered, Latest
<1>. QED
  BY <1>1, <1>4, <1>5, <1>7, <1>8, <1>9 DEF Order

LEMMA WriteKeepsOrder ==
    ASSUME TypeOK, NEW n \in Node, Order(n), Writes(n)
    PROVE  Order(n)'
<1> DEFINE p == Peer[n]
           A == accepted[p]
           X == wire[p]
           e == msgToSend[p]
           g == NewFrame(e)
<1>0. /\ p \in Node /\ X \in Seq(Frame) /\ e \in Envelop /\ e # NoMsg
      /\ g \in Frame /\ g.id = e.id
  BY WayTypes, MsgAssumption, FrameOfOwn DEF Writes
<1>1. /\ outboundStream[p] = "open" /\ QueueKept(p)
      /\ msgToSend'[p] = NoMsg \/ (msgToSend'[p] = e /\ outboundStream'[p] = "nil")
      /\ UNCHANGED <<accepted[p], delivered[n], receivedMsgId[n]>>
  BY DEF Writes
<1>2. PICK k \in 0 .. Len(X) + 1 : wire'[p] = Prefix(Append(X, g), k)
  BY DEF Writes
<1>3. /\ Append(X, g) \in Seq(Frame) /\ Len(X) \in Nat /\ Len(Append(X, g)) = Len(X) + 1
      /\ \A i \in 1 .. Len(X) : Append(X, g)[i] = X[i]
      /\ Append(X, g)[Len(X) + 1] = g
  BY <1>0, AppendProperties, LenProperties
<1>4. /\ Len(wire'[p]) = k
      /\ \A i \in 1 .. k : \/ i \in 1 .. Len(X) /\ wire'[p][i] = X[i]
                           \/ i = Len(X) + 1 /\ i = k /\ wire'[p][i] = g
  <2> DEFINE longer == Append(X, g)
  <2>1. Len(wire'[p]) = k /\ \A i \in 1 .. k : wire'[p][i] = longer[i]
    <3>1. longer \in Seq(Frame) /\ k \in 0 .. Len(longer) /\ wire'[p] = Prefix(longer, k)
      BY <1>2, <1>3
    <3> HIDE DEF longer
    <3>. QED
      BY <3>1, TakePrefix
  <2>. QED
    BY <1>3, <2>1
<1>5. Elements(wire'[p]) \subseteq Elements(X) \union {g}
  BY <1>4 DEF Elements
<1>6. /\ InOrderById(A, messageQueue'[p])
      /\ \A x \in Elements(messageQueue'[p]) :
            Plain(x.id) => x \in Elements(messageQueue[p])
  BY <1>0, <1>1, QueueKeptOrder DEF Order
<1>7. \A i \in 1 .. Len(X) : Plain(X[i].id) /\ Plain(e.id) => Precedes(A, X[i].id, e.id)
  BY <1>0, <1>1 DEF Order, HeldAfterFlight
<1>8. \A d \in Elements(delivered[n]) : Plain(d) /\ Plain(e.id) =>
          Precedes(A, d, e.id) \/ (e.id = d /\ Latest(n, d) /\ X = <<>>)
  BY <1>0, <1>1 DEF Order, HeldAfterDelivered
<1>9. InOrderById(A, wire'[p])
  <2>1. SUFFICES ASSUME NEW i \in 1 .. k, NEW j \in 1 .. k, i < j,
                        Plain(wire'[p][i].id), Plain(wire'[p][j].id)
                 PROVE  Precedes(A, wire'[p][i].id, wire'[p][j].id)
    BY <1>4 DEF InOrderById
  <2>2. i \in 1 .. Len(X) /\ wire'[p][i] = X[i]
    BY <1>4, <2>1
  <2>3. CASE j \in 1 .. Len(X) /\ wire'[p][j] = X[j]
    BY <2>1, <2>2, <2>3 DEF Order, InOrderById
  <2>4. CASE wire'[p][j] = g
    BY <1>0, <1>7, <2>1, <2>2, <2>4
  <2>. QED
    BY <1>4, <2>3, <2>4
<1>10. QueueLast(n)'
  BY <1>0, <1>1, <1>5, <1>6 DEF Order, QueueLast
<1>11. FlightAfterDelivered(n)'
  <2>1. SUFFICES ASSUME NEW d \in Elements(delivered[n]), NEW i \in 1 .. k,
                        Plain(d), Plain(wire'[p][i].id)
                 PROVE  \/ Precedes(A, d, wire'[p][i].id)
                        \/ wire'[p][i].id = d /\ i = 1 /\ Latest(n, d)
    BY <1>1, <1>4 DEF FlightAfterDelivered, Latest
  <2>2. CASE i \in 1 .. Len(X) /\ wire'[p][i] = X[i]
    BY <2>1, <2>2 DEF Order, FlightAfterDelivered
  <2>3. CASE i = Len(X) + 1 /\ wire'[p][i] = g
    <3>1. X = <<>> => i = 1
      BY <2>3, EmptyHasNone
    <3>. QED
      BY <1>0, <1>8, <2>1, <2>3, <3>1
  <2>. QED
    BY <1>4, <2>2, <2>3
<1>12. HeldAfterDelivered(n)'
  <2>1. CASE msgToSend'[p] = NoMsg
    BY <2>1 DEF HeldAfterDelivered
  <2>2. CASE msgToSend'[p] = e /\ outboundStream'[p] = "nil"
    <3>1. SUFFICES ASSUME Plain(e.id), NEW d \in Elements(delivered[n]), Plain(d)
                   PROVE  \/ Precedes(A, d, e.id)
                          \/ /\ e.id = d /\ Latest(n, d)
                             /\ \A f \in Elements(wire'[p]) : f.id = d
      BY <1>1, <2>2 DEF HeldAfterDelivered, Latest
    <3>2. X = <<>> => Elements(wire'[p]) \subseteq {g}
      BY <1>5, EmptyHasNone
    <3>. QED
      BY <1>0, <1>8, <3>1, <3>2
  <2>. QED
    BY <1>1, <2>1, <2>2
<1>13. HeldAfterFlight(n)'
  <2>1. CASE msgToSend'[p] = NoMsg
    BY <2>1 DEF HeldAfterFlight
  <2>2. CASE msgToSend'[p] = e /\ outboundStream'[p] = "nil"
    BY <1>0, <1>1, <1>4, <1>7, <2>2 DEF HeldAfterFlight
  <2>. QED
    BY <1>1, <2>1, <2>2
<1>. QED
  BY <1>1, <1>6, <1>9, <1>10, <1>11, <1>12, <1>13 DEF Order, InOrder

LEMMA InOrderAppend ==
    ASSUME NEW S, NEW t \in Seq(S), NEW s, NEW x, InOrder(s, t),
           \A d \in Elements(t) : Plain(d) /\ Plain(x) => Precedes(s, d, x)
    PROVE  InOrder(s, Append(t, x))
<1>1. /\ Len(t) \in Nat /\ Len(Append(t, x)) = Len(t) + 1
      /\ \A k \in 1 .. Len(t) : Append(t, x)[k] = t[k] /\ t[k] \in Elements(t)
      /\ Append(t, x)[Len(t) + 1] = x
  BY DEF Elements
<1>2. SUFFICES ASSUME NEW i \in 1 .. Len(t) + 1, NEW j \in 1 .. Len(t) + 1, i < j,
                      Plain(Append(t, x)[i]), Plain(Append(t, x)[j])
               PROVE  Precedes(s, Append(t, x)[i], Append(t, x)[j])
  BY <1>1 DEF InOrder
<1>3. i \in 1 .. Len(t)
  BY <1>1, <1>2
<1>4. CASE j \in 1 .. Len(t)
  BY <1>1, <1>2, <1>3, <1>4 DEF InOrder
<1>5. CASE j = Len(t) + 1
  BY <1>1, <1>2, <1>3, <1>5
<1>. QED
  BY <1>1, <1>4, <1>5

\* In a window of two or more, the id remembered last is the latest.
LEMMA RememberedIsLatest ==
    ASSUME TypeOK, Threshold > 1, NEW n \in Node, NEW id \in MsgId, Remember(n, id)
    PROVE  Latest(n, id)'
<1> DEFINE W == receivedMsgId[n]
           longer == Append(W, id)
<1>1. W \in Seq(MsgId) /\ Threshold \in Nat
  BY BoundAssumption DEF TypeOK
<1>2. receivedMsgId'[n] = IF Len(longer) >= Threshold THEN Tail(longer) ELSE longer
  <2>1. receivedMsgId \in [Node -> Seq(MsgId)]
    BY DEF TypeOK
  <2>. QED
    BY <2>1 DEF Remember
<1>3. /\ longer \in Seq(MsgId) /\ Len(W) \in Nat
      /\ Len(longer) = Len(W) + 1 /\ longer[Len(longer)] = id
  BY <1>1
<1> HIDE DEF longer, W
<1>4. CASE Len(longer) >= Threshold
  <2>1. Len(longer) > 1 /\ longer # <<>>
    BY <1>1, <1>3, <1>4
  <2>2. /\ Len(Tail(longer)) = Len(longer) - 1
        /\ Tail(longer)[Len(longer) - 1] = longer[Len(longer)]
        /\ Tail(longer) # <<>>
    BY <1>3, <2>1
  <2>. QED
    BY <1>2, <1>3, <1>4, <2>2 DEF Latest
<1>5. CASE ~(Len(longer) >= Threshold)
  <2>1. longer # <<>>
    BY <1>3
  <2>. QED
    BY <1>2, <1>3, <1>5, <2>1 DEF Latest
<1>. QED
  BY <1>4, <1>5

LEMMA ReadKeepsOrder ==
    ASSUME TypeOK, Threshold > 1, NEW n \in Node, Order(n), Reads(n)
    PROVE  Order(n)'
<1> DEFINE p == Peer[n]
           A == accepted[p]
           X == wire[p]
           D == delivered[n]
           f == Head(X)
<1>0. /\ p \in Node /\ X \in Seq(Frame) /\ X # <<>> /\ D \in Seq(MsgId)
      /\ receivedMsgId[n] \in Seq(MsgId)
  BY WayTypes DEF Reads
<1>1. /\ wire'[p] = Tail(X)
      /\ UNCHANGED <<accepted[p], msgToSend[p], messageQueue[p], outboundStream[p]>>
  BY DEF Reads
<1>2. /\ Len(X) \in Nat /\ 1 \in 1 .. Len(X) /\ f = X[1] /\ Len(wire'[p]) = Len(X) - 1
      /\ \A k \in 1 .. Len(X) - 1 : wire'[p][k] = X[k + 1] /\ k + 1 \in 1 .. Len(X)
  BY <1>0, <1>1
<1>3. Elements(X) = Elements(wire'[p]) \union {f}
  BY <1>0, <1>1, ElementsTail
<1>4. f \in Frame /\ f.id \in MsgId /\ (Plain(f.id) => f.kind = "Message")
  <2>1. f \in Frame
    BY <1>0
  <2>. QED
    BY <2>1, EnvelopTypes DEF Plain
<1> HIDE DEF f
<1>5. InOrderById(A, wire'[p])
  <2>1. SUFFICES ASSUME NEW i \in 1 .. Len(X) - 1, NEW j \in 1 .. Len(X) - 1, i < j,
                        Plain(wire'[p][i].id), Plain(wire'[p][j].id)
                 PROVE  Precedes(A, wire'[p][i].id, wire'[p][j].id)
    BY <1>2 DEF InOrderById
  <2>2. i + 1 < j + 1 /\ i + 1 \in 1 .. Len(X) /\ j + 1 \in 1 .. Len(X)
    BY <1>2, <2>1
  <2>. QED
    BY <1>2, <2>1, <2>2 DEF Order, InOrderById
<1>6. ASSUME NEW k \in 1 .. Len(X) - 1, Plain(wire'[p][k].id)
      PROVE  /\ Plain(f.id) => Precedes(A, f.id, wire'[p][k].id)
             /\ \A d \in Elements(D) : Plain(d) => Precedes(A, d, wire'[p][k].id)
  <2>1. wire'[p][k] = X[k + 1] /\ k + 1 \in 1 .. Len(X) /\ 1 < k + 1 /\ k + 1 # 1
    BY <1>2
  <2>2. Plain(f.id) => Precedes(A, f.id, wire'[p][k].id)
    BY <1>2, <1>6, <2>1 DEF Order, InOrderById
  <2>3. \A d \in Elements(D) : Plain(d) => Precedes(A, d, wire'[p][k].id)
    BY <1>6, <2>1 DEF Order, FlightAfterDelivered
  <2>. QED
    BY <2>2, <2>3
<1>7. HeldAfterFlight(n)'
  <2>1. ASSUME msgToSend[p] # NoMsg, Plain(msgToSend[p].id),
               NEW k \in 1 .. Len(X) - 1, Plain(wire'[p][k].id)
        PROVE  \/ Precedes(A, wire'[p][k].id, msgToSend[p].id)
               \/ /\ wire'[p][k].id = msgToSend[p].id
                  /\ outboundStream[p] = "nil" /\ k = Len(X) - 1
    <3>1. wire'[p][k] = X[k + 1] /\ k + 1 \in 1 .. Len(X)
      BY <1>2
    <3>2. k + 1 = Len(X) => k = Len(X) - 1
      BY <1>2
    <3>. QED
      BY <2>1, <3>1, <3>2 DEF Order, HeldAfterFlight
  <2>. QED
    BY <1>1, <1>2, <2>1 DEF HeldAfterFlight
<1>8. CASE ReadsOld(n, f)
  <2>1. UNCHANGED <<delivered[n], receivedMsgId[n]>>
    BY <1>8 DEF ReadsOld
  <2>2. FlightAfterDelivered(n)'
    BY <1>1, <1>2, <1>6, <2>1 DEF FlightAfterDelivered
  <2>3. QueueLast(n)'
    BY <1>1, <1>3, <2>1 DEF Order, QueueLast
  <2>4. HeldAfterDelivered(n)'
    <3> DEFINE e == msgToSend[p]
    <3>1. SUFFICES ASSUME e # NoMsg, Plain(e.id), NEW d \in Elements(D), Plain(d)
                   PROVE  \/ Precedes(A, d, e.id)
                          \/ /\ e.id = d /\ Latest(n, d) /\ outboundStream[p] = "nil"
                             /\ \A x \in Elements(wire'[p]) : x.id = d
      BY <1>1, <2>1 DEF HeldAfterDelivered, Latest
    <3>2. \/ Precedes(A, d, e.id)
          \/ /\ e.id = d /\ Latest(n, d) /\ outboundStream[p] = "nil"
             /\ \A x \in Elements(X) : x.id = d
      BY <1>0, <3>1 DEF Order, HeldAfterDelivered
    <3>. QED
      BY <1>3, <3>2
  <2>. QED
    BY <1>1, <1>5, <1>7, <2>1, <2>2, <2>3, <2>4 DEF Order, InOrder
<1>9. CASE ReadsNew(n, f)
  <2>1. ASSUME NEW id \in MsgId, id = f.id
        PROVE  Latest(n, id)'
    BY <1>9, <2>1, RememberedIsLatest DEF ReadsNew
  <2>2. \A d : Latest(n, d) => d # f.id
    <3> DEFINE W == receivedMsgId[n]
    <3>1. W # <<>> => Len(W) \in 1 .. Len(W)
      BY <1>0
    <3>2. W # <<>> => W[Len(W)] \in Elements(W)
      BY <3>1 DEF Elements
    <3>3. f.id \notin Elements(W)
      BY <1>9 DEF ReadsNew
    <3>. QED
      BY <3>2, <3>3 DEF Latest
  <2>3. \/ delivered'[n] = D
        \/ delivered'[n] = Append(D, f.id)
    BY <1>9 DEF ReadsNew
  <2>4. \A d \in Elements(delivered'[n]) : d \in Elements(D) \/ d = f.id
    <3>1. Elements(Append(D, f.id)) = Elements(D) \union {f.id}
      BY <1>0, ElementsAppend
    <3>. QED
      BY <2>3, <3>1
  <2>5. \A d \in Elements(D) : Plain(d) /\ Plain(f.id) => Precedes(A, d, f.id)
    BY <1>2, <2>2 DEF Order, FlightAfterDelivered
  <2>6. InOrder(A, delivered'[n])
    <3>1. InOrder(A, D)
      BY DEF Order
    <3>. QED
      BY <1>0, <2>3, <2>5, <3>1, InOrderAppend
  <2>7. QueueLast(n)'
    <3>1. ASSUME NEW e \in Elements(messageQueue[p]), Plain(e.id)
          PROVE  /\ \A d \in Elements(D) : Plain(d) => Precedes(A, d, e.id)
                 /\ \A x \in Elements(X) : Plain(x.id) => Precedes(A, x.id, e.id)
                 /\ msgToSend[p] # NoMsg /\ Plain(msgToSend[p].id)
                        => Precedes(A, msgToSend[p].id, e.id)
      BY <3>1 DEF Order, QueueLast
    <3>. QED
      BY <1>1, <1>3, <2>4, <3>1 DEF QueueLast
  <2>8. FlightAfterDelivered(n)'
    BY <1>1, <1>2, <1>6, <2>4 DEF FlightAfterDelivered
  <2>9. HeldAfterDelivered(n)'
    <3> DEFINE e == msgToSend[p]
    <3>1. SUFFICES ASSUME e # NoMsg, Plain(e.id), NEW d \in Elements(delivered'[n]), Plain(d)
                   PROVE  Precedes(A, d, e.id) \/ (e.id = d /\ Latest(n, d)' /\ wire'[p] = <<>>)
      BY <1>1 DEF HeldAfterDelivered
    <3>2. CASE d \in Elements(D)
      <4>1. Precedes(A, d, e.id) \/ (Latest(n, d) /\ \A x \in Elements(X) : x.id = d)
        BY <1>0, <3>1, <3>2 DEF Order, HeldAfterDelivered
      <4>2. f \in Elements(X)
        BY <1>3
      <4>. QED
        BY <2>2, <4>1, <4>2
    <3>3. CASE d = f.id
      <4>1. Precedes(A, d, e.id) \/ (e.id = d /\ 1 = Len(X))
        BY <1>2, <3>1, <3>3 DEF Order, HeldAfterFlight
      <4>2. 1 = Len(X) => wire'[p] = <<>>
        BY <1>0, <1>1, <1>2
      <4>. QED
        BY <1>4, <2>1, <3>3, <4>1, <4>2
    <3>. QED
      BY <2>4, <3>2, <3>3
  <2>. QED
    BY <1>1, <1>5, <1>7, <2>6, <2>7, <2>8, <2>9 DEF Order
<1>. QED
  BY <1>8, <1>9 DEF Reads, f

LEMMA HandOverKeepsOrder ==
    ASSUME TypeOK, NEW n \in Node, Source(n), Order(n), HandsOver(n)
    PROVE  Order(n)'
<1> DEFINE p == Peer[n]
           A == accepted[p]
           D == delivered[n]
           id == handing[n]
<1>0. D \in Seq(MsgId)
  BY WayTypes
<1>1. /\ delivered'[n] = Append(D, id)
      /\ UNCHANGED <<accepted[p], receivedMsgId[n], wire[p], msgToSend[p],
                     messageQueue[p], outboundStream[p]>>
  BY DEF HandsOver
<1>2. ~Plain(id)
  BY DEF HandsOver, Source, Plain
<1>3. \A d \in Elements(delivered'[n]) : Plain(d) => d \in Elements(D)
  BY <1>0, <1>1, <1>2, ElementsAppend
<1>4. InOrder(A, delivered'[n])
  BY <1>0, <1>1, <1>2, InOrderAppend DEF Order
<1>5. \A d : Latest(n, d)' <=> Latest(n, d)
  BY <1>1 DEF Latest
<1>6. QueueLast(n)'
  BY <1>1, <1>3 DEF Order, QueueLast
<1>7. FlightAfterDelivered(n)'
  BY <1>1, <1>3, <1>5 DEF Order, FlightAfterDelivered
<1>8. HeldAfterDelivered(n)'
  BY <1>1, <1>3, <1>5 DEF Order, HeldAfterDelivered
<1>. QED
  BY <1>1, <1>4, <1>6, <1>7, <1>8 DEF Order, HeldAfterFlight

LEMMA OrderStep ==
    ASSUME TypeOK, Known, Threshold > 1, NEW n \in Node, Source(n), Order(n), Effect(n)
    PROVE  Order(n)'
BY ShrinkKeepsOrder, AcceptKeepsOrder, TakeKeepsOrder, WriteKeepsOrder, ReadKeepsOrder,
   HandOverKeepsOrder DEF Effect

-----------------------------------------------------------------------------
(* The invariants hold.                                                    *)

SInv == RInv /\ \A n \in Node : Source(n) /\ Window(n)

LEMMA InitSInv == Init => SInv
BY InitRInv, InitSource, InitWindow DEF SInv

LEMMA SInvStep == SInv /\ [Next]_vars => SInv'
<1>1. SUFFICES ASSUME SInv, [Next]_vars PROVE SInv'
  OBVIOUS
<1>2. RInv' /\ TInv /\ TypeOK /\ Known
  BY <1>1, RInvStep DEF SInv, RInv, TInv
<1>3. ASSUME NEW n \in Node PROVE Source(n)' /\ Window(n)'
  BY <1>1, <1>2, StepEffect, SourceStep, WindowStep DEF SInv
<1>. QED
  BY <1>2, <1>3 DEF SInv

OInv == SInv /\ \A n \in Node : Order(n)

LEMMA InitOInv == Init => OInv
BY InitSInv, InitOrder DEF OInv

LEMMA OInvStep ==
    ASSUME Threshold > 1
    PROVE  OInv /\ [Next]_vars => OInv'
<1>1. SUFFICES ASSUME OInv, [Next]_vars PROVE OInv'
  OBVIOUS
<1>2. SInv' /\ TInv /\ TypeOK /\ Known /\ \A n \in Node : Source(n)
  BY <1>1, SInvStep DEF OInv, SInv, RInv, TInv
<1>3. ASSUME NEW n \in Node PROVE Order(n)'
  BY <1>1, <1>2, StepEffect, OrderStep DEF OInv
<1>. QED
  BY <1>2, <1>3 DEF OInv

\* Until the first id leaves the window of its filter, the application at an end is
\* given no message twice, whatever is resent or written twice.
THEOREM NothingTwiceRemembered ==
    Spec => [](\A n \in Node : NoneForgotten(n) =>
                  Distinct(delivered[n]) /\ handing[n] \notin Elements(delivered[n]))
<1>1. SInv => \A n \in Node : NoneForgotten(n) =>
                  Distinct(delivered[n]) /\ handing[n] \notin Elements(delivered[n])
  BY DEF SInv, Window, Remembered
<1>. QED
  BY InitSInv, SInvStep, <1>1, PTL DEF Spec

\* The application gets no message twice between two starts of its hub, if the
\* window is larger than the number of ids there are (AtMostOnce).
THEOREM NothingTwice ==
    ASSUME AllFit
    PROVE  Spec => []AtMostOnce
<1>1. SInv => AtMostOnce
  BY DEF SInv, Window, NoneForgotten, Remembered, Distinct, AtMostOnce
<1>. QED
  BY InitSInv, SInvStep, <1>1, PTL DEF Spec

LEMMA PrecedesPlaces ==
    ASSUME NEW s, Distinct(s), NEW x, NEW y, Precedes(s, x, y)
    PROVE  AbstractChannel!PlaceIn(s, x) < AbstractChannel!PlaceIn(s, y)
<1>1. PICK i \in 1 .. Len(s), j \in 1 .. Len(s) : i < j /\ s[i] = x /\ s[j] = y
  BY DEF Precedes
<1>2. ASSUME NEW k \in 1 .. Len(s) PROVE AbstractChannel!PlaceIn(s, s[k]) = k
  <2>1. \A m \in 1 .. Len(s) : s[m] = s[k] <=> m = k
    BY DEF Distinct
  <2>. QED
    BY <2>1 DEF AbstractChannel!PlaceIn
<1>. QED
  BY <1>1, <1>2

\* Plain messages arrive in the order in which Send accepted them, with gaps, for
\* every window that holds at least one id (MessagesInOrder).
THEOREM PlainInOrder ==
    ASSUME Threshold > 1
    PROVE  Spec => []MessagesInOrder
<1>1. ASSUME OInv PROVE MessagesInOrder
  <2>1. ASSUME NEW n \in Node, NEW i \in 1 .. Len(delivered[n]),
               NEW j \in 1 .. Len(delivered[n]), i < j,
               delivered[n][i] \notin ConsensusId, delivered[n][j] \notin ConsensusId
        PROVE  AbstractChannel!PlaceIn(accepted[Peer[n]], delivered[n][i])
                 < AbstractChannel!PlaceIn(accepted[Peer[n]], delivered[n][j])
    <3>1. Distinct(accepted[Peer[n]])
      BY <1>1 DEF OInv, SInv, Source
    <3>2. Precedes(accepted[Peer[n]], delivered[n][i], delivered[n][j])
      BY <1>1, <2>1 DEF OInv, Order, InOrder, Plain
    <3>. QED
      BY <3>1, <3>2, PrecedesPlaces
  <2>. QED
    BY <2>1 DEF MessagesInOrder
<1>. QED
  BY InitOInv, OInvStep, <1>1, PTL DEF Spec

-----------------------------------------------------------------------------
(* The abstract channel.                                                   *)

\* What the channel takes for what node n got.
GotNow(n) ==
    IF handing[n] = NoMsg THEN delivered[n] ELSE Append(delivered[n], handing[n])

NInv == OInv /\ CInv

LEMMA GotNowElements ==
    ASSUME TypeOK, NEW n \in Node
    PROVE  /\ GotNow(n) \in Seq(MsgId)
           /\ Elements(GotNow(n)) = Elements(delivered[n]) \union InHand(n)
           /\ Elements(GotNow(n)) \union gotBefore[n] \union lost[n] = Answered(n)
<1>1. /\ delivered[n] \in Seq(MsgId) /\ handing[n] \in MsgId \union {NoMsg}
      /\ NoMsg \notin MsgId
  BY MsgAssumption DEF TypeOK
<1>2. CASE handing[n] = NoMsg
  BY <1>1, <1>2 DEF GotNow, Answered, Got, InHand
<1>3. CASE handing[n] # NoMsg
  <2>1. Elements(Append(delivered[n], handing[n])) = Elements(delivered[n]) \union {handing[n]}
    BY <1>1, ElementsAppend
  <2>2. Append(delivered[n], handing[n]) \in Seq(MsgId)
    BY <1>1, <1>3, AppendProperties
  <2>. QED
    BY <1>3, <2>1, <2>2 DEF GotNow, Answered, Got, InHand
<1>. QED
  BY <1>2, <1>3

\* The two modules define Elements in the same way.
LEMMA SameElements == \A s : AbstractChannel!Elements(s) = Elements(s)
BY DEF AbstractChannel!Elements, Elements

\* A frame that is new to the filter, and whose message the application may get, was
\* not got before, and a plain one was accepted after every plain one that was.
LEMMA NewIsNext ==
    ASSUME TypeOK, NEW n \in Node, Source(n), Order(n), NoneForgotten(n), Window(n),
           handing[n] = NoMsg, wire[Peer[n]] # <<>>,
           NEW f, f = Head(wire[Peer[n]]), f.kind # "ConfirmReply",
           f.id \notin Elements(receivedMsgId[n])
    PROVE  /\ f.id \in Elements(accepted[Peer[n]]) /\ f.id \in MsgId
           /\ f.id \notin Elements(delivered[n])
           /\ f.id \in ConsensusId \/ AbstractChannel!InOrder(n, f.id)
<1> DEFINE p == Peer[n]
           X == wire[p]
           W == receivedMsgId[n]
<1>1. X \in Seq(Frame) /\ W \in Seq(MsgId)
  BY WayTypes
<1>2. f \in Elements(X) /\ f \in Frame /\ f = X[1] /\ 1 \in 1 .. Len(X)
  BY <1>1, ElementsTail
<1>3. f.id \in Elements(accepted[p]) /\ f.id \in MsgId
  BY <1>2, EnvelopTypes DEF Source
<1>4. f.id \notin Elements(delivered[n])
  BY DEF Window, Remembered
<1>5. \A d : ~(d = f.id /\ Latest(n, d))
  <2>1. W # <<>> => Len(W) \in 1 .. Len(W)
    BY <1>1
  <2>. QED
    BY <2>1 DEF Latest, Elements
<1>6. ASSUME Plain(f.id), NEW d \in Elements(delivered[n]), Plain(d)
      PROVE  AbstractChannel!PlaceIn(accepted[p], d) < AbstractChannel!PlaceIn(accepted[p], f.id)
  <2>1. Precedes(accepted[p], d, f.id)
    BY <1>2, <1>5, <1>6 DEF Order, FlightAfterDelivered
  <2>. QED
    BY <2>1, PrecedesPlaces DEF Source
<1>7. AbstractChannel!Elements([m \in Node |-> GotNow(m)][n]) = Elements(delivered[n])
  BY SameElements DEF GotNow
<1>8. f.id \in ConsensusId \/ AbstractChannel!InOrder(n, f.id)
  BY <1>6, <1>7 DEF AbstractChannel!InOrder, Plain, GotNow
<1>. QED
  BY <1>3, <1>4, <1>8

\* The function of what every node got, as the instance of Channel has it.
NowGot == [n \in Node |-> GotNow(n)]

\* The elements of a sequence at the places from i to j.
Among(s, i, j) == {s[k] : k \in i .. j}

\* The steps of the channel, said of NowGot.
LEMMA ChannelSteps ==
    /\ UNCHANGED <<accepted, NowGot, gotBefore, lost, settled>> => UNCHANGED AbstractChannel!vars
    /\ \A n \in Node : \A id \in MsgId :
          /\ Sender[id] = n /\ id \notin Elements(accepted[n])
          /\ accepted' = [accepted EXCEPT ![n] = Append(@, id)]
          /\ UNCHANGED <<NowGot, gotBefore, lost, settled>>
          => AbstractChannel!Next
    /\ \A n \in Node : \A id \in MsgId :
          /\ id \in Elements(accepted[Peer[n]]) /\ id \notin Elements(GotNow(n))
          /\ id \in ConsensusId \/ AbstractChannel!InOrder(n, id)
          /\ NowGot' = [NowGot EXCEPT ![n] = Append(@, id)]
          /\ UNCHANGED <<accepted, gotBefore, lost, settled>>
          => AbstractChannel!Next
    /\ \A n \in Node : \A id \in MsgId :
          /\ Peer[n] \in Node /\ id \in ConsensusId /\ id \in Elements(accepted[n])
          /\ id \in Elements(GotNow(Peer[n])) \union gotBefore[Peer[n]] \union lost[Peer[n]]
          /\ settled' = [settled EXCEPT ![n] = @ \union {id}]
          /\ UNCHANGED <<accepted, NowGot, gotBefore, lost>>
          => AbstractChannel!Next
    /\ \A n \in Node : \A k \in 0 .. Len(GotNow(n)) :
          /\ k >= Len(GotNow(n)) - 1
          /\ gotBefore' = [gotBefore EXCEPT ![n] = @ \union Among(GotNow(n), 1, k)]
          /\ lost' = [lost EXCEPT ![n] = @ \union Among(GotNow(n), k + 1, Len(GotNow(n)))]
          /\ NowGot' = [NowGot EXCEPT ![n] = <<>>]
          /\ UNCHANGED <<accepted, settled>>
          => AbstractChannel!Next
<1>1. \A n \in Node : NowGot[n] = GotNow(n)
  BY DEF NowGot
<1>2. UNCHANGED <<accepted, NowGot, gotBefore, lost, settled>> => UNCHANGED AbstractChannel!vars
  BY DEF AbstractChannel!vars, NowGot, GotNow
<1>3. ASSUME NEW n \in Node, NEW id \in MsgId,
             Sender[id] = n, id \notin Elements(accepted[n]),
             accepted' = [accepted EXCEPT ![n] = Append(@, id)],
             UNCHANGED <<NowGot, gotBefore, lost, settled>>
      PROVE  AbstractChannel!Next
  <2>1. AbstractChannel!Accept(n, id)
    BY <1>3, SameElements DEF AbstractChannel!Accept, NowGot, GotNow
  <2>. QED
    BY <2>1 DEF AbstractChannel!Next
<1>4. ASSUME NEW n \in Node, NEW id \in MsgId,
             id \in Elements(accepted[Peer[n]]), id \notin Elements(GotNow(n)),
             id \in ConsensusId \/ AbstractChannel!InOrder(n, id),
             NowGot' = [NowGot EXCEPT ![n] = Append(@, id)],
             UNCHANGED <<accepted, gotBefore, lost, settled>>
      PROVE  AbstractChannel!Next
  <2>1. AbstractChannel!Deliver(n, id)
    BY <1>1, <1>4, SameElements DEF AbstractChannel!Deliver, NowGot, GotNow
  <2>. QED
    BY <2>1 DEF AbstractChannel!Next
<1>5. ASSUME NEW n \in Node, NEW id \in MsgId,
             Peer[n] \in Node, id \in ConsensusId, id \in Elements(accepted[n]),
             id \in Elements(GotNow(Peer[n])) \union gotBefore[Peer[n]] \union lost[Peer[n]],
             settled' = [settled EXCEPT ![n] = @ \union {id}],
             UNCHANGED <<accepted, NowGot, gotBefore, lost>>
      PROVE  AbstractChannel!Next
  <2>1. AbstractChannel!Settle(n, id)
    BY <1>1, <1>5, SameElements DEF AbstractChannel!Settle, NowGot, GotNow
  <2>. QED
    BY <2>1 DEF AbstractChannel!Next
<1>6. ASSUME NEW n \in Node, NEW k \in 0 .. Len(GotNow(n)),
             k >= Len(GotNow(n)) - 1,
             gotBefore' = [gotBefore EXCEPT ![n] = @ \union Among(GotNow(n), 1, k)],
             lost' = [lost EXCEPT ![n] = @ \union Among(GotNow(n), k + 1, Len(GotNow(n)))],
             NowGot' = [NowGot EXCEPT ![n] = <<>>],
             UNCHANGED <<accepted, settled>>
      PROVE  AbstractChannel!Next
  <2>1. /\ k \in {j \in 0 .. Len(NowGot[n]) : j >= Len(NowGot[n]) - 1}
        /\ gotBefore' = [gotBefore EXCEPT ![n] = @ \union {NowGot[n][j] : j \in 1 .. k}]
        /\ lost' = [lost EXCEPT ![n] =
                       @ \union {NowGot[n][j] : j \in k + 1 .. Len(NowGot[n])}]
    BY <1>1, <1>6 DEF Among
  <2>2. \E given \in {j \in 0 .. Len(NowGot[n]) : j >= Len(NowGot[n]) - 1} :
          /\ gotBefore' = [gotBefore EXCEPT ![n] = @ \union {NowGot[n][j] : j \in 1 .. given}]
          /\ lost' = [lost EXCEPT ![n] =
                         @ \union {NowGot[n][j] : j \in given + 1 .. Len(NowGot[n])}]
    BY <2>1, Zenon
  <2>3. AbstractChannel!Restart(n)
    BY <1>6, <2>2, Zenon DEF AbstractChannel!Restart, NowGot, GotNow
  <2>. QED
    BY <2>3 DEF AbstractChannel!Next
<1>. QED
  BY <1>2, <1>3, <1>4, <1>5, <1>6

\* NowGot after a step that changes only what node a got.
LEMMA GotAtOne ==
    ASSUME NEW a \in Node, NEW value, GotNow(a)' = value,
           \A n \in Node \ {a} : UNCHANGED <<delivered[n], handing[n]>>
    PROVE  NowGot' = [NowGot EXCEPT ![a] = value]
<1>1. \A n \in Node \ {a} : GotNow(n)' = GotNow(n)
  BY DEF GotNow
<1>2. /\ NowGot' = [n \in Node |-> GotNow(n)']
      /\ NowGot = [n \in Node |-> GotNow(n)]
  BY DEF NowGot
<1>. QED
  BY <1>1, <1>2

\* A new frame is delivered in the channel when its message is, or when the request
\* is answered.
LEMMA ReadIsChannelStep ==
    ASSUME NInv, NEW a \in Node, NoneForgotten(a),
           ReceiveMessage(a) \/ ReceiveConfirmRequest(a)
    PROVE  AbstractChannel!Next \/ UNCHANGED AbstractChannel!vars
<1> DEFINE D == delivered[a]
<1>0. /\ TypeOK /\ Source(a) /\ Order(a) /\ Window(a) /\ NoMsg \notin MsgId
      /\ D \in Seq(MsgId)
  BY MsgAssumption, WayTypes DEF NInv, OInv, SInv, RInv, TInv
<1>1. PICK f \in Frame :
         /\ ReadNew(a, f)
         /\ \/ /\ f.kind = "Message"
               /\ delivered' = [delivered EXCEPT ![a] =
                                   IF isBanned[a] THEN @ ELSE Append(@, f.id)]
               /\ handing' = handing
            \/ /\ f.kind = "MessageConfirmRequest"
               /\ handing' = [handing EXCEPT ![a] = f.id]
               /\ delivered' = delivered
  BY DEF ReceiveMessage, ReceiveConfirmRequest
<1>2. /\ handing[a] = NoMsg /\ wire[Peer[a]] # <<>> /\ f = Head(wire[Peer[a]])
      /\ f.id \notin Elements(receivedMsgId[a])
      /\ UNCHANGED <<accepted, gotBefore, lost, settled>>
  BY <1>1 DEF ReadNew, ReadFrame, appVars, sendVars
<1>3. /\ f.id \in Elements(accepted[Peer[a]]) /\ f.id \in MsgId
      /\ f.id \notin Elements(D)
      /\ f.id \in ConsensusId \/ AbstractChannel!InOrder(a, f.id)
  BY <1>0, <1>1, <1>2, NewIsNext
<1>4. delivered \in [Node -> Seq(MsgId)] /\ handing \in [Node -> MsgId \union {NoMsg}]
  BY <1>0 DEF TypeOK
<1>5. GotNow(a) = D /\ f.id # NoMsg
  BY <1>0, <1>2, <1>3 DEF GotNow
<1>6. CASE UNCHANGED <<delivered, handing>>
  <2>1. UNCHANGED NowGot
    BY <1>6 DEF NowGot, GotNow
  <2>. QED
    BY <1>2, <2>1, ChannelSteps
<1>7. CASE \/ delivered' = [delivered EXCEPT ![a] = Append(@, f.id)] /\ handing' = handing
           \/ handing' = [handing EXCEPT ![a] = f.id] /\ delivered' = delivered
  <2>1. GotNow(a)' = Append(D, f.id)
    BY <1>2, <1>4, <1>5, <1>7 DEF GotNow
  <2>2. \A n \in Node \ {a} : UNCHANGED <<delivered[n], handing[n]>>
    BY <1>4, <1>7
  <2>3. NowGot' = [NowGot EXCEPT ![a] = Append(D, f.id)]
    BY <2>1, <2>2, GotAtOne
  <2>4. NowGot[a] = D
    BY <1>5 DEF NowGot
  <2>5. NowGot' = [NowGot EXCEPT ![a] = Append(@, f.id)]
    BY <2>3, <2>4
  <2>. QED
    BY <1>2, <1>3, <1>5, <2>5, ChannelSteps
<1>8. CASE f.kind = "Message" /\ isBanned[a]
  <2>1. delivered' = delivered /\ handing' = handing
    BY <1>1, <1>4, <1>8
  <2>. QED
    BY <1>6, <2>1
<1>. QED
  BY <1>1, <1>6, <1>7, <1>8

\* The confirmation that settles a message is true.
LEMMA SettleIsChannelStep ==
    ASSUME NInv, NEW a \in Node, SettleMessage(a)
    PROVE  AbstractChannel!Next
<1> DEFINE e == msgToSend[a]
           id == e.id
<1>0. TypeOK /\ HoldsMessage /\ Known /\ ConfirmedUnlessCrashed /\ Peer[a] \in Node
  BY PeerAssumption DEF NInv, OInv, SInv, RInv, CInv, TInv
<1>1. /\ e.kind = "Consensus" /\ confirmReceived[a][id] = "received"
      /\ settled' = [settled EXCEPT ![a] = @ \union {id}]
      /\ UNCHANGED <<accepted, gotBefore, lost, delivered, handing>>
  BY DEF SettleMessage, Confirmed, appVars, receiveVars
<1>2. e \in Envelop /\ e # NoMsg
  BY <1>0 DEF SettleMessage, HoldsMessage, TypeOK
<1>3. id \in ConsensusId /\ id \in MsgId
  BY <1>1, <1>2, MsgAssumption, EnvelopTypes
<1>4. id \in Elements(accepted[a])
  <2>1. id \in Held(a)
    BY <1>1, <1>2 DEF Held, OwnIds
  <2>. QED
    BY <1>0, <2>1 DEF Known
<1>5. id \in Elements(GotNow(Peer[a])) \union gotBefore[Peer[a]] \union lost[Peer[a]]
  <2>1. id \in Answered(Peer[a])
    BY <1>0, <1>1, <1>3 DEF ConfirmedUnlessCrashed
  <2>. QED
    BY <1>0, <2>1, GotNowElements
<1>6. UNCHANGED NowGot
  BY <1>1 DEF NowGot, GotNow
<1> HIDE DEF id
<1>. QED
  BY <1>0, <1>1, <1>3, <1>4, <1>5, <1>6, ChannelSteps

LEMMA RestartIsChannelStep ==
    ASSUME NInv, NEW a \in Node, Restart(a)
    PROVE  AbstractChannel!Next
<1>0. TypeOK
  BY DEF NInv, OInv, SInv, RInv, TInv
<1>1. /\ gotBefore' = [gotBefore EXCEPT ![a] = Got(a)]
      /\ lost' = [lost EXCEPT ![a] = @ \union InHand(a)]
      /\ delivered' = [delivered EXCEPT ![a] = <<>>]
      /\ handing' = [handing EXCEPT ![a] = NoMsg]
      /\ UNCHANGED <<accepted, settled>>
  BY DEF Restart
<1>2. /\ delivered \in [Node -> Seq(MsgId)] /\ handing \in [Node -> MsgId \union {NoMsg}]
      /\ gotBefore \in [Node -> SUBSET MsgId] /\ lost \in [Node -> SUBSET MsgId]
  BY <1>0 DEF TypeOK
<1>3. GotNow(a)' = <<>>
  BY <1>1, <1>2 DEF GotNow
<1>4. \A n \in Node \ {a} : UNCHANGED <<delivered[n], handing[n]>>
  BY <1>1, <1>2
<1>5. NowGot' = [NowGot EXCEPT ![a] = <<>>]
  BY <1>3, <1>4, GotAtOne
<1> DEFINE D == delivered[a]
           k == Len(D)
<1>6. /\ k \in 0 .. Len(GotNow(a)) /\ k >= Len(GotNow(a)) - 1
      /\ Among(GotNow(a), 1, k) = Elements(D)
      /\ Among(GotNow(a), k + 1, Len(GotNow(a))) = InHand(a)
  <2>1. D \in Seq(MsgId) /\ k \in Nat
    BY <1>2
  <2>2. CASE handing[a] = NoMsg
    <3>1. GotNow(a) = D /\ InHand(a) = {}
      BY <2>2 DEF GotNow, InHand
    <3>2. k + 1 .. k = {}
      BY <2>1
    <3>. QED
      BY <2>1, <3>1, <3>2 DEF Among, Elements
  <2>3. CASE handing[a] # NoMsg
    <3>1. /\ GotNow(a) = Append(D, handing[a]) /\ InHand(a) = {handing[a]}
      BY <2>3 DEF GotNow, InHand
    <3>2. /\ Len(GotNow(a)) = k + 1 /\ GotNow(a)[k + 1] = handing[a]
          /\ \A i \in 1 .. k : GotNow(a)[i] = D[i]
      BY <2>1, <3>1
    <3>3. k + 1 .. k + 1 = {k + 1}
      BY <2>1
    <3>. QED
      BY <2>1, <3>1, <3>2, <3>3 DEF Among, Elements
  <2>. QED
    BY <2>2, <2>3
<1>7. /\ gotBefore' = [gotBefore EXCEPT ![a] = @ \union Among(GotNow(a), 1, k)]
      /\ lost' = [lost EXCEPT ![a] = @ \union Among(GotNow(a), k + 1, Len(GotNow(a)))]
  <2>1. Got(a) = gotBefore[a] \union Elements(D)
    BY DEF Got
  <2>. QED
    BY <1>1, <1>6, <2>1
<1> HIDE DEF k
<1>. QED
  BY <1>1, <1>5, <1>6, <1>7, ChannelSteps

\* While no id has left a window, every step of the protocol is one of the channel.
LEMMA StepIsChannelStep ==
    ASSUME NInv, [Next]_vars, \A n \in Node : NoneForgotten(n)
    PROVE  [AbstractChannel!Next]_(AbstractChannel!vars)
<1>0. TypeOK
  BY DEF NInv, OInv, SInv, RInv, TInv
<1>1. ASSUME UNCHANGED <<accepted, delivered, handing, gotBefore, lost, settled>>
      PROVE  UNCHANGED AbstractChannel!vars
  <2>1. UNCHANGED NowGot
    BY <1>1 DEF NowGot, GotNow
  <2>. QED
    BY <1>1, <2>1, ChannelSteps
<1>2. CASE UNCHANGED vars
  BY <1>1, <1>2 DEF vars
<1>3. ASSUME NEW a \in Node, NEW id \in MsgId, Send(a, id)
      PROVE  AbstractChannel!Next
  <2>1. /\ Sender[id] = a /\ id \notin Elements(accepted[a])
        /\ accepted' = [accepted EXCEPT ![a] = Append(@, id)]
        /\ UNCHANGED <<delivered, handing, gotBefore, lost, settled>>
    BY <1>3 DEF Send, sendVars, receiveVars
  <2>2. UNCHANGED NowGot
    BY <2>1 DEF NowGot, GotNow
  <2>. QED
    BY <2>1, <2>2, ChannelSteps
<1>4. ASSUME NEW a \in Node, HandOver(a)
      PROVE  UNCHANGED AbstractChannel!vars
  <2>1. /\ handing[a] # NoMsg
        /\ delivered' = [delivered EXCEPT ![a] = Append(@, handing[a])]
        /\ handing' = [handing EXCEPT ![a] = NoMsg]
        /\ UNCHANGED <<accepted, gotBefore, lost, settled>>
    BY <1>4 DEF HandOver, appVars, sendVars
  <2>2. delivered \in [Node -> Seq(MsgId)] /\ handing \in [Node -> MsgId \union {NoMsg}]
    BY <1>0 DEF TypeOK
  <2>3. \A n \in Node : GotNow(n)' = GotNow(n)
    BY <2>1, <2>2 DEF GotNow
  <2>4. UNCHANGED NowGot
    BY <2>3 DEF NowGot
  <2>. QED
    BY <2>1, <2>4, ChannelSteps
<1>5. ASSUME NEW a \in Node,
             \/ BanPeer(a) \/ RemoveFromBanList(a) \/ CheckOutboundStream(a) \/ Reconnect(a)
             \/ TakeMessage(a) \/ WriteMessage(a) \/ RetryMessage(a) \/ DropMessages(a)
             \/ BreakStream(a) \/ IgnoreDuplicate(a) \/ ReceiveConfirmReply(a)
      PROVE  UNCHANGED AbstractChannel!vars
  <2>1. UNCHANGED <<accepted, delivered, handing, gotBefore, lost, settled>>
    BY <1>5 DEF BanPeer, RemoveFromBanList, CheckOutboundStream, Reconnect, TakeMessage,
                WriteMessage, RetryMessage, DropMessages, BreakStream, IgnoreDuplicate,
                ReceiveConfirmReply, ReadNew, appVars, sendVars, receiveVars
  <2>. QED
    BY <1>1, <2>1
<1>. QED
  BY <1>2, <1>3, <1>4, <1>5, ReadIsChannelStep, SettleIsChannelStep, RestartIsChannelStep
     DEF Next, Application, SendCycle, ReceiveCycle

LEMMA InitNInv == Init => NInv
BY InitOInv, InitCInv DEF NInv

LEMMA NInvStep ==
    ASSUME Threshold > 1
    PROVE  NInv /\ [Next]_vars => NInv'
BY OInvStep, CInvStep DEF NInv

\* While no id has left the window of a filter, what the two connections do is what
\* the abstract channel allows, whatever dies, is lost or restarts in between.
THEOREM ChannelWhileRemembered ==
    ASSUME Threshold > 1
    PROVE  Spec => [][(\A n \in Node : NoneForgotten(n)) => AbstractChannel!Next]_(
                        AbstractChannel!vars)
<1>1. NInv /\ [Next]_vars =>
         [(\A n \in Node : NoneForgotten(n)) => AbstractChannel!Next]_(AbstractChannel!vars)
  BY StepIsChannelStep
<1>. QED
  BY InitNInv, NInvStep, <1>1, PTL DEF Spec

\* The two connections implement the abstract channel, if the window is larger than
\* the number of ids there are (ImplementsChannel).
THEOREM ConnectionsAreAChannel ==
    ASSUME AllFit, Threshold > 1
    PROVE  Spec => ImplementsChannel
<1>1. Init => AbstractChannel!Init
  BY DEF Init, AbstractChannel!Init
<1>2. NInv /\ [Next]_vars => [AbstractChannel!Next]_(AbstractChannel!vars)
  BY StepIsChannelStep DEF NoneForgotten
<1>. QED
  BY InitNInv, NInvStep, <1>1, <1>2, PTL DEF Spec, ImplementsChannel, AbstractChannel!Spec

=============================================================================
