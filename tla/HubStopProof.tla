---------------------------- MODULE HubStopProof ----------------------------
(***************************************************************************)
(* What Stop can rely on, for any number of connections and any bound on   *)
(* the queues: the send cycle of a terminated connection is never left     *)
(* waiting for a message.                                                  *)
(***************************************************************************)
EXTENDS HubStop, TLAPS

\* Terminate's steps are in order, and the terminating message is in the queue
\* whenever the cycle may still come to fetch.  A cycle that clears the queue goes
\* on to the loop's test and finds the status.
PoisonWaits ==
    \A c \in Conn :
        /\ stopping = c => terminated[c]
        /\ stopping = c /\ stopCall \in {"waitReceive", "waitSend"}
               /\ sendCycle[c] \in {"opening", "take"} => queue[c] # <<>>

Inv == TypeOK /\ PoisonWaits

-----------------------------------------------------------------------------

\* A queue is left longer, with its first message gone, or empty: a sequence.
LEMMA QueueTypes ==
    ASSUME NEW s \in Seq({"message", "poison"})
    PROVE  /\ \A e \in {"message", "poison"} :
                 Append(s, e) \in Seq({"message", "poison"}) /\ Append(s, e) # <<>>
           /\ s # <<>> => Tail(s) \in Seq({"message", "poison"})
           /\ \A again \in {<<>>, <<"message">>} :
                 /\ s \o again \in Seq({"message", "poison"})
                 /\ s # <<>> => s \o again # <<>>
           /\ <<>> \in Seq({"message", "poison"})
  <1>1. \A e \in {"message", "poison"} :
            Append(s, e) \in Seq({"message", "poison"}) /\ Append(s, e) # <<>>
    OBVIOUS
  <1>2. s # <<>> => Tail(s) \in Seq({"message", "poison"})
    OBVIOUS
  <1>3. <<>> \in Seq({"message", "poison"}) /\ <<"message">> \in Seq({"message", "poison"})
    OBVIOUS
  <1>4. ASSUME NEW again \in {<<>>, <<"message">>}
        PROVE  /\ s \o again \in Seq({"message", "poison"})
               /\ s # <<>> => s \o again # <<>>
    <2>1. again \in Seq({"message", "poison"})
      BY <1>3
    <2>2. Len(s \o again) = Len(s) + Len(again) /\ s \o again \in Seq({"message", "poison"})
      BY <2>1
    <2>3. s # <<>> => Len(s) > 0
      OBVIOUS
    <2>. QED  BY <2>1, <2>2, <2>3
  <1>. QED  BY <1>1, <1>2, <1>3, <1>4

LEMMA InitInv == ASSUME Init PROVE Inv
  BY ConnAssumption DEF Init, Inv, TypeOK, PoisonWaits

-----------------------------------------------------------------------------
(* Every step preserves the invariant, one lemma for each thread.          *)

LEMMA ReceiveKeeps ==
    ASSUME Inv, NEW c \in Conn, ReceiveCycle(c) PROVE Inv'
  <1>. USE DEF Inv, TypeOK, PoisonWaits, ReceiveGoTo, ReceiveOnly, stopVars, serviceVars, inVars
  <1>1. CASE ReceiveFinish(c)  BY <1>1 DEF ReceiveFinish
  <1>2. CASE ReadOnce(c)  BY <1>2 DEF ReadOnce
  <1>3. CASE ReadFrame(c)
    <2>1. PICK next \in {"loop", "callback"} : ReceiveGoTo(c, next)
      BY <1>3 DEF ReadFrame
    <2>. QED  BY <1>3, <2>1 DEF ReadFrame
  <1>4. CASE ReadError(c)  BY <1>4 DEF ReadError
  <1>5. CASE EnterCallback(c)  BY <1>5 DEF EnterCallback
  <1>6. CASE Callback(c)  BY <1>6 DEF Callback
  <1>. QED  BY <1>1, <1>2, <1>3, <1>4, <1>5, <1>6 DEF ReceiveCycle

\* The cycle goes to its message only when there is a stream.
LEMMA OpenedKeeps ==
    ASSUME Inv, NEW c \in Conn, sendCycle[c] = "opening",
           NEW stream \in BOOLEAN, Opened(c, stream),
           inbound' \in [Conn -> {"nil", "live", "dead"}],
           reading' \in [Conn -> {"none", "inbound", "live", "dead"}],
           UNCHANGED <<queue, holds>>, SendOnly
    PROVE  Inv'
  <1>1. PICK label \in {"check", "take", "attempt"} :
          /\ sendCycle' = [sendCycle EXCEPT ![c] = label]
          /\ label = "attempt" => holds[c]
    BY DEF Opened, Ready, SendGoTo
  <1>2. /\ outbound' = [outbound EXCEPT ![c] = stream]
        /\ UNCHANGED <<stopVars, serviceVars, receiveCycle, peersCycle, queue, holds>>
    BY DEF Opened, SendOnly
  <1>3. TypeOK'
    BY <1>1, <1>2 DEF Inv, TypeOK, stopVars, serviceVars
  <1>4. PoisonWaits'
    BY <1>1, <1>2 DEF Inv, TypeOK, PoisonWaits, stopVars
  <1>. QED  BY <1>3, <1>4 DEF Inv

\* A step of the send cycle after which the cycle does not fetch from an empty queue.
LEMMA SendStepKeeps ==
    ASSUME Inv, NEW c \in Conn,
           NEW label \in {"check", "opening", "attempt", "finished"},
           NEW q \in Seq({"message", "poison"}), NEW h \in BOOLEAN, NEW o \in BOOLEAN,
           sendCycle' = [sendCycle EXCEPT ![c] = label],
           queue' = [queue EXCEPT ![c] = q],
           holds' = [holds EXCEPT ![c] = h],
           outbound' = [outbound EXCEPT ![c] = o],
           UNCHANGED inVars, SendOnly,
           label = "attempt" => h,
           label = "opening" => stopping # c
    PROVE  Inv'
  <1>1. UNCHANGED <<stopVars, serviceVars, receiveCycle, peersCycle>>
    BY DEF SendOnly
  <1>2. \A d \in Conn : sendCycle'[d] = "attempt" => holds'[d]
    BY DEF Inv, TypeOK
  <1>3. TypeOK'
    BY <1>1, <1>2 DEF Inv, TypeOK, stopVars, serviceVars, inVars
  <1>4. \A d \in Conn : /\ d # c => sendCycle'[d] = sendCycle[d] /\ queue'[d] = queue[d]
                        /\ sendCycle'[c] = label
    BY DEF Inv, TypeOK
  <1>5. PoisonWaits'
    BY <1>1, <1>4 DEF Inv, PoisonWaits, stopVars
  <1>. QED  BY <1>3, <1>5 DEF Inv

LEMMA SendKeeps ==
    ASSUME Inv, NEW c \in Conn, SendCycle(c) PROVE Inv'
  <1>1. CASE StreamReady(c)
    <2>1. PICK stream \in {outbound[c], TRUE} : Opened(c, stream)
      BY <1>1 DEF StreamReady
    <2>2. stream \in BOOLEAN
      BY DEF Inv, TypeOK
    <2>3. /\ inbound' \in [Conn -> {"nil", "live", "dead"}]
          /\ reading' \in [Conn -> {"none", "inbound", "live", "dead"}]
      BY <1>1 DEF StreamReady, inVars, Inv, TypeOK
    <2>. QED  BY <1>1, <2>1, <2>2, <2>3, OpenedKeeps DEF StreamReady
  <1>2. CASE Disconnected(c)
    <2>1. /\ inbound' \in [Conn -> {"nil", "live", "dead"}]
          /\ reading' \in [Conn -> {"none", "inbound", "live", "dead"}]
      BY <1>2 DEF Disconnected, Inv, TypeOK
    <2>. QED  BY <1>2, <2>1, OpenedKeeps DEF Disconnected
  <1>3. /\ queue = [queue EXCEPT ![c] = queue[c]] /\ queue[c] \in Seq({"message", "poison"})
        /\ holds = [holds EXCEPT ![c] = holds[c]] /\ holds[c] \in BOOLEAN
        /\ outbound = [outbound EXCEPT ![c] = outbound[c]] /\ outbound[c] \in BOOLEAN
    BY DEF Inv, TypeOK
  <1>4. CASE SendFinish(c)
    BY <1>3, <1>4, SendStepKeeps DEF SendFinish, SendGoTo, streamVars
  <1>5. CASE CheckOutboundStream(c)
    <2>1. stopping # c
      BY <1>5 DEF CheckOutboundStream, Inv, PoisonWaits
    <2>. QED
      BY <1>3, <1>5, <2>1, SendStepKeeps DEF CheckOutboundStream, SendGoTo, streamVars
  <1>6. CASE TakeMessage(c)
    <2>1. Tail(queue[c]) \in Seq({"message", "poison"})
      BY <1>3, <1>6, QueueTypes DEF TakeMessage
    <2>2. PICK h \in BOOLEAN : h = (Head(queue[c]) = "message")
      OBVIOUS
    <2>3. PICK label \in {"attempt", "finished"} :
            label = IF h THEN "attempt" ELSE "finished"
      OBVIOUS
    <2>4. /\ sendCycle' = [sendCycle EXCEPT ![c] = label]
          /\ queue' = [queue EXCEPT ![c] = Tail(queue[c])]
          /\ holds' = [holds EXCEPT ![c] = h]
      BY <1>6, <2>2, <2>3 DEF TakeMessage, SendGoTo
    <2>5. outbound' = [outbound EXCEPT ![c] = outbound[c]] /\ UNCHANGED inVars /\ SendOnly
      BY <1>3, <1>6 DEF TakeMessage, streamVars
    <2>6. label # "opening" /\ (label = "attempt" => h)
      BY <2>3
    <2>. QED  BY <1>3, <2>1, <2>3, <2>4, <2>5, <2>6, SendStepKeeps
  <1>7. CASE WriteMessage(c)
    <2>1. PICK again \in {<<>>, <<"message">>} : queue' = [queue EXCEPT ![c] = @ \o again]
      BY <1>7 DEF WriteMessage
    <2>2. queue[c] \o again \in Seq({"message", "poison"})
      BY <1>3, QueueTypes
    <2>3. queue' = [queue EXCEPT ![c] = queue[c] \o again]
      BY <2>1
    <2>. QED
      BY <1>3, <1>7, <2>2, <2>3, SendStepKeeps DEF WriteMessage, SendGoTo, streamVars
  <1>8. CASE WriteFails(c)
    <2>1. PICK q \in Seq({"message", "poison"}), h \in BOOLEAN :
            queue' = [queue EXCEPT ![c] = q] /\ holds' = [holds EXCEPT ![c] = h]
      BY <1>3, <1>8, QueueTypes DEF WriteFails
    <2>. QED  BY <1>8, <2>1, SendStepKeeps DEF WriteFails, SendGoTo
  <1>. QED  BY <1>1, <1>2, <1>4, <1>5, <1>6, <1>7, <1>8 DEF SendCycle

\* The peers cycle changes only its place.
LEMMA PeersKeeps ==
    ASSUME Inv, NEW c \in Conn, PeersCycle(c) PROVE Inv'
  <1>1. PeersOnly
    BY DEF PeersCycle, PeersLoop, GetPeers, WritePeers, PeersWake
  <1>2. PICK label \in {"loop", "getPeers", "write", "sleep", "finished"} : PeersGoTo(c, label)
    BY DEF PeersCycle, PeersLoop, GetPeers, WritePeers, PeersWake
  <1>3. peersCycle' \in [Conn -> {"loop", "getPeers", "write", "sleep", "finished"}]
    BY <1>2 DEF PeersGoTo, Inv, TypeOK
  <1>4. TypeOK'
    BY <1>1, <1>3 DEF PeersOnly, stopVars, serviceVars, streamVars, inVars, Inv, TypeOK
  <1>5. PoisonWaits'
    BY <1>1 DEF PeersOnly, stopVars, Inv, PoisonWaits
  <1>. QED  BY <1>4, <1>5 DEF Inv

LEMMA ServiceKeeps ==
    ASSUME Inv, NEW c \in Conn,
           \/ OnConnect(c) \/ SetInboundStream(c) \/ Send(c)
           \/ TrySetPeerPublicKey(c) \/ AppResets(c) \/ AppForgets(c)
    PROVE Inv'
  <1>. USE DEF Inv, TypeOK, PoisonWaits, AppOnly, stopVars, serviceVars, streamVars, inVars
  <1>1. CASE OnConnect(c)  BY <1>1 DEF OnConnect
  <1>2. CASE SetInboundStream(c)  BY <1>2 DEF SetInboundStream
  <1>4. CASE TrySetPeerPublicKey(c)  BY <1>4 DEF TrySetPeerPublicKey
  <1>5. CASE AppResets(c)  BY <1>5 DEF AppResets
  <1>6. CASE AppForgets(c)
    <2>1. PICK r \in {"none", "inbound", "live", "dead"} : reading' = [reading EXCEPT ![c] = r]
      BY <1>6 DEF AppForgets, ReadIsLive
    <2>. QED  BY <1>6, <2>1 DEF AppForgets
  <1>3. CASE Send(c)
    <2>1. /\ Append(queue[c], "message") \in Seq({"message", "poison"})
          /\ Append(queue[c], "message") # <<>>
      BY QueueTypes
    <2>. QED  BY <1>3, <2>1 DEF Send
  <1>. QED  BY <1>1, <1>2, <1>3, <1>4, <1>5, <1>6

LEMMA StopKeeps ==
    ASSUME Inv, CallStop \/ Stop PROVE Inv'
  <1>. USE DEF Inv, TypeOK, PoisonWaits, StopOnly, serviceVars, streamVars, inVars
  <1>1. CASE CallStop  BY <1>1, ConnAssumption DEF CallStop
  <1>2. CASE BeginStop  BY <1>2, ConnAssumption DEF BeginStop
  <1>3. CASE EndStop  BY <1>3, ConnAssumption DEF EndStop
  <1>4. ASSUME NEW c \in Conn, MarkTerminated(c) PROVE Inv'
    BY <1>4 DEF MarkTerminated
  <1>5. ASSUME NEW c \in Conn, Poison(c) PROVE Inv'
    <2>1. /\ Append(queue[c], "poison") \in Seq({"message", "poison"})
          /\ Append(queue[c], "poison") # <<>>
      BY QueueTypes
    <2>. QED  BY <1>5, <2>1 DEF Poison, ResetInbound
  <1>6. ASSUME NEW c \in Conn, ReceiveFinished(c) PROVE Inv'
    BY <1>6 DEF ReceiveFinished
  <1>7. ASSUME NEW c \in Conn, SendFinished(c) PROVE Inv'
    BY <1>7, ConnAssumption DEF SendFinished
  <1>. QED  BY <1>1, <1>2, <1>3, <1>4, <1>5, <1>6, <1>7 DEF Stop, Terminate

LEMMA NextInv == ASSUME Inv, [Next]_vars PROVE Inv'
  <1>1. CASE CallStop \/ Stop  BY <1>1, StopKeeps
  <1>2. ASSUME NEW c \in Conn, ReceiveCycle(c) PROVE Inv'  BY <1>2, ReceiveKeeps
  <1>3. ASSUME NEW c \in Conn, SendCycle(c) PROVE Inv'  BY <1>3, SendKeeps
  <1>4. ASSUME NEW c \in Conn, PeersCycle(c) PROVE Inv'  BY <1>4, PeersKeeps
  <1>5. ASSUME NEW c \in Conn,
               \/ OnConnect(c) \/ SetInboundStream(c) \/ Send(c)
               \/ TrySetPeerPublicKey(c) \/ AppResets(c) \/ AppForgets(c)
        PROVE Inv'
    BY <1>5, ServiceKeeps
  <1>6. CASE UNCHANGED vars
    BY <1>6 DEF vars, stopVars, serviceVars, streamVars, inVars, Inv, TypeOK, PoisonWaits
  <1>. QED  BY <1>1, <1>2, <1>3, <1>4, <1>5, <1>6 DEF Next

-----------------------------------------------------------------------------

\* Type correctness; also, the send cycle attempts a write only with a message in
\* hand (connection.go:283-301).
THEOREM StopTypes == Spec => []TypeOK
  <1>1. Inv => TypeOK  BY DEF Inv
  <1>. QED  BY <1>1, InitInv, NextInv, PTL DEF Spec

\* While Terminate waits for a connection's send cycle, that cycle is not left
\* waiting for a message, for any number of connections and whatever the cycle
\* clears from its queue (connection.go:285, 363, 766-773).
THEOREM TerminatingMessageArrives == Spec => []SendCycleWakes
  <1>1. Inv => SendCycleWakes  BY DEF Inv, PoisonWaits, SendCycleWakes
  <1>. QED  BY <1>1, InitInv, NextInv, PTL DEF Spec

=============================================================================
