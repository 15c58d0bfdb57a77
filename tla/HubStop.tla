------------------------------ MODULE HubStop -------------------------------
(***************************************************************************)
(* Stopping a hub.  Stop holds the service's mutex while it terminates the *)
(* connections one by one, and Terminate waits for the receive and the     *)
(* send cycle of the connection to finish.  The cycles take the mutex too, *)
(* in the callbacks with which they reach the service.                     *)
(*                                                                         *)
(* There are two kinds of locks: the mutex, and the streamLock of each     *)
(* connection.  A critical section in which nothing can block is one step, *)
(* possible while the lock is free; what remains is who holds a lock while *)
(* it waits: Stop and onConnect the mutex, and a send cycle, in            *)
(* checkOutboundStream, its streamLock.                                    *)
(*                                                                         *)
(* The receive cycle reads from the stream it found in inboundStream; what *)
(* becomes of the field later need not become of that stream.              *)
(*                                                                         *)
(* Messages are only counted, and writes and dials do not take for ever.   *)
(* A stream that is reset between a test for nil and its use, which would  *)
(* be a crash (see Streams), shows as a failed read or write here.         *)
(***************************************************************************)
EXTENDS Integers, Sequences

CONSTANTS
    Conn,        \* the connections in the map when Stop is called
    MaxQueue,    \* bound: messages waiting in a queue
    Nobody

ASSUME ConnAssumption == Nobody \notin Conn
ASSUME QueueAssumption == MaxQueue \in Nat

VARIABLES
    running,            \* PeerService.running
    stopCall,           \* where Stop is
    stopping,           \* the connection Stop waits for
    onConnect,          \* where the handler of a new stream is
    terminated,         \* the status is Terminated
    trySetKey,          \* where TrySetPeerPublicKey is
    inbound,            \* inboundStream
    reading,            \* the stream of the read: the field's, or one it named before
    outbound,           \* outboundStream is not nil
    queue,              \* the message queue
    holds,              \* the send cycle holds a message
    receiveCycle,       \* where the goroutines of a connection are
    sendCycle,
    peersCycle,
    peerCycleFinished   \* the channel is closed

inVars == <<inbound, reading>>
streamVars == <<inVars, outbound>>
stopVars == <<running, stopCall, stopping, terminated, peerCycleFinished>>
serviceVars == <<onConnect, trySetKey>>
vars == <<stopVars, serviceVars, streamVars, queue, holds, receiveCycle, sendCycle,
          peersCycle>>

TypeOK ==
    /\ running \in BOOLEAN
    /\ stopCall \in {"idle", "requested", "mark", "poison", "waitReceive", "waitSend", "done"}
    /\ stopping \in (IF stopCall \in {"poison", "waitReceive", "waitSend"} THEN Conn ELSE {Nobody})
    /\ onConnect \in [Conn -> {"idle", "setStream"}]
    /\ terminated \in [Conn -> BOOLEAN]
    /\ trySetKey \in [Conn -> {"idle", "tested", "clear"}]
    /\ inbound \in [Conn -> {"nil", "live", "dead"}]
    /\ reading \in [Conn -> {"none", "inbound", "live", "dead"}]
    /\ outbound \in [Conn -> BOOLEAN]
    /\ queue \in [Conn -> Seq({"message", "poison"})]
    /\ holds \in [Conn -> BOOLEAN]
    /\ receiveCycle \in [Conn -> {"loop", "reading", "callback", "waiting", "finished"}]
    /\ sendCycle \in [Conn -> {"check", "opening", "take", "attempt", "finished"}]
    /\ peersCycle \in [Conn -> {"loop", "getPeers", "write", "sleep", "finished"}]
    /\ peerCycleFinished \in [Conn -> BOOLEAN]
    /\ \A c \in Conn : sendCycle[c] = "attempt" => holds[c]

Init ==
    /\ running = TRUE
    /\ stopCall = "idle"
    /\ stopping = Nobody
    /\ onConnect = [c \in Conn |-> "idle"]
    /\ terminated = [c \in Conn |-> FALSE]
    /\ trySetKey = [c \in Conn |-> "idle"]
    /\ inbound \in [Conn -> {"nil", "live"}]
    /\ reading = [c \in Conn |-> "none"]
    /\ outbound = [c \in Conn |-> FALSE]
    /\ queue = [c \in Conn |-> <<>>]
    /\ holds = [c \in Conn |-> FALSE]
    /\ receiveCycle = [c \in Conn |-> "loop"]
    /\ sendCycle = [c \in Conn |-> "check"]
    /\ peersCycle = [c \in Conn |-> "loop"]
    /\ peerCycleFinished = [c \in Conn |-> FALSE]

\* Stop has the mutex until it returns, onConnect while it sets the stream.
StopHolds == stopCall \in {"mark", "poison", "waitReceive", "waitSend"}
MutexFree == ~StopHolds /\ \A c \in Conn : onConnect[c] # "setStream"

\* The send cycle has its streamLock while it dials and opens a stream.
StreamLockFree(c) == sendCycle[c] # "opening"

\* resetInboundStream, where nothing can set another stream in its middle: the
\* field's stream is dead then, also for who reads from it.
ResetInbound(c) ==
    /\ inbound' = [inbound EXCEPT ![c] = "nil"]
    /\ reading' = [reading EXCEPT ![c] = IF @ = "inbound" THEN "dead" ELSE @]

-----------------------------------------------------------------------------
(* receiveMessageCycle.                                                    *)

ReceiveGoTo(c, label) == receiveCycle' = [receiveCycle EXCEPT ![c] = label]
ReceiveOnly ==
    UNCHANGED <<stopVars, serviceVars, outbound, queue, holds, sendCycle, peersCycle>>

\* The loop ends with the connection.
ReceiveFinish(c) ==
    /\ receiveCycle[c] = "loop"
    /\ terminated[c]
    /\ ReceiveGoTo(c, "finished")
    /\ UNCHANGED inVars
    /\ ReceiveOnly

\* ReadOnce.  Without a stream the cycle sleeps and tests again.
ReadOnce(c) ==
    /\ receiveCycle[c] = "loop"
    /\ ~terminated[c]
    /\ inbound[c] # "nil"
    /\ reading' = [reading EXCEPT ![c] = "inbound"]
    /\ ReceiveGoTo(c, "reading")
    /\ UNCHANGED inbound
    /\ ReceiveOnly

\* The stream that is read from is up.
ReadIsLive(c) == reading[c] = "live" \/ (reading[c] = "inbound" /\ inbound[c] = "live")

\* A frame arrives: a message, handled without a lock, or a signature or a peer
\* list, for which the service is called.
ReadFrame(c) ==
    /\ receiveCycle[c] = "reading"
    /\ ReadIsLive(c)
    /\ reading' = [reading EXCEPT ![c] = "none"]
    /\ \E next \in {"loop", "callback"} : ReceiveGoTo(c, next)
    /\ UNCHANGED inbound
    /\ ReceiveOnly

\* The stream was reset, here or by the peer.  Whatever stream inboundStream names
\* now is reset.
ReadError(c) ==
    /\ receiveCycle[c] = "reading"
    /\ reading' = [reading EXCEPT ![c] = "none"]
    /\ inbound' = [inbound EXCEPT ![c] = "nil"]
    /\ ReceiveGoTo(c, "loop")
    /\ ReceiveOnly

\* onPublicKeyRecovered and updatePeerList return when the service is not running,
\* and otherwise wait for the mutex.
EnterCallback(c) ==
    /\ receiveCycle[c] = "callback"
    /\ ReceiveGoTo(c, IF running THEN "waiting" ELSE "loop")
    /\ UNCHANGED inVars
    /\ ReceiveOnly

Callback(c) ==
    /\ receiveCycle[c] = "waiting"
    /\ MutexFree
    /\ ReceiveGoTo(c, "loop")
    /\ UNCHANGED inVars
    /\ ReceiveOnly

-----------------------------------------------------------------------------
(* sendMessageCycle.                                                       *)

SendGoTo(c, label) == sendCycle' = [sendCycle EXCEPT ![c] = label]
SendOnly == UNCHANGED <<stopVars, serviceVars, receiveCycle, peersCycle>>

\* Faulty: the cycle does not test whether it has a message.
AlwaysAttempt(c) == "attempt"

\* A message that was not written is tried again before another is fetched.
Ready(c) == IF holds[c] THEN "attempt" ELSE "take"

\* The loop's test.
SendFinish(c) ==
    /\ sendCycle[c] = "check"
    /\ terminated[c]
    /\ SendGoTo(c, "finished")
    /\ UNCHANGED <<streamVars, queue, holds>>
    /\ SendOnly

\* checkOutboundStream takes the streamLock.
CheckOutboundStream(c) ==
    /\ sendCycle[c] = "check"
    /\ ~terminated[c]
    /\ SendGoTo(c, "opening")
    /\ UNCHANGED <<streamVars, queue, holds>>
    /\ SendOnly

\* NewStream returns, perhaps after Terminate has reset the streams.
Opened(c, stream) ==
    /\ outbound' = [outbound EXCEPT ![c] = stream]
    /\ SendGoTo(c, IF stream THEN Ready(c) ELSE "check")

\* The stream is there, or one is opened between connected hosts, or not.
StreamReady(c) ==
    /\ sendCycle[c] = "opening"
    /\ \E stream \in {outbound[c], TRUE} : Opened(c, stream)
    /\ UNCHANGED <<inVars, queue, holds>>
    /\ SendOnly

\* The hosts lost their connection, and with it all streams: both are reset, and the
\* peer's address is dialled and a stream opened, or not.
Disconnected(c) ==
    /\ sendCycle[c] = "opening"
    /\ inbound' = [inbound EXCEPT ![c] = "nil"]
    /\ reading' = [reading EXCEPT ![c] = IF @ = "none" THEN @ ELSE "dead"]
    /\ \E stream \in BOOLEAN : Opened(c, stream)
    /\ UNCHANGED <<queue, holds>>
    /\ SendOnly

\* DequeueOrWait.  The terminating message ends the cycle.
TakeMessage(c) ==
    /\ sendCycle[c] = "take"
    /\ queue[c] # <<>>
    /\ queue' = [queue EXCEPT ![c] = Tail(@)]
    /\ holds' = [holds EXCEPT ![c] = Head(queue[c]) = "message"]
    /\ SendGoTo(c, IF Head(queue[c]) = "message" THEN "attempt" ELSE "finished")
    /\ UNCHANGED streamVars
    /\ SendOnly

\* The write succeeds; a consensus message goes to the end of the queue.
WriteMessage(c) ==
    /\ sendCycle[c] = "attempt"
    /\ outbound[c]
    /\ holds' = [holds EXCEPT ![c] = FALSE]
    /\ \E again \in {<<>>, <<"message">>} : queue' = [queue EXCEPT ![c] = @ \o again]
    /\ SendGoTo(c, "check")
    /\ UNCHANGED streamVars
    /\ SendOnly

\* Faulty: after a drop the cycle fetches a message without the loop's test.
WriteFailsAndTakes(c) ==
    /\ sendCycle[c] = "attempt"
    /\ outbound' = [outbound EXCEPT ![c] = FALSE]
    /\ queue' = [queue EXCEPT ![c] = <<>>]
    /\ holds' = [holds EXCEPT ![c] = FALSE]
    /\ SendGoTo(c, "take")
    /\ UNCHANGED inVars
    /\ SendOnly

\* The write fails, and the message is kept or dropped with the whole queue.
WriteFails(c) ==
    /\ sendCycle[c] = "attempt"
    /\ outbound' = [outbound EXCEPT ![c] = FALSE]
    /\ \/ UNCHANGED <<queue, holds>>
       \/ /\ queue' = [queue EXCEPT ![c] = <<>>]
          /\ holds' = [holds EXCEPT ![c] = FALSE]
    /\ SendGoTo(c, "check")
    /\ UNCHANGED inVars
    /\ SendOnly

-----------------------------------------------------------------------------
(* sendPeersCycle.                                                         *)

PeersGoTo(c, label) == peersCycle' = [peersCycle EXCEPT ![c] = label]
PeersOnly ==
    UNCHANGED <<stopVars, serviceVars, streamVars, queue, holds, receiveCycle,
                sendCycle>>

\* Faulty: the loop does not look at the status.
PeersLoopForEver(c) ==
    /\ peersCycle[c] = "loop"
    /\ \/ outbound[c] /\ PeersGoTo(c, "getPeers")
       \/ PeersGoTo(c, "sleep")
    /\ PeersOnly

\* The loop's test; then nothing is sent to a banned peer, or without a stream.
PeersLoop(c) ==
    /\ peersCycle[c] = "loop"
    /\ \/ terminated[c] /\ PeersGoTo(c, "finished")
       \/ ~terminated[c] /\ outbound[c] /\ PeersGoTo(c, "getPeers")
       \/ ~terminated[c] /\ PeersGoTo(c, "sleep")
    /\ PeersOnly

\* GetPeers takes the mutex.  An empty list is not sent.
GetPeers(c) ==
    /\ peersCycle[c] = "getPeers"
    /\ MutexFree
    /\ \E next \in {"write", "sleep"} : PeersGoTo(c, next)
    /\ PeersOnly

\* The write takes the streamLock.
WritePeers(c) ==
    /\ peersCycle[c] = "write"
    /\ StreamLockFree(c)
    /\ PeersGoTo(c, "sleep")
    /\ PeersOnly

\* The select: a minute is over, or the channel is closed.
PeersWake(c) ==
    /\ peersCycle[c] = "sleep"
    /\ \/ PeersGoTo(c, "loop")
       \/ peerCycleFinished[c] /\ PeersGoTo(c, "finished")
    /\ PeersOnly

-----------------------------------------------------------------------------
(* The service.                                                            *)

\* onConnect of a known peer takes the mutex, and then, in SetInboundStream, the
\* streamLock.
OnConnect(c) ==
    /\ onConnect[c] = "idle"
    /\ running
    /\ MutexFree
    /\ onConnect' = [onConnect EXCEPT ![c] = "setStream"]
    /\ UNCHANGED <<stopVars, trySetKey, streamVars, queue, holds, receiveCycle,
                   sendCycle, peersCycle>>

\* The stream that was there is reset.
SetInboundStream(c) ==
    /\ onConnect[c] = "setStream"
    /\ StreamLockFree(c)
    /\ inbound' = [inbound EXCEPT ![c] = "live"]
    /\ reading' = [reading EXCEPT ![c] = IF @ = "inbound" THEN "dead" ELSE @]
    /\ onConnect' = [onConnect EXCEPT ![c] = "idle"]
    /\ UNCHANGED <<stopVars, trySetKey, outbound, queue, holds, receiveCycle, sendCycle,
                   peersCycle>>

AppOnly ==
    UNCHANGED <<stopVars, onConnect, outbound, queue, holds, receiveCycle, sendCycle,
                peersCycle>>

\* TrySetPeerPublicKey, called by the application without a lock: the test of the
\* status, and a key that is not the peer's.
TrySetPeerPublicKey(c) ==
    /\ trySetKey[c] = "idle"
    /\ ~terminated[c]
    /\ trySetKey' = [trySetKey EXCEPT ![c] = "tested"]
    /\ UNCHANGED inVars
    /\ AppOnly

\* Its resetInboundStream in two steps: the stream there is reset, and whatever
\* stream is there then is forgotten.
AppResets(c) ==
    /\ trySetKey[c] = "tested"
    /\ trySetKey' = [trySetKey EXCEPT ![c] = IF inbound[c] = "nil" THEN "idle" ELSE "clear"]
    /\ inbound' = [inbound EXCEPT ![c] = IF @ = "nil" THEN @ ELSE "dead"]
    /\ UNCHANGED reading
    /\ AppOnly

AppForgets(c) ==
    /\ trySetKey[c] = "clear"
    /\ trySetKey' = [trySetKey EXCEPT ![c] = "idle"]
    /\ inbound' = [inbound EXCEPT ![c] = "nil"]
    /\ reading' = [reading EXCEPT ![c] = CASE @ # "inbound" -> @
                                           [] ReadIsLive(c) -> "live"
                                           [] OTHER -> "dead"]
    /\ AppOnly

\* The application sends, under the mutex.
Send(c) ==
    /\ MutexFree
    /\ stopCall # "done"
    /\ Len(queue[c]) < MaxQueue
    /\ queue' = [queue EXCEPT ![c] = Append(@, "message")]
    /\ UNCHANGED <<stopVars, serviceVars, streamVars, holds, receiveCycle,
                   sendCycle, peersCycle>>

-----------------------------------------------------------------------------
(* Stop.                                                                   *)

StopOnly == UNCHANGED <<serviceVars, holds, receiveCycle, sendCycle, peersCycle>>

CallStop ==
    /\ stopCall = "idle"
    /\ stopCall' = "requested"
    /\ UNCHANGED <<running, stopping, terminated, peerCycleFinished, streamVars, queue>>
    /\ StopOnly

\* Stop takes the mutex.
BeginStop ==
    /\ stopCall = "requested"
    /\ MutexFree
    /\ stopCall' = "mark"
    /\ running' = FALSE
    /\ UNCHANGED <<stopping, terminated, peerCycleFinished, streamVars, queue>>
    /\ StopOnly

\* Terminate of the next connection: the status first.
MarkTerminated(c) ==
    /\ stopCall = "mark"
    /\ stopCall' = "poison"
    /\ ~terminated[c]
    /\ stopping' = c
    /\ terminated' = [terminated EXCEPT ![c] = TRUE]
    /\ UNCHANGED <<running, peerCycleFinished, streamVars, queue>>
    /\ StopOnly

\* Faulty: nothing is queued that would wake the send cycle.
ResetOnly(c) ==
    /\ stopCall = "poison"
    /\ stopping = c
    /\ stopCall' = "waitReceive"
    /\ ResetInbound(c)
    /\ outbound' = [outbound EXCEPT ![c] = FALSE]
    /\ UNCHANGED <<running, stopping, terminated, peerCycleFinished, queue>>
    /\ StopOnly

\* Then the terminating message is queued and the streams are reset.
Poison(c) ==
    /\ stopCall = "poison"
    /\ stopping = c
    /\ stopCall' = "waitReceive"
    /\ queue' = [queue EXCEPT ![c] = Append(@, "poison")]
    /\ ResetInbound(c)
    /\ outbound' = [outbound EXCEPT ![c] = FALSE]
    /\ UNCHANGED <<running, stopping, terminated, peerCycleFinished>>
    /\ StopOnly

ReceiveFinished(c) ==
    /\ stopCall = "waitReceive"
    /\ stopping = c
    /\ receiveCycle[c] = "finished"
    /\ stopCall' = "waitSend"
    /\ UNCHANGED <<running, stopping, terminated, peerCycleFinished, streamVars, queue>>
    /\ StopOnly

\* Terminate returns.
SendFinished(c) ==
    /\ stopCall = "waitSend"
    /\ stopping = c
    /\ sendCycle[c] = "finished"
    /\ stopCall' = "mark"
    /\ stopping' = Nobody
    /\ peerCycleFinished' = [peerCycleFinished EXCEPT ![c] = TRUE]
    /\ UNCHANGED <<running, terminated, streamVars, queue>>
    /\ StopOnly

\* All connections are terminated: Stop releases the mutex and returns.
EndStop ==
    /\ stopCall = "mark"
    /\ \A c \in Conn : terminated[c]
    /\ stopCall' = "done"
    /\ UNCHANGED <<running, stopping, terminated, peerCycleFinished, streamVars, queue>>
    /\ StopOnly

-----------------------------------------------------------------------------

ReceiveCycle(c) ==
    \/ ReceiveFinish(c) \/ ReadOnce(c) \/ ReadFrame(c) \/ ReadError(c)
    \/ EnterCallback(c) \/ Callback(c)

\* The steps the receive cycle takes without anything arriving.
ReceiveRuns(c) ==
    \/ ReceiveFinish(c) \/ ReadOnce(c) \/ (~ReadIsLive(c) /\ ReadError(c))
    \/ EnterCallback(c) \/ Callback(c)

SendCycle(c) ==
    \/ SendFinish(c) \/ CheckOutboundStream(c) \/ StreamReady(c) \/ Disconnected(c)
    \/ TakeMessage(c) \/ WriteMessage(c) \/ WriteFails(c)

PeersCycle(c) == PeersLoop(c) \/ GetPeers(c) \/ WritePeers(c) \/ PeersWake(c)

Terminate(c) == MarkTerminated(c) \/ Poison(c) \/ ReceiveFinished(c) \/ SendFinished(c)

Stop == BeginStop \/ EndStop \/ \E c \in Conn : Terminate(c)

Next ==
    \/ CallStop
    \/ Stop
    \/ \E c \in Conn :
          \/ ReceiveCycle(c) \/ SendCycle(c) \/ PeersCycle(c)
          \/ OnConnect(c) \/ SetInboundStream(c) \/ Send(c)
          \/ TrySetPeerPublicKey(c) \/ AppResets(c) \/ AppForgets(c)

Spec == Init /\ [][Next]_vars

\* Goroutines run, and a mutex that is free again and again is taken in the end
\* (Go's mutexes are fair to a goroutine that has waited long).  Frames, streams,
\* keys and sends need not come, a stream that is up need not fail, and Stop need
\* not be called.
Fairness ==
    /\ SF_vars(Stop)
    /\ \A c \in Conn :
          /\ WF_vars(ReceiveRuns(c)) /\ SF_vars(Callback(c))
          /\ WF_vars(SendCycle(c))
          /\ WF_vars(PeersCycle(c)) /\ SF_vars(GetPeers(c)) /\ SF_vars(WritePeers(c))
          /\ SF_vars(SetInboundStream(c))
          /\ WF_vars(AppResets(c) \/ AppForgets(c))

FairSpec == Spec /\ Fairness

-----------------------------------------------------------------------------

\* A terminated connection's send cycle does not wait for a message for ever: from
\* the moment Terminate waits, a cycle that is about to fetch finds something in
\* the queue, although it may clear the queue at any time
\* (connection.go:268, 285, 363, 766-768).
SendCycleWakes ==
    \A c \in Conn :
        stopping = c /\ stopCall \in {"waitReceive", "waitSend"} /\ sendCycle[c] = "take"
            => queue[c] # <<>>

\* Stop holds the mutex and waits for a cycle that waits for the mutex.
StopDeadlock(c) ==
    /\ stopCall = "waitReceive" /\ stopping = c
    /\ receiveCycle[c] = "waiting"

\* Stop waits for a read from a stream that is up and that inboundStream does not
\* name, so that no reset has ended the read.
ReadForgotten(c) ==
    /\ stopCall = "waitReceive" /\ stopping = c
    /\ receiveCycle[c] = "reading" /\ reading[c] = "live"

\* Stop returns unless it deadlocks with a callback, or the peer stays quiet on a
\* stream that was forgotten while it was read from: nothing else, no wait for a
\* message, no cleared queue, no other read and no stream opened late, can keep it
\* (peer_service.go:366-378, connection.go:766-777).
StopEndsOrStuck ==
    \/ stopCall = "requested" ~> stopCall = "done" \/ \E c \in Conn : StopDeadlock(c)
    \/ \E c \in Conn : <>[]ReadForgotten(c)

\* When Stop has returned, no goroutine of a connection goes on for ever, the peer
\* cycles included, for which it does not wait (connection.go:372-382, 775).
CyclesEnd ==
    stopCall = "done" ~>
        \A c \in Conn : /\ receiveCycle[c] = "finished"
                        /\ sendCycle[c] = "finished"
                        /\ peersCycle[c] = "finished"

\* Stop returns: the test TestReconnect2Nodes calls p2.Stop() and starts the hub
\* again after it (main_test.go:199-200).
StopReturns == stopCall = "requested" ~> stopCall = "done"

=============================================================================
