------------------------------ MODULE Streams --------------------------------
(***************************************************************************)
(* The streams and the status of one connection, and the threads that      *)
(* share them: the receive, the send and the peers cycle, the signature    *)
(* senders, the application (TrySetPeerPublicKey), onConnect               *)
(* (SetInboundStream) and Stop (Terminate).  Writes and SetInboundStream   *)
(* hold the streamLock; tests for nil, reads and resets do not, so each of *)
(* them is a step, and so is each test and swap of the status.             *)
(*                                                                         *)
(* The peer opens an inbound stream whenever its newest one is dead, and   *)
(* may give one up.  Inbound streams have numbers, because an old one can  *)
(* be mistaken for its successor; of outbound streams only the current one *)
(* matters.  Messages and frames carry nothing, and whether the send cycle *)
(* has one left from before is open.                                       *)
(*                                                                         *)
(* A thread that uses a stream that is nil panics, and the process ends.   *)
(***************************************************************************)
EXTENDS Integers

CONSTANTS
    Start,        \* streams the connection begins with: 0 in New, 1 in FromStream
    MaxStreams,   \* bound: inbound streams the peer opens
    MaxFaults     \* bound: streams that die, bad frames, keys and signatures

ASSUME StartAssumption == Start \subseteq {0, 1} /\ Start \subseteq 0 .. MaxStreams
ASSUME BoundsAssumption == MaxStreams \in Nat /\ MaxFaults \in Nat

Thread == {"receive", "send", "peers", "app", "onConnect", "terminate"}
Nobody == "nobody"
Nil == 0

VARIABLES
    status,
    signed,          \* signature is set
    signatureSent,
    inboundStream,
    outboundStream,  \* "greeted" is a live one to which a signature was written
    streamLock,
    pc,              \* where each thread is
    reading,         \* the stream the receive cycle reads from
    testing, writing,  \* signature senders before and after their test for nil
    opened,          \* inbound streams so far
    live,            \* the inbound streams neither side has reset
    taken,           \* history: the last stream that was set
    connected,       \* Connectedness of the hosts
    crashed,         \* the thread that used a nil stream
    faults

exchange == <<status, signed, signatureSent>>
inVars == <<inboundStream, live, taken>>
signers == <<testing, writing>>
world == <<opened, connected, faults>>
vars == <<exchange, inVars, outboundStream, signers, reading, world, streamLock, pc,
          crashed>>

InStream == 1 .. MaxStreams

Status == {"NotConnected", "JustConnected", "HandshakeComplete", "Terminated"}
ResetIn == {"testIn", "resetIn", "clearIn"}
ResetOut == {"testOut", "resetOut", "clearOut"}
Labels(t) ==
    CASE t = "receive" -> {"loop", "read", "reading", "verify", "finished"}
                          \union ResetIn
      [] t = "send" -> {"start", "loop", "connect", "open", "sign", "take", "write",
                        "finished"} \union ResetIn \union ResetOut
      [] t = "peers" -> {"idle", "write"}
      [] t = "app" -> {"idle", "verify"} \union ResetIn
      [] t = "onConnect" -> {"idle", "lock", "replace", "set"}
      [] t = "terminate" -> {"idle", "wait", "done"} \union ResetIn \union ResetOut

PcOK ==
    /\ pc \in [Thread -> UNION {Labels(t) : t \in Thread}]
    /\ \A t \in Thread : pc[t] \in Labels(t)

TypeOK ==
    /\ status \in Status
    /\ signed \in BOOLEAN
    /\ signatureSent \in {0, 1}
    /\ inboundStream \in InStream \union {Nil}
    /\ outboundStream \in {"nil", "live", "greeted", "dead"}
    /\ streamLock \in {"send", "onConnect", Nobody}
    /\ PcOK
    /\ reading \in InStream \union {Nil}
    /\ testing \in Nat
    /\ writing \in Nat
    /\ opened \in 0 .. MaxStreams
    /\ live \subseteq 1 .. opened
    /\ taken \in 0 .. opened
    /\ connected \in BOOLEAN
    /\ crashed \in Thread \union {"signer", Nobody}
    /\ faults \in 0 .. MaxFaults

\* New without a stream, or FromStream with the first one, which may have started
\* a signature sender.
Init ==
    /\ status = "NotConnected"
    /\ opened \in Start
    /\ signed \in {FALSE, opened = 1}
    /\ testing = IF signed THEN 1 ELSE 0
    /\ signatureSent = testing
    /\ inboundStream = opened
    /\ live = 1 .. opened
    /\ taken = opened
    /\ connected = (opened = 1)
    /\ outboundStream = "nil"
    /\ streamLock = Nobody
    /\ pc = [t \in Thread |-> CASE t = "send" -> "start"
                              [] t = "receive" -> "loop"
                              [] OTHER -> "idle"]
    /\ reading = Nil
    /\ writing = 0
    /\ crashed = Nobody
    /\ faults = 0

Up == crashed = Nobody
At(t, label) == Up /\ pc[t] = label
GoTo(t, label) == pc' = [pc EXCEPT ![t] = label]

LockFree == streamLock = Nobody
Acquire(t) == LockFree /\ streamLock' = t
Release == streamLock' = Nobody

Fault == Up /\ faults < MaxFaults /\ faults' = faults + 1

PcOnly ==
    UNCHANGED <<exchange, inVars, outboundStream, signers, reading, world, streamLock,
                crashed>>

\* A method of a nil stream is called.
Panic(t) ==
    /\ crashed' = t
    /\ UNCHANGED <<exchange, inVars, outboundStream, signers, reading, world,
                   streamLock, pc>>

\* Faulty: the status is stored.
Store(from, to) == status' = to

\* The two compare-and-swaps, one behind the other, with which a status is left
\* behind.  They come some time after a test of the status, and are a step of their own.
Swap(from, to) == status' = IF status \in from THEN to ELSE status

\* A stream is new: its handshake is to come.
JustConnected == Swap({"NotConnected", "HandshakeComplete"}, "JustConnected")
\* The key was recovered.
HandshakeComplete == Swap({"NotConnected", "JustConnected"}, "HandshakeComplete")

-----------------------------------------------------------------------------
(* resetInboundStream and resetOutboundStream.                             *)

\* Faulty: whoever resets the inbound stream resets the outbound stream too.
ResetBoth(t) == "testOut"

\* Where a thread goes on after it reset the inbound stream, and the outbound one.
\* The send cycle resets both while it has the lock and only the outbound stream,
\* without the lock, when a write failed.
AfterResetIn(t) ==
    CASE t = "receive" -> "loop"
      [] t = "app" -> "idle"
      [] OTHER -> "testOut"
AfterResetOut(t) ==
    CASE t = "terminate" -> "wait"
      [] t = "send" /\ streamLock = "send" -> "connect"
      [] OTHER -> "loop"

TestIn(t) ==
    /\ At(t, "testIn")
    /\ GoTo(t, IF inboundStream = Nil THEN AfterResetIn(t) ELSE "resetIn")
    /\ PcOnly

\* The stream is reset; it need not be the one that was tested.
UseIn(t) ==
    /\ At(t, "resetIn")
    /\ IF inboundStream = Nil
       THEN Panic(t)
       ELSE /\ live' = live \ {inboundStream}
            /\ GoTo(t, "clearIn")
            /\ UNCHANGED <<exchange, inboundStream, taken, outboundStream, signers,
                           reading, world, streamLock, crashed>>

\* Whatever stream is there now is forgotten.
ClearIn(t) ==
    /\ At(t, "clearIn")
    /\ inboundStream' = Nil
    /\ GoTo(t, AfterResetIn(t))
    /\ UNCHANGED <<exchange, live, taken, outboundStream, signers, reading, world,
                   streamLock, crashed>>

TestOut(t) ==
    /\ At(t, "testOut")
    /\ GoTo(t, IF outboundStream = "nil" THEN AfterResetOut(t) ELSE "resetOut")
    /\ PcOnly

UseOut(t) ==
    /\ At(t, "resetOut")
    /\ IF outboundStream = "nil"
       THEN Panic(t)
       ELSE /\ outboundStream' = "dead"
            /\ GoTo(t, "clearOut")
            /\ UNCHANGED <<exchange, inVars, signers, reading, world, streamLock,
                           crashed>>

ClearOut(t) ==
    /\ At(t, "clearOut")
    /\ outboundStream' = "nil"
    /\ GoTo(t, AfterResetOut(t))
    /\ UNCHANGED <<exchange, inVars, signers, reading, world, streamLock, crashed>>

ResetInbound(t) == TestIn(t) \/ UseIn(t) \/ ClearIn(t)
ResetOutbound(t) == TestOut(t) \/ UseOut(t) \/ ClearOut(t)

-----------------------------------------------------------------------------
(* receiveMessageCycle.                                                    *)

\* The loop's test; without a stream the cycle sleeps and tests again.
ReceiveLoop ==
    /\ At("receive", "loop")
    /\ status = "Terminated" \/ inboundStream # Nil
    /\ GoTo("receive", IF status = "Terminated" THEN "finished" ELSE "read")
    /\ PcOnly

ReadOnce ==
    /\ At("receive", "read")
    /\ IF inboundStream = Nil
       THEN Panic("receive")
       ELSE /\ reading' = inboundStream
            /\ GoTo("receive", "reading")
            /\ UNCHANGED <<exchange, inVars, outboundStream, signers, world,
                           streamLock, crashed>>

\* A frame arrives that is no signature, or one whose handling does not concern
\* the streams.
ReadFrame ==
    /\ At("receive", "reading")
    /\ reading \in live
    /\ reading' = Nil
    /\ GoTo("receive", "loop")
    /\ UNCHANGED <<exchange, inVars, outboundStream, signers, world,
                   streamLock, crashed>>

\* The read fails because the stream was reset, or because the frame is malformed.
ReadError ==
    /\ At("receive", "reading")
    /\ reading \in live => Fault
    /\ reading \notin live => UNCHANGED faults
    /\ reading' = Nil
    /\ GoTo("receive", "testIn")
    /\ UNCHANGED <<exchange, inVars, outboundStream, signers, opened, connected,
                   streamLock, crashed>>

\* handleSignature tests the status; of a terminated connection the frame is ignored
\* like one that does not concern the streams.
HandleSignature ==
    /\ At("receive", "reading")
    /\ reading \in live
    /\ status # "Terminated"
    /\ reading' = Nil
    /\ GoTo("receive", "verify")
    /\ UNCHANGED <<exchange, inVars, outboundStream, signers, world,
                   streamLock, crashed>>

\* A key that does not verify, or is not the known one, costs the inbound stream;
\* else the status is swapped, unless the application's key was known already.
AfterVerify(t) == IF t = "receive" THEN "loop" ELSE "idle"
Verify(t) ==
    /\ At(t, "verify")
    /\ \/ HandshakeComplete /\ GoTo(t, AfterVerify(t)) /\ UNCHANGED faults
       \/ Fault /\ GoTo(t, "testIn") /\ UNCHANGED status
       \/ t = "app" /\ GoTo(t, "idle") /\ UNCHANGED <<status, faults>>
    /\ UNCHANGED <<signed, signatureSent, inVars, outboundStream, signers, reading, opened,
                   connected, streamLock, crashed>>

-----------------------------------------------------------------------------
(* sendMessageCycle.                                                       *)

SendStart ==
    /\ At("send", "start")
    /\ signatureSent' = 0
    /\ GoTo("send", "loop")
    /\ UNCHANGED <<status, signed, inVars, outboundStream, signers, reading, world,
                   streamLock, crashed>>

\* The loop's test.
SendFinish ==
    /\ At("send", "loop")
    /\ status = "Terminated"
    /\ GoTo("send", "finished")
    /\ PcOnly

\* Faulty: the signature is not asked for again.
KeepAsked == UNCHANGED signatureSent

\* The flag that a signature sender was started is reset.
AskAgain == signatureSent' = 0

\* The loop's test and checkOutboundStream between connected hosts: the lock is held
\* while a missing stream is opened.
CheckOutboundStream ==
    /\ At("send", "loop")
    /\ status # "Terminated"
    /\ LockFree
    /\ connected
    /\ \/ outboundStream # "nil" /\ GoTo("send", "sign") /\ UNCHANGED streamLock
       \/ outboundStream = "nil" /\ GoTo("send", "open") /\ Acquire("send")
    /\ UNCHANGED <<exchange, inVars, outboundStream, signers, reading, world, crashed>>

\* The hosts are not connected: the lock is held while both streams are reset.
Disconnected ==
    /\ At("send", "loop")
    /\ status # "Terminated"
    /\ Acquire("send")
    /\ ~connected
    /\ GoTo("send", "testIn")
    /\ UNCHANGED <<exchange, inVars, outboundStream, signers, reading, world, crashed>>

\* The dial succeeds or not.
Connect ==
    /\ At("send", "connect")
    /\ \/ /\ connected' = TRUE
          /\ AskAgain
          /\ GoTo("send", "open")
          /\ UNCHANGED streamLock
       \/ /\ ~connected
          /\ Release
          /\ GoTo("send", "loop")
          /\ UNCHANGED <<connected, signatureSent>>
    /\ UNCHANGED <<status, signed, inVars, outboundStream, signers, reading, opened,
                   faults, crashed>>

\* NewStream returns a stream, or fails, and the cycle sleeps.
OpenStream ==
    /\ At("send", "open")
    /\ \/ /\ connected
          /\ outboundStream' = "live"
          /\ AskAgain
          /\ JustConnected
          /\ GoTo("send", "sign")
       \/ /\ GoTo("send", "loop")
          /\ UNCHANGED <<status, signatureSent, outboundStream>>
    /\ Release
    /\ UNCHANGED <<signed, inVars, signers, reading, world, crashed>>

\* Where the cycle goes with its message: the test for nil comes before the lock.
Attempt == IF outboundStream = "nil" THEN "loop" ELSE "write"

\* A signature sender is started unless one was since the flag was reset.  Then a
\* message that is left from before is tried again, or one is fetched.
AskForSignature ==
    /\ At("send", "sign")
    /\ IF signed /\ signatureSent = 0
       THEN signatureSent' = 1 /\ testing' = testing + 1
       ELSE UNCHANGED <<signatureSent, testing>>
    /\ \E next \in {"take", Attempt} : GoTo("send", next)
    /\ UNCHANGED <<status, signed, inVars, outboundStream, writing, reading, world,
                   streamLock, crashed>>

\* DequeueOrWait returns a message.
TakeMessage ==
    /\ At("send", "take")
    /\ GoTo("send", Attempt)
    /\ PcOnly

\* DequeueOrWait returns the message with which Terminate ends the cycle.
TakeTerminating ==
    /\ At("send", "take")
    /\ status = "Terminated"
    /\ GoTo("send", "finished")
    /\ PcOnly

\* Write, with the lock.  A write to a dead stream may succeed or fail; then the
\* stream is reset, without the lock.
WriteMessage ==
    /\ At("send", "write")
    /\ LockFree
    /\ \/ outboundStream = "nil" /\ Panic("send")
       \/ outboundStream # "nil" /\ GoTo("send", "loop") /\ PcOnly
       \/ outboundStream = "dead" /\ GoTo("send", "testOut") /\ PcOnly

\* The message was confirmed already and is not written.
SettleMessage ==
    /\ At("send", "write")
    /\ GoTo("send", "loop")
    /\ PcOnly

SendCycle ==
    \/ SendStart \/ SendFinish \/ CheckOutboundStream \/ Disconnected \/ Connect
    \/ OpenStream \/ AskForSignature \/ TakeTerminating \/ WriteMessage \/ SettleMessage
    \/ ResetInbound("send") \/ ResetOutbound("send")

-----------------------------------------------------------------------------
(* sendSignature.                                                          *)

\* Faulty: the loop does not look at the status.
TestForEver ==
    /\ Up /\ testing > 0
    /\ outboundStream # "nil"
    /\ testing' = testing - 1
    /\ writing' = writing + 1
    /\ UNCHANGED <<exchange, inVars, outboundStream, reading, world, streamLock, pc,
                   crashed>>

\* A sender's loop.  It ends with the connection; without a stream it sleeps.
TestSignature ==
    /\ Up /\ testing > 0
    /\ status = "Terminated" \/ outboundStream # "nil"
    /\ testing' = testing - 1
    /\ writing' = IF status = "Terminated" THEN writing ELSE writing + 1
    /\ UNCHANGED <<exchange, inVars, outboundStream, reading, world, streamLock, pc,
                   crashed>>

\* Faulty: a sender whose write fails forgets the stream.
SendSignatureOrReset ==
    /\ Up /\ writing > 0
    /\ LockFree
    /\ writing' = writing - 1
    /\ outboundStream' = IF outboundStream = "live" THEN "greeted" ELSE "nil"
    /\ UNCHANGED <<exchange, inVars, testing, reading, world, streamLock, pc, crashed>>

\* The sender ends when the write succeeds and tries again when it fails.
SendSignature ==
    /\ Up /\ writing > 0
    /\ LockFree
    /\ \/ /\ outboundStream = "nil"
          /\ Panic("signer")
       \/ /\ outboundStream # "nil"
          /\ writing' = writing - 1
          /\ outboundStream' = IF outboundStream = "live" THEN "greeted"
                               ELSE outboundStream
          /\ UNCHANGED <<exchange, inVars, testing, reading, world, streamLock, pc,
                         crashed>>
       \/ /\ outboundStream = "dead"
          /\ writing' = writing - 1
          /\ testing' = testing + 1
          /\ UNCHANGED <<exchange, inVars, outboundStream, reading, world, streamLock,
                         pc, crashed>>

-----------------------------------------------------------------------------
(* sendPeers.                                                              *)

\* A stream is there, and getPeers returns the peers.
TestPeers ==
    /\ At("peers", "idle")
    /\ status # "Terminated"
    /\ outboundStream # "nil"
    /\ GoTo("peers", "write")
    /\ PcOnly

\* The list is written, with the lock, or not.
SendPeers ==
    /\ At("peers", "write")
    /\ LockFree
    /\ IF outboundStream = "nil"
       THEN Panic("peers")
       ELSE GoTo("peers", "idle") /\ PcOnly

-----------------------------------------------------------------------------
(* SetSignature and TrySetPeerPublicKey.                                   *)

SetSignature ==
    /\ Up /\ ~signed
    /\ signed' = TRUE
    /\ signatureSent' = 1
    /\ testing' = IF signatureSent = 0 THEN testing + 1 ELSE testing
    /\ UNCHANGED <<status, inVars, outboundStream, writing, reading, world,
                   streamLock, pc, crashed>>

\* The test of the status.
TrySetPeerPublicKey ==
    /\ At("app", "idle")
    /\ status # "Terminated"
    /\ GoTo("app", "verify")
    /\ PcOnly

Application == Verify("app") \/ ResetInbound("app")

-----------------------------------------------------------------------------
(* SetInboundStream, called by onConnect with the service's mutex, which   *)
(* keeps it apart from Terminate: its test of the status is no step.       *)

\* The peer opens a stream because its newest one is dead, or because it gave up
\* a live one; the hosts are connected by that.
PeerOpens ==
    /\ At("onConnect", "idle")
    /\ At("terminate", "idle")
    /\ opened < MaxStreams
    /\ opened \in live => Fault
    /\ opened \notin live => UNCHANGED faults
    /\ opened' = opened + 1
    /\ live' = live \union {opened'}
    /\ connected' = TRUE
    /\ GoTo("onConnect", "lock")
    /\ UNCHANGED <<exchange, inboundStream, taken, outboundStream, signers, reading,
                   streamLock, crashed>>

LockAndTest ==
    /\ At("onConnect", "lock")
    /\ Acquire("onConnect")
    /\ GoTo("onConnect", IF inboundStream = Nil THEN "set" ELSE "replace")
    /\ UNCHANGED <<exchange, inVars, outboundStream, signers, reading, world, crashed>>

ReplaceStream ==
    /\ At("onConnect", "replace")
    /\ IF inboundStream = Nil
       THEN Panic("onConnect")
       ELSE /\ live' = live \ {inboundStream}
            /\ GoTo("onConnect", "set")
            /\ UNCHANGED <<exchange, inboundStream, taken, outboundStream, signers,
                           reading, world, streamLock, crashed>>

\* Faulty: a connection that has a stream keeps it.
SetStreamOnce ==
    /\ At("onConnect", "set")
    /\ inboundStream' = IF inboundStream = Nil THEN opened ELSE inboundStream
    /\ taken' = inboundStream'
    /\ signatureSent' = 0
    /\ JustConnected
    /\ Release
    /\ GoTo("onConnect", "idle")
    /\ UNCHANGED <<signed, live, outboundStream, signers, reading, world, crashed>>

\* The stream is set, and the peer is to get the signature again.
SetStream ==
    /\ At("onConnect", "set")
    /\ inboundStream' = opened
    /\ taken' = opened
    /\ signatureSent' = 0
    /\ JustConnected
    /\ Release
    /\ GoTo("onConnect", "idle")
    /\ UNCHANGED <<signed, live, outboundStream, signers, reading, world, crashed>>

SetInboundStream == LockAndTest \/ ReplaceStream \/ SetStream

-----------------------------------------------------------------------------
(* Terminate.                                                              *)

\* Stop has the mutex: no SetInboundStream is under way, and none comes after.
Terminate ==
    /\ At("terminate", "idle")
    /\ At("onConnect", "idle")
    /\ status' = "Terminated"
    /\ GoTo("terminate", "testIn")
    /\ UNCHANGED <<signed, signatureSent, inVars, outboundStream, signers, reading, world,
                   streamLock, crashed>>

\* Both cycles have ended.
TerminateReturns ==
    /\ At("terminate", "wait")
    /\ At("receive", "finished") /\ At("send", "finished")
    /\ GoTo("terminate", "done")
    /\ PcOnly

-----------------------------------------------------------------------------
(* The network.                                                            *)

BreakInbound ==
    /\ Fault
    /\ \E s \in live : live' = live \ {s}
    /\ UNCHANGED <<exchange, inboundStream, taken, outboundStream, signers, reading,
                   opened, connected, streamLock, pc, crashed>>

BreakOutbound ==
    /\ Fault
    /\ outboundStream \in {"live", "greeted"}
    /\ outboundStream' = "dead"
    /\ UNCHANGED <<exchange, inVars, signers, reading, opened, connected,
                   streamLock, pc, crashed>>

\* The hosts lose each other, and with that all streams.
Disconnect ==
    /\ Fault
    /\ connected
    /\ connected' = FALSE
    /\ live' = {}
    /\ outboundStream' = IF outboundStream = "nil" THEN "nil" ELSE "dead"
    /\ UNCHANGED <<exchange, inboundStream, taken, signers, reading, opened, streamLock,
                   pc, crashed>>

-----------------------------------------------------------------------------

\* What the receive cycle does without anything arriving.
ReceiveRuns ==
    \/ ReceiveLoop \/ ReadOnce \/ (reading \notin live /\ ReadError)
    \/ Verify("receive") \/ ResetInbound("receive")

ReceiveCycle == ReceiveRuns \/ ReadFrame \/ ReadError \/ HandleSignature
SignatureSender == TestSignature \/ SendSignature
Terminating ==
    \/ ResetInbound("terminate") \/ ResetOutbound("terminate") \/ TerminateReturns

Next ==
    \/ ReceiveCycle \/ SendCycle \/ TakeMessage \/ SignatureSender \/ TestPeers \/ SendPeers
    \/ SetSignature \/ TrySetPeerPublicKey \/ Application
    \/ PeerOpens \/ SetInboundStream \/ Terminate \/ Terminating
    \/ BreakInbound \/ BreakOutbound \/ Disconnect

Spec == Init /\ [][Next]_vars

\* The cycles, the signature senders and onConnect run; on the peers cycle, and on
\* how far the application and Terminate get, nothing here depends.  onConnect gets
\* the lock in the end although the send cycle may take it again and again (Go's
\* mutexes are fair to a goroutine that has waited long).  Frames, messages, faults
\* and the end need not come, and a quiet stream need not fail; a peer whose newest
\* stream is dead opens another.
Fairness ==
    /\ WF_vars(ReceiveRuns)
    /\ WF_vars(SendCycle)
    /\ WF_vars(SignatureSender)
    /\ WF_vars(PeerOpens /\ opened \notin live)
    /\ SF_vars(SetInboundStream)

FairSpec == Spec /\ Fairness

-----------------------------------------------------------------------------
(* What holds.  A terminated connection stays so, a signature stays set and *)
(* a thread that panicked is not revived, so that here P ~> Q says the same *)
(* as []<>(P => Q), which costs TLC less.                                   *)

\* The send cycle tests the outbound stream before it takes the lock and uses it
\* afterwards.  Until Terminate, nobody takes the stream away in between
\* (connection.go:301, 330-331, 351 against 635-667, 681-691).
WriteStreamThere ==
    status # "Terminated" /\ pc["send"] \in {"write", "resetOut", "clearOut"}
        => outboundStream # "nil"

\* A connection that is terminated stays so, although four threads change the status
\* some time after they have looked at it: a Terminate that falls between the test and
\* the swap is not undone (connection.go:454-478, 484-518, 268-664 against 767).
TerminatedForEver == [][status = "Terminated" => status' = "Terminated"]_vars

\* A stream that stays up gets the signature, whether the signature or the stream
\* is there first and however many streams failed before it
\* (connection.go:267-282, 410-451, 652-664).
StreamGreeted ==
    []<>(signed /\ outboundStream = "live" => status = "Terminated" \/ ~Up)

\* A stream is up, but the connection does not name it: it was set and forgotten
\* again by a thread in the middle of resetInboundStream.  It is the peer's newest
\* stream, and nobody reads from it, or the receive cycle still reads from it.
Orphaned ==
    \/ taken \in live /\ inboundStream = Nil
    \/ reading \in live \ {inboundStream}

\* When faults end, a peer that opens a new stream for each one that dies is heard
\* in the end: its newest stream is the one the connection names, and no other is
\* read from.  The read error of a replaced stream costs its successor only once.
\* That a stream was forgotten without being reset, and the panic, are the
\* exceptions (connection.go:199-207, 616-633, 669-679).
PeerHeard ==
    \/ <>[](opened \in live /\ inboundStream = opened /\ reading \in {Nil, opened})
    \/ <>[]Orphaned
    \/ <>[](status = "Terminated" \/ ~Up)

\* The goroutines that send signatures end when the connection is terminated, in
\* the middle of their attempts too (connection.go:410-444, 767).
SendersEnd == []<>(status = "Terminated" => testing + writing = 0 \/ ~Up)

\* No thread uses a stream that is nil: each tests for it ("Cannot send peer list
\* to peer %v: no connection yet", connection.go:560; 201, 301, 414, 670).
NoNilUse == crashed = Nobody

=============================================================================
