--------------------------- MODULE StreamsProof ----------------------------
(***************************************************************************)
(* Theorems about Streams: types, the safety of the send cycle's write,    *)
(* and that Terminated is final.                                           *)
(*                                                                         *)
(* The send cycle's stream: only the send cycle itself and Terminate set   *)
(* outboundStream to nil.  The cycle does so with the last step of a       *)
(* reset, which leaves the places where it counts on the stream, and       *)
(* Terminate only after it has set the status.                             *)
(***************************************************************************)
EXTENDS Streams, TLAPS

LEMMA LabelsIn ==
    /\ \A l \in {"loop", "read", "reading", "verify", "finished", "testIn", "resetIn",
             "clearIn"} :
          l \in Labels("receive")
    /\ \A l \in {"start", "loop", "connect", "open", "sign", "take", "write", "finished",
                 "testIn", "resetIn", "clearIn", "testOut", "resetOut", "clearOut"} :
          l \in Labels("send")
    /\ \A l \in {"idle", "write"} : l \in Labels("peers")
    /\ \A l \in {"idle", "verify", "testIn", "resetIn", "clearIn"} : l \in Labels("app")
    /\ \A l \in {"idle", "lock", "replace", "set"} : l \in Labels("onConnect")
    /\ \A l \in {"idle", "wait", "done", "testIn", "resetIn", "clearIn", "testOut",
                 "resetOut", "clearOut"} : l \in Labels("terminate")
<1>1. /\ Labels("receive") = {"loop", "read", "reading", "verify", "finished"}
                                 \union ResetIn
      /\ Labels("send") = {"start", "loop", "connect", "open", "sign", "take", "write",
                           "finished"} \union ResetIn \union ResetOut
      /\ Labels("peers") = {"idle", "write"}
      /\ Labels("app") = {"idle", "verify"} \union ResetIn
      /\ Labels("onConnect") = {"idle", "lock", "replace", "set"}
      /\ Labels("terminate") = {"idle", "wait", "done"} \union ResetIn \union ResetOut
  BY Zenon DEF Labels
<1> QED
  BY <1>1 DEF ResetIn, ResetOut

LEMMA GoToLabel ==
    ASSUME PcOK, NEW t \in Thread, NEW l \in Labels(t), GoTo(t, l)
    PROVE  PcOK'
  BY DEF PcOK, GoTo

\* Every step leaves every thread at one of its labels.
LEMMA PcReceives ==
    ASSUME PcOK, ReceiveCycle
    PROVE  PcOK'
<1>0. ASSUME pc' = pc PROVE PcOK'
  BY <1>0 DEF PcOK
<1> USE <1>0, LabelsIn, GoToLabel DEF Thread
<1>1. CASE ReceiveLoop
  BY <1>1 DEF ReceiveLoop
<1>2. CASE ReadOnce
  BY <1>2 DEF ReadOnce, Panic
<1>3. CASE ReadFrame
  BY <1>3 DEF ReadFrame
<1>4. CASE ReadError
  BY <1>4 DEF ReadError
<1>5. CASE HandleSignature
  BY <1>5 DEF HandleSignature
<1>6. CASE Verify("receive")
  BY <1>6 DEF Verify, AfterVerify
<1>7. CASE ResetInbound("receive")
  BY <1>7 DEF ResetInbound, TestIn, UseIn, ClearIn, AfterResetIn, Panic
<1> QED
  BY <1>1, <1>2, <1>3, <1>4, <1>5, <1>6, <1>7 DEF ReceiveCycle, ReceiveRuns

LEMMA PcSends ==
    ASSUME PcOK, SendCycle \/ TakeMessage
    PROVE  PcOK'
<1>0. ASSUME pc' = pc PROVE PcOK'
  BY <1>0 DEF PcOK
<1> USE <1>0, LabelsIn, GoToLabel DEF Thread
<1>1. CASE SendStart
  BY <1>1 DEF SendStart
<1>2. CASE SendFinish
  BY <1>2 DEF SendFinish
<1>3. CASE CheckOutboundStream
  BY <1>3 DEF CheckOutboundStream
<1>4. CASE Disconnected
  BY <1>4 DEF Disconnected
<1>5. CASE Connect
  BY <1>5 DEF Connect
<1>6. CASE OpenStream
  BY <1>6 DEF OpenStream
<1>7. CASE AskForSignature
  BY <1>7 DEF AskForSignature, Attempt
<1>8. CASE TakeMessage
  BY <1>8 DEF TakeMessage, Attempt
<1>9. CASE TakeTerminating
  BY <1>9 DEF TakeTerminating
<1>10. CASE WriteMessage
  BY <1>10 DEF WriteMessage, Panic
<1>11. CASE SettleMessage
  BY <1>11 DEF SettleMessage
<1>12. CASE ResetInbound("send")
  BY <1>12 DEF ResetInbound, TestIn, UseIn, ClearIn, AfterResetIn, Panic
<1>13. CASE ResetOutbound("send")
  BY <1>13 DEF ResetOutbound, TestOut, UseOut, ClearOut, AfterResetOut, Panic
<1> QED
  BY <1>1, <1>2, <1>3, <1>4, <1>5, <1>6, <1>7, <1>8, <1>9, <1>10, <1>11, <1>12, <1>13
  DEF SendCycle

LEMMA PcService ==
    ASSUME PcOK,
           \/ SignatureSender \/ TestPeers \/ SendPeers \/ SetSignature
           \/ TrySetPeerPublicKey \/ PeerOpens \/ SetInboundStream
    PROVE  PcOK'
<1>0. ASSUME pc' = pc PROVE PcOK'
  BY <1>0 DEF PcOK
<1> USE <1>0, LabelsIn, GoToLabel DEF Thread
<1>1. CASE TestSignature
  BY <1>1 DEF TestSignature
<1>2. CASE SendSignature
  BY <1>2 DEF SendSignature, Panic
<1>3. CASE SetSignature
  BY <1>3 DEF SetSignature
<1>4. CASE TrySetPeerPublicKey
  BY <1>4 DEF TrySetPeerPublicKey
<1>5. CASE PeerOpens
  BY <1>5 DEF PeerOpens
<1>6. CASE LockAndTest
  BY <1>6 DEF LockAndTest
<1>7. CASE ReplaceStream
  BY <1>7 DEF ReplaceStream, Panic
<1>8. CASE SetStream
  BY <1>8 DEF SetStream
<1>9. CASE TestPeers
  BY <1>9 DEF TestPeers
<1>10. CASE SendPeers
  BY <1>10 DEF SendPeers, Panic
<1> QED
  BY <1>1, <1>2, <1>3, <1>4, <1>5, <1>6, <1>7, <1>8, <1>9, <1>10
  DEF SignatureSender, SetInboundStream

LEMMA PcEnds ==
    ASSUME PcOK, Application \/ Terminate \/ Terminating
           \/ BreakInbound \/ BreakOutbound \/ Disconnect
    PROVE  PcOK'
<1>0. ASSUME pc' = pc PROVE PcOK'
  BY <1>0 DEF PcOK
<1> USE <1>0, LabelsIn, GoToLabel DEF Thread
<1>1. CASE Terminate
  BY <1>1 DEF Terminate
<1>2. CASE TerminateReturns
  BY <1>2 DEF TerminateReturns
<1>3. CASE BreakInbound
  BY <1>3 DEF BreakInbound
<1>4. CASE BreakOutbound
  BY <1>4 DEF BreakOutbound
<1>5. CASE Disconnect
  BY <1>5 DEF Disconnect
<1>6. CASE ResetInbound("app")
  BY <1>6 DEF ResetInbound, TestIn, UseIn, ClearIn, AfterResetIn, Panic
<1>7. CASE ResetInbound("terminate")
  BY <1>7 DEF ResetInbound, TestIn, UseIn, ClearIn, AfterResetIn, Panic
<1>8. CASE ResetOutbound("terminate")
  BY <1>8 DEF ResetOutbound, TestOut, UseOut, ClearOut, AfterResetOut, Panic
<1>9. CASE Verify("app")
  BY <1>9 DEF Verify, AfterVerify
<1> QED
  BY <1>1, <1>2, <1>3, <1>4, <1>5, <1>6, <1>7, <1>8, <1>9 DEF Terminating, Application

LEMMA PcStep == PcOK /\ [Next]_vars => PcOK'
<1>1. PcOK /\ UNCHANGED vars => PcOK'
  BY DEF PcOK, vars
<1> QED
  BY <1>1, PcReceives, PcSends, PcService, PcEnds DEF Next

\* What TypeOK says of the other variables; and a stream is set only after one was
\* opened.
DataOK ==
    /\ status \in Status
    /\ signed \in BOOLEAN
    /\ signatureSent \in {0, 1}
    /\ inboundStream \in InStream \union {Nil}
    /\ outboundStream \in {"nil", "live", "greeted", "dead"}
    /\ streamLock \in {"send", "onConnect", Nobody}
    /\ reading \in InStream \union {Nil}
    /\ testing \in Nat
    /\ writing \in Nat
    /\ opened \in 0 .. MaxStreams
    /\ live \subseteq 1 .. opened
    /\ taken \in 0 .. opened
    /\ connected \in BOOLEAN
    /\ crashed \in Thread \union {"signer", Nobody}
    /\ faults \in 0 .. MaxFaults
    /\ pc["onConnect"] # "idle" => opened > 0

LEMMA TypeInit == Init => PcOK /\ DataOK
<1> SUFFICES ASSUME Init PROVE PcOK /\ DataOK
  OBVIOUS
<1>1. opened \in {0, 1} /\ opened \in 0 .. MaxStreams
  BY StartAssumption DEF Init
<1>2. \A t \in Thread : pc[t] \in Labels(t)
  BY LabelsIn DEF Init, Thread
<1>3. PcOK
  BY <1>2 DEF Init, PcOK
<1>4. /\ inboundStream \in InStream \union {Nil}
      /\ live \subseteq 1 .. opened /\ taken \in 0 .. opened
  BY <1>1, BoundsAssumption DEF Init, InStream, Nil
<1>5. signed \in BOOLEAN
  BY DEF Init
<1>6. testing \in {0, 1} /\ signatureSent \in {0, 1}
  BY DEF Init
<1>7. connected \in BOOLEAN
  BY DEF Init
<1>8. pc["onConnect"] = "idle"
  BY DEF Init, Thread
<1>9. faults \in 0 .. MaxFaults /\ testing \in Nat /\ writing \in Nat
  BY <1>6, BoundsAssumption DEF Init
<1>10. /\ status \in Status /\ streamLock \in {"send", "onConnect", Nobody}
       /\ reading \in InStream \union {Nil}
       /\ outboundStream \in {"nil", "live", "greeted", "dead"}
       /\ crashed \in Thread \union {"signer", Nobody}
  BY DEF Init, Status
<1> QED
  BY <1>1, <1>3, <1>4, <1>5, <1>6, <1>7, <1>8, <1>9, <1>10 DEF DataOK

\* A reset takes a stream away and opens none.
LEMMA DataResets ==
    ASSUME PcOK, DataOK, NEW t \in Thread, ResetInbound(t) \/ ResetOutbound(t)
    PROVE  DataOK'
<1> USE BoundsAssumption DEF At, Up, GoTo, PcOK, Thread, DataOK, PcOnly, exchange, inVars,
        signers, world, InStream, Nil, Status, Nobody
<1>1. CASE TestIn(t) \/ TestOut(t)
  BY <1>1 DEF TestIn, TestOut
<1>2. CASE UseIn(t)
  <2>1. CASE Panic(t)
    BY <2>1 DEF Panic
  <2>2. CASE ~Panic(t)
    <3>1. live' \subseteq live /\ GoTo(t, "clearIn")
      BY <1>2, <2>2 DEF UseIn
    <3>2. pc'["onConnect"] # "idle" => opened' > 0
      BY <3>1, <1>2, <2>2 DEF UseIn
    <3> QED
      BY <3>1, <3>2, <1>2, <2>2 DEF UseIn
  <2> QED
    BY <2>1, <2>2
<1>3. CASE ClearIn(t)
  BY <1>3 DEF ClearIn
<1>4. CASE UseOut(t)
  BY <1>4 DEF UseOut, Panic
<1>5. CASE ClearOut(t)
  BY <1>5 DEF ClearOut
<1> QED
  BY <1>1, <1>2, <1>3, <1>4, <1>5 DEF ResetInbound, ResetOutbound

\* What follows a key changes the status or counts a fault.
LEMMA DataVerifies ==
    ASSUME PcOK, DataOK, NEW t \in Thread, t # "onConnect", Verify(t)
    PROVE  DataOK'
<1>1. faults' \in 0 .. MaxFaults
  BY BoundsAssumption DEF Verify, Fault, DataOK
<1>2. status' \in Status
  BY DEF Verify, HandshakeComplete, Swap, DataOK, Status
<1>3. pc'["onConnect"] = pc["onConnect"]
  BY DEF Verify, GoTo, PcOK, Thread
<1>4. UNCHANGED <<signed, signatureSent, inboundStream, live, taken, outboundStream,
                  testing, writing, reading, opened, connected, streamLock, crashed>>
  BY DEF Verify, inVars, signers
<1> QED
  BY <1>1, <1>2, <1>3, <1>4 DEF DataOK

\* Every step keeps the types of the other variables.
LEMMA DataReceives ==
    ASSUME PcOK, DataOK, ReceiveCycle
    PROVE  DataOK'
<1> USE BoundsAssumption DEF At, Up, GoTo, PcOK, Thread, DataOK, PcOnly, exchange, inVars,
        signers, world, InStream, Nil, Status, Nobody
<1>1. CASE ReceiveLoop
  BY <1>1 DEF ReceiveLoop
<1>2. CASE ReadOnce
  BY <1>2 DEF ReadOnce, Panic
<1>3. CASE ReadFrame
  BY <1>3 DEF ReadFrame
<1>4. CASE ReadError
  BY <1>4 DEF ReadError, Fault
<1>5. CASE HandleSignature
  BY <1>5 DEF HandleSignature
<1>6. CASE Verify("receive")
  BY <1>6, DataVerifies DEF Thread
<1>7. CASE ResetInbound("receive")
  BY <1>7, DataResets
<1> QED
  BY <1>1, <1>2, <1>3, <1>4, <1>5, <1>6, <1>7 DEF ReceiveCycle, ReceiveRuns

LEMMA DataSends ==
    ASSUME PcOK, DataOK, SendCycle \/ TakeMessage
    PROVE  DataOK'
<1> USE BoundsAssumption DEF At, Up, GoTo, PcOK, Thread, DataOK, PcOnly, exchange, inVars,
        signers, world, InStream, Nil, Status, Nobody
<1>1. CASE SendStart
  BY <1>1 DEF SendStart
<1>2. CASE SendFinish
  BY <1>2 DEF SendFinish
<1>3. CASE CheckOutboundStream
  BY <1>3 DEF CheckOutboundStream, Acquire, LockFree
<1>4. CASE Disconnected
  BY <1>4 DEF Disconnected, Acquire, LockFree
<1>5. CASE Connect
  BY ZenonT(60), <1>5 DEF Connect, AskAgain, Release
<1>6. CASE OpenStream
  BY <1>6 DEF OpenStream, AskAgain, JustConnected, Swap, Release
<1>7. CASE AskForSignature
  BY <1>7 DEF AskForSignature
<1>8. CASE TakeMessage
  BY <1>8 DEF TakeMessage
<1>9. CASE TakeTerminating
  BY <1>9 DEF TakeTerminating
<1>10. CASE WriteMessage
  BY ZenonT(60), <1>10 DEF WriteMessage, Panic
<1>11. CASE SettleMessage
  BY ZenonT(60), <1>11 DEF SettleMessage
<1>12. CASE ResetInbound("send")
  BY <1>12, DataResets
<1>13. CASE ResetOutbound("send")
  BY <1>13, DataResets
<1> QED
  BY <1>1, <1>2, <1>3, <1>4, <1>5, <1>6, <1>7, <1>8, <1>9, <1>10, <1>11, <1>12, <1>13
  DEF SendCycle

LEMMA DataService ==
    ASSUME PcOK, DataOK,
           \/ SignatureSender \/ TestPeers \/ SendPeers \/ SetSignature
           \/ TrySetPeerPublicKey \/ PeerOpens \/ SetInboundStream
    PROVE  DataOK'
<1> USE BoundsAssumption DEF At, Up, GoTo, PcOK, Thread, DataOK, PcOnly, exchange, inVars,
        signers, world, InStream, Nil, Status, Nobody
<1>1. CASE TestSignature
  BY <1>1 DEF TestSignature
<1>2. CASE SendSignature
  <2>1. testing' \in Nat /\ writing' \in Nat
    BY <1>2 DEF SendSignature, Panic
  <2> QED
    BY <1>2, <2>1 DEF SendSignature, Panic
<1>3. CASE SetSignature
  BY <1>3 DEF SetSignature
<1>4. CASE TrySetPeerPublicKey
  BY <1>4 DEF TrySetPeerPublicKey
<1>5. CASE PeerOpens
  BY <1>5 DEF PeerOpens, Fault
<1>6. CASE LockAndTest
  BY <1>6 DEF LockAndTest, Acquire, LockFree
<1>7. CASE ReplaceStream
  BY <1>7 DEF ReplaceStream, Panic
<1>8. CASE SetStream
  BY <1>8 DEF SetStream, JustConnected, Swap, Release
<1>9. CASE TestPeers
  BY <1>9 DEF TestPeers
<1>10. CASE SendPeers
  BY <1>10 DEF SendPeers, Panic
<1> QED
  BY <1>1, <1>2, <1>3, <1>4, <1>5, <1>6, <1>7, <1>8, <1>9, <1>10
  DEF SignatureSender, SetInboundStream

LEMMA DataEnds ==
    ASSUME PcOK, DataOK, Application \/ Terminate \/ Terminating
           \/ BreakInbound \/ BreakOutbound \/ Disconnect
    PROVE  DataOK'
<1> USE BoundsAssumption DEF At, Up, GoTo, PcOK, Thread, DataOK, PcOnly, exchange, inVars,
        signers, world, InStream, Nil, Status, Nobody
<1>1. CASE Terminate
  BY <1>1 DEF Terminate
<1>2. CASE TerminateReturns
  BY <1>2 DEF TerminateReturns
<1>3. CASE BreakInbound
  BY <1>3 DEF BreakInbound, Fault
<1>4. CASE BreakOutbound
  BY <1>4 DEF BreakOutbound, Fault
<1>5. CASE Disconnect
  <2>1. outboundStream' \in {"nil", "live", "greeted", "dead"}
    BY <1>5 DEF Disconnect
  <2>2. live' \subseteq 1 .. opened' /\ faults' \in 0 .. MaxFaults
    BY <1>5 DEF Disconnect, Fault
  <2>3. connected' \in BOOLEAN
    BY <1>5, Zenon DEF Disconnect
  <2>4. /\ UNCHANGED <<exchange, inboundStream, taken, signers, reading, opened,
                       streamLock, pc, crashed>>
        /\ signed' \in BOOLEAN
    BY <1>5 DEF Disconnect
  <2> QED
    BY <2>1, <2>2, <2>3, <2>4
<1>6. CASE ResetInbound("app")
  BY <1>6, DataResets
<1>7. CASE ResetInbound("terminate")
  BY <1>7, DataResets
<1>8. CASE ResetOutbound("terminate")
  BY <1>8, DataResets
<1>9. CASE Verify("app")
  BY <1>9, DataVerifies DEF Thread
<1> QED
  BY <1>1, <1>2, <1>3, <1>4, <1>5, <1>6, <1>7, <1>8, <1>9 DEF Terminating, Application

LEMMA DataStep == PcOK /\ DataOK /\ [Next]_vars => DataOK'
<1>1. DataOK /\ UNCHANGED vars => DataOK'
  BY DEF DataOK, vars, exchange, inVars, signers, world
<1> QED
  BY <1>1, DataReceives, DataSends, DataService, DataEnds DEF Next

\* Every thread is at one of its labels and every variable has its type
\* (connection.go:80-111 and the cycles).
THEOREM StreamTypes == Spec => []TypeOK
<1>1. PcOK /\ DataOK => TypeOK
  BY DEF DataOK, TypeOK
<1> QED
  BY <1>1, TypeInit, PcStep, DataStep, PTL DEF Spec

WInv ==
    /\ pc = [t \in Thread |-> pc[t]]
    /\ pc["terminate"] # "idle" => status = "Terminated"
    /\ WriteStreamThere

LEMMA WInit == Init => WInv
  BY DEF Init, WInv, WriteStreamThere, Thread

\* A reset of the inbound stream moves its thread and touches nothing else here.
LEMMA WResetInbound ==
    ASSUME WInv, NEW t \in Thread, ResetInbound(t)
    PROVE  WInv'
<1> USE DEF WInv, WriteStreamThere, At, GoTo, AfterResetIn, Panic, PcOnly, exchange, Thread
<1>1. CASE TestIn(t)
  BY <1>1 DEF TestIn
<1>2. CASE UseIn(t)
  BY <1>2 DEF UseIn
<1>3. CASE ClearIn(t)
  BY <1>3 DEF ClearIn
<1> QED
  BY <1>1, <1>2, <1>3 DEF ResetInbound

\* The send cycle forgets the stream when it is done with it, Terminate when the
\* status is set.
LEMMA WResetOutbound ==
    ASSUME WInv, NEW t \in {"send", "terminate"}, ResetOutbound(t)
    PROVE  WInv'
<1> USE DEF WInv, WriteStreamThere, At, GoTo, AfterResetOut, Panic, PcOnly, exchange, Thread
<1>1. CASE TestOut(t)
  BY <1>1 DEF TestOut
<1>2. CASE UseOut(t)
  BY <1>2 DEF UseOut
<1>3. CASE ClearOut(t)
  BY <1>3 DEF ClearOut
<1> QED
  BY <1>1, <1>2, <1>3 DEF ResetOutbound

\* What follows a key leaves the streams alone and does not bring the status back.
LEMMA WVerify ==
    ASSUME WInv, NEW t \in {"receive", "app"}, Verify(t)
    PROVE  WInv'
<1> USE DEF WInv, WriteStreamThere, GoTo, Thread
<1>1. /\ pc' = [pc EXCEPT ![t] = pc'[t]]
      /\ outboundStream' = outboundStream
  BY DEF Verify
<1>2. status' = "Terminated" <=> status = "Terminated"
  BY DEF Verify, HandshakeComplete, Swap
<1> QED
  BY <1>1, <1>2

\* The receive cycle does not touch the outbound stream.
LEMMA WReceiveCycle == WInv /\ (ReceiveCycle) => WInv'
<1> SUFFICES ASSUME WInv, ReceiveCycle PROVE WInv'
  OBVIOUS
<1> USE DEF WInv, WriteStreamThere, At, GoTo, Thread, exchange, inVars, world
<1>1. CASE ReceiveLoop
  BY <1>1 DEF ReceiveLoop, PcOnly
<1>2. CASE ReadOnce
  BY <1>2 DEF ReadOnce, Panic
<1>3. CASE ReadFrame
  BY <1>3 DEF ReadFrame
<1>4. CASE ReadError
  BY <1>4 DEF ReadError, Fault
<1>5. CASE HandleSignature
  BY <1>5 DEF HandleSignature
<1>6. CASE Verify("receive")
  BY <1>6, WVerify
<1>7. CASE ResetInbound("receive")
  BY <1>7, WResetInbound DEF Thread
<1> QED
  BY <1>1, <1>2, <1>3, <1>4, <1>5, <1>6, <1>7 DEF ReceiveCycle, ReceiveRuns

\* The send cycle goes to its write only with a stream.
LEMMA WSendCycle == WInv /\ (SendCycle \/ TakeMessage) => WInv'
<1> SUFFICES ASSUME WInv, SendCycle \/ TakeMessage PROVE WInv'
  OBVIOUS
<1> USE DEF WInv, WriteStreamThere, At, GoTo, Thread, exchange, inVars, world
<1>1. CASE SendStart
  BY <1>1 DEF SendStart
<1>2. CASE SendFinish
  BY <1>2 DEF SendFinish, PcOnly
<1>3. CASE CheckOutboundStream
  BY <1>3 DEF CheckOutboundStream, Acquire
<1>4. CASE Disconnected
  BY <1>4 DEF Disconnected, Acquire
<1>5. CASE Connect
  BY <1>5 DEF Connect, AskAgain, Release
<1>6. CASE OpenStream
  BY <1>6 DEF OpenStream, JustConnected, Swap, AskAgain, Release
<1>7. CASE AskForSignature
  BY <1>7 DEF AskForSignature, Attempt
<1>8. CASE TakeTerminating
  BY <1>8 DEF TakeTerminating, PcOnly
<1>9. CASE WriteMessage
  BY <1>9 DEF WriteMessage, Panic, PcOnly
<1>10. CASE SettleMessage
  BY <1>10 DEF SettleMessage, PcOnly
<1>11. CASE TakeMessage
  BY <1>11 DEF TakeMessage, Attempt, PcOnly
<1>12. CASE ResetInbound("send")
  BY <1>12, WResetInbound DEF Thread
<1>13. CASE ResetOutbound("send")
  BY <1>13, WResetOutbound DEF Thread
<1> QED
  BY <1>1, <1>2, <1>3, <1>4, <1>5, <1>6, <1>7, <1>8, <1>9, <1>10, <1>11, <1>12,
     <1>13
  DEF SendCycle

\* Signature senders, application and onConnect leave an outbound stream in place.
LEMMA WService ==
    ASSUME WInv,
           \/ SignatureSender \/ TestPeers \/ SendPeers \/ SetSignature
           \/ TrySetPeerPublicKey \/ PeerOpens \/ SetInboundStream
    PROVE  WInv'
<1> USE DEF WInv, WriteStreamThere, At, GoTo, Thread, exchange, inVars, world
<1>1. CASE TestSignature
  BY <1>1 DEF TestSignature
<1>2. CASE SendSignature
  BY <1>2 DEF SendSignature, Panic
<1>3. CASE SetSignature
  BY <1>3 DEF SetSignature
<1>4. CASE TrySetPeerPublicKey
  BY <1>4 DEF TrySetPeerPublicKey, PcOnly
<1>5. CASE PeerOpens
  BY <1>5 DEF PeerOpens, Fault
<1>6. CASE LockAndTest
  BY <1>6 DEF LockAndTest, Acquire
<1>7. CASE ReplaceStream
  BY <1>7 DEF ReplaceStream, Panic
<1>8. CASE SetStream
  BY <1>8 DEF SetStream, JustConnected, Swap, Release
<1>9. CASE TestPeers
  BY <1>9 DEF TestPeers, PcOnly
<1>10. CASE SendPeers
  BY <1>10 DEF SendPeers, Panic, PcOnly
<1> QED
  BY <1>1, <1>2, <1>3, <1>4, <1>5, <1>6, <1>7, <1>8, <1>9, <1>10
  DEF SignatureSender, SetInboundStream

\* Terminate sets the status first; a stream that dies is still a stream.
LEMMA WEnd ==
    ASSUME WInv,
           \/ Application \/ Terminate \/ Terminating
           \/ BreakInbound \/ BreakOutbound \/ Disconnect
    PROVE  WInv'
<1> USE DEF WInv, WriteStreamThere, At, GoTo, Thread, exchange, inVars, world
<1>1. CASE Terminate
  BY <1>1 DEF Terminate
<1>2. CASE TerminateReturns
  BY <1>2 DEF TerminateReturns, PcOnly
<1>3. CASE BreakInbound
  BY <1>3 DEF BreakInbound, Fault
<1>4. CASE BreakOutbound
  BY <1>4 DEF BreakOutbound, Fault
<1>5. CASE Disconnect
  BY <1>5 DEF Disconnect, Fault
<1>6. CASE ResetInbound("app")
  BY <1>6, WResetInbound DEF Thread
<1>7. CASE ResetInbound("terminate")
  BY <1>7, WResetInbound DEF Thread
<1>8. CASE ResetOutbound("terminate")
  BY <1>8, WResetOutbound DEF Thread
<1>9. CASE Verify("app")
  BY <1>9, WVerify
<1> QED
  BY <1>1, <1>2, <1>3, <1>4, <1>5, <1>6, <1>7, <1>8, <1>9 DEF Terminating, Application

\* The send cycle never finds its stream gone between its test and its use before
\* Terminate, in any number of faults and streams (connection.go:301, 330-331, 351).
THEOREM WriteIsSafe == Spec => []WriteStreamThere
<1>1. WInv /\ [Next]_vars => WInv'
  <2>1. WInv /\ UNCHANGED vars => WInv'
    BY DEF WInv, WriteStreamThere, vars, exchange
  <2> QED
    BY <2>1, WReceiveCycle, WSendCycle, WService, WEnd DEF Next
<1>2. WInv => WriteStreamThere
  BY DEF WInv
<1> QED
  BY <1>1, <1>2, WInit, PTL DEF Spec

\* Every change of the status by another thread than Terminate's is a
\* compare-and-swap from a status that is not Terminated.
LEMMA SwapsSpareTerminated ==
    /\ HandshakeComplete /\ status = "Terminated" => status' = "Terminated"
    /\ JustConnected /\ status = "Terminated" => status' = "Terminated"
  BY DEF HandshakeComplete, JustConnected, Swap

\* Terminated is final, whatever the threads had seen before
\* (connection.go:477-478, 517-518, 631-632, 663-664, 767).
THEOREM TerminatedIsFinal == Spec => TerminatedForEver
<1>1. ASSUME [Next]_vars, status = "Terminated" PROVE status' = "Terminated"
  <2> USE <1>1 DEF exchange
  <2>1. CASE Verify("receive") \/ Verify("app")
    BY <2>1, SwapsSpareTerminated DEF Verify
  <2>3. CASE OpenStream
    BY <2>3, SwapsSpareTerminated DEF OpenStream
  <2>5. CASE SetStream
    BY <2>5, SwapsSpareTerminated DEF SetStream
  <2>6. CASE Terminate
    BY <2>6, SwapsSpareTerminated DEF Terminate
  <2>7. CASE \E t \in Thread : ResetInbound(t) \/ ResetOutbound(t)
    BY <2>7
    DEF ResetInbound, ResetOutbound, TestIn, UseIn, ClearIn, TestOut, UseOut,
        ClearOut, PcOnly, Panic
  <2>8. CASE status' = status
    BY <2>8
  <2> QED
    BY <2>1, <2>3, <2>5, <2>6, <2>7, <2>8
    DEF Next, vars, Thread, ReceiveCycle, ReceiveRuns, Application, SendCycle, SignatureSender,
        SetInboundStream, Terminating, PcOnly, Panic, ReceiveLoop, ReadOnce,
        ReadFrame, ReadError, HandleSignature, TestPeers, SendPeers,
        TrySetPeerPublicKey, CheckOutboundStream, SendStart, SendFinish, Disconnected, Connect,
        AskForSignature, TakeTerminating, WriteMessage, SettleMessage, TakeMessage,
        TestSignature, SendSignature, SetSignature, PeerOpens, LockAndTest,
        ReplaceStream, TerminateReturns, BreakInbound, BreakOutbound, Disconnect
<1> QED
  BY <1>1, PTL DEF Spec, TerminatedForEver

=============================================================================
