---------------------------- MODULE MailboxProof ----------------------------
(***************************************************************************)
(* Theorems about Mailbox, for every set of messages, sizes, header and    *)
(* initial buffer.                                                         *)
(***************************************************************************)
EXTENDS Mailbox, SequenceTheorems, TLAPS

\* Between two calls nothing is copied, and a call that has copied nothing is at
\* the beginning of the buffer.
CallInv ==
    /\ ~reading => batch = <<>> /\ remaining = 0
    /\ batch = <<>> => ptr = 0

MInv == TypeOK /\ CallInv /\ NothingLost /\ BufferBounded

\* The head of a queue may move to the end of what is before it.
LEMMA MoveHead ==
    ASSUME NEW a \in Seq(Msg), NEW b \in Seq(Msg), NEW q \in Seq(Msg), q # <<>>
    PROVE  (a \o Append(b, Head(q))) \o Tail(q) = (a \o b) \o q
<1>1. /\ Head(q) \in Msg /\ Tail(q) \in Seq(Msg) /\ Len(Tail(q)) = Len(q) - 1
      /\ q[1] = Head(q)
      /\ \A k \in 1 .. Len(q) - 1 : Tail(q)[k] = q[k + 1]
  BY HeadTailProperties
<1> DEFINE L == (a \o Append(b, Head(q))) \o Tail(q)
           R == (a \o b) \o q
<1>2. /\ Append(b, Head(q)) \in Seq(Msg) /\ Len(Append(b, Head(q))) = Len(b) + 1
      /\ \A k \in 1 .. Len(b) : Append(b, Head(q))[k] = b[k]
      /\ Append(b, Head(q))[Len(b) + 1] = Head(q)
  BY <1>1, AppendProperties
<1>3. L \in Seq(Msg) /\ R \in Seq(Msg) /\ Len(L) = Len(R)
  BY <1>1, <1>2, ConcatProperties
<1>4. ASSUME NEW k \in 1 .. Len(R) PROVE L[k] = R[k]
  <2>1. /\ a \o Append(b, Head(q)) \in Seq(Msg)
        /\ Len(a \o Append(b, Head(q))) = Len(a) + Len(b) + 1
        /\ a \o b \in Seq(Msg) /\ Len(a \o b) = Len(a) + Len(b)
    BY <1>2, ConcatProperties
  <2>2. CASE k <= Len(a)
    <3>1. L[k] = a[k]
      BY <1>1, <1>2, <2>1, <2>2
    <3>2. R[k] = a[k]
      BY <2>1, <2>2
    <3>. QED
      BY <3>1, <3>2
  <2>3. CASE k > Len(a) /\ k <= Len(a) + Len(b)
    <3>1. L[k] = b[k - Len(a)]
      BY <1>1, <1>2, <2>1, <2>3
    <3>2. R[k] = b[k - Len(a)]
      BY <2>1, <2>3
    <3>. QED
      BY <3>1, <3>2
  <2>4. CASE k = Len(a) + Len(b) + 1
    <3>1. L[k] = Head(q)
      BY <1>1, <1>2, <2>1, <2>4
    <3>2. R[k] = Head(q)
      BY <1>1, <1>4, <2>1, <2>4
    <3>. QED
      BY <3>1, <3>2
  <2>5. CASE k > Len(a) + Len(b) + 1
    <3>1. k - (Len(a) + Len(b) + 1) \in 1 .. Len(q) - 1
      BY <1>4, <2>1, <2>5
    <3>2. L[k] = q[k - (Len(a) + Len(b))]
      BY <1>1, <1>2, <2>1, <2>5, <3>1
    <3>3. R[k] = q[k - (Len(a) + Len(b))]
      BY <1>4, <2>1, <2>5
    <3>. QED
      BY <3>2, <3>3
  <2>. QED
    BY <1>4, <2>1, <2>2, <2>3, <2>4, <2>5
<1>. QED
  BY <1>3, <1>4, SeqEqual

\* What is put at the end of a queue is at the end of the whole.
LEMMA AppendLast ==
    ASSUME NEW a \in Seq(Msg), NEW q \in Seq(Msg), NEW m \in Msg
    PROVE  Append(a \o q, m) = a \o Append(q, m)
<1>1. <<m>> \in Seq(Msg) /\ a \o q \in Seq(Msg)
  BY ConcatProperties
<1>2. Append(a \o q, m) = (a \o q) \o <<m>>
  BY <1>1, AppendIsConcat
<1>3. Append(q, m) = q \o <<m>>
  BY AppendIsConcat
<1>. QED
  BY <1>1, <1>2, <1>3, ConcatAssociative

LEMMA InitMInv == Init => MInv
<1> SUFFICES ASSUME Init PROVE MInv
  OBVIOUS
<1>1. TypeOK
  <2>1. <<>> \in Seq(Msg) /\ 0 \in 0 .. Len(<<>>)
    BY EmptySeq
  <2>2. InitialBuffer \in Nat \ {0} /\ 0 \in 0 .. InitialBuffer
    BY SizeAssumption
  <2>. QED
    BY <2>1, <2>2 DEF Init, TypeOK
<1>2. NothingLost
  BY DEF Init, NothingLost
<1>. QED
  BY <1>1, <1>2 DEF Init, MInv, CallInv, BufferBounded

LEMMA ProcessKeeps ==
    ASSUME MInv, NEW m \in Msg, ProcessMessage(m)
    PROVE  MInv'
<1> USE DEF MInv
<1>1. /\ messages' \in Seq(Msg) /\ Len(messages') = Len(messages) + 1
      /\ received' \in Seq(Msg)
  BY AppendProperties DEF ProcessMessage, TypeOK
<1>2. TypeOK'
  BY <1>1 DEF ProcessMessage, TypeOK
<1>3. NothingLost'
  <2> DEFINE front == got \o batch
  <2>1. front \in Seq(Msg) /\ messages \in Seq(Msg)
    BY ConcatProperties DEF TypeOK
  <2>2. Append(front \o messages, m) = front \o Append(messages, m)
    <3> HIDE DEF front
    <3>. QED
      BY <2>1, AppendLast
  <2>. QED
    BY <2>2 DEF ProcessMessage, NothingLost
<1>4. Elements(received) \subseteq Elements(received')
  BY AppendProperties DEF ProcessMessage, TypeOK, Elements
<1>. QED
  BY <1>2, <1>3, <1>4 DEF ProcessMessage, CallInv, BufferBounded

LEMMA CopyKeeps == ASSUME MInv, CopyMessage PROVE MInv'
<1> USE DEF MInv
<1>1. messages # <<>>
  BY DEF CopyMessage, TypeOK
<1>2. /\ Head(messages) \in Msg /\ Tail(messages) \in Seq(Msg)
      /\ Len(Tail(messages)) = Len(messages) - 1
  BY <1>1, HeadTailProperties DEF TypeOK
<1>3. batch' \in Seq(Msg) /\ batch' # <<>>
  BY SMTT(60), <1>2, AppendProperties DEF CopyMessage, Copy, TypeOK
<1>4. ptr' \in 0 .. buffer
  BY <1>2, SizeAssumption DEF CopyMessage, Copy, Fits, TypeOK
<1>5. TypeOK'
  BY <1>2, <1>3, <1>4 DEF CopyMessage, Copy, TypeOK
<1>6. NothingLost'
  <2>1. (got \o Append(batch, Head(messages))) \o Tail(messages) = (got \o batch) \o messages
    <3>1. got \in Seq(Msg) /\ batch \in Seq(Msg) /\ messages \in Seq(Msg)
      BY DEF TypeOK
    <3>. QED
      BY ONLY <1>1, <3>1, MoveHead
  <2>. QED
    BY <2>1 DEF CopyMessage, Copy, NothingLost
<1>. QED
  BY <1>3, <1>5, <1>6 DEF CopyMessage, Copy, CallInv, BufferBounded

LEMMA ReturnKeeps == ASSUME MInv, ReturnBatch PROVE MInv'
<1> USE DEF MInv
<1>1. got \o batch \in Seq(Msg) /\ (got \o batch) \o <<>> = got \o batch
  BY ConcatProperties, ConcatEmptySeq DEF TypeOK
<1>2. TypeOK'
  <2>1. <<>> \in Seq(Msg) /\ 0 \in 0 .. Len(messages) /\ 0 \in 0 .. buffer
    BY EmptySeq DEF TypeOK
  <2>. QED
    BY <1>1, <2>1 DEF ReturnBatch, EndCall, TypeOK
<1>3. NothingLost'
  BY <1>1 DEF ReturnBatch, EndCall, NothingLost
<1>. QED
  BY <1>2, <1>3 DEF ReturnBatch, EndCall, CallInv, BufferBounded

\* The buffer grows only because of a message that needs more than all of it.
LEMMA GrowKeeps == ASSUME MInv, Grow PROVE MInv'
<1> USE DEF MInv
<1>1. messages # <<>>
  BY DEF Grow, Overflow, TypeOK
<1>2. Head(messages) \in Msg /\ Head(messages) = messages[1] /\ Len(messages) >= 1
  BY <1>1, HeadTailProperties DEF TypeOK
<1>3. TypeOK'
  <2>1. /\ <<>> \in Seq(Msg) /\ 0 \in 0 .. Len(messages)
        /\ 2 * buffer \in Nat \ {0} /\ 0 \in 0 .. 2 * buffer
    BY EmptySeq DEF TypeOK
  <2>. QED
    BY <2>1 DEF Grow, EndCall, TypeOK
<1>4. NothingLost'
  BY DEF Grow, EndCall, NothingLost
<1>5. Head(messages) \in Elements(received)
  <2> DEFINE k == Len(got \o batch) + 1
  <2>1. /\ got \o batch \in Seq(Msg)
        /\ received \in Seq(Msg)
        /\ received = (got \o batch) \o messages
        /\ Len(received) = Len(got \o batch) + Len(messages)
    BY ConcatProperties DEF NothingLost, TypeOK
  <2>2. k \in 1 .. Len(received) /\ received[k] = messages[1]
    BY <1>2, <2>1 DEF TypeOK
  <2>. QED
    BY <1>2, <2>2 DEF Elements
<1>6. buffer' < 2 * (Size[Head(messages)] + Header)
  BY <1>2, SizeAssumption DEF Grow, Overflow, Fits, CallInv, TypeOK
<1>7. BufferBounded'
  BY <1>5, <1>6 DEF Grow, BufferBounded
<1>. QED
  BY <1>3, <1>4, <1>7 DEF Grow, EndCall, CallInv

LEMMA MInvStep == MInv /\ [Next]_vars => MInv'
<1> SUFFICES ASSUME MInv, [Next]_vars PROVE MInv'
  OBVIOUS
<1>1. ASSUME NEW m \in Msg, ProcessMessage(m) PROVE MInv'
  BY <1>1, ProcessKeeps
<1>2. CASE GetMessages
  BY <1>2 DEF GetMessages, MInv, TypeOK, CallInv, NothingLost, BufferBounded
<1>3. CASE CopyMessage
  BY <1>3, CopyKeeps
<1>4. CASE ReturnBatch
  BY <1>4, ReturnKeeps
<1>5. CASE Grow
  BY <1>5, GrowKeeps
<1>6. CASE UNCHANGED vars
  BY <1>6 DEF vars, MInv, TypeOK, CallInv, NothingLost, BufferBounded
<1>. QED
  BY <1>1, <1>2, <1>3, <1>4, <1>5, <1>6 DEF Next, Get

\* TypeOK: in particular GetMessages writes within the buffer.
THEOREM MailboxTypes == Spec => []TypeOK
<1>1. MInv => TypeOK
  BY DEF MInv
<1>. QED
  BY InitMInv, MInvStep, <1>1, PTL DEF Spec

\* The mailbox is a queue (NothingLost), whatever the sizes and whenever messages
\* arrive.
THEOREM MailboxIsQueue == Spec => []NothingLost
<1>1. MInv => NothingLost
  BY DEF MInv
<1>. QED
  BY InitMInv, MInvStep, <1>1, PTL DEF Spec

\* The buffer is at most twice what some message needed (BufferBounded).
THEOREM BufferStaysSmall == Spec => []BufferBounded
<1>1. MInv => BufferBounded
  BY DEF MInv
<1>. QED
  BY InitMInv, MInvStep, <1>1, PTL DEF Spec

-----------------------------------------------------------------------------
(* The abstract queue.                                                     *)

\* The middle of three parts is where it was put.
LEMMA MiddlePart ==
    ASSUME NEW a \in Seq(Msg), NEW b \in Seq(Msg), NEW q \in Seq(Msg)
    PROVE  SubSeq((a \o b) \o q, Len(a) + 1, Len(a) + Len(b)) = b
<1> DEFINE s == (a \o b) \o q
           part == SubSeq(s, Len(a) + 1, Len(a) + Len(b))
<1>1. a \o b \in Seq(Msg) /\ Len(a \o b) = Len(a) + Len(b)
  BY ConcatProperties
<1>2. s \in Seq(Msg) /\ Len(s) = Len(a) + Len(b) + Len(q)
  BY <1>1, ConcatProperties
<1>3. \A k \in 1 .. Len(b) : s[Len(a) + k] = b[k]
  BY <1>1, ConcatProperties
<1>4. Len(a) \in Nat /\ Len(b) \in Nat /\ Len(q) \in Nat
  OBVIOUS
<1> HIDE DEF s
<1>5. /\ part \in Seq(Msg)
      /\ Len(part) = Len(b)
      /\ \A k \in 1 .. Len(b) : part[k] = s[Len(a) + k]
  BY <1>2, <1>4
<1>6. part = b
  BY <1>3, <1>5, SeqEqual
<1>. QED
  BY <1>6 DEF s

\* A connection puts a message in.
LEMMA ProcessPuts ==
    ASSUME NEW m \in Msg, ProcessMessage(m)
    PROVE  AbstractQueue!Put
BY DEF ProcessMessage, AbstractQueue!Put

\* A call that returns takes what it copied, which is what follows in the queue.
LEMMA ReturnTakes ==
    ASSUME MInv, ReturnBatch
    PROVE  AbstractQueue!Take
<1> DEFINE first == Len(got) + 1
           end == Len(got) + Len(batch)
<1>1. got \in Seq(Msg) /\ batch \in Seq(Msg) /\ messages \in Seq(Msg) /\ batch # <<>>
  BY DEF MInv, TypeOK, ReturnBatch
<1>2. received = (got \o batch) \o messages
  BY DEF MInv, NothingLost
<1>3. SubSeq(received, first, end) = batch
  BY <1>1, <1>2, MiddlePart
<1>4. Len(received) = Len(got) + Len(batch) + Len(messages)
  BY <1>1, <1>2, ConcatProperties
<1>5. Len(got) \in Nat /\ Len(batch) \in Nat \ {0} /\ Len(messages) \in Nat
  BY <1>1, EmptySeq
<1>6. first \in Len(got) + 1 .. Len(received) /\ end \in first .. Len(received)
  BY <1>4, <1>5
<1>7. got' = got \o SubSeq(received, first, end) /\ Len(got') = end
  <2>1. got' = got \o batch
    BY DEF ReturnBatch
  <2>. QED
    BY <1>1, <1>3, <2>1, ConcatProperties
<1>8. UNCHANGED received
  BY DEF ReturnBatch
<1> HIDE DEF end
<1>. QED
  BY <1>6, <1>7, <1>8 DEF AbstractQueue!Take

\* Every step is one of the queue's, or none of its business.
LEMMA QueueStep ==
    ASSUME MInv, [Next]_vars
    PROVE  [AbstractQueue!Next]_(AbstractQueue!vars)
<1>1. ASSUME NEW m \in Msg, ProcessMessage(m) PROVE AbstractQueue!Next
  BY <1>1, ProcessPuts DEF AbstractQueue!Next
<1>2. CASE ReturnBatch
  BY <1>2, ReturnTakes DEF AbstractQueue!Next
<1>3. CASE UNCHANGED <<received, got>>
  BY <1>3 DEF AbstractQueue!vars
<1>4. GetMessages \/ CopyMessage \/ Grow => UNCHANGED <<received, got>>
  BY DEF GetMessages, CopyMessage, Copy, Grow
<1>5. UNCHANGED vars => UNCHANGED <<received, got>>
  BY DEF vars
<1>. QED
  BY <1>1, <1>2, <1>3, <1>4, <1>5 DEF Next, Get

\* The calls of GetMessages implement a queue (ImplementsQueue), whatever the sizes,
\* whatever the buffer, and whenever messages arrive.
THEOREM MailboxImplementsQueue == Spec => ImplementsQueue
<1>1. Init => AbstractQueue!Init
  BY EmptySeq DEF Init, AbstractQueue!Init
<1>. QED
  BY InitMInv, MInvStep, <1>1, QueueStep, PTL
     DEF Spec, ImplementsQueue, AbstractQueue!Spec

=============================================================================
