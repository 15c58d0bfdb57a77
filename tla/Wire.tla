-------------------------------- MODULE Wire --------------------------------
(***************************************************************************)
(* The frames of one stream, from Write to the handlers.  A frame is       *)
(* written as its length, kind and id, data and checksum, and read by      *)
(* ReadOnce, which makes a new buffered reader for every frame; what that  *)
(* reader had read ahead goes with it.  Whether it reads ahead depends on  *)
(* the stream: a Read of a multiplexed stream returns bytes of one write   *)
(* only ("writes"), a Read of another returns whatever has arrived         *)
(* ("bytes").                                                              *)
(*                                                                         *)
(* Bytes are grouped into cells as in PeerList; the four bytes of a length *)
(* and of a checksum are a cell each, and so are kind and id.  A checksum  *)
(* is the cells it is computed from.  A cell that is read as a length      *)
(* although it is none may be any number.                                  *)
(***************************************************************************)
EXTENDS Integers, Sequences, SequencesExt, SigCodec, PeerList

CONSTANTS
    ChainIds,   \* the values of config.ChainId, the same at both ends
    Sends,      \* kind and content of the frames
    BufSize,    \* size of the buffered reader, in cells
    MaxFrames,  \* bound: frames that are written
    MaxLength   \* bound: what is taken for a length

ASSUME WireAssumption ==
    /\ ChainIds \subseteq ChainId
    /\ BufSize \in Nat \ {0} /\ MaxFrames \in Nat /\ MaxLength \in Nat
    /\ Sends \subseteq
          [kind : {"Message"}, content : [size : Nat]]
          \union [kind : {"Signature"}, content : [v : RecoveryId, Addr : Addrs]]
          \union [kind : {"GetPeersReply"}, content : [peers : Seq(Metadata)]]

VARIABLES
    chainId, muxer,
    sent,       \* history: what was written
    stream,     \* the cells that were written and not read
    buffer,     \* the buffered reader
    bytesLeft,  \* cells of the frame still to be read, or NoLength
    result,     \* the cells of the frame
    read,       \* history: id, kind and content of the frames that were handled
    state       \* "open", "reset" by a read error, or "panicked"

vars == <<chainId, muxer, sent, stream, buffer, bytesLeft, result, read, state>>

NoLength == -1

\* Data of a frame.  Its content is the size of a message, the recovery id and the
\* address of a signature, or the list of peers.
Data(kind, content, chain) ==
    CASE kind = "Message" -> [i \in 1 .. content.size |-> [is |-> "data"]]
      [] kind = "Signature" ->
            <<[is |-> "r, s"]>>
            \o [i \in DOMAIN LaSign(content.v, chain) |->
                    [is |-> "byte", b |-> LaSign(content.v, chain)[i]]]
            \o <<[is |-> "addr", Addr |-> content.Addr]>>
      [] kind = "GetPeersReply" -> EncodeArray(content.peers)

\* Every length that is written is within the bound.
ASSUME LengthAssumption ==
    \A s \in Sends : \A c \in ChainIds : Len(Data(s.kind, s.content, c)) + 2 <= MaxLength

Checksum(cells) == [is |-> "checksum", of |-> cells]

\* Faulty: the length counts the data and the head only.
EncodeFrameShort(head, data) ==
    <<[is |-> "length", n |-> Len(data) + 1], head>>
    \o data \o <<Checksum(<<head.id>> \o data)>>

\* Encode: the checksum covers id and data.
EncodeFrame(head, data) ==
    <<[is |-> "length", n |-> Len(data) + 2], head>>
    \o data \o <<Checksum(<<head.id>> \o data)>>

Init ==
    /\ chainId \in ChainIds
    /\ muxer \in {"writes", "bytes"}
    /\ sent = <<>>
    /\ stream = <<>>
    /\ buffer = <<>>
    /\ bytesLeft = NoLength
    /\ result = <<>>
    /\ read = <<>>
    /\ state = "open"

Write ==
    /\ Len(sent) < MaxFrames
    /\ \E s \in Sends :
        LET id == Len(sent) + 1
        IN  /\ sent' = Append(sent, [id |-> id, kind |-> s.kind, content |-> s.content])
            /\ stream' = stream \o EncodeFrame([is |-> "head", kind |-> s.kind, id |-> id],
                                               Data(s.kind, s.content, chainId))
    /\ UNCHANGED <<chainId, muxer, buffer, bytesLeft, result, read, state>>

-----------------------------------------------------------------------------
(* The buffered reader.                                                    *)

\* A Read of the stream may return this many cells.
CanReturn(n) ==
    /\ n <= Len(stream)
    /\ muxer = "writes" => \A i \in 2 .. n : stream[i].is # "length"

\* An empty buffer is filled by one Read, unless the rest of the frame would fill it;
\* that is read straight into the frame.
Fill ==
    /\ state = "open"
    /\ buffer = <<>> /\ bytesLeft # 0
    /\ IF bytesLeft >= BufSize
       THEN \E n \in 1 .. bytesLeft :
                /\ CanReturn(n)
                /\ result' = result \o SubSeq(stream, 1, n)
                /\ bytesLeft' = bytesLeft - n
                /\ stream' = SubSeq(stream, n + 1, Len(stream))
                /\ UNCHANGED buffer
       ELSE \E n \in 1 .. BufSize :
                /\ CanReturn(n)
                /\ buffer' = SubSeq(stream, 1, n)
                /\ stream' = SubSeq(stream, n + 1, Len(stream))
                /\ UNCHANGED <<result, bytesLeft>>
    /\ UNCHANGED <<chainId, muxer, sent, read, state>>

ReadError == state' = "reset" /\ UNCHANGED <<bytesLeft, result, read>>
Panics == state' = "panicked" /\ UNCHANGED <<bytesLeft, result, read>>

\* ExtractLength.
LengthsOf(cell) == IF cell.is = "length" THEN {cell.n} ELSE 0 .. MaxLength

\* Faulty: a frame without data is refused, too.
TooShortForData(n) == n < 3

\* The message is too small to contain a checksum.
TooShort(n) == n < 1

ReadLength ==
    /\ state = "open"
    /\ bytesLeft = NoLength /\ buffer # <<>>
    /\ buffer' = Tail(buffer)
    /\ \E n \in LengthsOf(Head(buffer)) :
        IF TooShort(n) THEN ReadError
        ELSE bytesLeft' = n /\ result' = <<>> /\ UNCHANGED <<read, state>>
    /\ UNCHANGED <<chainId, muxer, sent, stream>>

\* Faulty: all that is buffered goes into the frame.
ReadAll ==
    /\ state = "open"
    /\ bytesLeft > 0 /\ buffer # <<>>
    /\ result' = result \o buffer
    /\ buffer' = <<>>
    /\ bytesLeft' = bytesLeft - Len(buffer)
    /\ UNCHANGED <<chainId, muxer, sent, stream, read, state>>

ReadBytes ==
    /\ state = "open"
    /\ bytesLeft > 0 /\ buffer # <<>>
    /\ LET n == IF bytesLeft < Len(buffer) THEN bytesLeft ELSE Len(buffer)
       IN  /\ result' = result \o SubSeq(buffer, 1, n)
           /\ buffer' = SubSeq(buffer, n + 1, Len(buffer))
           /\ bytesLeft' = bytesLeft - n
    /\ UNCHANGED <<chainId, muxer, sent, stream, read, state>>

-----------------------------------------------------------------------------
(* The frame and its handlers.                                             *)

\* Kind and id; other cells in their place are the id of no frame.
HeadOf(cell) ==
    IF cell.is = "head" THEN cell ELSE [is |-> "head", kind |-> "Message", id |-> 0]

DataOf(cells) == SubSeq(cells, 2, Len(cells) - 1)

\* Faulty: the checksum is not compared.
AnyChecksum(cells) == TRUE

\* The checksum is that of everything but the kind.
ChecksumMatches(cells) ==
    Last(cells) = Checksum(<<HeadOf(cells[1]).id>> \o DataOf(cells))

\* Faulty: the signature is taken to be short.
SplitAt65(data) ==
    [v |-> EcRecover(<<data[2].b>>, chainId), Addr |-> Last(data).Addr]

\* handleSignature: the payload is cut where a signature of this chain ends.  The
\* key that is recovered is the signer's if the recovery id is.
RecoverSignature(data) ==
    LET recBytes == SigLen(chainId) - 64
    IN  [v |-> EcRecover([i \in 1 .. recBytes |-> data[i + 1].b], chainId),
         Addr |-> data[recBytes + 2].Addr]

\* The content that the handlers make of a frame.
Handle(kind, data) ==
    CASE kind = "Message" -> [size |-> Len(data)]
      [] kind = "Signature" -> RecoverSignature(data)
      [] kind = "GetPeersReply" -> [peers |-> DecodeArray(data)]

\* The slices that remain of a frame shorter than kind, id and checksum may be out of
\* range, and a signature with chain id zero divides by it.  The reader is dropped
\* with what it has read ahead.
HandleFrame ==
    /\ state = "open"
    /\ bytesLeft = 0
    /\ \/ Len(result) < 2 /\ Panics
       \/ Len(result) < 2 /\ ReadError
       \/ Len(result) >= 2 /\ ~ChecksumMatches(result) /\ ReadError
       \/ /\ Len(result) >= 2 /\ ChecksumMatches(result)
          /\ LET head == HeadOf(result[1])
             IN  IF head.kind = "Signature" /\ chainId = 0 THEN Panics
                 ELSE /\ read' = Append(read,
                                [id |-> head.id, kind |-> head.kind,
                                 content |-> Handle(head.kind, DataOf(result))])
                      /\ bytesLeft' = NoLength
                      /\ result' = <<>>
                      /\ UNCHANGED state
    /\ buffer' = <<>>
    /\ UNCHANGED <<chainId, muxer, sent, stream>>

Next == Write \/ Fill \/ ReadLength \/ ReadBytes \/ HandleFrame

Spec == Init /\ [][Next]_vars

\* The receive cycle reads.
FairSpec == Spec /\ WF_vars(Fill \/ ReadLength \/ ReadBytes \/ HandleFrame)

-----------------------------------------------------------------------------
(* What holds.                                                             *)

Frame ==
    [id : 0 .. MaxFrames,
     kind : {s.kind : s \in Sends}, content : {s.content : s \in Sends}]

TypeOK ==
    /\ chainId \in ChainIds
    /\ muxer \in {"writes", "bytes"}
    /\ Len(sent) <= MaxFrames /\ \A i \in DOMAIN sent : sent[i] \in Frame
    /\ Len(buffer) <= BufSize
    /\ bytesLeft \in NoLength .. MaxLength
    /\ bytesLeft = NoLength => result = <<>>
    /\ bytesLeft + Len(result) <= MaxLength
    /\ state \in {"open", "reset", "panicked"}

\* Frames are handled in the order in which they were written, none twice and none
\* that was not written, also when the reader has lost their boundaries
\* (communication.go:66, 88-119).
ReadInOrder ==
    /\ \A i \in DOMAIN read : read[i].id \in DOMAIN sent
    /\ \A i, j \in DOMAIN read : i < j => read[i].id < read[j].id

\* The key, the address, the list of peers or the message that a handler gets from a
\* frame is the one that was put into it, on each side of the change in the format
\* of signatures and for peers with and without an address (crypto.go:23-35, 38-63,
\* metadata.go:27-109, connection.go:415-423, 488-498).
ContentKept == \A i \in DOMAIN read : \E f \in Range(sent) : f = read[i]

\* Where a Read returns bytes of one write only, no frame is lost with its reader and
\* no read fails (communication.go:51-69, 89, 101-107).
NoneSkipped ==
    muxer = "writes" /\ chainId # 0
        => state = "open" /\ \A i \in DOMAIN read : read[i].id = i

AbstractPipe == INSTANCE Pipe WITH
    Item <- Frame, put <- sent, taken <- read,
    last <- IF read = <<>> THEN 0 ELSE Last(read).id,
    skips <- ~(muxer = "writes" /\ chainId # 0)

\* Whatever the reader takes for a frame and however it loses their boundaries, what
\* a step hands to the handlers is one frame that was written, behind the last one
\* handled, with its content; and the next one where a Read returns bytes of one
\* write only (communication.go:51-69, 88-125).
ImplementsPipe == AbstractPipe!Spec

\* There, every frame is handled in the end, one without data and one larger than the
\* buffer, too (communication.go:93-125).
AllHandled ==
    muxer = "writes" /\ chainId # 0 => []<>(Len(read) = Len(sent))

=============================================================================
