------------------------------ MODULE PeerList ------------------------------
(***************************************************************************)
(* The peer list of a GetPeersReply: connection/metadata.go.  Bytes are    *)
(* grouped into cells, which are records whose field "is" tells what they  *)
(* are: a record of a peer is one cell for the key, the id and the time,   *)
(* and a second one for the address if it has one, so that records differ  *)
(* in length.  gob, which encodes and decodes a record, is external.       *)
(***************************************************************************)
EXTENDS Integers, Sequences, SequencesExt

CONSTANTS Keys, Ids, Addrs

\* A peer without an address: Addr is nil.
NoAddr == "nil"

ASSUME AddrAssumption == NoAddr \notin Addrs

Metadata == [PublicKey : Keys, Id : Ids, Addr : Addrs \union {NoAddr}]

\* A nil address is encoded as no bytes.
ToBytes(peer) ==
    LET gob == <<[is |-> "peer", PublicKey |-> peer.PublicKey, Id |-> peer.Id]>>
    IN  IF peer.Addr = NoAddr THEN gob ELSE gob \o <<[is |-> "addr", Addr |-> peer.Addr]>>

\* A record is preceded by its length.
Encode(peer) == <<[is |-> "peerLength", n |-> Len(ToBytes(peer))]>> \o ToBytes(peer)

EncodeArray(peers) == FlattenSeq([i \in DOMAIN peers |-> Encode(peers[i])])

\* No bytes are a nil address again.
PeerConnectionFromBytes(raw) ==
    [PublicKey |-> raw[1].PublicKey, Id |-> raw[1].Id,
     Addr |-> IF Len(raw) > 1 THEN raw[2].Addr ELSE NoAddr]

\* ExtractLength.  A cell that is no length would be read as some number; no list
\* that was encoded here makes the cursor stop at one.
LengthAt(cell) == IF cell.is = "peerLength" THEN cell.n ELSE 0

\* The records from the cursor on.
DecodeArray(raw) ==
    LET from[cursor \in Nat] ==
            IF cursor >= Len(raw) THEN <<>>
            ELSE LET length == LengthAt(raw[cursor + 1])
                     current == SubSeq(raw, cursor + 2, cursor + 1 + length)
                 IN  <<PeerConnectionFromBytes(current)>> \o from[cursor + 1 + length]
    IN  from[0]

=============================================================================
