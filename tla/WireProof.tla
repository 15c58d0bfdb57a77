----------------------------- MODULE WireProof ------------------------------
(***************************************************************************)
(* What is proved of the frames of a stream, of the peer lists and of the  *)
(* signatures in them.  The first parts are about data: lists of peers and *)
(* recovery ids are decoded to what was encoded.  Then come the frames:    *)
(* what is in flight, the Flow, is what was taken into the current frame,  *)
(* what is buffered and what is still in the stream, in this order.  Every *)
(* step takes cells from its beginning or writes a frame at its end.       *)
(*                                                                         *)
(* WInv says that the checksums in the flow are those of frames that were  *)
(* sent and come in their order; so what matches one is what was sent,     *)
(* wherever the reader believes a frame to begin.  AInv says where the     *)
(* frames lie in the flow while no Read goes past the end of a frame.      *)
(***************************************************************************)
EXTENDS Wire, SequenceTheorems, WellFoundedInduction, TLAPS

-----------------------------------------------------------------------------
(* Induction.  The library's theorem takes a predicate as its parameter;   *)
(* this one takes the set of the numbers for which it holds.               *)

LEMMA LessThanOnNat ==
    \E R : IsWellFoundedOn(R, Nat) /\ \A a, b \in Nat : <<a, b>> \in R <=> a < b
<1>1. IsWellFoundedOn(OpToRel(<, Nat), Nat)
  BY NatLessThanWellFounded
<1>2. \A a, b \in Nat : <<a, b>> \in OpToRel(<, Nat) <=> a < b
  BY DEF OpToRel
<1>. QED
  BY <1>1, <1>2, Zenon

LEMMA Least ==
    ASSUME NEW T \in SUBSET Nat, T # {}
    PROVE  \E m \in T : \A k \in T : m <= k
<1>1. PICK R : IsWellFoundedOn(R, Nat) /\ \A a, b \in Nat : <<a, b>> \in R <=> a < b
  BY LessThanOnNat
<1>2. T \subseteq Nat /\ IsWellFoundedOn(R, Nat)
  BY <1>1
<1>3. \E m \in T : \A y \in T : ~(<<y, m>> \in R)
  BY <1>2, WFMin, Zenon
<1>4. PICK m \in T : \A y \in T : ~(<<y, m>> \in R)
  BY <1>3
<1>5. \A k \in T : k \in Nat /\ m \in Nat /\ ~(k < m)
  BY <1>1, <1>2, <1>4
<1>. QED
  BY <1>5

LEMMA Induction ==
    ASSUME NEW T, 0 \in T, \A n \in Nat : n \in T => n + 1 \in T
    PROVE  Nat \subseteq T
<1> DEFINE Missing == Nat \ T
<1>1. SUFFICES ASSUME Missing # {} PROVE FALSE
  OBVIOUS
<1>2. PICK m \in Missing : \A k \in Missing : m <= k
  BY <1>1, Least
<1>3. m \in Nat /\ m # 0 /\ m - 1 \in Nat
  BY <1>2
<1>4. m - 1 \in T
  BY <1>2, <1>3
<1>. QED
  BY <1>2, <1>3, <1>4

-----------------------------------------------------------------------------
(* Concatenations.                                                         *)

LEMMA BothParts ==
    ASSUME NEW S, NEW s \in Seq(S), NEW t \in Seq(S)
    PROVE  /\ s \o t \in Seq(S) /\ Len(s) \in Nat /\ Len(t) \in Nat
           /\ Len(s \o t) = Len(s) + Len(t)
           /\ \A i \in 1 .. Len(s) : (s \o t)[i] = s[i]
           /\ \A i \in 1 .. Len(t) : (s \o t)[Len(s) + i] = t[i]
<1>1. Len(s) \in Nat /\ Len(t) \in Nat
  BY LenProperties
<1>2. /\ s \o t \in Seq(S) /\ Len(s \o t) = Len(s) + Len(t)
      /\ \A i \in 1 .. Len(s) + Len(t) :
            (s \o t)[i] = IF i <= Len(s) THEN s[i] ELSE t[i - Len(s)]
  BY ConcatProperties
<1>3. ASSUME NEW i \in 1 .. Len(s) PROVE (s \o t)[i] = s[i]
  BY <1>1, <1>2
<1>4. ASSUME NEW i \in 1 .. Len(t) PROVE (s \o t)[Len(s) + i] = t[i]
  <2>1. Len(s) + i \in 1 .. Len(s) + Len(t) /\ ~(Len(s) + i <= Len(s)) /\ Len(s) + i - Len(s) = i
    BY <1>1
  <2>. QED
    BY <1>2, <2>1
<1>. QED
  BY <1>1, <1>2, <1>3, <1>4

LEMMA FirstAndRest ==
    ASSUME NEW S, NEW x \in S, NEW t \in Seq(S)
    PROVE  /\ <<x>> \o t \in Seq(S) /\ Len(<<x>> \o t) = Len(t) + 1 /\ Len(t) \in Nat
           /\ (<<x>> \o t)[1] = x
           /\ \A i \in 1 .. Len(t) : (<<x>> \o t)[i + 1] = t[i]
           /\ SubSeq(<<x>> \o t, 2, Len(<<x>> \o t)) = t
<1>1. <<x>> \in Seq(S) /\ Len(<<x>>) = 1 /\ <<x>>[1] = x
  OBVIOUS
<1> DEFINE one == <<x>>
           all == one \o t
<1>2. one \in Seq(S) /\ Len(one) = 1 /\ one[1] = x
  BY <1>1
<1> HIDE DEF one
<1>a. /\ all \in Seq(S) /\ Len(t) \in Nat /\ Len(all) = Len(one) + Len(t)
      /\ \A i \in 1 .. Len(one) : all[i] = one[i]
      /\ \A i \in 1 .. Len(t) : all[Len(one) + i] = t[i]
  BY <1>2, BothParts
<1> HIDE DEF all
<1>3. /\ all \in Seq(S) /\ Len(t) \in Nat /\ Len(all) = 1 + Len(t) /\ all[1] = x
      /\ \A i \in 1 .. Len(t) : all[1 + i] = t[i]
  BY <1>a, <1>2
<1>4. \A i \in 2 .. Len(all) : all[i] \in S
  BY <1>3
<1> DEFINE rest == SubSeq(all, 2, Len(all))
<1>5. /\ rest \in Seq(S) /\ Len(rest) = IF 2 <= Len(all) THEN Len(all) - 2 + 1 ELSE 0
      /\ \A i \in 1 .. Len(all) - 2 + 1 : rest[i] = all[2 + i - 1]
  BY <1>3, <1>4, SubSeqProperties
<1>6. Len(rest) = Len(t) /\ \A i \in 1 .. Len(t) : rest[i] = t[i]
  BY <1>3, <1>5
<1>7. rest = t
  <2> HIDE DEF rest
  <2>. QED
    BY <1>5, <1>6, SeqEqual
<1>8. \A i \in 1 .. Len(t) : all[i + 1] = t[i]
  BY <1>3
<1>. QED
  BY <1>3, <1>7, <1>8 DEF all, one

-----------------------------------------------------------------------------
(* FlattenSeq of the community modules.                                    *)

\* F[k] is the concatenation of the first k.
Flattens(F, seqs, n) ==
    F[0] = <<>> /\ \A k \in 1 .. n : F[k] = F[k - 1] \o seqs[k]

LEMMA FlattensExists ==
    ASSUME NEW S, NEW n \in Nat, NEW seqs \in [1 .. n -> Seq(S)]
    PROVE  \E F \in [0 .. n -> Seq(S)] : Flattens(F, seqs, n)
<1> DEFINE T == {m \in Nat : m <= n => \E F \in [0 .. m -> Seq(S)] : Flattens(F, seqs, m)}
<1>1. 0 \in T
  <2> DEFINE F == [k \in 0 .. 0 |-> <<>>]
  <2>1. F \in [0 .. 0 -> Seq(S)] /\ Flattens(F, seqs, 0)
    BY DEF Flattens
  <2>. QED
    BY <2>1
<1>2. ASSUME NEW m \in Nat, m \in T PROVE m + 1 \in T
  <2>1. SUFFICES ASSUME m + 1 <= n
                 PROVE  \E F \in [0 .. m + 1 -> Seq(S)] : Flattens(F, seqs, m + 1)
    OBVIOUS
  <2>2. PICK F \in [0 .. m -> Seq(S)] : Flattens(F, seqs, m)
    BY <1>2, <2>1
  <2> DEFINE G == [k \in 0 .. m + 1 |-> IF k <= m THEN F[k] ELSE F[m] \o seqs[m + 1]]
  <2>3. F[m] \in Seq(S) /\ seqs[m + 1] \in Seq(S)
    BY <2>1, <2>2
  <2>4. F[m] \o seqs[m + 1] \in Seq(S)
    BY <2>3, ConcatProperties
  <2>5. G \in [0 .. m + 1 -> Seq(S)]
    BY <2>2, <2>4
  <2>6. G[0] = <<>>
    BY <2>2 DEF Flattens
  <2>7. ASSUME NEW k \in 1 .. m + 1 PROVE G[k] = G[k - 1] \o seqs[k]
    <3>1. CASE k \in 1 .. m
      <4>1. F[k] = F[k - 1] \o seqs[k]
        BY <2>2, <3>1 DEF Flattens
      <4>2. G[k] = F[k] /\ G[k - 1] = F[k - 1]
        BY <3>1
      <4>. QED
        BY <4>1, <4>2
    <3>2. CASE k = m + 1
      <4>1. k - 1 = m /\ k - 1 \in 0 .. m + 1 /\ ~(k <= m)
        BY <3>2
      <4>2. G[k - 1] = F[m]
        BY <4>1
      <4>3. k \in 0 .. m + 1
        BY <3>2
      <4>4. G[k] = F[m] \o seqs[m + 1]
        BY <4>1, <4>3
      <4>. QED
        BY <3>2, <4>2, <4>4, Zenon
    <3>3. k \in 1 .. m \/ k = m + 1
      OBVIOUS
    <3> HIDE DEF G
    <3>. QED
      BY <3>1, <3>2, <3>3
  <2> HIDE DEF G
  <2>8. Flattens(G, seqs, m + 1)
    BY <2>6, <2>7 DEF Flattens
  <2>. QED
    BY <2>5, <2>8
<1>3. Nat \subseteq T
  BY <1>1, <1>2, Induction
<1>. QED
  BY <1>3

LEMMA FlattenIs ==
    ASSUME NEW S, NEW seqs \in Seq(Seq(S)), NEW F \in [0 .. Len(seqs) -> Seq(S)],
           Flattens(F, seqs, Len(seqs))
    PROVE  FlattenSeq(seqs) = F[Len(seqs)]
<1> DEFINE n == Len(seqs)
           Rec(f) == [i \in 1 .. n |-> IF i = 1 THEN seqs[i] ELSE f[i - 1] \o seqs[i]]
           flatten == CHOOSE f : f = Rec(f)
           G == [i \in 1 .. n |-> F[i]]
<1>1. n \in Nat /\ seqs \in [1 .. n -> Seq(S)] /\ \A t \in Seq(S) : <<>> \o t = t
  BY ConcatEmptySeq
<1>2. CASE n = 0
  <2>1. seqs = <<>>
    BY <1>2
  <2>. QED
    BY <1>2, <2>1 DEF FlattenSeq, Flattens
<1>3. CASE n # 0
  <2>1. FlattenSeq(seqs) = flatten[n]
    BY <1>3 DEF FlattenSeq
  <2>2. ASSUME NEW i \in 1 .. n
        PROVE  G[i] = IF i = 1 THEN seqs[i] ELSE G[i - 1] \o seqs[i]
    <3>0. F[i] = F[i - 1] \o seqs[i] /\ seqs[i] \in Seq(S)
      BY <1>1 DEF Flattens
    <3>1. i = 1 => F[i - 1] = <<>>
      BY DEF Flattens
    <3>2. F[i] = IF i = 1 THEN seqs[i] ELSE F[i - 1] \o seqs[i]
      BY <1>1, <3>0, <3>1
    <3>3. i # 1 => G[i - 1] = F[i - 1]
      OBVIOUS
    <3>4. G[i] = F[i]
      OBVIOUS
    <3>. QED
      BY <3>2, <3>3, <3>4
  <2>3. G = Rec(G)
    BY <2>2
  <2>4. flatten = Rec(flatten)
    <3> HIDE DEF G, Rec
    <3>. QED
      BY <2>3
  <2> HIDE DEF flatten
  <2> DEFINE T == {m \in Nat : m \in 1 .. n => flatten[m] = F[m]}
  <2>5. 0 \in T
    OBVIOUS
  <2>6. ASSUME NEW m \in Nat, m \in T PROVE m + 1 \in T
    <3>1. SUFFICES ASSUME m + 1 \in 1 .. n PROVE flatten[m + 1] = F[m + 1]
      OBVIOUS
    <3>2. flatten[m + 1] = IF m + 1 = 1 THEN seqs[m + 1] ELSE flatten[(m + 1) - 1] \o seqs[m + 1]
      <4>1. \A i \in 1 .. n : flatten[i] = IF i = 1 THEN seqs[i] ELSE flatten[i - 1] \o seqs[i]
        BY <2>4, Zenon
      <4>. QED
        BY <3>1, <4>1
    <3>3. F[m + 1] = F[m] \o seqs[m + 1] /\ seqs[m + 1] \in Seq(S) /\ (m + 1) - 1 = m
      <4>1. (m + 1) - 1 = m
        OBVIOUS
      <4>2. F[m + 1] = F[(m + 1) - 1] \o seqs[m + 1]
        BY <3>1 DEF Flattens
      <4>. QED
        BY <1>1, <3>1, <4>1, <4>2
    <3>4. CASE m = 0
      <4>1. F[m + 1] = <<>> \o seqs[m + 1]
        BY <3>3, <3>4 DEF Flattens
      <4>2. F[m + 1] = seqs[m + 1]
        BY <1>1, <3>3, <4>1
      <4>. QED
        BY <3>2, <3>4, <4>2
    <3>5. CASE m # 0
      <4>1. flatten[m] = F[m]
        BY <2>6, <3>1, <3>5
      <4>2. flatten[(m + 1) - 1] = F[m] /\ m + 1 # 1
        BY <3>3, <3>5, <4>1
      <4>. QED
        BY <3>2, <3>3, <4>2
    <3>. QED
      BY <3>4, <3>5
  <2>7. Nat \subseteq T
    BY <2>5, <2>6, Induction
  <2>. QED
    BY <1>1, <1>3, <2>1, <2>7
<1>. QED
  BY <1>2, <1>3

\* t begins with s.
Begins(s, t) == Len(s) <= Len(t) /\ \A i \in 1 .. Len(s) : t[i] = s[i]

LEMMA PrefixOfConcat ==
    ASSUME NEW S, NEW s \in Seq(S), NEW t \in Seq(S), NEW u \in Seq(S), Begins(s \o t, u)
    PROVE  Begins(s, u)
<1> DEFINE both == s \o t
<1>1. /\ Len(s) \in Nat /\ Len(t) \in Nat /\ Len(both) = Len(s) + Len(t)
      /\ \A i \in 1 .. Len(s) : both[i] = s[i]
  BY BothParts
<1>2. Len(u) \in Nat
  BY LenProperties
<1> HIDE DEF both
<1>3. Len(both) <= Len(u) /\ \A i \in 1 .. Len(both) : u[i] = both[i]
  BY DEF Begins, both
<1>. QED
  BY <1>1, <1>2, <1>3 DEF Begins

\* The first k are a prefix of all.
LEMMA FlattenPrefix ==
    ASSUME NEW S, NEW n \in Nat, NEW seqs \in [1 .. n -> Seq(S)],
           NEW F \in [0 .. n -> Seq(S)], Flattens(F, seqs, n)
    PROVE  \A k \in 0 .. n : Begins(F[k], F[n])
<1> DEFINE T == {d \in Nat : d <= n => Begins(F[n - d], F[n])}
<1>1. 0 \in T
  <2>1. n - 0 = n
    OBVIOUS
  <2>2. Len(F[n]) \in Nat
    BY LenProperties
  <2>3. Begins(F[n], F[n])
    BY <2>2 DEF Begins
  <2>. QED
    BY <2>1, <2>3
<1>2. ASSUME NEW d \in Nat, d \in T PROVE d + 1 \in T
  <2>1. SUFFICES ASSUME d + 1 <= n PROVE Begins(F[n - (d + 1)], F[n])
    OBVIOUS
  <2> DEFINE k == n - d
  <2>2. k \in 1 .. n /\ n - (d + 1) = k - 1 /\ k - 1 \in 0 .. n /\ n \in 0 .. n
    BY <2>1
  <2>3. Begins(F[k], F[n])
    BY <1>2, <2>1
  <2> HIDE DEF k
  <2>4. F[k] = F[k - 1] \o seqs[k]
    BY <2>2 DEF Flattens
  <2>5. F[k - 1] \in Seq(S) /\ seqs[k] \in Seq(S) /\ F[n] \in Seq(S)
    BY <2>2
  <2>6. Begins(F[k - 1], F[n])
    BY <2>3, <2>4, <2>5, PrefixOfConcat
  <2>. QED
    BY <2>2, <2>6
<1>3. Nat \subseteq T
  BY <1>1, <1>2, Induction
<1>4. ASSUME NEW k \in 0 .. n PROVE Begins(F[k], F[n])
  <2>1. n - k \in Nat /\ n - k <= n /\ n - (n - k) = k
    OBVIOUS
  <2>2. n - k \in T
    BY <1>3, <2>1
  <2>. QED
    BY <2>1, <2>2
<1>. QED
  BY <1>4

-----------------------------------------------------------------------------
(* The peer list.                                                          *)

PeerCell ==
    [is : {"peerLength"}, n : Nat]
    \union [is : {"peer"}, PublicKey : Keys, Id : Ids]
    \union [is : {"addr"}, Addr : Addrs]

\* A record is read back by its length.
LEMMA RecordIsReadBack ==
    ASSUME NEW p \in Metadata
    PROVE  /\ Encode(p) \in Seq(PeerCell)
           /\ Len(Encode(p)) = 1 + LengthAt(Encode(p)[1])
           /\ LengthAt(Encode(p)[1]) \in Nat
           /\ PeerConnectionFromBytes(SubSeq(Encode(p), 2, Len(Encode(p)))) = p
<1> DEFINE raw == ToBytes(p)
           head == [is |-> "peer", PublicKey |-> p.PublicKey, Id |-> p.Id]
           addr == [is |-> "addr", Addr |-> p.Addr]
           size == [is |-> "peerLength", n |-> Len(raw)]
<1>1. /\ p.PublicKey \in Keys /\ p.Id \in Ids /\ p.Addr \in Addrs \union {NoAddr}
      /\ p = [PublicKey |-> p.PublicKey, Id |-> p.Id, Addr |-> p.Addr]
  BY DEF Metadata
<1>2. head \in PeerCell
  BY <1>1 DEF PeerCell
<1>3. /\ raw \in Seq(PeerCell)
      /\ raw[1].PublicKey = p.PublicKey /\ raw[1].Id = p.Id
      /\ IF p.Addr = NoAddr THEN ~(Len(raw) > 1) ELSE Len(raw) > 1 /\ raw[2].Addr = p.Addr
  <2>1. CASE p.Addr = NoAddr
    <3>1. raw = <<head>>
      BY <2>1 DEF ToBytes
    <3> HIDE DEF raw
    <3>2. raw \in Seq(PeerCell) /\ Len(raw) = 1 /\ raw[1] = head
      <4> HIDE DEF head
      <4>. QED
        BY <1>2, <3>1
    <3>. QED
      BY <2>1, <3>2
  <2>2. CASE p.Addr # NoAddr
    <3>1. raw = <<head>> \o <<addr>>
      BY <2>2 DEF ToBytes
    <3>2. addr \in PeerCell
      BY <1>1, <2>2 DEF PeerCell
    <3> HIDE DEF raw
    <3>3. raw \in Seq(PeerCell) /\ Len(raw) = 2 /\ raw[1] = head /\ raw[1 + 1] = addr
      <4> DEFINE last == <<addr>>
      <4> HIDE DEF head, addr
      <4>1. last \in Seq(PeerCell) /\ Len(last) = 1 /\ last[1] = addr
        BY <3>2
      <4> HIDE DEF last
      <4>2. raw = <<head>> \o last
        BY <3>1 DEF last
      <4>3. /\ raw \in Seq(PeerCell) /\ Len(raw) = Len(last) + 1 /\ raw[1] = head
            /\ \A i \in 1 .. Len(last) : raw[i + 1] = last[i]
        BY <1>2, <4>1, <4>2, FirstAndRest
      <4>. QED
        BY <4>1, <4>3
    <3>. QED
      BY <2>2, <3>3
  <2>. QED
    BY <2>1, <2>2
<1>4. PeerConnectionFromBytes(raw) = p
  <2> HIDE DEF raw
  <2>1. PeerConnectionFromBytes(raw) = [PublicKey |-> p.PublicKey, Id |-> p.Id, Addr |-> p.Addr]
    BY <1>3 DEF PeerConnectionFromBytes
  <2>. QED
    BY <1>1, <2>1
<1>5. Encode(p) = <<size>> \o raw
  BY DEF Encode
<1>6. size \in PeerCell /\ LengthAt(size) = Len(raw) /\ Len(raw) \in Nat
  <2>1. Len(raw) \in Nat
    BY <1>3, LenProperties
  <2> HIDE DEF raw
  <2>. QED
    BY <2>1 DEF PeerCell, LengthAt
<1> HIDE DEF raw, size
<1>7. /\ Encode(p) \in Seq(PeerCell) /\ Len(Encode(p)) = Len(raw) + 1
      /\ Encode(p)[1] = size /\ SubSeq(Encode(p), 2, Len(Encode(p))) = raw
  BY <1>3, <1>5, <1>6, FirstAndRest
<1>8. Encode(p)[1] = size /\ LengthAt(Encode(p)[1]) = Len(raw)
  BY <1>6, <1>7
<1>9. Len(Encode(p)) = 1 + LengthAt(Encode(p)[1])
  BY <1>6, <1>7, <1>8
<1>. QED
  BY <1>4, <1>6, <1>7, <1>8, <1>9

\* The loop of DecodeArray at one cursor: the item there, and then the rest.
LoopAt(f, L, item, step, c) ==
    /\ c >= L => f[c] = <<>>
    /\ c < L => f[c] = <<item[c]>> \o f[c + 1 + step[c]]

\* It is not disturbed by a change at an earlier cursor.
LEMMA LoopLater ==
    ASSUME NEW L \in Nat, NEW V, NEW item \in [Nat -> V], NEW step \in [Nat -> Nat],
           NEW f, NEW g, NEW e \in Nat, \A c \in Nat \ {e} : g[c] = f[c],
           NEW c \in Nat, c > e, LoopAt(f, L, item, step, c)
    PROVE  LoopAt(g, L, item, step, c)
<1>1. step[c] \in Nat
  OBVIOUS
<1>2. c + 1 + step[c] \in Nat \ {e} /\ c \in Nat \ {e}
  BY <1>1
<1>3. g[c] = f[c] /\ g[c + 1 + step[c]] = f[c + 1 + step[c]]
  BY <1>2
<1>4. ASSUME c < L PROVE g[c] = <<item[c]>> \o g[c + 1 + step[c]]
  <2>1. f[c] = <<item[c]>> \o f[c + 1 + step[c]]
    BY <1>4 DEF LoopAt
  <2>. QED
    BY <1>3, <2>1, Zenon
<1>5. ASSUME c >= L PROVE g[c] = <<>>
  BY <1>3, <1>5 DEF LoopAt
<1>. QED
  BY <1>4, <1>5 DEF LoopAt

\* The loop can be run from the last d cursors on.
LoopFrom(V, L, item, step, d) ==
    \E f \in [Nat -> Seq(V)] : \A c \in Nat : c + d >= L => LoopAt(f, L, item, step, c)

\* The cursor moves on by at least one each time: the loop ends.
LEMMA LoopDefined ==
    ASSUME NEW L \in Nat, NEW V, NEW item \in [Nat -> V], NEW step \in [Nat -> Nat]
    PROVE  \E f \in [Nat -> Seq(V)] : \A c \in Nat : LoopAt(f, L, item, step, c)
<1> DEFINE T == {d \in Nat : LoopFrom(V, L, item, step, d)}
<1>1. LoopFrom(V, L, item, step, 0)
  <2> DEFINE f == [c \in Nat |-> <<>>]
  <2>1. f \in [Nat -> Seq(V)]
    OBVIOUS
  <2>2. ASSUME NEW c \in Nat, c + 0 >= L PROVE LoopAt(f, L, item, step, c)
    <3>1. f[c] = <<>> /\ ~(c < L)
      BY <2>2
    <3> HIDE DEF f
    <3>. QED
      BY <3>1 DEF LoopAt
  <2> HIDE DEF f
  <2>. QED
    BY <2>1, <2>2, Zenon DEF LoopFrom
<1>2. ASSUME NEW d \in Nat, LoopFrom(V, L, item, step, d)
      PROVE  LoopFrom(V, L, item, step, d + 1)
  <2>1. PICK f \in [Nat -> Seq(V)] :
                \A c \in Nat : c + d >= L => LoopAt(f, L, item, step, c)
    BY <1>2 DEF LoopFrom
  <2>2. CASE d >= L
    <3>1. \A c \in Nat : c + (d + 1) >= L => c + d >= L
      BY <2>2
    <3>2. \A c \in Nat : c + (d + 1) >= L => LoopAt(f, L, item, step, c)
      BY <2>1, <3>1
    <3>. QED
      BY <3>2, Zenon DEF LoopFrom
  <2>3. CASE ~(d >= L)
    <3>1. PICK e \in Nat : e = L - d - 1
      BY <2>3
    <3> DEFINE next == <<item[e]>> \o f[e + 1 + step[e]]
               g == [f EXCEPT ![e] = next]
    <3>2. step[e] \in Nat
      OBVIOUS
    <3>3. e < L /\ ~(e >= L) /\ e + 1 + step[e] \in Nat \ {e}
      <4>1. e < L /\ ~(e >= L)
        BY <3>1
      <4> DEFINE k == step[e]
      <4> HIDE DEF k
      <4>2. k \in Nat
        BY <3>2 DEF k
      <4>3. e + 1 + k \in Nat \ {e}
        BY <4>2
      <4>. QED
        BY <4>1, <4>3 DEF k
    <3>4. next \in Seq(V)
      <4>1. item[e] \in V /\ f[e + 1 + step[e]] \in Seq(V)
        BY <3>3
      <4>. QED
        BY <4>1, FirstAndRest
    <3>5. g \in [Nat -> Seq(V)] /\ g[e] = next /\ \A c \in Nat \ {e} : g[c] = f[c]
      <4> HIDE DEF next
      <4>. QED
        BY <3>4
    <3> HIDE DEF g
    <3>6. LoopAt(g, L, item, step, e)
      <4>1. g[e + 1 + step[e]] = f[e + 1 + step[e]]
        BY <3>3, <3>5
      <4>2. next = <<item[e]>> \o g[e + 1 + step[e]]
        BY <4>1, Zenon
      <4>3. g[e] = <<item[e]>> \o g[e + 1 + step[e]]
        BY <3>5, <4>2, Zenon
      <4>. QED
        BY <3>3, <4>3 DEF LoopAt
    <3>7. ASSUME NEW c \in Nat, c + (d + 1) >= L PROVE LoopAt(g, L, item, step, c)
      <4>1. CASE c = e
        BY <3>6, <4>1
      <4>2. CASE c # e
        <5>1. c + d >= L /\ c > e
          BY <2>3, <3>1, <3>7, <4>2
        <5>. QED
          BY <2>1, <3>5, <5>1, LoopLater
      <4>. QED
        BY <4>1, <4>2
    <3>. QED
      BY <3>5, <3>7, Zenon DEF LoopFrom
  <2>. QED
    BY <2>2, <2>3
<1>3. LoopFrom(V, L, item, step, L)
  <2>1. 0 \in T /\ \A d \in Nat : d \in T => d + 1 \in T
    BY <1>1, <1>2
  <2> HIDE DEF T
  <2>2. L \in T
    BY <2>1, Induction
  <2>. QED
    BY <2>2 DEF T
<1>4. PICK f \in [Nat -> Seq(V)] : \A c \in Nat : c + L >= L => LoopAt(f, L, item, step, c)
  BY <1>3 DEF LoopFrom
<1>5. \A c \in Nat : c + L >= L
  OBVIOUS
<1>. QED
  BY <1>4, <1>5
\* The record at a cursor, and its length.
Item(raw) ==
    [c \in Nat |-> PeerConnectionFromBytes(SubSeq(raw, c + 2, c + 1 + LengthAt(raw[c + 1])))]
Step(raw) == [c \in Nat |-> IF c < Len(raw) THEN LengthAt(raw[c + 1]) ELSE 0]

Loop(f, raw) == \A c \in Nat : LoopAt(f, Len(raw), Item(raw), Step(raw), c)

LEMMA DecodeIsLoop ==
    ASSUME NEW raw \in Seq(PeerCell)
    PROVE  \E f : DecodeArray(raw) = f[0] /\ Loop(f, raw)
<1> DEFINE Rec(f) ==
               [cursor \in Nat |->
                    IF cursor >= Len(raw) THEN <<>>
                    ELSE LET length == LengthAt(raw[cursor + 1])
                             current == SubSeq(raw, cursor + 2, cursor + 1 + length)
                         IN  <<PeerConnectionFromBytes(current)>> \o f[cursor + 1 + length]]
           from == CHOOSE f : f = Rec(f)
           V == {Item(raw)[c] : c \in Nat}
<1>1. Len(raw) \in Nat /\ \A c \in Nat : c < Len(raw) => raw[c + 1] \in PeerCell
  <2>1. Len(raw) \in Nat /\ raw \in [1 .. Len(raw) -> PeerCell]
    OBVIOUS
  <2>2. \A c \in Nat : c < Len(raw) => c + 1 \in 1 .. Len(raw)
    BY <2>1
  <2>. QED
    BY <2>1, <2>2
<1>2. DecodeArray(raw) = from[0]
  BY DEF DecodeArray
<1>3. Item(raw) \in [Nat -> V]
  <2>1. DOMAIN Item(raw) = Nat /\ Item(raw) = [c \in Nat |-> Item(raw)[c]]
    BY DEF Item
  <2>. QED
    BY <2>1
<1>4. Step(raw) \in [Nat -> Nat]
  <2>1. \A k \in PeerCell : LengthAt(k) \in Nat
    BY DEF PeerCell, LengthAt
  <2>2. \A c \in Nat : (IF c < Len(raw) THEN LengthAt(raw[c + 1]) ELSE 0) \in Nat
    BY <1>1, <2>1
  <2>. QED
    BY <2>2 DEF Step
<1>5. PICK f \in [Nat -> Seq(V)] :
            \A c \in Nat : LoopAt(f, Len(raw), Item(raw), Step(raw), c)
  <2> HIDE DEF V
  <2>. QED
    BY <1>1, <1>3, <1>4, LoopDefined
<1>6. f = Rec(f)
  <2>1. ASSUME NEW c \in Nat PROVE f[c] = Rec(f)[c]
    <3>1. LoopAt(f, Len(raw), Item(raw), Step(raw), c)
      BY <1>5
    <3>2. CASE c >= Len(raw)
      BY <3>1, <3>2 DEF LoopAt
    <3>3. CASE c < Len(raw)
      <4>1. f[c] = <<Item(raw)[c]>> \o f[c + 1 + Step(raw)[c]]
        BY <3>1, <3>3 DEF LoopAt
      <4>2. Step(raw)[c] = LengthAt(raw[c + 1])
        BY <3>3 DEF Step
      <4>3. Item(raw)[c]
                = PeerConnectionFromBytes(SubSeq(raw, c + 2, c + 1 + LengthAt(raw[c + 1])))
        BY DEF Item
      <4>4. Rec(f)[c] = <<PeerConnectionFromBytes(SubSeq(raw, c + 2, c + 1 + LengthAt(raw[c + 1])))>>
                          \o f[c + 1 + LengthAt(raw[c + 1])]
        BY <1>1, <3>3
      <4>. QED
        BY <4>1, <4>2, <4>3, <4>4, Zenon
    <3>. QED
      BY <1>1, <3>2, <3>3
  <2>2. f = [c \in Nat |-> f[c]] /\ Rec(f) = [c \in Nat |-> Rec(f)[c]]
    BY <1>5
  <2>. QED
    BY <2>1, <2>2, Zenon
<1>7. from = Rec(from)
  <2> HIDE DEF Rec
  <2>. QED
    BY <1>6
<1>8. Loop(from, raw)
  <2> HIDE DEF from
  <2>. SUFFICES ASSUME NEW c \in Nat
                PROVE  LoopAt(from, Len(raw), Item(raw), Step(raw), c)
    BY DEF Loop
  <2>1. from[c] = Rec(from)[c]
    BY <1>7, Zenon
  <2>2. CASE c >= Len(raw)
    <3>1. from[c] = <<>> /\ ~(c < Len(raw))
      BY <1>1, <2>1, <2>2
    <3>. QED
      BY <3>1 DEF LoopAt
  <2>3. CASE c < Len(raw)
    <3>1. Step(raw)[c] = LengthAt(raw[c + 1])
      BY <2>3 DEF Step
    <3>2. Item(raw)[c]
              = PeerConnectionFromBytes(SubSeq(raw, c + 2, c + 1 + LengthAt(raw[c + 1])))
      BY DEF Item
    <3>3. from[c] = <<PeerConnectionFromBytes(SubSeq(raw, c + 2, c + 1 + LengthAt(raw[c + 1])))>>
                        \o from[c + 1 + LengthAt(raw[c + 1])]
      BY <1>1, <2>1, <2>3
    <3>4. from[c] = <<Item(raw)[c]>> \o from[c + 1 + Step(raw)[c]]
      BY <3>1, <3>2, <3>3, Zenon
    <3>. QED
      BY <1>1, <2>3, <3>4 DEF LoopAt
  <2>. QED
    BY <1>1, <2>2, <2>3
<1>. QED
  BY <1>2, <1>8

\* Where a record begins, the loop reads it and goes on behind it.
CanReadRecord(f, raw, s, p) ==
    /\ raw \in Seq(PeerCell) /\ Loop(f, raw)
    /\ s \in Seq(PeerCell) /\ p \in Metadata /\ Begins(s \o Encode(p), raw)

ReadsRecord(f, s, p) == f[Len(s)] = <<p>> \o f[Len(s \o Encode(p))]

LEMMA CutLengths ==
    ASSUME NEW a \in Nat, NEW n \in Nat, n >= 1, NEW b, b = a + n
    PROVE  /\ (IF 2 <= n THEN n - 2 + 1 ELSE 0) = n - 1
           /\ (IF a + 2 <= b THEN b - (a + 2) + 1 ELSE 0) = n - 1
  OBVIOUS

LEMMA LoopReadsRecord ==
    ASSUME NEW raw, NEW f, NEW s, NEW p, CanReadRecord(f, raw, s, p)
    PROVE  ReadsRecord(f, s, p)
<1> /\ raw \in Seq(PeerCell) /\ Loop(f, raw)
    /\ s \in Seq(PeerCell) /\ p \in Metadata /\ Begins(s \o Encode(p), raw)
  BY DEF CanReadRecord
<1> SUFFICES f[Len(s)] = <<p>> \o f[Len(s \o Encode(p))]
  BY DEF ReadsRecord
<1> DEFINE e == Encode(p)
           a == Len(s)
           b == Len(s \o e)
<1>1. /\ e \in Seq(PeerCell) /\ LengthAt(e[1]) \in Nat /\ Len(e) = 1 + LengthAt(e[1])
      /\ PeerConnectionFromBytes(SubSeq(e, 2, Len(e))) = p
  BY RecordIsReadBack
<1> HIDE DEF e
<1>2. /\ s \o e \in Seq(PeerCell) /\ a \in Nat /\ Len(e) \in Nat /\ b = a + Len(e)
      /\ \A i \in 1 .. Len(e) : (s \o e)[a + i] = e[i]
  <2>1. e \in Seq(PeerCell)
    BY <1>1
  <2>. QED
    BY <2>1, BothParts
<1>3. b <= Len(raw) /\ \A i \in 1 .. b : raw[i] = (s \o e)[i]
  BY DEF Begins, e
<1> HIDE DEF a, b
<1>4. \A i \in 1 .. Len(e) : a + i \in 1 .. b /\ raw[a + i] = e[i]
  <2>. SUFFICES ASSUME NEW i \in 1 .. Len(e) PROVE a + i \in 1 .. b /\ raw[a + i] = e[i]
    OBVIOUS
  <2>1. a + i \in 1 .. b
    BY <1>2
  <2>. QED
    BY <1>2, <1>3, <2>1
<1>5. Len(raw) \in Nat /\ a < Len(raw) /\ raw[a + 1] = e[1]
  <2>1. Len(raw) \in Nat
    BY LenProperties
  <2>2. 1 \in 1 .. Len(e) /\ a < b
    BY <1>1, <1>2
  <2>. QED
    BY <1>2, <1>3, <1>4, <2>1, <2>2
<1>6. a + 1 + LengthAt(raw[a + 1]) = b
  BY <1>1, <1>2, <1>5
<1>7. SubSeq(raw, a + 2, b) = SubSeq(e, 2, Len(e))
  <2> DEFINE x == SubSeq(raw, a + 2, b)
             y == SubSeq(e, 2, Len(e))
  <2>1. \A i \in 2 .. Len(e) : e[i] \in PeerCell
    BY <1>1
  <2>2. \A i \in a + 2 .. b : raw[i] \in PeerCell
    BY <1>2, <1>3, <1>5
  <2>3. /\ y \in Seq(PeerCell) /\ Len(y) = (IF 2 <= Len(e) THEN Len(e) - 2 + 1 ELSE 0)
        /\ \A i \in 1 .. Len(e) - 2 + 1 : y[i] = e[2 + i - 1]
    <3>1. 2 \in Int /\ Len(e) \in Int
      BY <1>2
    <3>. QED
      BY <1>1, <2>1, <3>1, SubSeqProperties
  <2>4. /\ x \in Seq(PeerCell) /\ Len(x) = (IF a + 2 <= b THEN b - (a + 2) + 1 ELSE 0)
        /\ \A i \in 1 .. b - (a + 2) + 1 : x[i] = raw[a + 2 + i - 1]
    <3> DEFINE m == a + 2
    <3>1. m \in Int /\ b \in Int /\ \A i \in m .. b : raw[i] \in PeerCell
      BY <1>2, <2>2
    <3> HIDE DEF m
    <3>2. /\ SubSeq(raw, m, b) \in Seq(PeerCell)
          /\ Len(SubSeq(raw, m, b)) = (IF m <= b THEN b - m + 1 ELSE 0)
          /\ \A i \in 1 .. b - m + 1 : SubSeq(raw, m, b)[i] = raw[m + i - 1]
      BY <3>1, SubSeqProperties
    <3>. QED
      BY <3>2 DEF m
  <2> HIDE DEF x, y
  <2>5. Len(x) = Len(e) - 1 /\ Len(y) = Len(e) - 1
    <3>1. a \in Nat /\ Len(e) \in Nat /\ Len(e) >= 1 /\ b = a + Len(e)
      BY <1>1, <1>2
    <3>2. /\ Len(y) = (IF 2 <= Len(e) THEN Len(e) - 2 + 1 ELSE 0)
          /\ Len(x) = (IF a + 2 <= b THEN b - (a + 2) + 1 ELSE 0)
      BY <2>3, <2>4
    <3>3. Len(y) = Len(e) - 1 /\ Len(x) = Len(e) - 1
      <4> DEFINE n == Len(e)
                 lx == Len(x)
                 ly == Len(y)
      <4>1. /\ a \in Nat /\ n \in Nat /\ n >= 1 /\ b = a + n
            /\ ly = (IF 2 <= n THEN n - 2 + 1 ELSE 0)
            /\ lx = (IF a + 2 <= b THEN b - (a + 2) + 1 ELSE 0)
        BY <3>1, <3>2
      <4> HIDE DEF n, lx, ly
      <4>2. ly = n - 1 /\ lx = n - 1
        BY <4>1, CutLengths
      <4>. QED
        BY <4>2 DEF n, lx, ly
    <3>. QED
      BY <3>3
  <2>6. ASSUME NEW i \in 1 .. Len(x) PROVE x[i] = y[i]
    <3>1. i + 1 \in 1 .. Len(e) /\ i \in 1 .. Len(e) - 2 + 1 /\ i \in 1 .. b - (a + 2) + 1
      <4>1. Len(e) \in Nat /\ a \in Nat /\ b = a + Len(e)
        BY <1>2
      <4>2. i \in 1 .. Len(e) - 1
        BY <2>5
      <4>. QED
        BY <4>1, <4>2
    <3>2. x[i] = raw[a + (i + 1)] /\ y[i] = e[i + 1]
      <4>1. a + 2 + i - 1 = a + (i + 1) /\ 2 + i - 1 = i + 1
        BY <1>2, <2>5, <1>1
      <4>. QED
        BY <2>3, <2>4, <3>1, <4>1
    <3>. QED
      BY <1>4, <3>1, <3>2
  <2>7. x = y
    BY <2>3, <2>4, <2>5, <2>6, SeqEqual
  <2>. QED
    BY <2>7 DEF x, y
<1>8. Step(raw)[a] = LengthAt(raw[a + 1])
  BY <1>2, <1>5 DEF Step
<1>9. Item(raw)[a] = p
  <2>1. Item(raw)[a]
            = PeerConnectionFromBytes(SubSeq(raw, a + 2, a + 1 + LengthAt(raw[a + 1])))
    BY <1>2 DEF Item
  <2>. QED
    BY <1>1, <1>6, <1>7, <2>1
<1>10. f[a] = <<Item(raw)[a]>> \o f[a + 1 + Step(raw)[a]]
  BY <1>2, <1>5 DEF Loop, LoopAt
<1>11. f[a] = <<p>> \o f[b]
  BY <1>6, <1>8, <1>9, <1>10, Zenon
<1>. QED
  BY <1>11 DEF a, b, e

LEMMA EncodedCells ==
    ASSUME NEW peers \in Seq(Metadata)
    PROVE  \E F \in [0 .. Len(peers) -> Seq(PeerCell)] :
              /\ Flattens(F, [i \in DOMAIN peers |-> Encode(peers[i])], Len(peers))
              /\ EncodeArray(peers) = F[Len(peers)]
<1> DEFINE n == Len(peers)
           seqs == [i \in DOMAIN peers |-> Encode(peers[i])]
<1>1. n \in Nat /\ DOMAIN peers = 1 .. n /\ \A i \in 1 .. n : peers[i] \in Metadata
  OBVIOUS
<1>2. \A i \in 1 .. n : Encode(peers[i]) \in Seq(PeerCell)
  BY <1>1, RecordIsReadBack
<1>3. seqs \in [1 .. n -> Seq(PeerCell)]
  BY <1>1, <1>2
<1>4. EncodeArray(peers) = FlattenSeq(seqs)
  BY DEF EncodeArray
<1> HIDE DEF seqs
<1>5. seqs \in Seq(Seq(PeerCell)) /\ Len(seqs) = n
  BY <1>1, <1>3
<1>6. PICK F \in [0 .. n -> Seq(PeerCell)] : Flattens(F, seqs, n)
  <2> HIDE DEF n
  <2>. QED
    BY <1>1, <1>3, FlattensExists
<1>7. FlattenSeq(seqs) = F[n]
  <2>1. F \in [0 .. Len(seqs) -> Seq(PeerCell)] /\ Flattens(F, seqs, Len(seqs))
    BY <1>5, <1>6
  <2>2. FlattenSeq(seqs) = F[Len(seqs)]
    BY <1>5, <2>1, FlattenIs
  <2>. QED
    BY <1>5, <2>2
<1>8. EncodeArray(peers) = F[n]
  BY <1>4, <1>7
<1>. QED
  BY <1>6, <1>8, Zenon DEF seqs

\* A peer list is read as it was written: every record is found at the place where it
\* begins, whatever the lengths of those before it, and a peer without an address has
\* none again (metadata.go:27-109).
THEOREM PeerListSurvives ==
    ASSUME NEW peers \in Seq(Metadata)
    PROVE  DecodeArray(EncodeArray(peers)) = peers
<1> DEFINE n == Len(peers)
           seqs == [i \in DOMAIN peers |-> Encode(peers[i])]
<1>1. /\ n \in Nat /\ DOMAIN peers = 1 .. n /\ \A i \in 1 .. n : peers[i] \in Metadata
      /\ \A i \in 1 .. n : seqs[i] = Encode(peers[i])
  OBVIOUS
<1>2. PICK F \in [0 .. n -> Seq(PeerCell)] :
            Flattens(F, seqs, n) /\ EncodeArray(peers) = F[n]
  BY EncodedCells
<1> DEFINE raw == F[n]
<1>3. raw \in Seq(PeerCell) /\ Len(raw) \in Nat
  BY <1>1, <1>2, LenProperties
<1> HIDE DEF n, seqs, raw
<1>4. PICK f : DecodeArray(raw) = f[0] /\ Loop(f, raw)
  BY <1>3, DecodeIsLoop
<1>5. \A i \in 1 .. n : seqs[i] \in Seq(PeerCell)
  BY <1>1, RecordIsReadBack
<1>6. \A k \in 0 .. n : F[k] \in Seq(PeerCell) /\ Begins(F[k], raw)
  <2> DEFINE G == [i \in 1 .. n |-> seqs[i]]
  <2>1. G \in [1 .. n -> Seq(PeerCell)]
    BY <1>5
  <2>2. Flattens(F, G, n)
    BY <1>1, <1>2 DEF Flattens
  <2> HIDE DEF G
  <2>3. \A k \in 0 .. n : Begins(F[k], F[n])
    BY <1>1, <1>2, <2>1, <2>2, FlattenPrefix
  <2>. QED
    BY <1>2, <2>3 DEF raw
<1>7. ASSUME NEW k \in 1 .. n
      PROVE  f[Len(F[k - 1])] = <<peers[k]>> \o f[Len(F[k])]
  <2>1. F[k] = F[k - 1] \o Encode(peers[k])
    BY <1>1, <1>2 DEF Flattens
  <2>2. k \in 0 .. n /\ k - 1 \in 0 .. n
    BY <1>1
  <2>3. F[k - 1] \in Seq(PeerCell) /\ peers[k] \in Metadata /\ Begins(F[k], raw)
    BY <1>1, <1>6, <2>2
  <2>4. Begins(F[k - 1] \o Encode(peers[k]), raw)
    BY <2>1, <2>3
  <2>5. f[Len(F[k - 1])] = <<peers[k]>> \o f[Len(F[k - 1] \o Encode(peers[k]))]
    <3> DEFINE s == F[k - 1]
               p == peers[k]
    <3>1. CanReadRecord(f, raw, s, p)
      BY <1>3, <1>4, <2>3, <2>4 DEF CanReadRecord
    <3> HIDE DEF s, p
    <3>2. ReadsRecord(f, s, p)
      BY <3>1, LoopReadsRecord, Zenon
    <3>. QED
      BY <3>2, Zenon DEF s, p, ReadsRecord
  <2>. QED
    BY <2>1, <2>5
<1> DEFINE T == {d \in Nat : d <= n => f[Len(F[n - d])] = SubSeq(peers, n - d + 1, n)}
<1>8. 0 \in T
  <2>1. f[Len(raw)] = <<>>
    <3>1. LoopAt(f, Len(raw), Item(raw), Step(raw), Len(raw))
      BY <1>3, <1>4 DEF Loop
    <3>2. Len(raw) >= Len(raw)
      BY <1>3
    <3>. QED
      BY <3>1, <3>2, Zenon DEF LoopAt
  <2>2. n - 0 = n /\ n - 0 + 1 \in Int /\ n \in Int /\ n < n - 0 + 1
    BY <1>1
  <2>3. SubSeq(peers, n - 0 + 1, n) = <<>>
    BY <2>2, SubSeqEmpty
  <2>. QED
    BY <2>1, <2>2, <2>3 DEF raw
<1>9. ASSUME NEW d \in Nat, d \in T PROVE d + 1 \in T
  <2>1. SUFFICES ASSUME d + 1 <= n
                 PROVE  f[Len(F[n - (d + 1)])] = SubSeq(peers, n - (d + 1) + 1, n)
    OBVIOUS
  <2> DEFINE k == n - d
  <2>2. f[Len(F[k])] = SubSeq(peers, k + 1, n)
    BY <1>1, <1>9, <2>1
  <2>3. k \in 1 .. n /\ n - (d + 1) = k - 1 /\ n - (d + 1) + 1 = k
    BY <1>1, <2>1
  <2> HIDE DEF k
  <2>4. f[Len(F[k - 1])] = <<peers[k]>> \o f[Len(F[k])]
    BY <1>7, <2>3
  <2>5. SubSeq(peers, k, n) = <<peers[k]>> \o SubSeq(peers, k + 1, n)
    <3>1. k \in 1 .. Len(peers) /\ n \in k .. Len(peers)
      BY <1>1, <2>3 DEF n
    <3>. QED
      BY <3>1, SubSeqRecursiveFirst
  <2>6. f[Len(F[k - 1])] = SubSeq(peers, k, n)
    BY <2>2, <2>4, <2>5, Zenon
  <2>. QED
    BY <2>3, <2>6, Zenon
<1>10. n \in T
  <2> HIDE DEF T
  <2>. QED
    BY <1>1, <1>8, <1>9, Induction
<1>11. f[Len(F[0])] = SubSeq(peers, 1, n)
  <2>1. n <= n /\ n - n = 0 /\ n - n + 1 = 1
    BY <1>1
  <2>. QED
    BY <1>10, <2>1
<1>12. Len(F[0]) = 0
  BY <1>2 DEF Flattens
<1>13. SubSeq(peers, 1, n) = peers
  BY SubSeqFull DEF n
<1>. QED
  BY <1>2, <1>4, <1>11, <1>12, <1>13 DEF raw

-----------------------------------------------------------------------------
(* The recovery id.                                                        *)

LEMMA HalfOfSum ==
    ASSUME NEW c \in 1 .. 255, NEW v \in RecoveryId
    PROVE  Quot((c * 2 + 35 + v) - 36, 2) = IF v = 1 THEN c ELSE c - 1
<1>1. CASE v = 1
  <2>1. (c * 2 + 35 + v) - 36 = 2 * c
    BY <1>1
  <2> QED
    BY <1>1, <2>1 DEF Quot
<1>2. CASE v = 0
  <2>1. (c * 2 + 35 + v) - 36 = 2 * c - 1
    BY <1>2
  <2>2. (2 * c - 1) \div 2 = c - 1
    OBVIOUS
  <2> QED
    BY <1>2, <2>1, <2>2 DEF Quot
<1> QED
  BY <1>1, <1>2 DEF RecoveryId

LEMMA Quotient ==
    ASSUME NEW c \in 1 .. 255
    PROVE  Quot(c, c) = 1 /\ Quot(c - 1, c) = 0
<1>1. c \div c = 1
  BY SMTT(30)
<1>2. (c - 1) \div c = 0
  BY SMTT(30)
<1> QED
  BY <1>1, <1>2 DEF Quot

\* The sum fits the one byte or the two bytes it is stored in (crypto.go:23-34,
\* 38-49).
LEMMA SumIsKept ==
    ASSUME NEW c \in ChainId, NEW v \in RecoveryId
    PROVE  RecoverEncodedRecId(LaSign(v, c)) = c * 2 + 35 + v
<1>1. CASE c < 110
  <2>1. (c * 2 + 35 + v) % 256 = c * 2 + 35 + v
    BY <1>1 DEF ChainId, RecoveryId
  <2> QED
    BY <1>1, <2>1 DEF LaSign, RecoverEncodedRecId
<1>2. CASE c >= 110
  <2> DEFINE e == c * 2 + 35 + v
  <2>1. e \in Nat
    BY DEF ChainId, RecoveryId
  <2> HIDE DEF e
  <2>2. 256 * (e \div 256) + (e % 256) = e
    BY <2>1
  <2>3. LaSign(v, c) = <<e \div 256, e % 256>>
    BY <1>2 DEF LaSign, ChainId, e
  <2>4. RecoverEncodedRecId(LaSign(v, c)) = 256 * (e \div 256) + (e % 256)
    BY <2>3 DEF RecoverEncodedRecId
  <2> QED
    BY <2>2, <2>4 DEF e
<1> QED
  BY <1>1, <1>2 DEF ChainId

\* EcRecover finds the recovery id that LaSign stored, with every chain id from 1 to
\* 255 and on both sides of the change of format at 110 (crypto.go:15-36, 51-63).
THEOREM RecoveryIdSurvives ==
    ASSUME NEW c \in ChainId \ {0}, NEW v \in RecoveryId
    PROVE  EcRecover(LaSign(v, c), c) = v
<1>1. c \in 1 .. 255
  BY DEF ChainId
<1>2. EcRecover(LaSign(v, c), c) = Quot(Quot((c * 2 + 35 + v) - 36, 2), c) % 256
  <2>1. RecoverEncodedRecId(LaSign(v, c)) = c * 2 + 35 + v
    BY SumIsKept
  <2> QED
    BY <2>1 DEF EcRecover
<1>3. Quot(Quot((c * 2 + 35 + v) - 36, 2), c) = v
  BY <1>1, HalfOfSum, Quotient DEF RecoveryId
<1> QED
  BY <1>2, <1>3 DEF RecoveryId

\* What LaSign writes are bytes, and the signature has the length at which
\* sendSignature and handleSignature cut the payload (connection.go:415-421, 488-492).
THEOREM SignatureFits ==
    ASSUME NEW c \in ChainId, NEW v \in RecoveryId
    PROVE  /\ LaSign(v, c) \in Seq(0 .. 255)
           /\ 64 + Len(LaSign(v, c)) = SigLen(c)
<1>1. c * 2 + 35 + v \in 35 .. 546
  BY DEF ChainId, RecoveryId
<1>2. \A n \in 35 .. 546 : n % 256 \in 0 .. 255 /\ n \div 256 \in 0 .. 255
  OBVIOUS
<1>3. CASE c < 110
  <2>1. LaSign(v, c) = <<(c * 2 + 35 + v) % 256>>
    BY <1>3 DEF LaSign
  <2>. QED
    BY <1>1, <1>2, <1>3, <2>1 DEF SigLen, ChainId
<1>4. CASE ~(c < 110)
  <2>1. LaSign(v, c) = <<(c * 2 + 35 + v) \div 256, (c * 2 + 35 + v) % 256>>
    BY <1>4 DEF LaSign
  <2>. QED
    BY <1>1, <1>2, <1>4, <2>1 DEF SigLen, ChainId
<1>. QED
  BY <1>3, <1>4

-----------------------------------------------------------------------------
(* The data of a frame.                                                    *)

DataCell ==
    PeerCell \union [is : {"data"}] \union [is : {"r, s"}] \union [is : {"byte"}, b : Nat]

LEMMA SendsTyped ==
    ASSUME NEW s \in Sends
    PROVE  \/ s.kind = "Message" /\ s.content.size \in Nat /\ s.content = [size |-> s.content.size]
           \/ /\ s.kind = "Signature" /\ s.content.v \in RecoveryId /\ s.content.Addr \in Addrs
              /\ s.content = [v |-> s.content.v, Addr |-> s.content.Addr]
           \/ /\ s.kind = "GetPeersReply" /\ s.content.peers \in Seq(Metadata)
              /\ s.content = [peers |-> s.content.peers]
<1>1. CASE s \in [kind : {"Message"}, content : [size : Nat]]
  BY <1>1
<1>2. CASE s \in [kind : {"Signature"}, content : [v : RecoveryId, Addr : Addrs]]
  BY <1>2
<1>3. CASE s \in [kind : {"GetPeersReply"}, content : [peers : Seq(Metadata)]]
  BY <1>3
<1>. QED
  BY <1>1, <1>2, <1>3, WireAssumption

\* The bytes of the sum.
LEMMA SignatureBytes ==
    ASSUME NEW c \in ChainId, NEW v \in RecoveryId
    PROVE  /\ LaSign(v, c) \in Seq(Nat) /\ Len(LaSign(v, c)) = SigLen(c) - 64
           /\ SigLen(c) - 64 \in {1, 2}
<1>1. c * 2 + 35 + v \in Nat
  BY DEF ChainId, RecoveryId
<1>2. \A e \in Nat : e % 256 \in Nat /\ e \div 256 \in Nat
  OBVIOUS
<1>3. CASE c < 110
  <2>1. LaSign(v, c) = <<(c * 2 + 35 + v) % 256>>
    BY <1>3 DEF LaSign
  <2>2. (c * 2 + 35 + v) % 256 \in Nat
    BY <1>1, <1>2
  <2>3. SigLen(c) = 65
    BY <1>3 DEF SigLen, ChainId
  <2>. QED
    BY <2>1, <2>2, <2>3
<1>4. CASE c >= 110
  <2>1. LaSign(v, c) = <<(c * 2 + 35 + v) \div 256, (c * 2 + 35 + v) % 256>>
    BY <1>4 DEF LaSign, ChainId
  <2>2. (c * 2 + 35 + v) % 256 \in Nat /\ (c * 2 + 35 + v) \div 256 \in Nat
    BY <1>1, <1>2
  <2>3. SigLen(c) = 66
    BY <1>4 DEF SigLen
  <2>. QED
    BY <2>1, <2>2, <2>3
<1>. QED
  BY <1>3, <1>4 DEF ChainId

\* What a signature looks like, and where its bytes and its address are found.
LEMMA SignatureData ==
    ASSUME NEW c \in ChainId, NEW content, content.v \in RecoveryId, content.Addr \in Addrs
    PROVE  LET data == Data("Signature", content, c)
               n == SigLen(c) - 64
           IN  /\ data \in Seq(DataCell)
               /\ \A i \in 1 .. n : data[i + 1].b = LaSign(content.v, c)[i]
               /\ data[n + 2].Addr = content.Addr
<1> DEFINE sig == LaSign(content.v, c)
           n == SigLen(c) - 64
           bytes == [i \in DOMAIN sig |-> [is |-> "byte", b |-> sig[i]]]
           addr == [is |-> "addr", Addr |-> content.Addr]
           rs == [is |-> "r, s"]
           front == <<rs>> \o bytes
           last == <<addr>>
           data == Data("Signature", content, c)
<1>1. sig \in Seq(Nat) /\ Len(sig) = n /\ n \in {1, 2}
  BY SignatureBytes
<1>2. data = front \o last
  BY DEF Data
<1> HIDE DEF sig, n, data
<1>3. bytes \in Seq(DataCell) /\ Len(bytes) = n /\ \A i \in 1 .. n : bytes[i].b = sig[i]
  <2>1. DOMAIN sig = 1 .. n /\ n \in Nat /\ \A i \in 1 .. n : sig[i] \in Nat
    BY <1>1
  <2>2. \A i \in 1 .. n : [is |-> "byte", b |-> sig[i]] \in DataCell
    BY <2>1 DEF DataCell
  <2>3. bytes \in [1 .. n -> DataCell]
    BY <2>1, <2>2
  <2>4. \A i \in 1 .. n : bytes[i].b = sig[i]
    BY <2>1
  <2> HIDE DEF bytes
  <2>. QED
    BY <2>1, <2>3, <2>4
<1>4. rs \in DataCell /\ addr \in DataCell /\ addr.Addr = content.Addr
  BY DEF DataCell, PeerCell
<1> HIDE DEF bytes, addr, rs
<1>5. /\ front \in Seq(DataCell) /\ Len(front) = n + 1
      /\ \A i \in 1 .. n : front[i + 1] = bytes[i]
  <2>1. /\ front \in Seq(DataCell) /\ Len(front) = Len(bytes) + 1
        /\ \A i \in 1 .. Len(bytes) : front[i + 1] = bytes[i]
    BY <1>3, <1>4, FirstAndRest
  <2>. QED
    BY <1>3, <2>1
<1>6. last \in Seq(DataCell) /\ Len(last) = 1 /\ last[1] = addr
  BY <1>4
<1> HIDE DEF front, last
<1>7. /\ data \in Seq(DataCell)
      /\ \A i \in 1 .. Len(front) : data[i] = front[i]
      /\ \A i \in 1 .. Len(last) : data[Len(front) + i] = last[i]
  BY <1>2, <1>5, <1>6, BothParts
<1>8. data[n + 2] = addr
  <2>1. 1 \in 1 .. Len(last) /\ Len(front) + 1 = n + 2
    BY <1>1, <1>5, <1>6
  <2>2. data[Len(front) + 1] = last[1]
    BY <1>7, <2>1
  <2>. QED
    BY <1>6, <2>1, <2>2
<1>9. ASSUME NEW i \in 1 .. n PROVE data[i + 1].b = sig[i]
  <2>1. i + 1 \in 1 .. Len(front)
    BY <1>1, <1>5
  <2>2. data[i + 1] = bytes[i]
    BY <1>5, <1>7, <2>1
  <2>. QED
    BY <1>3, <2>2
<1>. QED
  BY <1>4, <1>7, <1>8, <1>9 DEF n, data, sig

LEMMA DataTyped ==
    ASSUME NEW s \in Sends, NEW c \in ChainIds
    PROVE  Data(s.kind, s.content, c) \in Seq(DataCell)
<1>1. CASE s.kind = "Message" /\ s.content.size \in Nat
  <2> DEFINE data == [i \in 1 .. s.content.size |-> [is |-> "data"]]
  <2>1. Data(s.kind, s.content, c) = data
    BY <1>1 DEF Data
  <2>2. [is |-> "data"] \in DataCell
    BY DEF DataCell
  <2>3. data \in [1 .. s.content.size -> DataCell]
    BY <2>2
  <2> HIDE DEF data
  <2>4. data \in Seq(DataCell)
    BY <1>1, <2>3
  <2>. QED
    BY <2>1, <2>4
<1>2. CASE s.kind = "Signature" /\ s.content.v \in RecoveryId /\ s.content.Addr \in Addrs
  <2>1. c \in ChainId
    BY WireAssumption
  <2>. QED
    BY <1>2, <2>1, SignatureData
<1>3. CASE s.kind = "GetPeersReply" /\ s.content.peers \in Seq(Metadata)
  <2>1. Data(s.kind, s.content, c) = EncodeArray(s.content.peers)
    BY <1>3 DEF Data
  <2>2. PICK F \in [0 .. Len(s.content.peers) -> Seq(PeerCell)] :
              EncodeArray(s.content.peers) = F[Len(s.content.peers)]
    BY <1>3, EncodedCells
  <2>3. Len(s.content.peers) \in 0 .. Len(s.content.peers)
    BY <1>3
  <2>4. EncodeArray(s.content.peers) \in Seq(PeerCell)
    BY <2>2, <2>3
  <2>5. PeerCell \subseteq DataCell
    BY DEF DataCell
  <2>. QED
    BY <2>1, <2>4, <2>5, SeqMonotonic
<1>. QED
  BY <1>1, <1>2, <1>3, SendsTyped

\* What a handler makes of the data of a frame is the content it was made from.
LEMMA DataIsHandled ==
    ASSUME NEW s \in Sends, chainId \in ChainIds, s.kind = "Signature" => chainId # 0
    PROVE  Handle(s.kind, Data(s.kind, s.content, chainId)) = s.content
<1>1. CASE s.kind = "Message" /\ s.content.size \in Nat /\ s.content = [size |-> s.content.size]
  <2> DEFINE n == s.content.size
             data == [i \in 1 .. n |-> [is |-> "data"]]
  <2>1. Data(s.kind, s.content, chainId) = data
    BY <1>1 DEF Data
  <2>2. n \in Nat
    BY <1>1
  <2>3. Len(data) = n
    <3> HIDE DEF n
    <3>. QED
      BY <2>2
  <2> HIDE DEF data
  <2>4. Handle(s.kind, data) = [size |-> Len(data)]
    BY <1>1 DEF Handle
  <2>. QED
    BY <1>1, <2>1, <2>3, <2>4
<1>2. CASE /\ s.kind = "Signature" /\ s.content.v \in RecoveryId /\ s.content.Addr \in Addrs
           /\ s.content = [v |-> s.content.v, Addr |-> s.content.Addr]
  <2> DEFINE data == Data(s.kind, s.content, chainId)
             n == SigLen(chainId) - 64
             sig == LaSign(s.content.v, chainId)
             bytes == [i \in 1 .. n |-> data[i + 1].b]
  <2>1. chainId \in ChainId \ {0}
    BY <1>2, WireAssumption
  <2>2. data = Data("Signature", s.content, chainId)
    BY <1>2
  <2>3. (\A i \in 1 .. n : data[i + 1].b = sig[i]) /\ data[n + 2].Addr = s.content.Addr
    BY <1>2, <2>1, <2>2, SignatureData
  <2>4. sig \in Seq(Nat) /\ Len(sig) = n /\ n \in Nat
    BY <1>2, <2>1, SignatureBytes
  <2>5. EcRecover(sig, chainId) = s.content.v
    BY <1>2, <2>1, RecoveryIdSurvives
  <2> HIDE DEF data, n, sig
  <2>6. bytes = sig
    <3>1. sig = [i \in 1 .. n |-> sig[i]]
      BY <2>4
    <3>. QED
      BY <2>3, <3>1
  <2>7. Handle(s.kind, data) = [v |-> EcRecover(bytes, chainId), Addr |-> data[n + 2].Addr]
    BY <1>2, Zenon DEF Handle, RecoverSignature, n
  <2>. QED
    BY <1>2, <2>3, <2>5, <2>6, <2>7 DEF data
<1>3. CASE /\ s.kind = "GetPeersReply" /\ s.content.peers \in Seq(Metadata)
           /\ s.content = [peers |-> s.content.peers]
  <2>1. Data(s.kind, s.content, chainId) = EncodeArray(s.content.peers)
    BY <1>3 DEF Data
  <2>2. DecodeArray(EncodeArray(s.content.peers)) = s.content.peers
    BY <1>3, PeerListSurvives
  <2>3. Handle(s.kind, Data(s.kind, s.content, chainId))
            = [peers |-> DecodeArray(Data(s.kind, s.content, chainId))]
    BY <1>3 DEF Handle
  <2>. QED
    BY <1>3, <2>1, <2>2, <2>3, Zenon
<1>. QED
  BY <1>1, <1>2, <1>3, SendsTyped, Zenon

-----------------------------------------------------------------------------
(* The cells of a stream.                                                  *)

ChecksumCell == [is : {"checksum"}, of : Seq(Nat \union DataCell)]
Kinds == {s.kind : s \in Sends}
Cell ==
    DataCell
    \union [is : {"length"}, n : Nat]
    \union [is : {"head"}, kind : Kinds, id : Nat]
    \union ChecksumCell

\* Frame number i, and the cells its checksum is computed from.
Covered(s, i, chain) == <<i>> \o Data(s.kind, s.content, chain)
FrameOf(s, i, chain) ==
    EncodeFrame([is |-> "head", kind |-> s.kind, id |-> i], Data(s.kind, s.content, chain))

LEMMA FrameShape ==
    ASSUME NEW s \in Sends, NEW i \in Nat, NEW c \in ChainIds
    PROVE  LET f == FrameOf(s, i, c)
               data == Data(s.kind, s.content, c)
               n == Len(data)
           IN  /\ f \in Seq(Cell) /\ n \in Nat /\ Len(f) = n + 3 /\ n + 2 <= MaxLength
               /\ f[1] = [is |-> "length", n |-> n + 2]
               /\ f[2] = [is |-> "head", kind |-> s.kind, id |-> i]
               /\ \A j \in 1 .. n : f[j + 2] = data[j]
               /\ f[n + 3] = [is |-> "checksum", of |-> Covered(s, i, c)]
<1> DEFINE data == Data(s.kind, s.content, c)
           n == Len(data)
           length == [is |-> "length", n |-> n + 2]
           head == [is |-> "head", kind |-> s.kind, id |-> i]
           checksum == [is |-> "checksum", of |-> Covered(s, i, c)]
           first == <<length, head>>
           front == first \o data
           last == <<checksum>>
           f == FrameOf(s, i, c)
<1>1. data \in Seq(DataCell) /\ data \in Seq(Cell) /\ n \in Nat /\ n + 2 <= MaxLength
  <2>1. data \in Seq(DataCell)
    BY DataTyped
  <2>2. DataCell \subseteq Cell
    BY DEF Cell
  <2>3. data \in Seq(Cell)
    BY <2>1, <2>2, SeqMonotonic
  <2>4. n \in Nat
    BY <2>1, LenProperties
  <2>5. n + 2 <= MaxLength
    BY LengthAssumption
  <2>. QED
    BY <2>1, <2>3, <2>4, <2>5
<1>2. f = front \o last
  <2>1. f = <<[is |-> "length", n |-> Len(data) + 2], head>>
                \o data \o <<Checksum(<<head.id>> \o data)>>
    BY DEF FrameOf, EncodeFrame
  <2>2. Checksum(<<head.id>> \o data) = checksum
    <3>1. head.id = i
      OBVIOUS
    <3> HIDE DEF head
    <3>. QED
      BY <3>1, Zenon DEF Checksum, Covered
  <2> HIDE DEF checksum, data, head
  <2>. QED
    BY <2>1, <2>2, Zenon
<1>3. Covered(s, i, c) \in Seq(Nat \union DataCell)
  <2> DEFINE S == Nat \union DataCell
  <2>1. i \in S /\ DataCell \subseteq S
    OBVIOUS
  <2> HIDE DEF S, data
  <2>2. data \in Seq(S)
    BY <1>1, <2>1, SeqMonotonic
  <2>3. <<i>> \o data \in Seq(S)
    BY <2>1, <2>2, FirstAndRest
  <2>. QED
    BY <2>3 DEF S, Covered, data
<1>4. length \in Cell /\ head \in Cell /\ checksum \in Cell
  <2>1. length \in Cell
    <3> HIDE DEF n
    <3>. QED
      BY <1>1 DEF Cell
  <2>2. head \in Cell
    BY DEF Cell, Kinds
  <2>3. checksum \in Cell
    BY <1>3 DEF Cell, ChecksumCell
  <2>. QED
    BY <2>1, <2>2, <2>3
<1> HIDE DEF data, n, length, head, checksum, f
<1>5. /\ first \in Seq(Cell) /\ Len(first) = 2 /\ first[1] = length /\ first[2] = head
      /\ last \in Seq(Cell) /\ Len(last) = 1 /\ last[1] = checksum
  BY <1>4
<1> HIDE DEF first, last
<1>6. /\ front \in Seq(Cell) /\ Len(front) = Len(first) + Len(data)
      /\ \A j \in 1 .. Len(first) : front[j] = first[j]
      /\ \A j \in 1 .. Len(data) : front[Len(first) + j] = data[j]
  <2>1. first \in Seq(Cell) /\ data \in Seq(Cell)
    BY <1>1, <1>5
  <2>. QED
    BY <2>1, BothParts
<1> HIDE DEF front
<1>7. /\ f \in Seq(Cell) /\ Len(f) = Len(front) + Len(last)
      /\ \A j \in 1 .. Len(front) : f[j] = front[j]
      /\ \A j \in 1 .. Len(last) : f[Len(front) + j] = last[j]
  <2>1. front \in Seq(Cell) /\ last \in Seq(Cell)
    BY <1>5, <1>6
  <2>2. /\ front \o last \in Seq(Cell) /\ Len(front \o last) = Len(front) + Len(last)
        /\ \A j \in 1 .. Len(front) : (front \o last)[j] = front[j]
        /\ \A j \in 1 .. Len(last) : (front \o last)[Len(front) + j] = last[j]
    BY <2>1, BothParts
  <2>. QED
    BY <1>2, <2>2, Zenon
<1>8. Len(data) = n /\ Len(front) = n + 2 /\ Len(f) = n + 3
  BY <1>1, <1>5, <1>6, <1>7 DEF n
<1>9. f[1] = length /\ f[2] = head
  <2>1. 1 \in 1 .. Len(first) /\ 2 \in 1 .. Len(first) /\ 1 \in 1 .. Len(front) /\ 2 \in 1 .. Len(front)
    BY <1>1, <1>5, <1>8
  <2>. QED
    BY <1>5, <1>6, <1>7, <2>1
<1>10. ASSUME NEW j \in 1 .. n PROVE f[j + 2] = data[j]
  <2>1. j + 2 \in 1 .. Len(front) /\ j \in 1 .. Len(data) /\ Len(first) + j = j + 2
    BY <1>1, <1>5, <1>8
  <2>. QED
    BY <1>6, <1>7, <2>1
<1>11. f[n + 3] = checksum
  <2>1. 1 \in 1 .. Len(last) /\ Len(front) + 1 = n + 3
    BY <1>1, <1>5, <1>8
  <2>. QED
    BY <1>5, <1>7, <2>1
<1>12. f[1] = [is |-> "length", n |-> n + 2] /\ f[2] = [is |-> "head", kind |-> s.kind, id |-> i]
  BY <1>9 DEF length, head
<1>13. f[n + 3] = [is |-> "checksum", of |-> Covered(s, i, c)]
  BY <1>11 DEF checksum
<1>. QED
  BY <1>1, <1>7, <1>8, <1>10, <1>12, <1>13 DEF f, data, n

-----------------------------------------------------------------------------
(* What was written and not handled: the frame, the buffer, the stream.    *)

Flow == result \o (buffer \o stream)

\* What is left of s when m cells are taken from its beginning.
Rest(t, s, m) ==
    m \in Nat /\ Len(s) = m + Len(t) /\ \A i \in 1 .. Len(t) : t[i] = s[m + i]

LEMMA Cut ==
    ASSUME NEW S, NEW s \in Seq(S), NEW n \in 0 .. Len(s)
    PROVE  LET a == SubSeq(s, 1, n)
               b == SubSeq(s, n + 1, Len(s))
           IN  /\ a \in Seq(S) /\ b \in Seq(S) /\ Len(a) = n /\ Len(b) = Len(s) - n
               /\ a \o b = s
<1> DEFINE a == SubSeq(s, 1, n)
           b == SubSeq(s, n + 1, Len(s))
<1>1. Len(s) \in Nat /\ n \in Nat /\ n <= Len(s) /\ \A i \in 1 .. Len(s) : s[i] \in S
  OBVIOUS
<1>2. /\ a \in Seq(S) /\ Len(a) = n
      /\ \A i \in 1 .. n : a[i] = s[i]
  <2>1. \A i \in 1 .. n : s[i] \in S
    BY <1>1
  <2>2. /\ a \in Seq(S) /\ Len(a) = (IF 1 <= n THEN n - 1 + 1 ELSE 0)
        /\ \A i \in 1 .. n - 1 + 1 : a[i] = s[1 + i - 1]
    <3>1. 1 \in Int /\ n \in Int
      BY <1>1
    <3>. QED
      BY <2>1, <3>1, SubSeqProperties
  <2> HIDE DEF a
  <2>. QED
    BY <1>1, <2>2
<1>3. /\ b \in Seq(S) /\ Len(b) = Len(s) - n
      /\ \A i \in 1 .. Len(b) : b[i] = s[n + i]
  <2>1. \A i \in n + 1 .. Len(s) : s[i] \in S
    BY <1>1
  <2>2. /\ b \in Seq(S) /\ Len(b) = (IF n + 1 <= Len(s) THEN Len(s) - (n + 1) + 1 ELSE 0)
        /\ \A i \in 1 .. Len(s) - (n + 1) + 1 : b[i] = s[n + 1 + i - 1]
    <3>1. n + 1 \in Int /\ Len(s) \in Int
      BY <1>1
    <3>. QED
      BY <2>1, <3>1, SubSeqProperties
  <2> HIDE DEF b
  <2>3. Len(b) = Len(s) - n
    BY <1>1, <2>2
  <2>4. ASSUME NEW i \in 1 .. Len(b) PROVE b[i] = s[n + i]
    <3>1. i \in 1 .. Len(s) - (n + 1) + 1 /\ n + 1 + i - 1 = n + i
      BY <1>1, <2>3
    <3>. QED
      BY <2>2, <3>1
  <2>. QED
    BY <2>2, <2>3, <2>4
<1>4. a \o b = SubSeq(s, 1, Len(s))
  <2>1. 1 \in 1 .. Len(s) + 1 /\ n \in 1 - 1 .. Len(s) /\ Len(s) \in n .. Len(s)
    BY <1>1
  <2>. QED
    BY <2>1, ConcatAdjacentSubSeq
<1>5. SubSeq(s, 1, Len(s)) = s
  BY SubSeqFull
<1> HIDE DEF a, b
<1>. QED
  BY <1>2, <1>3, <1>4, <1>5 DEF a, b

\* The second part is what is left when the first is taken.
LEMMA SecondIsRest ==
    ASSUME NEW S, NEW s \in Seq(S), NEW t \in Seq(S)
    PROVE  Rest(t, s \o t, Len(s))
<1> DEFINE all == s \o t
<1>1. /\ Len(s) \in Nat /\ Len(all) = Len(s) + Len(t)
      /\ \A i \in 1 .. Len(t) : all[Len(s) + i] = t[i]
  BY BothParts
<1> HIDE DEF all
<1>2. Rest(t, all, Len(s))
  BY <1>1 DEF Rest
<1>. QED
  BY <1>2 DEF all

-----------------------------------------------------------------------------
(* The types, and the steps of the flow.                                   *)

\* The frames that were written are numbered.
Numbered(frames) ==
    \A i \in 1 .. Len(frames) :
        \E s \in Sends : frames[i] = [id |-> i, kind |-> s.kind, content |-> s.content]

WTypes ==
    /\ chainId \in ChainIds
    /\ muxer \in {"writes", "bytes"}
    /\ state \in {"open", "reset", "panicked"}
    /\ sent \in Seq(Frame) /\ Len(sent) <= MaxFrames
    /\ Numbered(sent)
    /\ read \in Seq(Frame)
    /\ stream \in Seq(Cell) /\ buffer \in Seq(Cell) /\ result \in Seq(Cell)
    /\ Len(buffer) <= BufSize
    /\ bytesLeft \in NoLength .. MaxLength
    /\ bytesLeft = NoLength => result = <<>>
    /\ bytesLeft + Len(result) <= MaxLength

\* All variables but these three keep their types if the others do.
LEMMA SameTypes ==
    ASSUME WTypes, UNCHANGED <<chainId, muxer, sent, read, state>>,
           stream' \in Seq(Cell), buffer' \in Seq(Cell), result' \in Seq(Cell),
           Len(buffer') <= BufSize, bytesLeft' \in NoLength .. MaxLength,
           bytesLeft' = NoLength => result' = <<>>,
           bytesLeft' + Len(result') <= MaxLength
    PROVE  WTypes'
  BY DEF WTypes

\* A Read of the stream moves cells on.
LEMMA FillMoves ==
    ASSUME WTypes, Fill
    PROVE  WTypes' /\ Flow' = Flow
<1>1. /\ stream \in Seq(Cell) /\ buffer = <<>> /\ result \in Seq(Cell)
      /\ Len(stream) \in Nat /\ Len(result) \in Nat /\ bytesLeft \in Int
      /\ bytesLeft <= MaxLength /\ bytesLeft + Len(result) <= MaxLength
      /\ BufSize \in Nat \ {0} /\ MaxLength \in Nat
      /\ bytesLeft >= NoLength /\ (bytesLeft = NoLength => result = <<>>)
  BY WireAssumption, LenProperties DEF WTypes, Fill, NoLength
<1>2. UNCHANGED <<chainId, muxer, sent, read, state>>
  BY DEF Fill
<1>e. <<>> \in Seq(Cell)
  OBVIOUS
<1>3. CASE bytesLeft >= BufSize
  <2>1. PICK n \in 1 .. bytesLeft :
            /\ n <= Len(stream)
            /\ result' = result \o SubSeq(stream, 1, n)
            /\ bytesLeft' = bytesLeft - n
            /\ stream' = SubSeq(stream, n + 1, Len(stream))
            /\ buffer' = buffer
    BY <1>3 DEF Fill, CanReturn
  <2> DEFINE a == SubSeq(stream, 1, n)
             b == SubSeq(stream, n + 1, Len(stream))
  <2>2. n \in 0 .. Len(stream)
    BY <1>1, <2>1
  <2>3. a \in Seq(Cell) /\ b \in Seq(Cell) /\ Len(a) = n /\ a \o b = stream
    BY <1>1, <2>2, Cut
  <2>4. result' = result \o a /\ stream' = b /\ buffer' = <<>>
    BY <1>1, <2>1
  <2> HIDE DEF a, b
  <2>5. result \o a \in Seq(Cell) /\ Len(result \o a) = Len(result) + n
    BY <1>1, <2>3, ConcatProperties
  <2>6. bytesLeft' = bytesLeft - n /\ n \in Int /\ n >= 1 /\ n <= bytesLeft
    BY <1>1, <2>1
  <2>7. /\ bytesLeft' \in NoLength .. MaxLength /\ bytesLeft' # NoLength
        /\ bytesLeft' + Len(result') <= MaxLength
    <3>1. Len(result') = Len(result) + n
      BY <2>4, <2>5
    <3>. QED
      BY <1>1, <2>6, <3>1 DEF NoLength
  <2>8. Len(buffer') <= BufSize
    BY <1>1, <2>4
  <2>9. WTypes'
    BY <1>2, <1>e, <2>3, <2>4, <2>5, <2>7, <2>8, SameTypes
  <2>10. Flow' = (result \o a) \o (<<>> \o b)
    BY <2>4 DEF Flow
  <2>11. (result \o a) \o b = result \o (a \o b)
    <3>1. result \in Seq(Cell) /\ a \in Seq(Cell) /\ b \in Seq(Cell)
      BY <1>1, <2>3
    <3>. QED
      BY <3>1, ConcatAssociative
  <2>12. <<>> \o b = b /\ <<>> \o stream = stream
    BY <1>1, <2>3, ConcatEmptySeq
  <2>13. Flow = result \o stream
    BY <1>1, <2>12 DEF Flow
  <2>. QED
    BY <2>3, <2>9, <2>10, <2>11, <2>12, <2>13, Zenon
<1>4. CASE ~(bytesLeft >= BufSize)
  <2>1. PICK n \in 1 .. BufSize :
            /\ n <= Len(stream)
            /\ buffer' = SubSeq(stream, 1, n)
            /\ stream' = SubSeq(stream, n + 1, Len(stream))
            /\ result' = result /\ bytesLeft' = bytesLeft
    BY <1>4 DEF Fill, CanReturn
  <2> DEFINE a == SubSeq(stream, 1, n)
             b == SubSeq(stream, n + 1, Len(stream))
  <2>2. n \in 0 .. Len(stream) /\ n <= BufSize
    BY <1>1, <2>1
  <2>3. a \in Seq(Cell) /\ b \in Seq(Cell) /\ Len(a) = n /\ a \o b = stream
    BY <1>1, <2>2, Cut
  <2>4. result' = result /\ stream' = b /\ buffer' = a /\ bytesLeft' = bytesLeft
    BY <2>1
  <2> HIDE DEF a, b
  <2>5. Len(buffer') <= BufSize /\ bytesLeft' \in NoLength .. MaxLength
    BY <1>1, <2>2, <2>3, <2>4 DEF NoLength
  <2>6. bytesLeft' + Len(result') <= MaxLength
    BY <1>1, <2>4
  <2>7. (bytesLeft' = NoLength => result' = <<>>)
    BY <1>1, <2>4
  <2>9. WTypes'
    <3>1. stream' \in Seq(Cell) /\ buffer' \in Seq(Cell) /\ result' \in Seq(Cell)
      BY <1>1, <2>3, <2>4
    <3>. QED
      BY <1>2, <2>5, <2>6, <2>7, <3>1, SameTypes
  <2>10. Flow' = result \o (a \o b)
    BY <2>4 DEF Flow
  <2>11. <<>> \o stream = stream
    BY <1>1, ConcatEmptySeq
  <2>12. Flow = result \o stream
    BY <1>1, <2>11 DEF Flow
  <2>. QED
    BY <2>3, <2>9, <2>10, <2>12, Zenon
<1>. QED
  BY <1>3, <1>4

\* A Read of the buffer moves cells on.
LEMMA ReadBytesMoves ==
    ASSUME WTypes, ReadBytes
    PROVE  WTypes' /\ Flow' = Flow
<1> DEFINE n == IF bytesLeft < Len(buffer) THEN bytesLeft ELSE Len(buffer)
           a == SubSeq(buffer, 1, n)
           b == SubSeq(buffer, n + 1, Len(buffer))
<1>1. /\ stream \in Seq(Cell) /\ buffer \in Seq(Cell) /\ result \in Seq(Cell)
      /\ Len(buffer) \in Nat /\ Len(result) \in Nat /\ bytesLeft \in Int
      /\ bytesLeft <= MaxLength /\ bytesLeft + Len(result) <= MaxLength
      /\ BufSize \in Nat /\ MaxLength \in Nat /\ Len(buffer) <= BufSize
      /\ bytesLeft > 0
  BY WireAssumption, LenProperties DEF WTypes, ReadBytes, NoLength
<1>2. /\ UNCHANGED <<chainId, muxer, sent, read, state>> /\ stream' = stream
      /\ result' = result \o a /\ buffer' = b /\ bytesLeft' = bytesLeft - n
  BY DEF ReadBytes
<1>3. n \in 0 .. Len(buffer) /\ n \in Int /\ n >= 0 /\ n <= bytesLeft
  BY <1>1
<1> HIDE DEF n
<1>4. /\ a \in Seq(Cell) /\ b \in Seq(Cell) /\ Len(a) = n /\ Len(b) = Len(buffer) - n
      /\ a \o b = buffer
  BY <1>1, <1>3, Cut
<1> HIDE DEF a, b
<1>5. result \o a \in Seq(Cell) /\ Len(result \o a) = Len(result) + n
  <2>1. result \in Seq(Cell) /\ a \in Seq(Cell)
    BY <1>1, <1>4
  <2>. QED
    BY <1>4, <2>1, ConcatProperties
<1>6. Len(result') = Len(result) + n /\ Len(buffer') = Len(buffer) - n
  BY <1>2, <1>4, <1>5
<1>7. /\ bytesLeft' \in NoLength .. MaxLength /\ bytesLeft' # NoLength
      /\ bytesLeft' + Len(result') <= MaxLength /\ Len(buffer') <= BufSize
  BY <1>1, <1>2, <1>3, <1>6 DEF NoLength
<1>8. WTypes'
  BY <1>1, <1>2, <1>4, <1>5, <1>7, SameTypes
<1>9. Flow' = (result \o a) \o (b \o stream)
  BY <1>2 DEF Flow
<1>10. (a \o b) \o stream = a \o (b \o stream) /\ b \o stream \in Seq(Cell)
  <2>1. a \in Seq(Cell) /\ b \in Seq(Cell) /\ stream \in Seq(Cell)
    BY <1>1, <1>4
  <2>2. (a \o b) \o stream = a \o (b \o stream)
    BY <2>1, ConcatAssociative
  <2>3. b \o stream \in Seq(Cell)
    BY <2>1, ConcatProperties
  <2>. QED
    BY <2>2, <2>3
<1>11. (result \o a) \o (b \o stream) = result \o (a \o (b \o stream))
  <2> DEFINE c == b \o stream
  <2>1. result \in Seq(Cell) /\ a \in Seq(Cell) /\ c \in Seq(Cell)
    BY <1>1, <1>4, <1>10
  <2> HIDE DEF c
  <2>2. (result \o a) \o c = result \o (a \o c)
    BY <2>1, ConcatAssociative
  <2>. QED
    BY <2>2 DEF c
<1>. QED
  BY <1>4, <1>8, <1>9, <1>10, <1>11, Zenon DEF Flow

\* Where the cells of the frame, the buffer and the stream are found in the flow.
Parts(f, r, b, s) ==
    /\ f \in Seq(Cell) /\ Len(f) \in Nat
    /\ Len(r) \in Nat /\ Len(b) \in Nat /\ Len(s) \in Nat
    /\ Len(f) = Len(r) + Len(b) + Len(s)
    /\ \A i \in 1 .. Len(r) : f[i] = r[i]
    /\ \A i \in 1 .. Len(b) : f[Len(r) + i] = b[i]
    /\ \A i \in 1 .. Len(s) : f[Len(r) + Len(b) + i] = s[i]
    /\ Rest(s, f, Len(r) + Len(b))

LEMMA FlowParts ==
    ASSUME NEW r \in Seq(Cell), NEW b \in Seq(Cell), NEW s \in Seq(Cell)
    PROVE  Parts(r \o (b \o s), r, b, s)
<1> DEFINE after == b \o s
           f == r \o after
<1>2. /\ after \in Seq(Cell) /\ Len(b) \in Nat /\ Len(s) \in Nat
      /\ Len(after) = Len(b) + Len(s)
      /\ \A i \in 1 .. Len(b) : after[i] = b[i]
      /\ \A i \in 1 .. Len(s) : after[Len(b) + i] = s[i]
  BY BothParts
<1> HIDE DEF after
<1>3. /\ r \o after \in Seq(Cell) /\ Len(r) \in Nat
      /\ Len(r \o after) = Len(r) + Len(after)
      /\ \A i \in 1 .. Len(r) : (r \o after)[i] = r[i]
      /\ \A i \in 1 .. Len(after) : (r \o after)[Len(r) + i] = after[i]
  <2>1. r \in Seq(Cell) /\ after \in Seq(Cell)
    BY <1>2
  <2>. QED
    BY <2>1, BothParts
<1>4. f = r \o after
  OBVIOUS
<1>5. /\ f \in Seq(Cell) /\ Len(f) = Len(r) + Len(after)
      /\ \A i \in 1 .. Len(r) : f[i] = r[i]
      /\ \A i \in 1 .. Len(after) : f[Len(r) + i] = after[i]
  BY <1>3, <1>4, Zenon
<1> HIDE DEF f
<1>6. ASSUME NEW i \in 1 .. Len(b) PROVE f[Len(r) + i] = b[i]
  <2>1. i \in 1 .. Len(after)
    BY <1>2
  <2>. QED
    BY <1>2, <1>5, <2>1
<1>7. ASSUME NEW i \in 1 .. Len(s)
      PROVE  f[Len(r) + Len(b) + i] = s[i]
  <2>1. /\ Len(b) + i \in 1 .. Len(after)
        /\ Len(r) + (Len(b) + i) = Len(r) + Len(b) + i
    BY <1>2, <1>3
  <2>2. f[Len(r) + (Len(b) + i)] = after[Len(b) + i]
    BY <1>5, <2>1
  <2>. QED
    BY <1>2, <2>1, <2>2
<1>8. Len(f) = Len(r) + Len(b) + Len(s) /\ Len(f) \in Nat
  BY <1>2, <1>3, <1>5
<1>9. Rest(s, f, Len(r) + Len(b))
  <2>1. /\ Len(r) + Len(b) \in Nat
        /\ Len(f) = (Len(r) + Len(b)) + Len(s)
    BY <1>2, <1>3, <1>8
  <2>. QED
    BY <1>7, <2>1 DEF Rest
<1>. QED
  BY <1>2, <1>3, <1>5, <1>6, <1>7, <1>8, <1>9 DEF Parts, f, after

\* The length is taken from the flow.
LEMMA ReadLengthMoves ==
    ASSUME WTypes, ReadLength,
           Flow[1].is = "length" => Flow[1].n <= MaxLength
    PROVE  /\ WTypes' /\ UNCHANGED <<chainId, muxer, sent, read>>
           /\ buffer # <<>> /\ Len(buffer') = Len(buffer) - 1
           /\ 1 \in 1 .. Len(Flow) /\ result = <<>> /\ bytesLeft = NoLength
           /\ \E n \in LengthsOf(Flow[1]) :
                IF TooShort(n) THEN state' = "reset"
                ELSE state' = "open" /\ bytesLeft' = n /\ result' = <<>>
           /\ state' = "open" => Rest(Flow', Flow, 1)
<1>1. /\ stream \in Seq(Cell) /\ buffer \in Seq(Cell) /\ result = <<>> /\ result \in Seq(Cell)
      /\ Len(buffer) \in Nat /\ Len(stream) \in Nat /\ BufSize \in Nat /\ MaxLength \in Nat
      /\ Len(buffer) <= BufSize /\ buffer # <<>> /\ bytesLeft = NoLength /\ state = "open"
  BY WireAssumption, LenProperties DEF WTypes, ReadLength
<1>2. /\ UNCHANGED <<chainId, muxer, sent, stream>> /\ read' = read /\ buffer' = Tail(buffer)
      /\ state' \in {"open", "reset"} /\ result' = result
  BY <1>1 DEF ReadLength, ReadError
<1>3. /\ Head(buffer) = buffer[1] /\ 1 \in 1 .. Len(buffer) /\ Len(Tail(buffer)) = Len(buffer) - 1
      /\ Tail(buffer) \in Seq(Cell) /\ \A i \in 1 .. Len(Tail(buffer)) : Tail(buffer)[i] = buffer[i + 1]
  <2>1. Len(buffer) # 0
    BY <1>1, EmptySeq
  <2>2. 1 \in 1 .. Len(buffer)
    BY <1>1, <2>1
  <2>3. Head(buffer) = buffer[1]
    OBVIOUS
  <2>. QED
    BY <1>1, <2>2, <2>3, HeadTailProperties
<1>a. Parts(Flow, result, buffer, stream)
  BY <1>1, FlowParts DEF Flow
<1>4. /\ Len(result) = 0 /\ Flow[1] = buffer[1] /\ 1 \in 1 .. Len(Flow) /\ Flow[1] \in Cell
  <2>1. Len(result) = 0 /\ 0 + 1 = 1
    BY <1>1
  <2>2. Flow[Len(result) + 1] = buffer[1]
    BY <1>3, <1>a DEF Parts
  <2>3. 1 \in 1 .. Len(Flow) /\ Flow \in Seq(Cell)
    BY <1>1, <1>3, <1>a, <2>1 DEF Parts
  <2>4. Flow[1] \in Cell
    BY <2>3
  <2>. QED
    BY <2>1, <2>2, <2>3, <2>4
<1>5. PICK n \in LengthsOf(Flow[1]) :
            IF TooShort(n) THEN ReadError
            ELSE bytesLeft' = n /\ result' = <<>> /\ UNCHANGED <<read, state>>
  BY <1>3, <1>4 DEF ReadLength
<1>6. n \in 0 .. MaxLength
  <2>1. CASE Flow[1].is = "length"
    <3>1. Flow[1].n \in Nat
      BY <1>4, <2>1 DEF Cell, DataCell, PeerCell, ChecksumCell
    <3>2. n = Flow[1].n
      BY <2>1 DEF LengthsOf
    <3>. QED
      BY <1>1, <2>1, <3>1, <3>2
  <2>2. CASE Flow[1].is # "length"
    BY <2>2 DEF LengthsOf
  <2>. QED
    BY <2>1, <2>2
<1>7. WTypes'
  <2>1. bytesLeft' = NoLength \/ bytesLeft' = n
    BY <1>1, <1>5 DEF ReadError
  <2>2. Len(result') = 0
    BY <1>1, <1>2
  <2>3. bytesLeft' \in NoLength .. MaxLength /\ bytesLeft' + Len(result') <= MaxLength
    BY <1>1, <1>6, <2>1, <2>2 DEF NoLength
  <2>4. Len(buffer') <= BufSize
    BY <1>1, <1>2, <1>3
  <2>. QED
    BY <1>1, <1>2, <1>3, <2>3, <2>4 DEF WTypes
<1>8. Rest(Flow', Flow, 1)
  <2>1. /\ Len(Flow') = Len(result') + Len(buffer') + Len(stream')
        /\ \A i \in 1 .. Len(buffer') : Flow'[Len(result') + i] = buffer'[i]
        /\ \A i \in 1 .. Len(stream') : Flow'[Len(result') + Len(buffer') + i] = stream'[i]
    <3>1. result' \in Seq(Cell) /\ buffer' \in Seq(Cell) /\ stream' \in Seq(Cell)
      BY <1>7 DEF WTypes
    <3>2. Parts(Flow', result', buffer', stream')
      BY <3>1, FlowParts DEF Flow
    <3>. QED
      BY <3>2 DEF Parts
  <2>2. /\ Len(Flow) = Len(result) + Len(buffer) + Len(stream)
        /\ \A i \in 1 .. Len(buffer) : Flow[Len(result) + i] = buffer[i]
        /\ \A i \in 1 .. Len(stream) : Flow[Len(result) + Len(buffer) + i] = stream[i]
    BY <1>a DEF Parts
  <2>3. Len(result') = 0 /\ Len(buffer') = Len(buffer) - 1 /\ stream' = stream
    BY <1>1, <1>2, <1>3
  <2>4. Len(Flow) = 1 + Len(Flow')
    BY <1>1, <1>4, <2>1, <2>2, <2>3
  <2>5. ASSUME NEW i \in 1 .. Len(Flow') PROVE Flow'[i] = Flow[1 + i]
    <3>1. CASE i \in 1 .. Len(buffer')
      <4>1. 0 + i = i /\ i + 1 \in 1 .. Len(buffer) /\ 0 + (i + 1) = 1 + i
        BY <1>1, <2>3, <3>1
      <4>2. Flow'[i] = buffer'[i] /\ Flow[1 + i] = buffer[i + 1]
        BY <1>4, <2>1, <2>2, <2>3, <3>1, <4>1
      <4>. QED
        BY <1>2, <1>3, <3>1, <4>2
    <3>2. CASE i > Len(buffer')
      <4> DEFINE j == i - Len(buffer')
      <4>1. /\ j \in 1 .. Len(stream) /\ 0 + Len(buffer') + j = i
            /\ 0 + Len(buffer) + j = 1 + i
        BY <1>1, <2>1, <2>3, <3>2
      <4> HIDE DEF j
      <4>2. Flow'[i] = stream[j] /\ Flow[1 + i] = stream[j]
        BY <1>4, <2>1, <2>2, <2>3, <4>1
      <4>. QED
        BY <4>2
    <3>. QED
      BY <1>1, <2>3, <3>1, <3>2
  <2>. QED
    BY <2>4, <2>5 DEF Rest
<1>9. \E m \in LengthsOf(Flow[1]) :
          IF TooShort(m) THEN state' = "reset"
          ELSE state' = "open" /\ bytesLeft' = m /\ result' = <<>>
  BY <1>1, <1>5 DEF ReadError
<1>. QED
  BY <1>1, <1>2, <1>3, <1>4, <1>7, <1>8, <1>9

-----------------------------------------------------------------------------
(* Every frame in the flow was written, in this order.                     *)

\* A length is within the bound, a head is that of a frame, and a checksum covers
\* the data of one.
Genuine(cell, frames, chain) ==
    /\ cell.is = "length" => cell.n <= MaxLength
    /\ cell.is = "head" =>
          cell.id \in 1 .. Len(frames) /\ cell.kind = frames[cell.id].kind
    /\ cell.is = "checksum" =>
          \E i \in 1 .. Len(frames) : cell.of = Covered(frames[i], i, chain)

AllGenuine(f, frames, chain) == \A i \in 1 .. Len(f) : Genuine(f[i], frames, chain)

\* The id a checksum is computed from.
IdOf(cell) == cell.of[1]

Ordered(f) ==
    \A i, j \in 1 .. Len(f) :
        i < j /\ f[i].is = "checksum" /\ f[j].is = "checksum" => IdOf(f[i]) < IdOf(f[j])

\* Those that were handled come before those in the flow.
Later(f, handled) ==
    \A i \in 1 .. Len(f) : f[i].is = "checksum" =>
        \A j \in 1 .. Len(handled) : handled[j].id < IdOf(f[i])

FromSent(handled, frames) ==
    \A i \in 1 .. Len(handled) :
        handled[i].id \in 1 .. Len(frames) /\ handled[i] = frames[handled[i].id]

Increasing(handled) ==
    \A i, j \in 1 .. Len(handled) : i < j => handled[i].id < handled[j].id

Sound(f, handled, frames, chain) ==
    AllGenuine(f, frames, chain) /\ Ordered(f) /\ Later(f, handled)

WInv ==
    /\ WTypes
    /\ FromSent(read, sent) /\ Increasing(read)
    /\ state = "open" => Sound(Flow, read, sent, chainId)

LEMMA CoveredParts ==
    ASSUME NEW frames \in Seq(Frame), Numbered(frames), NEW i \in 1 .. Len(frames),
           NEW c \in ChainIds
    PROVE  /\ i \in Nat /\ frames[i].id = i
           /\ \E s \in Sends : s.kind = frames[i].kind /\ s.content = frames[i].content
           /\ Data(frames[i].kind, frames[i].content, c) \in Seq(DataCell)
           /\ Covered(frames[i], i, c) = <<i>> \o Data(frames[i].kind, frames[i].content, c)
           /\ Covered(frames[i], i, c)[1] = i
<1>1. PICK s \in Sends : frames[i] = [id |-> i, kind |-> s.kind, content |-> s.content]
  BY DEF Numbered
<1>2. frames[i].id = i /\ frames[i].kind = s.kind /\ frames[i].content = s.content
  BY <1>1
<1> DEFINE data == Data(frames[i].kind, frames[i].content, c)
<1>3. data \in Seq(DataCell)
  BY <1>2, DataTyped
<1>4. Covered(frames[i], i, c) = <<i>> \o data
  BY DEF Covered
<1>5. i \in Nat
  OBVIOUS
<1>6. (<<i>> \o data)[1] = i
  <2> DEFINE S == Nat \union DataCell
  <2>1. i \in S /\ DataCell \subseteq S
    BY <1>5
  <2> HIDE DEF S, data
  <2>2. data \in Seq(S)
    BY <1>3, <2>1, SeqMonotonic
  <2>. QED
    BY <2>1, <2>2, FirstAndRest
<1>. QED
  BY <1>2, <1>3, <1>4, <1>5, <1>6

\* Taking cells from the front of the flow keeps all that.
LEMMA RestIsSound ==
    ASSUME NEW f, NEW g, NEW m, Len(f) \in Nat, Len(g) \in Nat, Rest(g, f, m),
           NEW handled, NEW frames, NEW chain, Sound(f, handled, frames, chain)
    PROVE  Sound(g, handled, frames, chain)
<1>1. /\ m \in Nat /\ \A i \in 1 .. Len(g) : m + i \in 1 .. Len(f) /\ g[i] = f[m + i]
  BY DEF Rest
<1>2. AllGenuine(g, frames, chain)
  BY <1>1 DEF Sound, AllGenuine
<1>3. Ordered(g)
  <2>1. SUFFICES ASSUME NEW i \in 1 .. Len(g), NEW j \in 1 .. Len(g), i < j,
                        g[i].is = "checksum", g[j].is = "checksum"
                 PROVE  IdOf(g[i]) < IdOf(g[j])
    BY DEF Ordered
  <2>2. m + i \in 1 .. Len(f) /\ m + j \in 1 .. Len(f) /\ m + i < m + j
    BY <1>1, <2>1
  <2>3. IdOf(f[m + i]) < IdOf(f[m + j])
    BY <1>1, <2>1, <2>2 DEF Sound, Ordered
  <2>. QED
    BY <1>1, <2>3
<1>4. Later(g, handled)
  BY <1>1 DEF Sound, Later
<1>. QED
  BY <1>2, <1>3, <1>4 DEF Sound

\* The id of a genuine checksum is that of a frame.
LEMMA GenuineId ==
    ASSUME NEW frames \in Seq(Frame), Numbered(frames), NEW c \in ChainIds,
           NEW cell, cell.is = "checksum", Genuine(cell, frames, c)
    PROVE  /\ IdOf(cell) \in 1 .. Len(frames)
           /\ cell.of = Covered(frames[IdOf(cell)], IdOf(cell), c)
<1>1. PICK i \in 1 .. Len(frames) : cell.of = Covered(frames[i], i, c)
  BY DEF Genuine
<1>2. IdOf(cell) = i
  <2>1. Covered(frames[i], i, c)[1] = i
    BY CoveredParts
  <2>. QED
    BY <1>1, <2>1, Zenon DEF IdOf
<1>. QED
  BY <1>1, <1>2

\* The frame that Write adds.
NewFrame(frames, s) == [id |-> Len(frames) + 1, kind |-> s.kind, content |-> s.content]

LEMMA WrittenIsSound ==
    ASSUME NEW f \in Seq(Cell), NEW frames \in Seq(Frame), Numbered(frames),
           NEW c \in ChainIds, NEW handled, FromSent(handled, frames),
           Sound(f, handled, frames, c), NEW s \in Sends, NEW more \in Seq(Frame),
           more = Append(frames, NewFrame(frames, s)), NewFrame(frames, s) \in Frame
    PROVE  /\ Numbered(more) /\ FromSent(handled, more)
           /\ Sound(f \o FrameOf(s, Len(frames) + 1, c), handled, more, c)
<1> DEFINE n == Len(frames)
           new == NewFrame(frames, s)
           e == FrameOf(s, n + 1, c)
           d == Len(Data(s.kind, s.content, c))
           g == f \o e
<1>1. n \in Nat /\ Len(more) = n + 1 /\ more[n + 1] = new /\ \A i \in 1 .. n : more[i] = frames[i]
  BY AppendProperties, LenProperties
<1>2. /\ e \in Seq(Cell) /\ d \in Nat /\ Len(e) = d + 3 /\ d + 2 <= MaxLength
      /\ e[1] = [is |-> "length", n |-> d + 2]
      /\ e[2] = [is |-> "head", kind |-> s.kind, id |-> n + 1]
      /\ \A j \in 1 .. d : e[j + 2] = Data(s.kind, s.content, c)[j]
      /\ e[d + 3] = [is |-> "checksum", of |-> Covered(s, n + 1, c)]
  <2>1. n + 1 \in Nat
    BY <1>1
  <2> HIDE DEF n
  <2>. QED
    BY <2>1, FrameShape
<1>3. Data(s.kind, s.content, c) \in Seq(DataCell)
  BY DataTyped
<1>4. /\ new.id = n + 1 /\ new.kind = s.kind /\ new.content = s.content
      /\ Covered(new, n + 1, c) = Covered(s, n + 1, c)
      /\ new = [id |-> n + 1, kind |-> s.kind, content |-> s.content]
  BY DEF Covered, NewFrame
<1> HIDE DEF n, new, e, d
<1>5. Numbered(more)
  <2>1. SUFFICES ASSUME NEW i \in 1 .. Len(more)
                 PROVE  \E t \in Sends : more[i] = [id |-> i, kind |-> t.kind, content |-> t.content]
    BY DEF Numbered
  <2>2. CASE i \in 1 .. n
    BY <1>1, <2>2 DEF Numbered, n
  <2>3. CASE i = n + 1
    BY <1>1, <1>4, <2>3
  <2>4. i \in 1 .. n \/ i = n + 1
    BY <1>1
  <2>. QED
    BY <2>2, <2>3, <2>4, Zenon
<1>6. FromSent(handled, more)
  <2>1. \A i \in 1 .. Len(handled) :
            handled[i].id \in 1 .. n /\ handled[i] = frames[handled[i].id]
    BY DEF FromSent, n
  <2>2. \A i \in 1 .. n : i \in 1 .. Len(more) /\ more[i] = frames[i]
    BY <1>1
  <2>. QED
    BY <2>1, <2>2 DEF FromSent
<1>7. Covered(more[n + 1], n + 1, c)[1] = n + 1
  <2>1. n + 1 \in 1 .. Len(more)
    BY <1>1
  <2>. QED
    BY <1>5, <2>1, CoveredParts
<1>8. ASSUME NEW j \in 1 .. Len(e)
      PROVE  Genuine(e[j], more, c) /\ (e[j].is = "checksum" => j = Len(e) /\ IdOf(e[j]) = n + 1)
  <2>1. CASE j = 1
    BY <1>2, <2>1 DEF Genuine
  <2>2. CASE j = 2
    <3>1. n + 1 \in 1 .. Len(more) /\ more[n + 1].kind = s.kind
      BY <1>1, <1>4
    <3>. QED
      BY <1>2, <2>2, <3>1 DEF Genuine
  <2>3. CASE j \in 3 .. d + 2
    <3>1. j - 2 \in 1 .. d /\ (j - 2) + 2 = j
      BY <1>2, <2>3
    <3>2. e[j] = Data(s.kind, s.content, c)[j - 2]
      BY <1>2, <3>1
    <3>3. e[j] \in DataCell
      BY <1>3, <3>1, <3>2 DEF d
    <3>4. e[j].is \notin {"length", "head", "checksum"}
      BY <3>3 DEF DataCell, PeerCell
    <3>. QED
      BY <3>4 DEF Genuine
  <2>4. CASE j = d + 3
    <3>1. e[j].is = "checksum" /\ e[j].of = Covered(more[n + 1], n + 1, c)
      BY <1>1, <1>2, <1>4, <2>4
    <3>2. n + 1 \in 1 .. Len(more)
      BY <1>1
    <3>3. IdOf(e[j]) = n + 1
      BY <1>7, <3>1 DEF IdOf
    <3>. QED
      BY <1>2, <2>4, <3>1, <3>2, <3>3 DEF Genuine
  <2>. QED
    BY <1>2, <2>1, <2>2, <2>3, <2>4
<1>9. /\ g \in Seq(Cell) /\ Len(f) \in Nat /\ Len(e) \in Nat /\ Len(g) = Len(f) + Len(e)
      /\ \A i \in 1 .. Len(f) : g[i] = f[i]
      /\ \A i \in 1 .. Len(e) : g[Len(f) + i] = e[i]
  <2>1. e \in Seq(Cell)
    BY <1>2
  <2>. QED
    BY <2>1, BothParts
<1> HIDE DEF g
<1>10. ASSUME NEW i \in 1 .. Len(f)
       PROVE  /\ g[i] = f[i] /\ Genuine(g[i], more, c)
              /\ g[i].is = "checksum" => IdOf(g[i]) \in 1 .. n
  <2>1. g[i] = f[i] /\ Genuine(g[i], frames, c)
    BY <1>9 DEF Sound, AllGenuine
  <2>2. g[i].is = "checksum" => IdOf(g[i]) \in 1 .. n
    BY <2>1, GenuineId DEF n
  <2>3. Genuine(g[i], more, c)
    <3>1. g[i].is = "head" => g[i].id \in 1 .. Len(more) /\ g[i].kind = more[g[i].id].kind
      BY <1>1, <2>1 DEF Genuine, n
    <3>2. g[i].is = "checksum" =>
              \E k \in 1 .. Len(more) : g[i].of = Covered(more[k], k, c)
      <4>1. SUFFICES ASSUME g[i].is = "checksum"
                     PROVE  \E k \in 1 .. Len(more) : g[i].of = Covered(more[k], k, c)
        OBVIOUS
      <4>2. PICK k \in 1 .. n : g[i].of = Covered(frames[k], k, c)
        BY <2>1, <4>1 DEF Genuine, n
      <4>3. k \in 1 .. Len(more) /\ more[k] = frames[k]
        BY <1>1
      <4>. QED
        BY <4>2, <4>3
    <3>. QED
      BY <2>1, <3>1, <3>2 DEF Genuine
  <2>. QED
    BY <2>1, <2>2, <2>3
<1>11. ASSUME NEW i \in 1 .. Len(g), ~(i \in 1 .. Len(f))
       PROVE  /\ Genuine(g[i], more, c)
              /\ g[i].is = "checksum" => i = Len(g) /\ IdOf(g[i]) = n + 1
  <2>1. i - Len(f) \in 1 .. Len(e) /\ Len(f) + (i - Len(f)) = i
    BY <1>9, <1>11
  <2>2. g[i] = e[i - Len(f)]
    BY <1>9, <2>1
  <2>3. /\ Genuine(g[i], more, c)
        /\ g[i].is = "checksum" => i - Len(f) = Len(e) /\ IdOf(g[i]) = n + 1
    BY <1>8, <2>1, <2>2
  <2>. QED
    BY <1>9, <2>3
<1>12. AllGenuine(g, more, c)
  BY <1>10, <1>11 DEF AllGenuine
<1>13. Ordered(g)
  <2>1. SUFFICES ASSUME NEW i \in 1 .. Len(g), NEW j \in 1 .. Len(g), i < j,
                        g[i].is = "checksum", g[j].is = "checksum"
                 PROVE  IdOf(g[i]) < IdOf(g[j])
    BY DEF Ordered
  <2>2. i \in 1 .. Len(f)
    BY <1>9, <1>11, <2>1
  <2>3. CASE j \in 1 .. Len(f)
    BY <1>10, <2>1, <2>2, <2>3 DEF Sound, Ordered
  <2>4. CASE ~(j \in 1 .. Len(f))
    <3>1. IdOf(g[j]) = n + 1 /\ IdOf(g[i]) \in 1 .. n
      BY <1>10, <1>11, <2>1, <2>2, <2>4
    <3>. QED
      BY <1>1, <3>1
  <2>. QED
    BY <2>3, <2>4
<1>14. Later(g, handled)
  <2>1. SUFFICES ASSUME NEW i \in 1 .. Len(g), g[i].is = "checksum", NEW j \in 1 .. Len(handled)
                 PROVE  handled[j].id < IdOf(g[i])
    BY DEF Later
  <2>2. CASE i \in 1 .. Len(f)
    BY <1>10, <2>1, <2>2 DEF Sound, Later
  <2>3. CASE ~(i \in 1 .. Len(f))
    <3>1. IdOf(g[i]) = n + 1 /\ handled[j].id \in 1 .. n
      BY <1>11, <2>1, <2>3 DEF FromSent, n
    <3>. QED
      BY <1>1, <3>1
  <2>. QED
    BY <2>2, <2>3
<1>15. Sound(g, handled, more, c)
  BY <1>12, <1>13, <1>14 DEF Sound
<1>. QED
  BY <1>5, <1>6, <1>15 DEF g, e, n

\* A frame whose checksum matches is one that was written.
LEMMA HandledWasWritten ==
    ASSUME NEW frames \in Seq(Frame), Numbered(frames), chainId \in ChainIds,
           NEW r \in Seq(Cell), Len(r) >= 2, AllGenuine(r, frames, chainId),
           ChecksumMatches(r)
    PROVE  LET i == IdOf(r[Len(r)])
           IN  /\ r[Len(r)].is = "checksum" /\ i \in 1 .. Len(frames)
               /\ HeadOf(r[1]) = [is |-> "head", kind |-> frames[i].kind, id |-> i]
               /\ DataOf(r) = Data(frames[i].kind, frames[i].content, chainId)
<1> DEFINE n == Len(r)
           last == r[n]
           i == IdOf(last)
           h == HeadOf(r[1]).id
           data == DataOf(r)
           S == Nat \union Cell
<1>1. n \in Nat /\ n >= 2 /\ 1 \in 1 .. n /\ n \in 1 .. n /\ \A k \in 1 .. n : r[k] \in Cell
  OBVIOUS
<1>2. last = Checksum(<<h>> \o data)
  BY <1>1, Zenon DEF ChecksumMatches, Last
<1>3. last.is = "checksum" /\ last.of = <<h>> \o data
  <2> HIDE DEF last, h, data
  <2>. QED
    BY <1>2 DEF Checksum
<1>4. Genuine(last, frames, chainId) /\ Genuine(r[1], frames, chainId)
  BY <1>1 DEF AllGenuine
<1>5. i \in 1 .. Len(frames) /\ last.of = Covered(frames[i], i, chainId)
  BY <1>3, <1>4, GenuineId
<1> HIDE DEF last, i
<1> DEFINE d == Data(frames[i].kind, frames[i].content, chainId)
<1>6. i \in Nat /\ i # 0 /\ d \in Seq(DataCell) /\ last.of = <<i>> \o d
  <2>1. i \in Nat /\ d \in Seq(DataCell) /\ Covered(frames[i], i, chainId) = <<i>> \o d
    BY <1>5, CoveredParts
  <2>2. i # 0
    BY <1>5
  <2>. QED
    BY <1>5, <2>1, <2>2
<1>7. d \in Seq(S) /\ i \in S
  <2>1. DataCell \subseteq S /\ Nat \subseteq S
    BY DEF Cell
  <2> HIDE DEF S, d
  <2>. QED
    BY <1>6, <2>1, SeqMonotonic
<1>8. h \in Nat
  <2>1. CASE r[1].is = "head"
    <3>1. r[1].id \in Nat
      BY <1>1, <2>1 DEF Cell, DataCell, PeerCell, ChecksumCell
    <3>. QED
      BY <2>1, <3>1 DEF HeadOf
  <2>2. CASE r[1].is # "head"
    BY <2>2 DEF HeadOf
  <2>. QED
    BY <2>1, <2>2
<1>9. data \in Seq(S)
  <2>1. \A k \in 2 .. n - 1 : r[k] \in S
    BY <1>1
  <2>2. 2 \in Int /\ n - 1 \in Int
    BY <1>1
  <2> HIDE DEF S, n
  <2>3. SubSeq(r, 2, n - 1) \in Seq(S)
    BY <2>1, <2>2, SubSeqProperties
  <2>. QED
    BY <2>3 DEF DataOf, n
<1> HIDE DEF n, h, data, d
<1>10. h \in S
  BY <1>8
<1> HIDE DEF S
<1>11. /\ (<<h>> \o data)[1] = h
       /\ SubSeq(<<h>> \o data, 2, Len(<<h>> \o data)) = data
  BY <1>9, <1>10, FirstAndRest
<1>12. /\ (<<i>> \o d)[1] = i
       /\ SubSeq(<<i>> \o d, 2, Len(<<i>> \o d)) = d
  BY <1>7, FirstAndRest
<1>13. <<h>> \o data = <<i>> \o d
  BY <1>3, <1>6
<1>14. h = i
  BY <1>11, <1>12, <1>13, Zenon
<1>15. data = d
  BY <1>11, <1>12, <1>13, Zenon
<1>16. HeadOf(r[1]) = [is |-> "head", kind |-> frames[i].kind, id |-> i]
  <2>1. r[1].is = "head"
    BY <1>6, <1>14 DEF HeadOf, h
  <2>2. HeadOf(r[1]) = r[1] /\ r[1].id = i
    BY <1>14, <2>1 DEF HeadOf, h
  <2>3. r[1].kind = frames[i].kind
    BY <1>4, <2>1, <2>2 DEF Genuine
  <2>4. r[1] = [is |-> r[1].is, kind |-> r[1].kind, id |-> r[1].id]
    BY <1>1, <2>1 DEF Cell, DataCell, PeerCell, ChecksumCell
  <2>. QED
    BY <2>1, <2>2, <2>3, <2>4
<1>. QED
  BY <1>3, <1>5, <1>15, <1>16 DEF i, last, n, d, data

LEMMA InitWInv == Init => WInv
<1>1. SUFFICES ASSUME Init PROVE WInv
  OBVIOUS
<1>1a. /\ chainId \in ChainIds /\ muxer \in {"writes", "bytes"} /\ state = "open"
       /\ sent = <<>> /\ stream = <<>> /\ buffer = <<>> /\ result = <<>> /\ read = <<>>
       /\ bytesLeft = -1
  BY <1>1 DEF Init, NoLength
<1>1b. /\ Len(sent) = 0 /\ Len(read) = 0 /\ Len(result) = 0 /\ Len(buffer) = 0
       /\ sent \in Seq(Frame) /\ read \in Seq(Frame)
       /\ stream \in Seq(Cell) /\ buffer \in Seq(Cell) /\ result \in Seq(Cell)
  BY <1>1a
<1>2. WTypes
  <2>1. MaxFrames >= 0 /\ BufSize >= 0 /\ MaxLength >= 0 /\ MaxLength \in Nat
    BY WireAssumption
  <2>2. bytesLeft \in NoLength .. MaxLength /\ bytesLeft + Len(result) <= MaxLength
    BY <1>1a, <1>1b, <2>1 DEF NoLength
  <2>3. Numbered(sent)
    BY <1>1b DEF Numbered
  <2>. QED
    BY <1>1a, <1>1b, <2>1, <2>2, <2>3 DEF WTypes
<1>3. Len(Flow) = 0
  <2>1. Parts(Flow, result, buffer, stream)
    BY <1>1b, FlowParts DEF Flow
  <2>2. Len(stream) = 0
    BY <1>1a
  <2>. QED
    BY <1>1b, <2>1, <2>2 DEF Parts
<1>4. Sound(Flow, read, sent, chainId)
  BY <1>3 DEF Sound, AllGenuine, Ordered, Later
<1>5. FromSent(read, sent) /\ Increasing(read)
  BY <1>1b DEF FromSent, Increasing
<1>. QED
  BY <1>2, <1>4, <1>5 DEF WInv

LEMMA WriteWInv ==
    ASSUME WInv, Write
    PROVE  WInv' /\ (\E s \in Sends :
                        /\ Flow' = Flow \o FrameOf(s, Len(sent) + 1, chainId)
                        /\ Len(sent') = Len(sent) + 1)
<1>1. WTypes /\ FromSent(read, sent) /\ Increasing(read)
  BY DEF WInv
<1>2. PICK s \in Sends :
        /\ sent' = Append(sent, NewFrame(sent, s))
        /\ stream' = stream \o FrameOf(s, Len(sent) + 1, chainId)
  BY Zenon DEF Write, FrameOf, NewFrame
<1>3. /\ Len(sent) < MaxFrames
      /\ UNCHANGED <<chainId, muxer, buffer, bytesLeft, result, read, state>>
  BY DEF Write
<1> DEFINE new == NewFrame(sent, s)
           e == FrameOf(s, Len(sent) + 1, chainId)
<1>4. Len(sent) \in Nat /\ Len(sent) + 1 \in Nat /\ MaxFrames \in Nat /\ chainId \in ChainIds
  BY <1>1, LenProperties, WireAssumption DEF WTypes
<1>5. new \in Frame
  BY <1>3, <1>4 DEF Frame, NewFrame
<1>6. e \in Seq(Cell)
  BY <1>4, FrameShape
<1> HIDE DEF e, new
<1>7. sent \in Seq(Frame) /\ sent' \in Seq(Frame) /\ Len(sent') = Len(sent) + 1
  <2>1. sent \in Seq(Frame) /\ sent' = Append(sent, new)
    BY <1>1, <1>2 DEF WTypes, new
  <2>. QED
    BY <1>5, <2>1, AppendProperties
<1>8. /\ stream \in Seq(Cell) /\ buffer \in Seq(Cell) /\ result \in Seq(Cell)
      /\ stream' = stream \o e
  BY <1>1, <1>2 DEF WTypes, e
<1>9. stream' \in Seq(Cell)
  BY <1>6, <1>8, ConcatProperties
<1>10. buffer \o stream \in Seq(Cell) /\ Flow \in Seq(Cell)
  <2>1. buffer \o stream \in Seq(Cell)
    BY <1>8, ConcatProperties
  <2> DEFINE after == buffer \o stream
  <2>2. after \in Seq(Cell)
    BY <2>1
  <2> HIDE DEF after
  <2>3. result \o after \in Seq(Cell)
    BY <1>8, <2>2, ConcatProperties
  <2>. QED
    BY <2>1, <2>3 DEF Flow, after
<1>11. Flow' = Flow \o e
  <2>1. Flow' = result \o (buffer \o (stream \o e))
    BY <1>3, <1>8 DEF Flow
  <2>2. (buffer \o stream) \o e = buffer \o (stream \o e)
    <3>1. buffer \in Seq(Cell) /\ stream \in Seq(Cell) /\ e \in Seq(Cell)
      BY <1>6, <1>8
    <3>. QED
      BY <3>1, ConcatAssociative
  <2> DEFINE after == buffer \o stream
  <2>3. (result \o after) \o e = result \o (after \o e)
    <3>1. result \in Seq(Cell) /\ after \in Seq(Cell) /\ e \in Seq(Cell)
      BY <1>6, <1>8, <1>10
    <3> HIDE DEF after
    <3>. QED
      BY <3>1, ConcatAssociative
  <2>. QED
    BY <2>1, <2>2, <2>3, Zenon DEF Flow, after
<1>12. Numbered(sent)
  BY <1>1 DEF WTypes
<1>13. Numbered(sent') /\ FromSent(read, sent')
  <2> DEFINE f == <<>>
  <2>1. f \in Seq(Cell) /\ Sound(f, read, sent, chainId)
    BY DEF Sound, AllGenuine, Ordered, Later
  <2> HIDE DEF f
  <2>2. sent' = Append(sent, NewFrame(sent, s)) /\ NewFrame(sent, s) \in Frame
    BY <1>2, <1>5 DEF new
  <2>. QED
    BY <1>1, <1>4, <1>7, <1>12, <2>1, <2>2, WrittenIsSound
<1>14. ASSUME state = "open" PROVE Sound(Flow \o e, read, sent', chainId)
  <2>1. Sound(Flow, read, sent, chainId)
    BY <1>14 DEF WInv
  <2>2. sent' = Append(sent, NewFrame(sent, s)) /\ NewFrame(sent, s) \in Frame
    BY <1>2, <1>5 DEF new
  <2>3. Sound(Flow \o FrameOf(s, Len(sent) + 1, chainId), read, sent', chainId)
    BY <1>1, <1>4, <1>7, <1>10, <1>12, <2>1, <2>2, WrittenIsSound
  <2>. QED
    BY <2>3 DEF e
<1>15. WTypes'
  <2>1. Len(sent') <= MaxFrames
    BY <1>3, <1>4, <1>7
  <2>. QED
    BY <1>1, <1>3, <1>7, <1>9, <1>13, <2>1 DEF WTypes
<1>16. (state = "open" => Sound(Flow, read, sent, chainId))'
  BY <1>3, <1>11, <1>14
<1>17. WInv'
  BY <1>1, <1>3, <1>13, <1>15, <1>16 DEF WInv
<1>. QED
  BY <1>7, <1>11, <1>17 DEF e

\* A frame that is handled is the written one whose id its checksum covers, and it
\* comes after those that were handled before.
LEMMA HandleWInv ==
    ASSUME WInv, HandleFrame
    PROVE  WInv'
<1>1. /\ WTypes /\ FromSent(read, sent) /\ Increasing(read) /\ Numbered(sent)
      /\ sent \in Seq(Frame) /\ read \in Seq(Frame) /\ chainId \in ChainIds
      /\ stream \in Seq(Cell) /\ buffer \in Seq(Cell) /\ result \in Seq(Cell)
  BY DEF WInv, WTypes
<1>2. /\ state = "open" /\ bytesLeft = 0 /\ buffer' = <<>>
      /\ UNCHANGED <<chainId, muxer, sent, stream>>
  BY DEF HandleFrame
<1>3. Sound(Flow, read, sent, chainId)
  BY <1>2 DEF WInv
<1>e. buffer' \in Seq(Cell) /\ Len(buffer') <= BufSize /\ MaxLength \in Nat
  BY <1>2, WireAssumption
<1>4. CASE Panics \/ ReadError
  <2>1. /\ state' \in {"reset", "panicked"} /\ bytesLeft' = bytesLeft
        /\ result' = result /\ read' = read
    BY <1>4 DEF Panics, ReadError
  <2>2. WTypes'
    BY <1>1, <1>2, <1>e, <2>1 DEF WTypes
  <2>. QED
    BY <1>1, <1>2, <2>1, <2>2 DEF WInv
<1>5. CASE /\ Len(result) >= 2 /\ ChecksumMatches(result)
           /\ LET head == HeadOf(result[1])
              IN  /\ ~(head.kind = "Signature" /\ chainId = 0)
                  /\ read' = Append(read,
                                [id |-> head.id, kind |-> head.kind,
                                 content |-> Handle(head.kind, DataOf(result))])
                  /\ bytesLeft' = NoLength /\ result' = <<>> /\ UNCHANGED state
  <2> DEFINE head == HeadOf(result[1])
             last == result[Len(result)]
             i == IdOf(last)
             n == Len(read)
  <2>1. Parts(Flow, result, buffer, stream)
    BY <1>1, FlowParts DEF Flow
  <2>2. AllGenuine(result, sent, chainId)
    <3>1. \A k \in 1 .. Len(result) : k \in 1 .. Len(Flow) /\ Flow[k] = result[k]
      BY <2>1 DEF Parts
    <3>. QED
      BY <1>3, <3>1 DEF Sound, AllGenuine
  <2>3. /\ last.is = "checksum" /\ i \in 1 .. Len(sent)
        /\ head = [is |-> "head", kind |-> sent[i].kind, id |-> i]
        /\ DataOf(result) = Data(sent[i].kind, sent[i].content, chainId)
    BY <1>1, <1>5, <2>2, HandledWasWritten
  <2>4. PICK s \in Sends : sent[i] = [id |-> i, kind |-> s.kind, content |-> s.content]
    BY <1>1, <2>3 DEF Numbered
  <2>5. head.kind = s.kind /\ head.id = i /\ DataOf(result) = Data(s.kind, s.content, chainId)
    BY <2>3, <2>4
  <2>6. Handle(s.kind, Data(s.kind, s.content, chainId)) = s.content
    <3>1. s.kind = "Signature" => chainId # 0
      BY <1>5, <2>5
    <3>. QED
      BY <1>1, <3>1, DataIsHandled
  <2>7. read' = Append(read, sent[i]) /\ sent[i] \in Frame /\ sent[i].id = i
    <3>1. [id |-> head.id, kind |-> head.kind, content |-> Handle(head.kind, DataOf(result))] = sent[i]
      BY <2>4, <2>5, <2>6
    <3>2. sent[i] \in Frame
      BY <1>1, <2>3
    <3>. QED
      BY <1>5, <2>4, <3>1, <3>2
  <2>8. /\ read' \in Seq(Frame) /\ n \in Nat /\ Len(read') = n + 1 /\ read'[n + 1] = sent[i]
        /\ \A j \in 1 .. n : read'[j] = read[j]
    BY <1>1, <2>7, AppendProperties, LenProperties
  <2>9. /\ bytesLeft' = NoLength /\ result' = <<>> /\ state' = state
    BY <1>5
  <2>10. Flow' = stream
    <3>1. Flow' = <<>> \o (<<>> \o stream)
      BY <1>2, <2>9 DEF Flow
    <3>2. <<>> \o stream = stream
      BY <1>1, ConcatEmptySeq
    <3>. QED
      BY <3>1, <3>2, Zenon
  <2>11. Sound(stream, read, sent, chainId)
    <3>1. Len(Flow) \in Nat /\ Len(stream) \in Nat /\ Rest(stream, Flow, Len(result) + Len(buffer))
      BY <2>1 DEF Parts
    <3>. QED
      BY <1>3, <3>1, RestIsSound
  <2>12. /\ Len(result) \in 1 .. Len(Flow) /\ Flow[Len(result)] = last
         /\ \A k \in 1 .. Len(stream) :
                /\ Len(result) + Len(buffer) + k \in 1 .. Len(Flow)
                /\ Len(result) < Len(result) + Len(buffer) + k
                /\ Flow[Len(result) + Len(buffer) + k] = stream[k]
    BY <1>5, <2>1 DEF Parts
  <2> HIDE DEF head, last, i, n
  <2>13. Later(stream, read')
    <3>1. SUFFICES ASSUME NEW k \in 1 .. Len(stream), stream[k].is = "checksum",
                          NEW j \in 1 .. Len(read')
                   PROVE  read'[j].id < IdOf(stream[k])
      BY DEF Later
    <3>2. CASE j \in 1 .. n
      BY <2>8, <2>11, <3>1, <3>2 DEF Sound, Later, n
    <3>3. CASE j = n + 1
      <4>1. IdOf(last) < IdOf(stream[k])
        BY <1>3, <2>3, <2>12, <3>1 DEF Sound, Ordered
      <4>. QED
        BY <2>7, <2>8, <3>3, <4>1 DEF i
    <3>4. j \in 1 .. n \/ j = n + 1
      BY <2>8
    <3>. QED
      BY <3>2, <3>3, <3>4
  <2>14. Increasing(read')
    <3>1. SUFFICES ASSUME NEW j \in 1 .. Len(read'), NEW k \in 1 .. Len(read'), j < k
                   PROVE  read'[j].id < read'[k].id
      BY DEF Increasing
    <3>2. j \in 1 .. n /\ (k \in 1 .. n \/ k = n + 1)
      BY <2>8, <3>1
    <3>3. CASE k \in 1 .. n
      BY <1>1, <2>8, <3>1, <3>2, <3>3 DEF Increasing, n
    <3>4. CASE k = n + 1
      <4>1. read[j].id < IdOf(last)
        BY <1>3, <2>3, <2>12, <3>2 DEF Sound, Later, n
      <4>. QED
        BY <2>7, <2>8, <3>2, <3>4, <4>1 DEF i
    <3>. QED
      BY <3>2, <3>3, <3>4
  <2>15. FromSent(read', sent)
    <3>1. SUFFICES ASSUME NEW j \in 1 .. Len(read')
                   PROVE  read'[j].id \in 1 .. Len(sent) /\ read'[j] = sent[read'[j].id]
      BY DEF FromSent
    <3>2. CASE j \in 1 .. n
      BY <1>1, <2>8, <3>2 DEF FromSent, n
    <3>3. CASE j = n + 1
      BY <2>3, <2>7, <2>8, <3>3
    <3>4. j \in 1 .. n \/ j = n + 1
      BY <2>8
    <3>. QED
      BY <3>2, <3>3, <3>4
  <2>16. WTypes'
    <3>1. Len(result') = 0 /\ result' \in Seq(Cell) /\ bytesLeft' \in NoLength .. MaxLength
          /\ bytesLeft' + Len(result') <= MaxLength
      BY <1>e, <2>9 DEF NoLength
    <3>. QED
      BY <1>1, <1>2, <1>e, <2>8, <2>9, <3>1 DEF WTypes
  <2>17. Sound(stream, read', sent, chainId)
    BY <2>11, <2>13 DEF Sound
  <2>18. (state = "open" => Sound(Flow, read, sent, chainId))'
    BY <1>2, <2>10, <2>17
  <2>19. FromSent(read', sent') /\ sent' = sent
    BY <1>2, <2>15
  <2>. QED
    BY <2>14, <2>16, <2>18, <2>19 DEF WInv
<1>6. \/ Panics \/ ReadError
      \/ /\ Len(result) >= 2 /\ ChecksumMatches(result)
         /\ LET head == HeadOf(result[1])
            IN  /\ ~(head.kind = "Signature" /\ chainId = 0)
                /\ read' = Append(read,
                              [id |-> head.id, kind |-> head.kind,
                               content |-> Handle(head.kind, DataOf(result))])
                /\ bytesLeft' = NoLength /\ result' = <<>> /\ UNCHANGED state
  BY Zenon DEF HandleFrame
<1>. QED
  BY <1>4, <1>5, <1>6

LEMMA WInvStep == WInv /\ [Next]_vars => WInv'
<1>1. SUFFICES ASSUME WInv, [Next]_vars PROVE WInv'
  OBVIOUS
<1>2. WTypes /\ FromSent(read, sent) /\ Increasing(read)
  BY <1>1 DEF WInv
<1>3. CASE Write
  BY <1>1, <1>3, WriteWInv
<1>4. CASE Fill \/ ReadBytes
  <2>1. WTypes' /\ Flow' = Flow
    BY <1>2, <1>4, FillMoves, ReadBytesMoves
  <2>2. UNCHANGED <<chainId, sent, read, state>>
    BY <1>4 DEF Fill, ReadBytes
  <2>. QED
    BY <1>1, <1>2, <2>1, <2>2 DEF WInv
<1>5. CASE ReadLength
  <2>1. state = "open" /\ Sound(Flow, read, sent, chainId)
    BY <1>1, <1>5 DEF WInv, ReadLength
  <2>2. Parts(Flow, result, buffer, stream) /\ buffer # <<>> /\ buffer \in Seq(Cell)
    <3>1. stream \in Seq(Cell) /\ buffer \in Seq(Cell) /\ result \in Seq(Cell) /\ buffer # <<>>
      BY <1>2, <1>5 DEF WTypes, ReadLength
    <3>. QED
      BY <3>1, FlowParts DEF Flow
  <2>3. 1 \in 1 .. Len(Flow)
    <3>1. Len(buffer) # 0
      BY <2>2, EmptySeq
    <3>. QED
      BY <2>2, <3>1 DEF Parts
  <2>4. Flow[1].is = "length" => Flow[1].n <= MaxLength
    BY <2>1, <2>3 DEF Sound, AllGenuine, Genuine
  <2>5. /\ WTypes' /\ UNCHANGED <<chainId, sent, read>>
        /\ state' = "open" => Rest(Flow', Flow, 1)
    BY <1>2, <1>5, <2>4, ReadLengthMoves
  <2>6. ASSUME state' = "open" PROVE Sound(Flow', read, sent, chainId)
    <3>1. stream' \in Seq(Cell) /\ buffer' \in Seq(Cell) /\ result' \in Seq(Cell)
      BY <2>5 DEF WTypes
    <3>2. Parts(Flow', result', buffer', stream')
      BY <3>1, FlowParts DEF Flow
    <3>3. Len(Flow) \in Nat /\ Len(Flow') \in Nat
      BY <2>2, <3>2 DEF Parts
    <3>. QED
      BY <2>1, <2>5, <2>6, <3>3, RestIsSound
  <2>. QED
    BY <1>2, <2>5, <2>6 DEF WInv
<1>6. CASE HandleFrame
  BY <1>1, <1>6, HandleWInv
<1>7. CASE UNCHANGED vars
  BY <1>1, <1>7 DEF vars, WInv, WTypes, Flow
<1>. QED
  BY <1>1, <1>3, <1>4, <1>5, <1>6, <1>7 DEF Next

LEMMA WInvHolds == Spec => []WInv
  BY InitWInv, WInvStep, PTL DEF Spec

LEMMA ReadPositions ==
    ASSUME WTypes
    PROVE  DOMAIN read = 1 .. Len(read) /\ DOMAIN sent = 1 .. Len(sent)
  BY DEF WTypes

\* Every variable has its type; no frame is longer than what is read as its length.
THEOREM FrameTypes == Spec => []TypeOK
<1>1. WInv => TypeOK
  <2>1. SUFFICES ASSUME WInv PROVE TypeOK
    OBVIOUS
  <2>2. WTypes
    BY <2>1 DEF WInv
  <2>3. \A i \in DOMAIN sent : sent[i] \in Frame
    BY <2>2 DEF WTypes
  <2>. QED
    BY <2>2, <2>3 DEF WTypes, TypeOK
<1>. QED
  BY WInvHolds, <1>1, PTL

\* Frames are handled in the order in which they were written, none twice and none
\* that was not written, also where the reader has lost their boundaries
\* (communication.go:66, 88-119).
THEOREM HandledInOrder == Spec => []ReadInOrder
<1>1. WInv => ReadInOrder
  <2>1. SUFFICES ASSUME WInv PROVE ReadInOrder
    OBVIOUS
  <2>2. DOMAIN read = 1 .. Len(read) /\ DOMAIN sent = 1 .. Len(sent)
    BY <2>1, ReadPositions DEF WInv
  <2>3. \A i \in DOMAIN read : read[i].id \in DOMAIN sent
    BY <2>1, <2>2 DEF WInv, FromSent
  <2>4. \A i, j \in DOMAIN read : i < j => read[i].id < read[j].id
    BY <2>1, <2>2 DEF WInv, Increasing
  <2>. QED
    BY <2>3, <2>4 DEF ReadInOrder
<1>. QED
  BY WInvHolds, <1>1, PTL

\* What a handler gets is what was put into the frame: the message, the recovery id
\* and the address of a signature, with every chain id but zero, or the list of peers,
\* with and without addresses (crypto.go:23-63, metadata.go:27-109,
\* connection.go:415-423, 488-498).
THEOREM ContentSurvives == Spec => []ContentKept
<1>1. WInv => ContentKept
  <2>1. SUFFICES ASSUME WInv, NEW i \in DOMAIN read PROVE \E f \in Range(sent) : f = read[i]
    BY DEF ContentKept
  <2>2. DOMAIN read = 1 .. Len(read) /\ DOMAIN sent = 1 .. Len(sent)
    BY <2>1, ReadPositions DEF WInv
  <2>3. read[i].id \in DOMAIN sent /\ read[i] = sent[read[i].id]
    BY <2>1, <2>2 DEF WInv, FromSent
  <2>4. read[i] \in Range(sent)
    BY <2>3, Zenon DEF Range
  <2>. QED
    BY <2>4
<1>. QED
  BY WInvHolds, <1>1, PTL

-----------------------------------------------------------------------------
(* Where a Read returns bytes of one write only, the reader never loses    *)
(* the boundaries of the frames.                                           *)

FrameAt(frames, i, chain) == FrameOf(frames[i], i, chain)

\* Frame e lies in the flow behind cell number `from`, as far as it is still there.
Lies(f, from, to, e) ==
    to = from + Len(e) /\ \A j \in 1 .. Len(e) : from + j >= 1 => f[from + j] = e[j]

\* The frames after the first k lie in the flow one behind the other and end with it;
\* frame i ends at b[i].
Aligned(f, b, k, frames, chain) ==
    /\ b \in [Nat -> Int]
    /\ b[Len(frames)] = Len(f)
    /\ \A i \in k .. Len(frames) : b[i] <= Len(f)
    /\ \A i \in k + 1 .. Len(frames) : Lies(f, b[i - 1], b[i], FrameAt(frames, i, chain))

\* The next frame begins where the flow begins; once its length is known, one cell
\* before.  What is buffered belongs to it.
AState ==
    LET k == Len(read)
        n == Len(sent)
        size == Len(FrameAt(sent, k + 1, chainId))
    IN  /\ state = "open"
        /\ \A i \in 1 .. k : read[i].id = i
        /\ k <= n
        /\ \E b : /\ Aligned(Flow, b, k, sent, chainId)
                  /\ b[k] = (IF bytesLeft = NoLength THEN 0 ELSE -1)
        /\ bytesLeft = NoLength /\ k < n => Len(buffer) <= size
        /\ bytesLeft # NoLength =>
              k < n /\ bytesLeft + Len(result) + 1 = size /\ Len(buffer) <= bytesLeft

AInv == muxer = "writes" /\ chainId # 0 => AState

LEMMA FrameAtShape ==
    ASSUME NEW frames \in Seq(Frame), Numbered(frames), NEW i \in 1 .. Len(frames),
           NEW c \in ChainIds
    PROVE  LET f == FrameAt(frames, i, c)
               data == Data(frames[i].kind, frames[i].content, c)
               n == Len(data)
           IN  /\ f \in Seq(Cell) /\ n \in Nat /\ Len(f) = n + 3
               /\ f[1] = [is |-> "length", n |-> n + 2]
               /\ f[2] = [is |-> "head", kind |-> frames[i].kind, id |-> i]
               /\ \A j \in 1 .. n : f[j + 2] = data[j]
               /\ f[n + 3] = [is |-> "checksum", of |-> Covered(frames[i], i, c)]
<1>1. PICK s \in Sends : frames[i] = [id |-> i, kind |-> s.kind, content |-> s.content]
  BY DEF Numbered
<1>2. frames[i].kind = s.kind /\ frames[i].content = s.content
  BY <1>1
<1>3. /\ FrameAt(frames, i, c) = FrameOf(s, i, c)
      /\ Covered(frames[i], i, c) = Covered(s, i, c)
      /\ Data(frames[i].kind, frames[i].content, c) = Data(s.kind, s.content, c)
  BY <1>2, Zenon DEF FrameAt, FrameOf, Covered
<1>4. i \in Nat
  OBVIOUS
<1>. QED
  BY <1>2, <1>3, <1>4, FrameShape

\* The same, as one fact.
Shaped(frames, i, c) ==
    LET f == FrameAt(frames, i, c)
        data == Data(frames[i].kind, frames[i].content, c)
        n == Len(data)
    IN  /\ f \in Seq(Cell) /\ n \in Nat /\ Len(f) = n + 3
        /\ f[1] = [is |-> "length", n |-> n + 2]
        /\ f[2] = [is |-> "head", kind |-> frames[i].kind, id |-> i]
        /\ \A j \in 1 .. n : f[j + 2] = data[j]
        /\ f[n + 3] = [is |-> "checksum", of |-> Covered(frames[i], i, c)]

LEMMA ShapeAt ==
    ASSUME NEW frames \in Seq(Frame), Numbered(frames), NEW i \in 1 .. Len(frames),
           NEW c \in ChainIds
    PROVE  Shaped(frames, i, c)
BY FrameAtShape DEF Shaped

LEMMA LiesInRest ==
    ASSUME NEW f, NEW g, NEW m \in Nat, Len(f) \in Nat, Len(g) \in Nat, Rest(g, f, m),
           NEW from \in Int, NEW to \in Int, NEW e \in Seq(Cell),
           to <= Len(f), Lies(f, from, to, e)
    PROVE  Lies(g, from - m, to - m, e)
<1>1. Len(e) \in Nat /\ to = from + Len(e)
  BY LenProperties DEF Lies
<1>2. Len(f) = m + Len(g) /\ \A i \in 1 .. Len(g) : g[i] = f[m + i]
  BY DEF Rest
<1>3. ASSUME NEW j \in 1 .. Len(e), (from - m) + j >= 1 PROVE g[(from - m) + j] = e[j]
  <2>1. (from - m) + j \in 1 .. Len(g) /\ m + ((from - m) + j) = from + j /\ from + j >= 1
    BY <1>1, <1>2, <1>3
  <2>2. f[from + j] = e[j]
    BY <2>1 DEF Lies
  <2>. QED
    BY <1>2, <2>1, <2>2
<1>4. to - m = (from - m) + Len(e)
  BY <1>1
<1>. QED
  BY <1>3, <1>4 DEF Lies

\* The boundaries move with the flow.
CanRest(f, g, m, b, k, h, frames, c) ==
    /\ m \in Nat /\ Len(f) \in Nat /\ Len(g) \in Nat /\ Rest(g, f, m)
    /\ k \in Nat /\ h \in Nat /\ k <= h
    /\ frames \in Seq(Frame) /\ Numbered(frames) /\ c \in ChainIds
    /\ h <= Len(frames) /\ Aligned(f, b, k, frames, c)

RestAligned(g, m, b, h, frames, c) == \E d : Aligned(g, d, h, frames, c) /\ d[h] = b[h] - m

LEMMA AlignedRest ==
    ASSUME NEW f, NEW g, NEW m, NEW b, NEW k, NEW h, NEW frames, NEW c,
           CanRest(f, g, m, b, k, h, frames, c)
    PROVE  RestAligned(g, m, b, h, frames, c)
<1> /\ m \in Nat /\ Len(f) \in Nat /\ Len(g) \in Nat /\ Rest(g, f, m)
    /\ k \in Nat /\ h \in Nat /\ k <= h
    /\ frames \in Seq(Frame) /\ Numbered(frames) /\ c \in ChainIds
    /\ h <= Len(frames) /\ Aligned(f, b, k, frames, c)
  BY DEF CanRest
<1> SUFFICES \E d : Aligned(g, d, h, frames, c) /\ d[h] = b[h] - m
  BY DEF RestAligned
<1> DEFINE n == Len(frames)
           d == [i \in Nat |-> b[i] - m]
<1>1. n \in Nat /\ b \in [Nat -> Int]
  BY LenProperties DEF Aligned
<1>2. Len(f) = m + Len(g) /\ \A i \in 1 .. Len(g) : g[i] = f[m + i]
  BY DEF Rest
<1>3. d \in [Nat -> Int] /\ \A i \in Nat : d[i] = b[i] - m /\ b[i] \in Int
  <2>1. m \in Int /\ b \in [Nat -> Int]
    BY <1>1
  <2>2. ASSUME NEW i \in Nat PROVE b[i] \in Int /\ b[i] - m \in Int /\ d[i] = b[i] - m
    BY <2>1
  <2>. QED
    BY <2>2
<1> HIDE DEF d, n
<1>4. d[n] = Len(g)
  <2>1. b[n] = Len(f)
    BY DEF Aligned, n
  <2>2. d[n] = b[n] - m
    BY <1>1, <1>3
  <2>3. Len(f) = m + Len(g)
    BY <1>2
  <2>. QED
    BY <2>1, <2>2, <2>3
<1>5. \A i \in h .. n : d[i] <= Len(g)
  <2>1. SUFFICES ASSUME NEW i \in h .. n PROVE d[i] <= Len(g)
    OBVIOUS
  <2>2. i \in k .. n /\ i \in Nat
    BY <1>1
  <2>3. b[i] <= Len(f) /\ b[i] \in Int
    BY <1>3, <2>2 DEF Aligned, n
  <2>4. d[i] = b[i] - m
    BY <1>3, <2>2
  <2>5. Len(f) = m + Len(g)
    BY <1>2
  <2>. QED
    BY <2>3, <2>4, <2>5
<1>6. ASSUME NEW i \in h + 1 .. n PROVE Lies(g, d[i - 1], d[i], FrameAt(frames, i, c))
  <2> DEFINE e == FrameAt(frames, i, c)
  <2>1. i \in k + 1 .. n /\ i \in k .. n /\ i \in Nat /\ i - 1 \in Nat /\ i \in 1 .. n
    BY <1>1
  <2>2. Lies(f, b[i - 1], b[i], e)
    BY <2>1 DEF Aligned, n
  <2>3. e \in Seq(Cell)
    BY <2>1, FrameAtShape DEF n
  <2> HIDE DEF e
  <2>4. b[i] <= Len(f)
    BY <2>1 DEF Aligned, n
  <2>5. b[i - 1] \in Int /\ b[i] \in Int /\ d[i - 1] = b[i - 1] - m /\ d[i] = b[i] - m
    BY <1>3, <2>1
  <2>6. Lies(g, b[i - 1] - m, b[i] - m, e)
    BY <2>2, <2>3, <2>4, <2>5, LiesInRest
  <2>7. Lies(g, d[i - 1], d[i], e)
    BY <2>5, <2>6
  <2>. QED
    BY <2>7 DEF e
<1>7. Aligned(g, d, h, frames, c)
  BY <1>3, <1>4, <1>5, <1>6 DEF Aligned, n
<1>. QED
  BY <1>3, <1>7

\* A frame that is written comes at the end.
CanWrite(f, b, k, c, frames, s, more) ==
    /\ f \in Seq(Cell) /\ k \in Nat /\ c \in ChainIds
    /\ frames \in Seq(Frame) /\ Numbered(frames) /\ k <= Len(frames)
    /\ s \in Sends /\ NewFrame(frames, s) \in Frame /\ more \in Seq(Frame)
    /\ more = Append(frames, NewFrame(frames, s)) /\ Aligned(f, b, k, frames, c)

WrittenAligned(f, b, k, c, frames, s, more) ==
    \E d : Aligned(f \o FrameOf(s, Len(frames) + 1, c), d, k, more, c) /\ d[k] = b[k]

LEMMA AlignedWritten ==
    ASSUME NEW f, NEW b, NEW k, NEW c, NEW frames, NEW s, NEW more,
           CanWrite(f, b, k, c, frames, s, more)
    PROVE  WrittenAligned(f, b, k, c, frames, s, more)
<1> /\ f \in Seq(Cell) /\ k \in Nat /\ c \in ChainIds
    /\ frames \in Seq(Frame) /\ Numbered(frames) /\ k <= Len(frames)
    /\ s \in Sends /\ NewFrame(frames, s) \in Frame /\ more \in Seq(Frame)
    /\ more = Append(frames, NewFrame(frames, s)) /\ Aligned(f, b, k, frames, c)
  BY DEF CanWrite
<1> SUFFICES \E d : Aligned(f \o FrameOf(s, Len(frames) + 1, c), d, k, more, c) /\ d[k] = b[k]
  BY DEF WrittenAligned
<1> DEFINE n == Len(frames)
           e == FrameOf(s, n + 1, c)
           g == f \o e
           d == [b EXCEPT ![n + 1] = Len(g)]
<1>1. /\ n \in Nat /\ n + 1 \in Nat /\ Len(more) = n + 1 /\ more[n + 1] = NewFrame(frames, s)
      /\ \A i \in 1 .. n : more[i] = frames[i]
  BY AppendProperties, LenProperties
<1>2. e \in Seq(Cell)
  BY <1>1, FrameShape
<1>3. FrameAt(more, n + 1, c) = e
  <2>1. more[n + 1].kind = s.kind /\ more[n + 1].content = s.content
    BY <1>1 DEF NewFrame
  <2>. QED
    BY <2>1, Zenon DEF FrameAt, FrameOf
<1> HIDE DEF e, n
<1>4. /\ g \in Seq(Cell) /\ Len(f) \in Nat /\ Len(e) \in Nat /\ Len(g) = Len(f) + Len(e)
      /\ \A i \in 1 .. Len(f) : g[i] = f[i]
      /\ \A i \in 1 .. Len(e) : g[Len(f) + i] = e[i]
  BY <1>2, BothParts
<1> HIDE DEF g
<1>5. /\ b \in [Nat -> Int] /\ b[n] = Len(f) /\ \A i \in k .. n : b[i] <= Len(f)
      /\ \A i \in k + 1 .. n : Lies(f, b[i - 1], b[i], FrameAt(frames, i, c))
  BY DEF Aligned, n
<1>6. /\ d \in [Nat -> Int] /\ d[n + 1] = Len(g)
      /\ \A i \in Nat : i # n + 1 => d[i] = b[i]
  BY <1>1, <1>4, <1>5
<1> HIDE DEF d
<1>7. \A i \in k .. n + 1 : d[i] <= Len(g)
  <2>1. SUFFICES ASSUME NEW i \in k .. n + 1 PROVE d[i] <= Len(g)
    OBVIOUS
  <2>2. CASE i = n + 1
    BY <1>4, <1>6, <2>2
  <2>3. CASE i # n + 1
    <3>1. i \in Nat /\ i \in k .. n
      BY <1>1, <2>3
    <3>2. d[i] = b[i] /\ b[i] <= Len(f) /\ b[i] \in Int
      BY <1>5, <1>6, <2>3, <3>1
    <3>. QED
      BY <1>4, <3>2
  <2>. QED
    BY <2>2, <2>3
<1>8. ASSUME NEW i \in k + 1 .. n + 1 PROVE Lies(g, d[i - 1], d[i], FrameAt(more, i, c))
  <2>1. CASE i = n + 1
    <3>1. d[i - 1] = Len(f) /\ d[i] = Len(f) + Len(e)
      <4>1. i - 1 = n /\ n # n + 1 /\ n \in Nat
        BY <1>1, <2>1
      <4>. QED
        BY <1>4, <1>5, <1>6, <2>1, <4>1
    <3>2. Lies(g, Len(f), Len(f) + Len(e), e)
      BY <1>4 DEF Lies
    <3>. QED
      BY <1>3, <2>1, <3>1, <3>2
  <2>2. CASE i # n + 1
    <3>1. /\ i \in k + 1 .. n /\ i \in 1 .. n /\ i \in Nat /\ i - 1 \in Nat /\ i \in k .. n
          /\ i - 1 # n + 1
      BY <1>1, <2>2
    <3> DEFINE o == FrameAt(frames, i, c)
    <3>2. FrameAt(more, i, c) = o
      <4>1. more[i] = frames[i]
        BY <1>1, <3>1
      <4>. QED
        BY <4>1, Zenon DEF FrameAt
    <3>3. Len(o) \in Nat
      <4>1. o \in Seq(Cell)
        BY <3>1, FrameAtShape DEF n
      <4>. QED
        BY <4>1, LenProperties
    <3>4. Lies(f, b[i - 1], b[i], o)
      BY <1>5, <3>1
    <3> HIDE DEF o
    <3>5. d[i] = b[i] /\ d[i - 1] = b[i - 1] /\ b[i] <= Len(f) /\ b[i] \in Int /\ b[i - 1] \in Int
      BY <1>5, <1>6, <2>2, <3>1
    <3>6. ASSUME NEW j \in 1 .. Len(o), b[i - 1] + j >= 1 PROVE g[b[i - 1] + j] = o[j]
      <4>1. b[i - 1] + j \in 1 .. Len(f)
        BY <1>4, <3>3, <3>4, <3>5, <3>6 DEF Lies
      <4>2. f[b[i - 1] + j] = o[j]
        BY <3>4, <3>6 DEF Lies
      <4>. QED
        BY <1>4, <4>1, <4>2
    <3>7. Lies(g, b[i - 1], b[i], o)
      BY <3>4, <3>6 DEF Lies
    <3>. QED
      BY <3>2, <3>5, <3>7
  <2>. QED
    BY <2>1, <2>2
<1>9. Aligned(g, d, k, more, c)
  BY <1>1, <1>6, <1>7, <1>8 DEF Aligned
<1>10. d[k] = b[k]
  <2>1. k # n + 1
    BY <1>1 DEF n
  <2>. QED
    BY <1>6, <2>1
<1>. QED
  BY <1>9, <1>10 DEF g, e, n

\* The next frame, and the length of the one behind it.
Lead(f, from, to, e) ==
    /\ e \in Seq(Cell) /\ Len(e) \in Nat /\ Len(e) >= 3
    /\ from \in Int /\ to = from + Len(e) /\ to <= Len(f)
    /\ \A j \in 1 .. Len(e) : from + j >= 1 => f[from + j] = e[j]
    /\ to >= 0 /\ Len(f) > to => f[to + 1].is = "length"

LEMMA NextFrame ==
    ASSUME NEW f, Len(f) \in Nat, NEW b, NEW k \in Nat, NEW c \in ChainIds,
           NEW frames \in Seq(Frame), Numbered(frames), k < Len(frames),
           Aligned(f, b, k, frames, c)
    PROVE  Lead(f, b[k], b[k + 1], FrameAt(frames, k + 1, c))
<1> DEFINE n == Len(frames)
           e == FrameAt(frames, k + 1, c)
           from == b[k]
           to == b[k + 1]
<1>1. n \in Nat /\ k + 1 \in 1 .. n /\ k + 1 \in k + 1 .. n /\ k + 1 \in k .. n /\ (k + 1) - 1 = k
  BY LenProperties
<1>2. from \in Int /\ to \in Int /\ to <= Len(f)
  BY <1>1 DEF Aligned
<1>3. Lies(f, from, to, e)
  <2>1. Lies(f, b[(k + 1) - 1], b[k + 1], FrameAt(frames, k + 1, c))
    BY <1>1 DEF Aligned
  <2>. QED
    BY <1>1, <2>1
<1>4. e \in Seq(Cell) /\ Len(e) \in Nat /\ Len(e) >= 3
  <2> DEFINE d == Len(Data(frames[k + 1].kind, frames[k + 1].content, c))
  <2>1. e \in Seq(Cell) /\ d \in Nat /\ Len(e) = d + 3
    BY <1>1, FrameAtShape
  <2> HIDE DEF d, e
  <2>. QED
    BY <2>1
<1>5. ASSUME to >= 0, Len(f) > to PROVE f[to + 1].is = "length"
  <2>1. k + 1 # n
    <3>1. k + 1 = n => to = Len(f)
      BY DEF Aligned
    <3> HIDE DEF to
    <3>. QED
      BY <1>2, <1>5, <3>1
  <2>2. /\ k + 2 \in k + 1 .. n /\ (k + 2) - 1 = k + 1 /\ k + 2 \in 1 .. n
    BY <1>1, <2>1
  <2> DEFINE g == FrameAt(frames, k + 2, c)
  <2>3. Lies(f, b[(k + 2) - 1], b[k + 2], g)
    BY <2>2 DEF Aligned
  <2>4. Lies(f, to, b[k + 2], g)
    BY <2>2, <2>3
  <2> DEFINE d == Len(Data(frames[k + 2].kind, frames[k + 2].content, c))
  <2>5. d \in Nat /\ Len(g) = d + 3 /\ g[1].is = "length"
    <3>1. d \in Nat /\ Len(g) = d + 3 /\ g[1] = [is |-> "length", n |-> d + 2]
      <4>1. Shaped(frames, k + 2, c)
        BY <2>2, ShapeAt
      <4>. QED
        BY <4>1, Zenon DEF Shaped
    <3> HIDE DEF d, g
    <3>. QED
      BY <3>1
  <2> HIDE DEF d, g, to
  <2>6. 1 \in 1 .. Len(g) /\ to + 1 >= 1
    BY <1>2, <1>5, <2>5
  <2>7. f[to + 1] = g[1]
    BY <2>4, <2>6 DEF Lies
  <2>. QED
    BY <2>5, <2>7
<1> HIDE DEF e, from, to
<1>6. /\ to = from + Len(e)
      /\ \A j \in 1 .. Len(e) : from + j >= 1 => f[from + j] = e[j]
  BY <1>3 DEF Lies
<1>7. to >= 0 /\ Len(f) > to => f[to + 1].is = "length"
  BY <1>5
<1>. QED
  BY <1>2, <1>4, <1>6, <1>7 DEF e, from, to, Lead

\* A Read returns nothing of the frame after the next one.
LEMMA ReadWithinFrame ==
    ASSUME WTypes, muxer = "writes", AState, NEW n \in Nat, n >= 1, CanReturn(n), buffer = <<>>,
           bytesLeft # 0
    PROVE  /\ Len(read) < Len(sent)
           /\ bytesLeft = NoLength => n <= Len(FrameAt(sent, Len(read) + 1, chainId))
           /\ bytesLeft # NoLength => n <= bytesLeft
<1> DEFINE k == Len(read)
           e == FrameAt(sent, k + 1, chainId)
           size == Len(e)
<1>1. /\ k \in Nat /\ Len(sent) \in Nat /\ sent \in Seq(Frame) /\ Numbered(sent) /\ chainId \in ChainIds
      /\ stream \in Seq(Cell) /\ buffer \in Seq(Cell) /\ result \in Seq(Cell)
      /\ bytesLeft \in Int /\ bytesLeft >= -1 /\ (bytesLeft = NoLength => result = <<>>)
  BY WireAssumption, LenProperties DEF WTypes, NoLength
<1>2. Parts(Flow, result, buffer, stream)
  BY <1>1, FlowParts DEF Flow
<1>3. PICK b : Aligned(Flow, b, k, sent, chainId) /\ b[k] = (IF bytesLeft = NoLength THEN 0 ELSE -1)
  BY DEF AState
<1>4. /\ k <= Len(sent)
      /\ bytesLeft # NoLength => k < Len(sent) /\ bytesLeft + Len(result) + 1 = size
  BY DEF AState
<1>5. /\ Len(Flow) \in Nat /\ Len(result) \in Nat /\ Len(buffer) = 0 /\ Len(stream) \in Nat
      /\ Len(Flow) = Len(result) + Len(stream)
      /\ \A i \in 1 .. Len(stream) : Flow[Len(result) + i] = stream[i]
  <2>1. Len(buffer) = 0
    BY EmptySeq
  <2>2. /\ Len(Flow) = Len(result) + 0 + Len(stream) /\ Len(Flow) \in Nat
        /\ Len(result) \in Nat /\ Len(stream) \in Nat
        /\ \A i \in 1 .. Len(stream) : Flow[Len(result) + 0 + i] = stream[i]
    BY <1>2, <2>1 DEF Parts
  <2>3. Len(result) + 0 = Len(result)
    BY <2>2
  <2>. QED
    BY <2>1, <2>2, <2>3
<1>6. n <= Len(stream) /\ \A i \in 2 .. n : stream[i].is # "length"
  BY DEF CanReturn
<1>7. k < Len(sent)
  <2>1. CASE bytesLeft # NoLength
    BY <1>4, <2>1
  <2>2. CASE bytesLeft = NoLength
    <3>1. b[Len(sent)] = Len(Flow)
      BY <1>3 DEF Aligned
    <3>2. Len(Flow) > 0
      BY <1>5, <1>6
    <3>3. k # Len(sent)
      BY <1>3, <2>2, <3>1, <3>2
    <3>. QED
      BY <1>1, <1>4, <3>3
  <2>. QED
    BY <2>1, <2>2
<1> HIDE DEF k
<1>8. /\ size \in Nat /\ b[k] \in Int /\ b[k + 1] = b[k] + size /\ size >= 3
      /\ b[k + 1] >= 0 /\ Len(Flow) > b[k + 1] => Flow[b[k + 1] + 1].is = "length"
  <2>1. /\ Len(Flow) \in Nat /\ k \in Nat /\ chainId \in ChainIds /\ sent \in Seq(Frame)
        /\ Numbered(sent) /\ k < Len(sent) /\ Aligned(Flow, b, k, sent, chainId)
    BY <1>1, <1>3, <1>5, <1>7
  <2> DEFINE f == Flow
  <2> HIDE DEF f, e
  <2>2. Lead(f, b[k], b[k + 1], e)
    BY <2>1, NextFrame DEF f, e
  <2>. QED
    BY <2>2 DEF Lead, f
<1> HIDE DEF e, size
<1>9. ASSUME bytesLeft = NoLength, n > size PROVE FALSE
  <2>1. Len(result) = 0 /\ b[k + 1] = size
    BY <1>1, <1>3, <1>8, <1>9
  <2>2. size + 1 \in 2 .. n /\ size + 1 \in 1 .. Len(stream) /\ Len(Flow) > size /\ 0 + (size + 1) = size + 1
    BY <1>5, <1>6, <1>8, <1>9, <2>1
  <2>3. Flow[size + 1].is = "length"
    BY <1>8, <2>1, <2>2
  <2>4. Flow[size + 1] = stream[size + 1]
    BY <1>5, <2>1, <2>2
  <2>. QED
    BY <1>6, <2>2, <2>3, <2>4
<1>10. ASSUME bytesLeft # NoLength, n > bytesLeft PROVE FALSE
  <2>1. b[k + 1] = bytesLeft + Len(result) /\ bytesLeft >= 1
    BY <1>1, <1>3, <1>4, <1>5, <1>8, <1>10 DEF NoLength
  <2>2. /\ bytesLeft + 1 \in 2 .. n /\ bytesLeft + 1 \in 1 .. Len(stream)
        /\ Len(Flow) > bytesLeft + Len(result) /\ bytesLeft + Len(result) >= 0
        /\ Len(result) + (bytesLeft + 1) = (bytesLeft + Len(result)) + 1
    BY <1>1, <1>5, <1>6, <1>10, <2>1
  <2>3. Flow[(bytesLeft + Len(result)) + 1].is = "length"
    BY <1>8, <2>1, <2>2
  <2>4. Flow[(bytesLeft + Len(result)) + 1] = stream[bytesLeft + 1]
    BY <1>5, <2>2
  <2>. QED
    BY <1>6, <2>2, <2>3, <2>4
<1>. QED
  BY <1>1, <1>7, <1>8, <1>9, <1>10 DEF k, e, size

\* A step that leaves the flow as it is and does not read ahead of the frame.
LEMMA StillAligned ==
    ASSUME AState, UNCHANGED <<chainId, sent, read, state>>, Flow' = Flow,
           bytesLeft' = NoLength <=> bytesLeft = NoLength,
           bytesLeft = NoLength =>
              Len(buffer') <= Len(FrameAt(sent, Len(read) + 1, chainId)),
           bytesLeft # NoLength =>
              /\ bytesLeft' + Len(result') + 1 = bytesLeft + Len(result) + 1
              /\ Len(buffer') <= bytesLeft'
    PROVE  AState'
<1> DEFINE k == Len(read)
           n == Len(sent)
           size == Len(FrameAt(sent, k + 1, chainId))
<1>1. /\ state = "open" /\ (\A i \in 1 .. k : read[i].id = i) /\ k <= n
      /\ bytesLeft # NoLength => k < n /\ bytesLeft + Len(result) + 1 = size
  BY DEF AState
<1>2. PICK b : Aligned(Flow, b, k, sent, chainId) /\ b[k] = (IF bytesLeft = NoLength THEN 0 ELSE -1)
  BY DEF AState
<1>3. k' = k /\ n' = n /\ size' = size
  OBVIOUS
<1>4. state' = "open" /\ (\A i \in 1 .. k' : read'[i].id = i) /\ k' <= n'
  BY <1>1
<1>5. Aligned(Flow', b, k', sent', chainId') /\ b[k'] = (IF bytesLeft' = NoLength THEN 0 ELSE -1)
  BY <1>2, <1>3
<1>6. bytesLeft' = NoLength /\ k' < n' => Len(buffer') <= size'
  BY <1>3
<1>7. bytesLeft' # NoLength =>
          k' < n' /\ bytesLeft' + Len(result') + 1 = size' /\ Len(buffer') <= bytesLeft'
  BY <1>1, <1>3
<1>. QED
  BY <1>4, <1>5, <1>6, <1>7 DEF AState

LEMMA FillAInv ==
    ASSUME WTypes, muxer = "writes", AState, Fill
    PROVE  AState'
<1>1. /\ stream \in Seq(Cell) /\ result \in Seq(Cell) /\ Len(stream) \in Nat /\ Len(result) \in Nat
      /\ bytesLeft \in Int /\ bytesLeft >= -1 /\ BufSize \in Nat /\ BufSize >= 1
  BY WireAssumption, LenProperties DEF WTypes, NoLength
<1>2. /\ UNCHANGED <<chainId, sent, read, state>> /\ Flow' = Flow
      /\ buffer = <<>> /\ bytesLeft # 0
  BY FillMoves DEF Fill
<1>3. CASE bytesLeft >= BufSize
  <2>1. PICK n \in 1 .. bytesLeft :
            /\ CanReturn(n)
            /\ result' = result \o SubSeq(stream, 1, n)
            /\ bytesLeft' = bytesLeft - n
            /\ buffer' = buffer
    BY <1>3 DEF Fill
  <2>2. n \in Int /\ n >= 1 /\ n <= bytesLeft /\ n \in 0 .. Len(stream)
    BY <1>1, <2>1 DEF CanReturn
  <2> DEFINE a == SubSeq(stream, 1, n)
  <2>3. a \in Seq(Cell) /\ Len(a) = n
    BY <1>1, <2>2, Cut
  <2> HIDE DEF a
  <2>4. Len(result \o a) = Len(result) + n
    BY <1>1, <2>3, ConcatProperties
  <2>5. Len(result') = Len(result) + n
    BY <2>1, <2>4 DEF a
  <2>6. Len(buffer') = 0
    BY <1>2, <2>1
  <2>7. /\ bytesLeft' # NoLength /\ bytesLeft # NoLength
        /\ bytesLeft' + Len(result') + 1 = bytesLeft + Len(result) + 1
        /\ Len(buffer') <= bytesLeft'
    BY <1>1, <1>3, <2>1, <2>2, <2>5, <2>6 DEF NoLength
  <2>. QED
    BY <1>2, <2>7, StillAligned
<1>4. CASE ~(bytesLeft >= BufSize)
  <2>1. PICK n \in 1 .. BufSize :
            /\ CanReturn(n)
            /\ buffer' = SubSeq(stream, 1, n)
            /\ result' = result /\ bytesLeft' = bytesLeft
    BY <1>4 DEF Fill
  <2>2. n \in Nat /\ n >= 1 /\ n \in 0 .. Len(stream)
    BY <1>1, <2>1 DEF CanReturn
  <2>3. Len(buffer') = n
    BY <1>1, <2>1, <2>2, Cut
  <2>4. /\ bytesLeft = NoLength => n <= Len(FrameAt(sent, Len(read) + 1, chainId))
        /\ bytesLeft # NoLength => n <= bytesLeft
    BY <1>2, <2>1, <2>2, ReadWithinFrame
  <2>5. bytesLeft # NoLength => bytesLeft' + Len(result') + 1 = bytesLeft + Len(result) + 1
    BY <2>1
  <2>. QED
    BY <1>2, <2>1, <2>3, <2>4, <2>5, StillAligned
<1>. QED
  BY <1>3, <1>4

LEMMA ReadBytesAInv ==
    ASSUME WTypes, AState, ReadBytes
    PROVE  AState'
<1>1. /\ buffer \in Seq(Cell) /\ result \in Seq(Cell) /\ Len(buffer) \in Nat /\ Len(result) \in Nat
      /\ bytesLeft \in Int /\ bytesLeft > 0
  BY LenProperties DEF WTypes, NoLength, ReadBytes
<1>2. UNCHANGED <<chainId, sent, read, state>> /\ Flow' = Flow
  BY ReadBytesMoves DEF ReadBytes
<1>3. bytesLeft # NoLength /\ Len(buffer) <= bytesLeft
  BY <1>1 DEF AState, NoLength
<1> DEFINE n == Len(buffer)
<1>4. /\ result' = result \o SubSeq(buffer, 1, n)
      /\ buffer' = SubSeq(buffer, n + 1, n)
      /\ bytesLeft' = bytesLeft - n
  <2>1. (IF bytesLeft < Len(buffer) THEN bytesLeft ELSE Len(buffer)) = n
    BY <1>1, <1>3
  <2>. QED
    BY <2>1, Zenon DEF ReadBytes
<1> DEFINE a == SubSeq(buffer, 1, n)
<1>5. n \in 0 .. Len(buffer) /\ n \in Nat
  BY <1>1
<1>6. a \in Seq(Cell) /\ Len(a) = n /\ Len(SubSeq(buffer, n + 1, n)) = n - n
  BY <1>1, <1>5, Cut
<1> HIDE DEF a
<1>7. Len(result \o a) = Len(result) + n
  <2>1. result \in Seq(Cell) /\ a \in Seq(Cell)
    BY <1>1, <1>6
  <2>2. Len(result \o a) = Len(result) + Len(a)
    BY <2>1, ConcatProperties
  <2>. QED
    BY <1>6, <2>2
<1>8. Len(result') = Len(result) + n /\ Len(buffer') = 0
  BY <1>4, <1>5, <1>6, <1>7 DEF a
<1>9. /\ bytesLeft' # NoLength
      /\ bytesLeft' + Len(result') + 1 = bytesLeft + Len(result) + 1
      /\ Len(buffer') <= bytesLeft'
  <2>1. /\ bytesLeft \in Int /\ n \in Nat /\ Len(result) \in Nat
        /\ n <= bytesLeft /\ bytesLeft' = bytesLeft - n
    BY <1>1, <1>3, <1>4, <1>5
  <2> HIDE DEF n
  <2>. QED
    BY <1>8, <2>1 DEF NoLength
<1>. QED
  BY <1>2, <1>3, <1>9, StillAligned

LEMMA ReadLengthAInv ==
    ASSUME WInv, muxer = "writes", AState, ReadLength
    PROVE  AState'
<1> DEFINE k == Len(read)
           n == Len(sent)
           e == FrameAt(sent, k + 1, chainId)
           d == Len(Data(sent[k + 1].kind, sent[k + 1].content, chainId))
<1>1. /\ WTypes /\ k \in Nat /\ n \in Nat /\ sent \in Seq(Frame) /\ Numbered(sent) /\ chainId \in ChainIds
      /\ stream \in Seq(Cell) /\ buffer \in Seq(Cell) /\ result \in Seq(Cell)
      /\ Len(buffer) \in Nat /\ buffer # <<>> /\ bytesLeft = NoLength /\ state = "open"
  BY LenProperties DEF WInv, WTypes, ReadLength
<1>2. Parts(Flow, result, buffer, stream)
  BY <1>1, FlowParts DEF Flow
<1>3. Len(Flow) \in Nat /\ Len(Flow) > 0 /\ 1 \in 1 .. Len(Flow)
  <2>1. Len(buffer) # 0
    BY <1>1, EmptySeq
  <2>. QED
    BY <1>1, <1>2, <2>1 DEF Parts
<1>4. PICK b : Aligned(Flow, b, k, sent, chainId) /\ b[k] = 0
  BY <1>1 DEF AState
<1>5. (\A i \in 1 .. k : read[i].id = i) /\ k <= n /\ (k < n => Len(buffer) <= Len(e))
  BY <1>1 DEF AState
<1>6. k < n
  <2>1. k = n => Len(Flow) = 0
    BY <1>4 DEF Aligned
  <2>. QED
    BY <1>1, <1>3, <1>5, <2>1
<1>7. d \in Nat /\ Len(e) = d + 3 /\ e[1] = [is |-> "length", n |-> d + 2]
  <2>1. k + 1 \in 1 .. n
    BY <1>1, <1>6
  <2>2. Shaped(sent, k + 1, chainId)
    BY <1>1, <2>1, ShapeAt
  <2>. QED
    BY <2>2, Zenon DEF Shaped
<1>8. Flow[1] = e[1]
  <2>1. /\ Len(Flow) \in Nat /\ k \in Nat /\ chainId \in ChainIds /\ sent \in Seq(Frame)
        /\ Numbered(sent) /\ k < Len(sent) /\ Aligned(Flow, b, k, sent, chainId)
    BY <1>1, <1>3, <1>4, <1>6
  <2> DEFINE f == Flow
  <2> HIDE DEF f, e, k
  <2>2. Lead(f, b[k], b[k + 1], e)
    BY <2>1, NextFrame DEF f, e
  <2>3. 1 \in 1 .. Len(e) /\ 0 + 1 = 1
    BY <1>7
  <2>4. f[0 + 1] = e[1]
    BY <1>4, <2>2, <2>3 DEF Lead
  <2>. QED
    BY <2>3, <2>4 DEF f
<1> HIDE DEF k, n, e, d
<1>9. Flow[1].is = "length" /\ Flow[1].n = d + 2
  BY <1>7, <1>8
<1>10. Flow[1].n <= MaxLength
  <2>1. Sound(Flow, read, sent, chainId)
    BY <1>1 DEF WInv
  <2>. QED
    BY <1>3, <1>9, <2>1 DEF Sound, AllGenuine, Genuine
<1>11. /\ WTypes' /\ UNCHANGED <<chainId, muxer, sent, read>>
       /\ Len(buffer') = Len(buffer) - 1
       /\ \E m \in LengthsOf(Flow[1]) :
                IF TooShort(m) THEN state' = "reset"
                ELSE state' = "open" /\ bytesLeft' = m /\ result' = <<>>
       /\ state' = "open" => Rest(Flow', Flow, 1)
  BY <1>1, <1>10, ReadLengthMoves
<1>12. state' = "open" /\ bytesLeft' = d + 2 /\ Len(result') = 0
  <2>1. LengthsOf(Flow[1]) = {d + 2}
    BY <1>9 DEF LengthsOf
  <2>2. ~TooShort(d + 2)
    BY <1>7 DEF TooShort
  <2>3. state' = "open" /\ bytesLeft' = d + 2 /\ result' = <<>>
    BY <1>11, <2>1, <2>2
  <2>. QED
    BY <2>3
<1>13. Len(Flow') \in Nat
  <2>1. stream' \in Seq(Cell) /\ buffer' \in Seq(Cell) /\ result' \in Seq(Cell)
    BY <1>11 DEF WTypes
  <2>2. Parts(Flow', result', buffer', stream')
    BY <2>1, FlowParts DEF Flow
  <2>. QED
    BY <2>2 DEF Parts
<1>14. PICK c : Aligned(Flow', c, k, sent, chainId) /\ c[k] = b[k] - 1
  <2>1. 1 \in Nat /\ Rest(Flow', Flow, 1) /\ k <= Len(sent) /\ k <= k
    BY <1>1, <1>5, <1>11, <1>12 DEF n
  <2> DEFINE f == Flow
             g == Flow'
  <2>2. /\ Len(f) \in Nat /\ Len(g) \in Nat /\ Rest(g, f, 1) /\ Aligned(f, b, k, sent, chainId)
    BY <1>3, <1>4, <1>13, <2>1
  <2>3. k \in Nat /\ chainId \in ChainIds /\ sent \in Seq(Frame) /\ Numbered(sent)
    BY <1>1
  <2> HIDE DEF f, g
  <2>4. CanRest(f, g, 1, b, k, k, sent, chainId)
    BY <2>1, <2>2, <2>3 DEF CanRest
  <2>5. RestAligned(g, 1, b, k, sent, chainId)
    BY <2>4, AlignedRest, Zenon
  <2>. QED
    BY <2>5 DEF g, RestAligned
<1>15. k' = k /\ n' = n /\ e' = e
  BY <1>11 DEF k, n, e
<1>16. c[k] = -1 /\ bytesLeft' # NoLength
  BY <1>4, <1>7, <1>12, <1>14 DEF NoLength
<1>17. bytesLeft' + Len(result') + 1 = Len(e) /\ Len(buffer') <= bytesLeft'
  BY <1>1, <1>5, <1>6, <1>7, <1>11, <1>12
<1>18. \A i \in 1 .. k' : read'[i].id = i
  BY <1>5, <1>11, <1>15
<1>19. Aligned(Flow', c, k', sent', chainId') /\ c[k'] = (IF bytesLeft' = NoLength THEN 0 ELSE -1)
  BY <1>11, <1>14, <1>15, <1>16
<1>20. k' <= n' /\ k' < n' /\ bytesLeft' + Len(result') + 1 = Len(e')
  BY <1>5, <1>6, <1>15, <1>17
<1>. QED
  BY <1>12, <1>16, <1>17, <1>18, <1>19, <1>20 DEF AState, k, n, e

\* The frame is complete, and it is the one that was written next.
LEMMA CompleteFrame ==
    ASSUME WTypes, AState, bytesLeft = 0
    PROVE  LET k == Len(read)
               data == Data(sent[k + 1].kind, sent[k + 1].content, chainId)
           IN  /\ k + 1 \in 1 .. Len(sent)
               /\ Len(result) >= 2 /\ ChecksumMatches(result)
               /\ HeadOf(result[1]) = [is |-> "head", kind |-> sent[k + 1].kind, id |-> k + 1]
<1> DEFINE k == Len(read)
           n == Len(sent)
           e == FrameAt(sent, k + 1, chainId)
           data == Data(sent[k + 1].kind, sent[k + 1].content, chainId)
           d == Len(data)
<1>1. /\ k \in Nat /\ n \in Nat /\ sent \in Seq(Frame) /\ Numbered(sent) /\ chainId \in ChainIds
      /\ stream \in Seq(Cell) /\ buffer \in Seq(Cell) /\ result \in Seq(Cell)
      /\ Len(result) \in Nat
  BY LenProperties DEF WTypes
<1>2. Parts(Flow, result, buffer, stream)
  BY <1>1, FlowParts DEF Flow
<1>3. k < n /\ Len(result) + 1 = Len(e)
  BY <1>1 DEF AState, NoLength
<1>4. PICK b : Aligned(Flow, b, k, sent, chainId) /\ b[k] = -1
  BY DEF AState, NoLength
<1>5. k + 1 \in 1 .. n
  BY <1>1, <1>3
<1>6. /\ d \in Nat /\ Len(e) = d + 3
      /\ e[2] = [is |-> "head", kind |-> sent[k + 1].kind, id |-> k + 1]
      /\ \A j \in 1 .. d : e[j + 2] = data[j]
      /\ e[d + 3] = [is |-> "checksum", of |-> Covered(sent[k + 1], k + 1, chainId)]
  <2>1. Shaped(sent, k + 1, chainId)
    BY <1>1, <1>5, ShapeAt
  <2>. QED
    BY <2>1, Zenon DEF Shaped
<1>7. data \in Seq(DataCell) /\ Covered(sent[k + 1], k + 1, chainId) = <<k + 1>> \o data
  BY <1>1, <1>5, CoveredParts
<1> DEFINE chunk == Covered(sent[k + 1], k + 1, chainId)
<1>8. ASSUME NEW i \in 1 .. Len(result) PROVE result[i] = e[i + 1]
  <2>1. /\ Len(Flow) \in Nat /\ k < Len(sent)
    BY <1>2, <1>3 DEF Parts
  <2> DEFINE f == Flow
  <2> HIDE DEF f, e, k
  <2>2. Lead(f, b[k], b[k + 1], e)
    BY <1>1, <1>4, <2>1, NextFrame DEF f, e
  <2>3. i + 1 \in 1 .. Len(e) /\ -1 + (i + 1) = i /\ i >= 1
    BY <1>1, <1>3
  <2>4. f[-1 + (i + 1)] = e[i + 1]
    BY <1>4, <2>2, <2>3 DEF Lead
  <2>5. f[i] = result[i]
    BY <1>2 DEF Parts, f
  <2>. QED
    BY <2>3, <2>4, <2>5
<1> HIDE DEF k, n, e, data, d, chunk
<1>9. Len(result) = d + 2 /\ Len(result) >= 2
  BY <1>1, <1>3, <1>6
<1>10. /\ result[1] = [is |-> "head", kind |-> sent[k + 1].kind, id |-> k + 1]
       /\ result[Len(result)] = [is |-> "checksum", of |-> chunk]
  <2>1. 1 \in 1 .. Len(result) /\ 1 + 1 = 2 /\ d + 2 \in 1 .. Len(result) /\ (d + 2) + 1 = d + 3
    BY <1>6, <1>9
  <2>2. result[1] = e[2] /\ result[d + 2] = e[d + 3]
    <3>1. result[1] = e[1 + 1] /\ result[d + 2] = e[(d + 2) + 1]
      BY <1>8, <2>1
    <3>. QED
      BY <2>1, <3>1
  <2>. QED
    BY <1>6, <1>9, <2>2 DEF chunk
<1>11. HeadOf(result[1]) = result[1] /\ HeadOf(result[1]).id = k + 1
  BY <1>10 DEF HeadOf
<1>12. DataOf(result) = data
  <2> DEFINE x == SubSeq(result, 2, Len(result) - 1)
  <2>1. \A j \in 2 .. Len(result) - 1 : result[j] \in Cell
    BY <1>1, <1>9
  <2>2. /\ x \in Seq(Cell)
        /\ Len(x) = (IF 2 <= Len(result) - 1 THEN (Len(result) - 1) - 2 + 1 ELSE 0)
        /\ \A j \in 1 .. (Len(result) - 1) - 2 + 1 : x[j] = result[2 + j - 1]
    <3>1. 2 \in Int /\ Len(result) - 1 \in Int
      BY <1>1
    <3>. QED
      BY <2>1, <3>1, SubSeqProperties
  <2> HIDE DEF x
  <2>3. Len(x) = d
    BY <1>6, <1>9, <2>2
  <2>4. ASSUME NEW j \in 1 .. Len(x) PROVE x[j] = data[j]
    <3>1. /\ j \in 1 .. d /\ j \in 1 .. (Len(result) - 1) - 2 + 1 /\ 2 + j - 1 = j + 1
          /\ j + 1 \in 1 .. Len(result) /\ (j + 1) + 1 = j + 2
      <4>1. j \in 1 .. d /\ d \in Nat /\ Len(result) = d + 2
        BY <1>6, <1>9, <2>3
      <4>. QED
        BY <4>1
    <3>2. x[j] = result[j + 1]
      BY <2>2, <3>1
    <3>3. result[j + 1] = e[j + 2]
      <4>1. result[j + 1] = e[(j + 1) + 1]
        BY <1>8, <3>1
      <4>. QED
        BY <3>1, <4>1
    <3>. QED
      BY <1>6, <3>1, <3>2, <3>3
  <2>5. data \in Seq(Cell)
    <3>1. DataCell \subseteq Cell
      BY DEF Cell
    <3>. QED
      BY <1>7, <3>1, SeqMonotonic
  <2>6. x = data
    <3>1. x \in Seq(Cell) /\ data \in Seq(Cell) /\ Len(x) = Len(data)
      BY <2>2, <2>3, <2>5 DEF d
    <3>. QED
      BY <2>4, <3>1, SeqEqual
  <2>. QED
    BY <2>6 DEF DataOf, x
<1>13. Last(result) = Checksum(<<HeadOf(result[1]).id>> \o DataOf(result))
  <2>1. Last(result) = result[Len(result)]
    BY DEF Last
  <2>2. Checksum(<<k + 1>> \o data) = [is |-> "checksum", of |-> chunk]
    BY <1>7 DEF Checksum, chunk
  <2>. QED
    BY <1>10, <1>11, <1>12, <2>1, <2>2, Zenon
<1>. QED
  BY <1>5, <1>9, <1>10, <1>11, <1>13 DEF ChecksumMatches, k, n

LEMMA HandleAInv ==
    ASSUME WTypes, chainId # 0, AState, HandleFrame
    PROVE  AState'
<1> DEFINE k == Len(read)
           n == Len(sent)
           e == FrameAt(sent, k + 1, chainId)
           m == Len(result) + Len(buffer)
<1>1. /\ k \in Nat /\ n \in Nat /\ sent \in Seq(Frame) /\ Numbered(sent) /\ chainId \in ChainIds
      /\ stream \in Seq(Cell) /\ buffer \in Seq(Cell) /\ result \in Seq(Cell)
      /\ Len(result) \in Nat /\ Len(buffer) \in Nat /\ read \in Seq(Frame)
  BY LenProperties DEF WTypes
<1>2. /\ state = "open" /\ bytesLeft = 0 /\ buffer' = <<>>
      /\ UNCHANGED <<chainId, muxer, sent, stream>>
  BY DEF HandleFrame
<1>3. /\ k + 1 \in 1 .. n /\ Len(result) >= 2 /\ ChecksumMatches(result)
      /\ HeadOf(result[1]) = [is |-> "head", kind |-> sent[k + 1].kind, id |-> k + 1]
  BY <1>2, CompleteFrame
<1>4. /\ read' = Append(read,
                    [id |-> k + 1, kind |-> sent[k + 1].kind,
                     content |-> Handle(sent[k + 1].kind, DataOf(result))])
      /\ bytesLeft' = NoLength /\ result' = <<>> /\ state' = state
  <2> DEFINE head == HeadOf(result[1])
  <2>1. head.kind = sent[k + 1].kind /\ head.id = k + 1
    BY <1>3
  <2>2. ~(Len(result) < 2)
    BY <1>1, <1>3
  <2>3. /\ read' = Append(read, [id |-> head.id, kind |-> head.kind,
                              content |-> Handle(head.kind, DataOf(result))])
        /\ bytesLeft' = NoLength /\ result' = <<>> /\ UNCHANGED state
    BY <1>3, <2>2, Zenon DEF HandleFrame
  <2> HIDE DEF head
  <2>. QED
    BY <2>1, <2>3
<1>5. (\A i \in 1 .. k : read[i].id = i) /\ Len(result) + 1 = Len(e) /\ Len(buffer) = 0
  BY <1>1, <1>2 DEF AState, NoLength
<1>6. PICK b : Aligned(Flow, b, k, sent, chainId) /\ b[k] = -1
  BY <1>2 DEF AState, NoLength
<1>7. Parts(Flow, result, buffer, stream)
  BY <1>1, FlowParts DEF Flow
<1>8. Flow' = stream
  <2>1. Flow' = <<>> \o (<<>> \o stream)
    BY <1>2, <1>4 DEF Flow
  <2>2. <<>> \o stream = stream
    BY <1>1, ConcatEmptySeq
  <2>. QED
    BY <2>1, <2>2, Zenon
<1>9. b[k + 1] = m
  <2>1. /\ Len(Flow) \in Nat /\ k < Len(sent)
    BY <1>1, <1>3, <1>7 DEF Parts
  <2> DEFINE f == Flow
  <2> HIDE DEF f, e, k
  <2>2. Lead(f, b[k], b[k + 1], e)
    BY <1>1, <1>6, <2>1, NextFrame DEF f, e
  <2>3. b[k + 1] = -1 + Len(e)
    BY <1>6, <2>2 DEF Lead
  <2>. QED
    BY <1>1, <1>5, <2>3
<1>10. PICK c : Aligned(stream, c, k + 1, sent, chainId) /\ c[k + 1] = b[k + 1] - m
  <2>1. /\ m \in Nat /\ Rest(stream, Flow, m) /\ k + 1 \in Nat /\ k <= k + 1 /\ k + 1 <= Len(sent)
        /\ Len(Flow) \in Nat /\ Len(stream) \in Nat
    BY <1>1, <1>3, <1>7 DEF Parts
  <2> DEFINE f == Flow
             h == k + 1
  <2>2. /\ Len(f) \in Nat /\ Rest(stream, f, m) /\ Aligned(f, b, k, sent, chainId)
        /\ h \in Nat /\ k <= h /\ h <= Len(sent)
    BY <1>6, <2>1
  <2> HIDE DEF f, h, m, k
  <2>3. CanRest(f, stream, m, b, k, h, sent, chainId)
    BY <1>1, <2>1, <2>2 DEF CanRest
  <2>4. RestAligned(stream, m, b, h, sent, chainId)
    BY <2>3, AlignedRest, Zenon
  <2>. QED
    BY <2>4 DEF h, RestAligned
<1>11. c[k + 1] = 0
  <2>1. m \in Int
    BY <1>1
  <2> HIDE DEF m, k
  <2>. QED
    BY <1>9, <1>10, <2>1
<1>12. /\ Len(read') = k + 1 /\ read'[k + 1].id = k + 1
       /\ \A i \in 1 .. k : read'[i] = read[i]
  <2> DEFINE new == [id |-> k + 1, kind |-> sent[k + 1].kind,
                     content |-> Handle(sent[k + 1].kind, DataOf(result))]
             S == Frame \union {new}
  <2>1. new \in S /\ Frame \subseteq S /\ new.id = k + 1
    OBVIOUS
  <2> HIDE DEF new, S
  <2>2. read \in Seq(S) /\ read' = Append(read, new)
    BY <1>1, <1>4, <2>1, SeqMonotonic DEF new
  <2>3. /\ Len(read') = Len(read) + 1 /\ read'[Len(read) + 1] = new
        /\ \A i \in 1 .. Len(read) : read'[i] = read[i]
    BY <2>1, <2>2, AppendProperties
  <2>. QED
    BY <2>1, <2>3
<1>13. \A i \in 1 .. Len(read') : read'[i].id = i
  <2> HIDE DEF k
  <2>1. \A i \in 1 .. k + 1 : i \in 1 .. k \/ i = k + 1
    BY <1>1
  <2>. QED
    BY <1>5, <1>12, <2>1
<1>14. /\ Aligned(Flow', c, Len(read'), sent', chainId')
       /\ c[Len(read')] = (IF bytesLeft' = NoLength THEN 0 ELSE -1)
  BY <1>2, <1>4, <1>8, <1>10, <1>11, <1>12
<1>15. Len(read') <= Len(sent')
  BY <1>2, <1>3, <1>12
<1>16. Len(buffer') <= Len(FrameAt(sent', Len(read') + 1, chainId')) \/ ~(Len(read') < Len(sent'))
  <2>1. SUFFICES ASSUME Len(read') < Len(sent')
                 PROVE  Len(buffer') <= Len(FrameAt(sent', Len(read') + 1, chainId'))
    OBVIOUS
  <2> DEFINE g == FrameAt(sent, k + 2, chainId)
  <2>2. k + 2 \in 1 .. n /\ (k + 1) + 1 = k + 2
    BY <1>1, <1>2, <1>12, <2>1
  <2>3. g \in Seq(Cell)
    BY <1>1, <2>2, FrameAtShape
  <2>4. FrameAt(sent', Len(read') + 1, chainId') = g
    BY <1>2, <1>12, <2>2
  <2> HIDE DEF g
  <2>5. Len(g) \in Nat /\ Len(buffer') = 0
    BY <1>2, <2>3, LenProperties
  <2>. QED
    BY <2>4, <2>5
<1>. QED
  BY <1>2, <1>4, <1>13, <1>14, <1>15, <1>16 DEF AState

LEMMA WriteAInv ==
    ASSUME WTypes, AState, Write
    PROVE  AState'
<1> DEFINE k == Len(read)
           n == Len(sent)
<1>1. /\ k \in Nat /\ n \in Nat /\ sent \in Seq(Frame) /\ Numbered(sent) /\ chainId \in ChainIds
      /\ stream \in Seq(Cell) /\ buffer \in Seq(Cell) /\ result \in Seq(Cell)
      /\ Len(buffer) \in Nat /\ read \in Seq(Frame)
  BY LenProperties DEF WTypes
<1>2. PICK s \in Sends :
        /\ sent' = Append(sent, NewFrame(sent, s))
        /\ stream' = stream \o FrameOf(s, n + 1, chainId)
  BY Zenon DEF Write, FrameOf, NewFrame
<1>3. /\ Len(sent) < MaxFrames
      /\ UNCHANGED <<chainId, muxer, buffer, bytesLeft, result, read, state>>
  BY DEF Write
<1>4. NewFrame(sent, s) \in Frame
  <2>1. n + 1 \in 0 .. MaxFrames
    BY <1>1, <1>3, WireAssumption
  <2>. QED
    BY <2>1 DEF Frame, NewFrame
<1>5. /\ sent' \in Seq(Frame) /\ Len(sent') = n + 1 /\ \A i \in 1 .. n : sent'[i] = sent[i]
  BY <1>1, <1>2, <1>4, AppendProperties
<1>6. /\ state = "open" /\ (\A i \in 1 .. k : read[i].id = i) /\ k <= n
      /\ bytesLeft = NoLength /\ k < n => Len(buffer) <= Len(FrameAt(sent, k + 1, chainId))
      /\ bytesLeft # NoLength =>
            /\ k < n /\ bytesLeft + Len(result) + 1 = Len(FrameAt(sent, k + 1, chainId))
            /\ Len(buffer) <= bytesLeft
  BY DEF AState
<1>7. PICK b : /\ Aligned(Flow, b, k, sent, chainId)
               /\ b[k] = (IF bytesLeft = NoLength THEN 0 ELSE -1)
  BY DEF AState
<1>8. Parts(Flow, result, buffer, stream)
  BY <1>1, FlowParts DEF Flow
<1> DEFINE new == FrameOf(s, n + 1, chainId)
<1>9. new \in Seq(Cell)
  <2> DEFINE i == n + 1
  <2>1. i \in Nat /\ s \in Sends /\ chainId \in ChainIds
    BY <1>1
  <2> HIDE DEF i
  <2>2. FrameOf(s, i, chainId) \in Seq(Cell)
    BY <2>1, FrameShape
  <2>. QED
    BY <2>2 DEF i
<1>10. Flow' = Flow \o new
  <2> DEFINE after == buffer \o stream
  <2> HIDE DEF new
  <2>1. Flow' = result \o (buffer \o (stream \o new))
    BY <1>2, <1>3 DEF Flow, new
  <2>2. (buffer \o stream) \o new = buffer \o (stream \o new)
    <3>1. buffer \in Seq(Cell) /\ stream \in Seq(Cell) /\ new \in Seq(Cell)
      BY <1>1, <1>9
    <3>. QED
      BY <3>1, ConcatAssociative
  <2>3. after \in Seq(Cell)
    <3>1. buffer \in Seq(Cell) /\ stream \in Seq(Cell)
      BY <1>1
    <3>. QED
      BY <3>1, ConcatProperties
  <2>4. (result \o after) \o new = result \o (after \o new)
    <3>1. result \in Seq(Cell) /\ after \in Seq(Cell) /\ new \in Seq(Cell)
      BY <1>1, <1>9, <2>3
    <3> HIDE DEF after
    <3>. QED
      BY <3>1, ConcatAssociative
  <2>. QED
    BY <2>1, <2>2, <2>4, Zenon DEF Flow, after
<1>11. PICK d : Aligned(Flow \o new, d, k, sent', chainId) /\ d[k] = b[k]
  <2> DEFINE f == Flow
  <2>1. f \in Seq(Cell) /\ Aligned(f, b, k, sent, chainId)
    BY <1>7, <1>8 DEF Parts
  <2>2. k \in Nat /\ k <= Len(sent)
    BY <1>1, <1>6
  <2> HIDE DEF f, k
  <2> DEFINE more == sent'
  <2>3. /\ sent \in Seq(Frame) /\ Numbered(sent) /\ chainId \in ChainIds /\ s \in Sends
        /\ NewFrame(sent, s) \in Frame /\ more \in Seq(Frame)
        /\ more = Append(sent, NewFrame(sent, s))
    BY <1>1, <1>2, <1>4, <1>5
  <2> HIDE DEF more
  <2>4. CanWrite(f, b, k, chainId, sent, s, more)
    BY <2>1, <2>2, <2>3 DEF CanWrite
  <2>5. WrittenAligned(f, b, k, chainId, sent, s, more)
    BY <2>4, AlignedWritten, Zenon
  <2>. QED
    BY <2>5 DEF f, more, WrittenAligned
<1> HIDE DEF new
<1>12. k < n => FrameAt(sent', k + 1, chainId) = FrameAt(sent, k + 1, chainId)
  <2>1. SUFFICES ASSUME k < n PROVE FrameAt(sent', k + 1, chainId) = FrameAt(sent, k + 1, chainId)
    OBVIOUS
  <2>2. k + 1 \in 1 .. n
    BY <1>1, <2>1
  <2>3. sent'[k + 1] = sent[k + 1]
    BY <1>5, <2>2, Zenon
  <2>. QED
    BY <2>3, Zenon DEF FrameAt
<1>13. ~(k < n) /\ bytesLeft = NoLength => Len(buffer) <= Len(FrameAt(sent', k + 1, chainId))
  <2>1. SUFFICES ASSUME ~(k < n), bytesLeft = NoLength
                 PROVE  Len(buffer) <= Len(FrameAt(sent', k + 1, chainId))
    OBVIOUS
  <2>2. k = n /\ k + 1 \in 1 .. Len(sent')
    BY <1>1, <1>5, <1>6, <2>1
  <2>3. Len(Flow) = 0
    BY <1>7, <2>1, <2>2 DEF Aligned
  <2>4. Len(buffer) = 0
    BY <1>8, <2>3 DEF Parts
  <2> DEFINE g == FrameAt(sent', k + 1, chainId)
  <2>5. Numbered(sent')
    <3>1. Sound(<<>>, <<>>, sent, chainId) /\ FromSent(<<>>, sent) /\ <<>> \in Seq(Cell)
      BY DEF Sound, AllGenuine, Ordered, Later, FromSent
    <3> DEFINE f == <<>>
    <3>2. Sound(f, f, sent, chainId) /\ FromSent(f, sent) /\ f \in Seq(Cell)
      BY <3>1
    <3> HIDE DEF f
    <3>. QED
      BY <1>1, <1>2, <1>4, <1>5, <3>2, WrittenIsSound
  <2>6. g \in Seq(Cell)
    BY <1>1, <1>5, <2>2, <2>5, FrameAtShape
  <2> HIDE DEF g
  <2>7. Len(g) \in Nat
    BY <2>6, LenProperties
  <2>. QED
    BY <2>4, <2>7 DEF g
<1>14. k' = k /\ Len(sent') = n + 1 /\ chainId' = chainId
  BY <1>3, <1>5
<1>15. state' = "open" /\ (\A i \in 1 .. k' : read'[i].id = i) /\ k' <= Len(sent')
  BY <1>1, <1>3, <1>6, <1>14
<1>16. /\ Aligned(Flow', d, k', sent', chainId')
       /\ d[k'] = (IF bytesLeft' = NoLength THEN 0 ELSE -1)
  BY <1>3, <1>7, <1>10, <1>11, <1>14
<1>17. bytesLeft' = NoLength => Len(buffer') <= Len(FrameAt(sent', k' + 1, chainId'))
  BY <1>3, <1>6, <1>12, <1>13, <1>14
<1>18. bytesLeft' # NoLength =>
          /\ k' < Len(sent') /\ bytesLeft' + Len(result') + 1 = Len(FrameAt(sent', k' + 1, chainId'))
          /\ Len(buffer') <= bytesLeft'
  BY <1>1, <1>3, <1>6, <1>12, <1>14
<1>. QED
  BY <1>15, <1>16, <1>17, <1>18 DEF AState

LEMMA InitAState ==
    ASSUME Init
    PROVE  AState
<1> DEFINE b == [i \in Nat |-> 0]
<1>1. /\ state = "open" /\ sent = <<>> /\ read = <<>> /\ bytesLeft = NoLength
      /\ Flow = <<>> \o (<<>> \o <<>>)
  BY DEF Init, Flow
<1>2. Flow = <<>> /\ Len(Flow) = 0 /\ Len(sent) = 0 /\ Len(read) = 0
  BY <1>1
<1>3. b \in [Nat -> Int] /\ b[0] = 0
  OBVIOUS
<1> HIDE DEF b
<1>4. Aligned(Flow, b, 0, sent, chainId)
  BY <1>2, <1>3 DEF Aligned
<1>5. \E c : Aligned(Flow, c, Len(read), sent, chainId)
             /\ c[Len(read)] = (IF bytesLeft = NoLength THEN 0 ELSE -1)
  BY <1>1, <1>2, <1>3, <1>4
<1>. QED
  BY <1>1, <1>2, <1>5 DEF AState

LEMMA AInvStep == WInv /\ AInv /\ [Next]_vars => AInv'
<1>1. SUFFICES ASSUME WInv, AInv, [Next]_vars, muxer' = "writes", chainId' # 0
               PROVE  AState'
  BY DEF AInv
<1>2. WTypes
  BY <1>1 DEF WInv
<1>3. muxer' = muxer /\ chainId' = chainId
  BY <1>1 DEF Next, vars, Write, Fill, ReadLength, ReadBytes, HandleFrame
<1>4. muxer = "writes" /\ chainId # 0 /\ AState
  BY <1>1, <1>3 DEF AInv
<1>5. CASE Write
  BY <1>2, <1>4, <1>5, WriteAInv
<1>6. CASE Fill
  BY <1>2, <1>4, <1>6, FillAInv
<1>7. CASE ReadLength
  BY <1>1, <1>4, <1>7, ReadLengthAInv
<1>8. CASE ReadBytes
  BY <1>2, <1>4, <1>8, ReadBytesAInv
<1>9. CASE HandleFrame
  BY <1>2, <1>4, <1>9, HandleAInv
<1>10. CASE UNCHANGED vars
  BY <1>4, <1>10 DEF AState, Flow, vars
<1>. QED
  BY <1>1, <1>5, <1>6, <1>7, <1>8, <1>9, <1>10 DEF Next

\* Where a Read of the stream returns bytes of one write only, the reader that is made
\* for each frame takes nothing of the next one into its buffer: the frames are handled in
\* turn, none is left out, and no read fails, whatever the sizes of buffer and frames
\* (communication.go:51-69, 89, 101-107).
THEOREM NoFrameSkipped == Spec => []NoneSkipped
<1>1. Init => AInv
  BY InitAState DEF AInv
<1>2. WInv /\ AInv => NoneSkipped
  <2>1. SUFFICES ASSUME WInv, AInv, muxer = "writes", chainId # 0
                 PROVE  state = "open" /\ \A i \in DOMAIN read : read[i].id = i
    BY DEF NoneSkipped
  <2>2. state = "open" /\ \A i \in 1 .. Len(read) : read[i].id = i
    BY <2>1 DEF AInv, AState
  <2>3. DOMAIN read = 1 .. Len(read)
    BY <2>1, ReadPositions DEF WInv
  <2>. QED
    BY <2>2, <2>3, Zenon
<1>. QED
  BY <1>1, <1>2, AInvStep, WInvHolds, PTL DEF Spec

-----------------------------------------------------------------------------
(* The abstract pipe.                                                      *)

\* The id of the last frame handled, as the refinement mapping has it.
LastHandled(handled) == IF handled = <<>> THEN 0 ELSE Last(handled).id

\* A handled frame is one more, if anything is handled.
LEMMA HandleAppends ==
    ASSUME HandleFrame
    PROVE  /\ UNCHANGED <<chainId, muxer, sent>>
           /\ read' = read \/ \E f : read' = Append(read, f)
<1>1. UNCHANGED <<chainId, muxer, sent>>
  BY DEF HandleFrame
<1>2. read' = read \/ \E f : read' = Append(read, f)
  <2>1. CASE Panics \/ ReadError
    BY <2>1 DEF Panics, ReadError
  <2>2. CASE ~(Panics \/ ReadError)
    <3> DEFINE head == HeadOf(result[1])
               f == [id |-> head.id, kind |-> head.kind,
                     content |-> Handle(head.kind, DataOf(result))]
    <3>1. read' = Append(read, f)
      BY <2>2, Zenon DEF HandleFrame
    <3> HIDE DEF f
    <3>. QED
      BY <3>1
  <2>. QED
    BY <2>1, <2>2
<1>. QED
  BY <1>1, <1>2

Appends(handled, more, f, frames) ==
    /\ frames \in Seq(Frame) /\ handled \in Seq(Frame)
    /\ more = Append(handled, f) /\ more \in Seq(Frame)
    /\ FromSent(more, frames) /\ Increasing(more)

Follows(handled, more, f, frames) ==
    /\ f.id \in LastHandled(handled) + 1 .. Len(frames)
    /\ f.id \in f.id .. Len(frames)
    /\ more = handled \o SubSeq(frames, f.id, f.id)
    /\ LastHandled(more) = f.id
    /\ Len(more) = Len(handled) + 1 /\ more[Len(more)] = f

\* One frame that is appended is behind the others, and it was written.
LEMMA AppendedFrame ==
    ASSUME NEW handled, NEW more, NEW f, NEW frames, Appends(handled, more, f, frames)
    PROVE  Follows(handled, more, f, frames)
<1> DEFINE n == Len(handled)
           S == Frame \union {f}
<1>0. /\ frames \in Seq(Frame) /\ handled \in Seq(Frame)
      /\ more = Append(handled, f) /\ more \in Seq(Frame)
      /\ FromSent(more, frames) /\ Increasing(more)
  BY DEF Appends
<1>1. n \in Nat /\ n + 1 # 0
  BY <1>0, LenProperties
<1>2. f \in S /\ handled \in Seq(S)
  <2>1. f \in S /\ Frame \subseteq S
    OBVIOUS
  <2> HIDE DEF S
  <2>. QED
    BY <1>0, <2>1, SeqMonotonic
<1>3. Len(more) = n + 1 /\ more[n + 1] = f /\ \A i \in 1 .. n : more[i] = handled[i]
  <2> HIDE DEF S
  <2>. QED
    BY <1>0, <1>2, AppendProperties
<1>4. f.id \in 1 .. Len(frames) /\ f = frames[f.id]
  <2>1. n + 1 \in 1 .. Len(more)
    BY <1>1, <1>3
  <2>. QED
    BY <1>0, <1>3, <2>1 DEF FromSent
<1>5. LastHandled(handled) < f.id /\ LastHandled(handled) \in Nat
  <2>1. CASE handled = <<>>
    BY <1>4, <2>1 DEF LastHandled
  <2>2. CASE handled # <<>>
    <3>1. n \in 1 .. n /\ n \in 1 .. Len(more) /\ n + 1 \in 1 .. Len(more) /\ n < n + 1
      <4>1. n # 0
        BY <2>2, EmptySeq
      <4>. QED
        BY <1>1, <1>3, <4>1
    <3>2. LastHandled(handled) = handled[n].id
      BY <2>2 DEF LastHandled, Last
    <3>3. more[n].id < more[n + 1].id /\ more[n].id \in 1 .. Len(frames)
      BY <1>0, <3>1 DEF Increasing, FromSent
    <3>. QED
      BY <1>3, <3>1, <3>2, <3>3
  <2>. QED
    BY <2>1, <2>2
<1>6. f.id \in LastHandled(handled) + 1 .. Len(frames) /\ f.id \in f.id .. Len(frames)
  BY <1>4, <1>5
<1>7. more = handled \o SubSeq(frames, f.id, f.id)
  <2> DEFINE i == f.id
             part == SubSeq(frames, i, i)
  <2> HIDE DEF i
  <2>1. i \in 1 .. Len(frames) /\ f = frames[i]
    BY <1>4 DEF i
  <2>2. i \in Int /\ i <= i /\ i - i + 1 = 1 /\ i + 1 - 1 = i
    BY <2>1
  <2>3. \A j \in i .. i : frames[j] \in Frame
    BY <1>0, <2>1
  <2>4. part \in Seq(Frame) /\ Len(part) = 1 /\ part[1] = f
    <3>1. /\ part \in Seq(Frame) /\ Len(part) = 1
          /\ \A j \in 1 .. 1 : part[j] = frames[i + j - 1]
      BY <2>2, <2>3, SubSeqProperties
    <3>2. 1 \in 1 .. 1
      OBVIOUS
    <3>. QED
      BY <2>1, <2>2, <3>1, <3>2
  <2>5. f \in Frame
    BY <1>0, <2>1
  <2> HIDE DEF part
  <2>6. part = <<f>>
    BY <2>4, <2>5
  <2>7. more = handled \o <<f>>
    BY <1>0, <2>5, AppendIsConcat
  <2>. QED
    BY <2>6, <2>7 DEF part, i
<1>8. LastHandled(more) = f.id
  <2>1. Len(more) # 0
    BY <1>1, <1>3
  <2>2. more # <<>>
    BY <2>1, EmptySeq
  <2>. QED
    BY <1>3, <2>2 DEF LastHandled, Last
<1>. QED
  BY <1>3, <1>6, <1>7, <1>8 DEF Follows

\* Where nothing is skipped, the id of a frame is its number.
LEMMA NextInTurn ==
    ASSUME WInv, AState, AState', NEW f, read' = Append(read, f),
           Len(read') = Len(read) + 1, read'[Len(read')] = f
    PROVE  f.id = LastHandled(read) + 1
<1> DEFINE n == Len(read)
<1>1. n \in Nat /\ read \in Seq(Frame)
  BY DEF WInv, WTypes
<1>2. (\A i \in 1 .. n : read[i].id = i) /\ (\A i \in 1 .. n + 1 : read'[i].id = i)
  BY DEF AState
<1>3. f.id = n + 1
  BY <1>1, <1>2
<1>4. LastHandled(read) = n
  <2>1. CASE read = <<>>
    BY <2>1, EmptySeq DEF LastHandled
  <2>2. CASE read # <<>>
    <3>1. n \in 1 .. n
      <4>1. n # 0
        BY <1>1, <2>2, EmptySeq
      <4>. QED
        BY <1>1, <4>1
    <3>2. LastHandled(read) = read[n].id
      BY <2>2 DEF LastHandled, Last
    <3>. QED
      BY <1>2, <3>1, <3>2
  <2>. QED
    BY <2>1, <2>2
<1>. QED
  BY <1>3, <1>4

\* The next frame is handled: Take of one item.
LEMMA HandleTakes ==
    ASSUME WInv, AInv, WInv', AInv', HandleFrame, read' # read
    PROVE  AbstractPipe!Take
<1>1. UNCHANGED <<chainId, muxer, sent>>
  BY HandleAppends
<1>2. PICK f : read' = Append(read, f)
  BY HandleAppends
<1>3. Appends(read, read', f, sent)
  BY <1>1, <1>2 DEF WInv, WTypes, Appends
<1>4. Follows(read, read', f, sent)
  BY <1>3, AppendedFrame, Zenon
<1> DEFINE i == f.id
<1>5. /\ i \in LastHandled(read) + 1 .. Len(sent) /\ i \in i .. Len(sent)
      /\ read' = read \o SubSeq(sent, i, i)
      /\ LastHandled(read') = i
      /\ Len(read') = Len(read) + 1 /\ read'[Len(read')] = f
  BY <1>4 DEF Follows
<1>6. i = LastHandled(read) + 1 \/ ~(muxer = "writes" /\ chainId # 0)
  <2>1. SUFFICES ASSUME muxer = "writes", chainId # 0 PROVE i = LastHandled(read) + 1
    OBVIOUS
  <2>2. AState /\ AState'
    BY <1>1, <2>1 DEF AInv
  <2>. QED
    BY <1>2, <1>5, <2>2, NextInTurn
<1> HIDE DEF i
<1>7. /\ i \in (IF read = <<>> THEN 0 ELSE Last(read).id) + 1 .. Len(sent)
      /\ \/ i = (IF read = <<>> THEN 0 ELSE Last(read).id) + 1
         \/ ~(muxer = "writes" /\ chainId # 0)
      /\ (IF read = <<>> THEN 0 ELSE Last(read).id)' = i
  BY <1>5, <1>6 DEF LastHandled
<1>8. UNCHANGED <<sent, ~(muxer = "writes" /\ chainId # 0)>>
  BY <1>1
<1>. QED
  BY <1>5, <1>7, <1>8, Zenon DEF AbstractPipe!Take

\* A frame is written: Put.
LEMMA WritePuts ==
    ASSUME WInv, Write
    PROVE  AbstractPipe!Put
<1>1. PICK s \in Sends :
         sent' = Append(sent, [id |-> Len(sent) + 1, kind |-> s.kind, content |-> s.content])
  BY DEF Write
<1>2. [id |-> Len(sent) + 1, kind |-> s.kind, content |-> s.content] \in Frame
  <2>1. Len(sent) \in Nat /\ Len(sent) < MaxFrames /\ MaxFrames \in Nat
    BY WireAssumption DEF Write, WInv, WTypes
  <2>2. Len(sent) + 1 \in 0 .. MaxFrames
    BY <2>1
  <2>. QED
    BY <2>2 DEF Frame
<1>3. UNCHANGED <<read, muxer, chainId>>
  BY DEF Write
<1>. QED
  BY <1>1, <1>2, <1>3 DEF AbstractPipe!Put

\* Every step is one of the pipe's, or none of its business.
LEMMA PipeStep ==
    ASSUME WInv, AInv, WInv', AInv', [Next]_vars
    PROVE  [AbstractPipe!Next]_(AbstractPipe!vars)
<1>1. CASE Write
  BY <1>1, WritePuts DEF AbstractPipe!Next
<1>2. CASE HandleFrame /\ read' # read
  BY <1>2, HandleTakes DEF AbstractPipe!Next
<1>3. CASE UNCHANGED <<chainId, muxer, sent, read>>
  BY <1>3 DEF AbstractPipe!vars
<1>4. HandleFrame /\ read' = read => UNCHANGED <<chainId, muxer, sent, read>>
  BY HandleAppends
<1>5. Fill \/ ReadBytes => UNCHANGED <<chainId, muxer, sent, read>>
  BY DEF Fill, ReadBytes
<1>6. ReadLength => UNCHANGED <<chainId, muxer, sent, read>>
  BY DEF ReadLength, ReadError
<1>7. UNCHANGED vars => UNCHANGED <<chainId, muxer, sent, read>>
  BY DEF vars
<1>. QED
  BY <1>1, <1>2, <1>3, <1>4, <1>5, <1>6, <1>7 DEF Next

\* Frames go through a stream as through a pipe (ImplementsPipe), whatever the sizes of
\* buffer and frames: it may skip, but nothing is handled that was not written, changed or
\* late; and where a Read returns bytes of one write only, it does not skip.
THEOREM FramesGoThroughPipe == Spec => ImplementsPipe
<1>1. Init => AbstractPipe!Init
  BY DEF Init, AbstractPipe!Init
<1>2. Init => AInv
  BY InitAState DEF AInv
<1>. QED
  BY <1>1, <1>2, WInvHolds, AInvStep, PipeStep, PTL
     DEF Spec, ImplementsPipe, AbstractPipe!Spec

=============================================================================
