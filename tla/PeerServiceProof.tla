-------------------------- MODULE PeerServiceProof --------------------------
(***************************************************************************)
(* Theorems about PeerService, for every set of peers, keys and messages.  *)
(***************************************************************************)
EXTENDS PeerService, SequenceTheorems, FiniteSetTheorems, TLAPS

\* A peer without a connection has none of its state, and none is left when the
\* service has stopped.
Fresh ==
    /\ running => \A p \in PeerId \ connections :
                     /\ publicKey[p] = NoKey /\ held[p] = {} /\ ~isBanned[p]
                     /\ \A by \in Setter : Idle(p, by)
    /\ ~running => connections = {}

\* A connection had the key it has and those its setters may read, and only a
\* connection with a key is flagged or has a flush to come.
KeysTrue ==
    \A p \in PeerId :
        /\ publicKey[p] = NoKey => held[p] = {} /\ ~isBanned[p]
        /\ publicKey[p] # NoKey => publicKey[p] \in held[p]
        /\ \A by \in Setter : recovering[p][by] \subseteq held[p]

\* The setter whose key a connection has can read no other, and flushes its messages.
FlushComes ==
    \A p \in connections :
        publicKey[p] # NoKey =>
            \/ messages[publicKey[p]] = <<>>
            \/ \E by \in Setter : recovering[p][by] = {publicKey[p]}

PInv == TypeOK /\ Fresh /\ KeysTrue /\ FlushComes

LEMMA InitPInv == Init => PInv
<1> SUFFICES ASSUME Init PROVE PInv
  OBVIOUS
<1>1. TypeOK
  <2>1. connections \subseteq PeerId
    BY BootstrapAssumption DEF Init
  <2>2. messages \in [Key -> Seq(Msg)] /\ sent \in [PeerId -> Seq(Msg)]
    BY EmptySeq DEF Init
  <2>3. bans \in 0 .. MaxBans
    BY BansAssumption DEF Init
  <2>4. /\ verified \in [PeerId -> [Setter -> Key \union {NoKey}]]
        /\ recovering \in [PeerId -> [Setter -> SUBSET Key]]
    BY DEF Init
  <2>. QED
    BY <2>1, <2>2, <2>3, <2>4 DEF Init, TypeOK
<1>2. Fresh /\ KeysTrue /\ FlushComes
  BY <1>1 DEF TypeOK, Init, Fresh, KeysTrue, FlushComes, Idle
<1>. QED
  BY <1>1, <1>2 DEF PInv

\* What Send does to the histories has the right type.
LEMMA SendAllType ==
    ASSUME TypeOK, NEW p \in PeerId, NEW ms \in Seq(Msg), SendAll(p, ms)
    PROVE  sent' \in [PeerId -> Seq(Msg)] /\ refused' \in SUBSET Msg
<1>1. Elements(ms) \subseteq Msg
  BY DEF Elements
<1>2. CASE isBanned[p]
  BY <1>1, <1>2 DEF SendAll, TypeOK
<1>3. CASE ~isBanned[p]
  <2>1. sent[p] \o ms \in Seq(Msg)
    BY ConcatProperties DEF TypeOK
  <2>. QED
    BY <1>3, <2>1 DEF SendAll, TypeOK
<1>. QED
  BY <1>2, <1>3

LEMMA NetworkKeeps ==
    ASSUME PInv, NEW p \in PeerId,
           OnConnect(p) \/ UpdatePeerList(p) \/ ToggleStreams(p)
    PROVE  PInv'
<1> USE DEF PInv
<1>1. TypeOK'
  <2>1. active' \in [PeerId -> BOOLEAN]
    <3>1. CASE OnConnect(p)
      BY <3>1 DEF OnConnect, TypeOK
    <3>2. CASE ToggleStreams(p)
      BY <3>2 DEF ToggleStreams, TypeOK
    <3>. QED
      BY <3>1, <3>2 DEF UpdatePeerList, TypeOK
  <2>2. /\ connections' \subseteq PeerId
        /\ signature' \in BOOLEAN /\ hasSignature' \in SUBSET PeerId
    BY DEF OnConnect, UpdatePeerList, ToggleStreams, Add, signVars, TypeOK
  <2>3. UNCHANGED <<running, keyVars, banVars, msgVars>>
    BY DEF OnConnect, UpdatePeerList, ToggleStreams
  <2>. QED
    BY <2>1, <2>2, <2>3 DEF TypeOK, keyVars, banVars, msgVars
<1>2. /\ UNCHANGED <<running, keyVars, isBanned, messages>>
      /\ connections' = connections \/ (running /\ connections' = connections \union {p})
  BY DEF OnConnect, UpdatePeerList, ToggleStreams, Add, banVars, msgVars
<1>3. Fresh' /\ KeysTrue'
  BY <1>2 DEF Fresh, KeysTrue, keyVars, Idle
<1>4. FlushComes'
  BY <1>2 DEF Fresh, FlushComes, keyVars
<1>. QED
  BY <1>1, <1>3, <1>4

\* A setter validates a key: only what is about to be set changes, and the stream.
LEMMA ValidatingKeeps ==
    ASSUME PInv, NEW p \in PeerId, HandleSignature(p) \/ SetPeerPublicKey(p)
    PROVE  PInv'
<1> USE DEF PInv
<1>1. /\ p \in connections
      /\ UNCHANGED <<running, signVars, connections, publicKey, recovering, held, banVars,
                     msgVars>>
  BY DEF HandleSignature, SetPeerPublicKey
<1>2. active' \in [PeerId -> BOOLEAN]
  BY DEF HandleSignature, SetPeerPublicKey, TypeOK
<1>3. \/ verified' = verified
      \/ \E by \in Setter, k \in Key : verified' = [verified EXCEPT ![p][by] = k]
  BY KeyAssumption DEF HandleSignature, SetPeerPublicKey, Setter
<1>4. /\ verified' \in [PeerId -> [Setter -> Key \union {NoKey}]]
      /\ \A q \in PeerId \ {p} : verified'[q] = verified[q]
  <2>1. CASE verified' = verified
    BY <2>1 DEF TypeOK
  <2>2. ASSUME NEW by \in Setter, NEW k \in Key, verified' = [verified EXCEPT ![p][by] = k]
        PROVE  <1>4!1 /\ <1>4!2
    <3>1. verified[p] \in [Setter -> Key \union {NoKey}]
      BY DEF TypeOK
    <3>2. [verified[p] EXCEPT ![by] = k] \in [Setter -> Key \union {NoKey}]
      BY <3>1
    <3>3. verified' = [verified EXCEPT ![p] = [verified[p] EXCEPT ![by] = k]]
      BY <2>2
    <3>. QED
      BY <3>2, <3>3 DEF TypeOK
  <2>. QED
    BY <1>3, <2>1, <2>2
<1>5. TypeOK'
  BY <1>1, <1>2, <1>4 DEF TypeOK, signVars, banVars, msgVars
<1>6. Fresh'
  BY <1>1, <1>4 DEF Fresh, Idle, banVars
<1>7. KeysTrue' /\ FlushComes'
  BY <1>1 DEF KeysTrue, FlushComes, banVars, msgVars
<1>. QED
  BY <1>5, <1>6, <1>7

\* What the other variables are after a key is set.
KeySetTo(p, by, k) ==
    /\ k \in Key
    /\ running => p \in connections
    /\ publicKey' = [publicKey EXCEPT ![p] = k]
    /\ held' = [held EXCEPT ![p] = @ \union {k}]
    /\ recovering' \in [PeerId -> [Setter -> SUBSET Key]]
    /\ recovering'[p][by] = {k}
    /\ \A other \in Setter : recovering'[p][other] \subseteq recovering[p][other] \union {k}
    /\ \A q \in PeerId \ {p} : recovering'[q] = recovering[q]
    /\ verified' \in [PeerId -> [Setter -> Key \union {NoKey}]]
    /\ \A q \in PeerId \ {p} : verified'[q] = verified[q]
    /\ active' \in [PeerId -> BOOLEAN]
    /\ UNCHANGED <<running, signVars, connections, banVars, msgVars>>

LEMMA KeySetEffect ==
    ASSUME PInv, NEW p \in PeerId, NEW by \in Setter, KeySet(p, by)
    PROVE  KeySetTo(p, by, verified[p][by])
<1> DEFINE k == verified[p][by]
<1> USE DEF PInv
<1>1. verified[p] \in [Setter -> Key \union {NoKey}] /\ k \in Key
  BY DEF KeySet, TypeOK
<1>2. running => p \in connections
  BY <1>1, KeyAssumption DEF Fresh, Idle
<1>3. DEFINE now == [other \in Setter |->
                CASE other = by -> {k}
                  [] other # by /\ recovering[p][other] # {} -> recovering[p][other] \union {k}
                  [] OTHER -> {}]
<1>4. /\ now \in [Setter -> SUBSET Key] /\ now[by] = {k}
      /\ \A other \in Setter : now[other] \subseteq recovering[p][other] \union {k}
  <2>1. \A other \in Setter : recovering[p][other] \in SUBSET Key
    BY DEF TypeOK
  <2>2. \A other \in Setter : other # by =>
            now[other] = IF recovering[p][other] # {} THEN recovering[p][other] \union {k} ELSE {}
    OBVIOUS
  <2>3. now[by] = {k}
    OBVIOUS
  <2>4. \A other \in Setter : /\ now[other] \subseteq recovering[p][other] \union {k}
                              /\ now[other] \in SUBSET Key
    BY <1>1, <2>1, <2>2, <2>3
  <2>. QED
    BY <2>3, <2>4
<1>5. recovering' = [recovering EXCEPT ![p] = now]
  BY DEF KeySet, Recovering
<1> HIDE DEF now
<1>6. /\ recovering' \in [PeerId -> [Setter -> SUBSET Key]] /\ recovering'[p] = now
      /\ \A q \in PeerId \ {p} : recovering'[q] = recovering[q]
  BY <1>4, <1>5 DEF TypeOK
<1>7. /\ verified' \in [PeerId -> [Setter -> Key \union {NoKey}]]
      /\ \A q \in PeerId \ {p} : verified'[q] = verified[q]
  <2>1. [verified[p] EXCEPT ![by] = NoKey] \in [Setter -> Key \union {NoKey}]
    BY <1>1
  <2>2. verified' = [verified EXCEPT ![p] = [verified[p] EXCEPT ![by] = NoKey]]
    BY DEF KeySet
  <2>. QED
    BY <2>1, <2>2 DEF TypeOK
<1>8. active' \in [PeerId -> BOOLEAN]
  BY DEF KeySet, TypeOK
<1>9. /\ publicKey' = [publicKey EXCEPT ![p] = k]
      /\ held' = [held EXCEPT ![p] = @ \union {k}]
      /\ UNCHANGED <<running, signVars, connections, banVars, msgVars>>
  BY DEF KeySet
<1>. QED
  BY <1>1, <1>2, <1>4, <1>6, <1>7, <1>8, <1>9 DEF KeySetTo

LEMMA KeySetKeeps ==
    ASSUME PInv, NEW p \in PeerId, NEW by \in Setter, KeySet(p, by)
    PROVE  PInv'
<1> DEFINE k == verified[p][by]
<1>0. KeySetTo(p, by, k)
  BY KeySetEffect
<1> HIDE DEF k
<1> USE DEF PInv
<1>1. TypeOK'
  <2>1. publicKey' \in [PeerId -> Key \union {NoKey}] /\ held' \in [PeerId -> SUBSET Key]
    BY <1>0 DEF KeySetTo, TypeOK
  <2>. QED
    BY <1>0, <2>1 DEF KeySetTo, TypeOK, signVars, banVars, msgVars
<1>2. \A q \in PeerId \ {p} : publicKey'[q] = publicKey[q] /\ held'[q] = held[q]
  BY <1>0 DEF KeySetTo, TypeOK
<1>3. publicKey'[p] = k /\ held'[p] = held[p] \union {k} /\ k \in Key /\ k # NoKey
  BY <1>0, KeyAssumption DEF KeySetTo, TypeOK
<1>4. Fresh'
  BY <1>0, <1>2 DEF KeySetTo, Fresh, Idle, banVars
<1>5. KeysTrue'
  <2>1. ASSUME NEW q \in PeerId, q # p
        PROVE  /\ publicKey'[q] = NoKey => held'[q] = {} /\ ~isBanned'[q]
               /\ publicKey'[q] # NoKey => publicKey'[q] \in held'[q]
               /\ \A other \in Setter : recovering'[q][other] \subseteq held'[q]
    BY <1>0, <1>2, <2>1 DEF KeySetTo, KeysTrue, banVars
  <2>2. \A other \in Setter : recovering'[p][other] \subseteq held'[p]
    BY <1>0, <1>3 DEF KeySetTo, KeysTrue
  <2>. QED
    BY <1>3, <2>1, <2>2 DEF KeysTrue
<1>6. FlushComes'
  <2>1. ASSUME NEW q \in connections', publicKey'[q] # NoKey
        PROVE  \/ messages'[publicKey'[q]] = <<>>
               \/ \E other \in Setter : recovering'[q][other] = {publicKey'[q]}
    <3>1. q \in connections /\ q \in PeerId /\ messages' = messages
      BY <1>0, <2>1 DEF KeySetTo, TypeOK, msgVars
    <3>2. CASE q = p
      BY <1>0, <1>3, <3>2 DEF KeySetTo
    <3>3. CASE q # p
      <4>1. publicKey'[q] = publicKey[q] /\ recovering'[q] = recovering[q]
        BY <1>0, <1>2, <3>1, <3>3 DEF KeySetTo
      <4>. QED
        BY <2>1, <3>1, <4>1 DEF FlushComes
    <3>. QED
      BY <3>2, <3>3
  <2>. QED
    BY <2>1 DEF FlushComes
<1>. QED
  BY <1>1, <1>4, <1>5, <1>6

\* A setter is done with p.
DoneRecovering(p, by) ==
    /\ recovering' \in [PeerId -> [Setter -> SUBSET Key]]
    /\ recovering'[p][by] = {}
    /\ \A other \in Setter \ {by} : recovering'[p][other] = recovering[p][other]
    /\ \A q \in PeerId \ {p} : recovering'[q] = recovering[q]

LEMMA RecoveredEffect ==
    ASSUME PInv, NEW p \in PeerId, NEW by \in Setter, OnPublicKeyRecovered(p, by)
    PROVE  DoneRecovering(p, by)
<1>1. recovering[p] \in [Setter -> SUBSET Key] /\ recovering \in [PeerId -> [Setter -> SUBSET Key]]
  BY DEF PInv, TypeOK
<1>2. recovering' = [recovering EXCEPT ![p] = [recovering[p] EXCEPT ![by] = {}]]
  BY DEF OnPublicKeyRecovered
<1>3. [recovering[p] EXCEPT ![by] = {}] \in [Setter -> SUBSET Key]
  BY <1>1
<1>. QED
  BY <1>1, <1>2, <1>3 DEF DoneRecovering

LEMMA RecoveredKeeps ==
    ASSUME PInv, NEW p \in PeerId, NEW by \in Setter, OnPublicKeyRecovered(p, by)
    PROVE  PInv'
<1>0. DoneRecovering(p, by)
  BY RecoveredEffect
<1> USE DEF PInv
<1>1. UNCHANGED <<running, signVars, connections, active, publicKey, verified, held,
                  bannedPeer, bans, addressed, broadcast>>
  BY DEF OnPublicKeyRecovered
<1>2. PICK k \in recovering[p][by] :
        IF running THEN Flush(p, k) /\ CopyBan(p, k)
                   ELSE UNCHANGED <<isBanned, messages, sent, refused>>
  BY DEF OnPublicKeyRecovered
<1>3. k \in Key /\ publicKey[p] # NoKey
  BY <1>2 DEF TypeOK, KeysTrue
<1>4. \A q \in PeerId, other \in Setter : recovering'[q][other] \subseteq recovering[q][other]
  BY <1>0 DEF DoneRecovering
<1>5. CASE running
  <2>1. /\ SendAll(p, messages[k])
        /\ messages' = [messages EXCEPT ![k] = <<>>]
        /\ isBanned' = [isBanned EXCEPT ![p] = @ \/ bannedPeer[k]]
    BY <1>2, <1>5 DEF Flush, CopyBan
  <2>2. messages[k] \in Seq(Msg)
    BY <1>3 DEF TypeOK
  <2>3. sent' \in [PeerId -> Seq(Msg)] /\ refused' \in SUBSET Msg
    BY <2>1, <2>2, SendAllType
  <2>4. messages' \in [Key -> Seq(Msg)]
    BY <2>1, EmptySeq DEF TypeOK
  <2>5. isBanned' \in [PeerId -> BOOLEAN]
    BY <1>3, <2>1 DEF TypeOK
  <2>6. TypeOK'
    BY <1>0, <1>1, <2>3, <2>4, <2>5 DEF DoneRecovering, TypeOK, signVars
  <2>7. p \in connections
    BY <1>2, <1>5 DEF Fresh, Idle
  <2>8. \A q \in PeerId \ {p} : isBanned'[q] = isBanned[q]
    BY <2>1 DEF TypeOK
  <2>9. Fresh'
    BY <1>0, <1>1, <1>5, <2>7, <2>8 DEF DoneRecovering, Fresh, Idle
  <2>10. KeysTrue'
    <3>1. \A q \in PeerId, other \in Setter : recovering'[q][other] \subseteq held'[q]
      BY <1>1, <1>4 DEF KeysTrue
    <3>2. \A q \in PeerId : publicKey[q] = NoKey => held[q] = {} /\ ~isBanned'[q]
      BY <1>3, <2>8 DEF KeysTrue
    <3>. QED
      BY <1>1, <3>1, <3>2 DEF KeysTrue
  <2>11. FlushComes'
    <3>1. SUFFICES ASSUME NEW q \in connections, publicKey[q] # NoKey
                   PROVE  \/ messages'[publicKey[q]] = <<>>
                          \/ \E other \in Setter : recovering'[q][other] = {publicKey[q]}
      BY <1>1 DEF FlushComes
    <3>2. q \in PeerId /\ publicKey[q] \in Key
      BY <3>1 DEF TypeOK
    <3>3. CASE messages[publicKey[q]] = <<>>
      BY <2>1, <3>2, <3>3 DEF TypeOK
    <3>4. ASSUME NEW other \in Setter, recovering[q][other] = {publicKey[q]}
          PROVE  \/ messages'[publicKey[q]] = <<>>
                 \/ recovering'[q][other] = {publicKey[q]}
      <4>1. CASE q = p /\ other = by
        <5>1. k = publicKey[q]
          BY <1>2, <3>4, <4>1
        <5>. QED
          BY <2>1, <3>2, <5>1 DEF TypeOK
      <4>2. CASE ~(q = p /\ other = by)
        BY <1>0, <3>2, <3>4, <4>2 DEF DoneRecovering
      <4>. QED
        BY <4>1, <4>2
    <3>. QED
      BY <3>1, <3>3, <3>4 DEF FlushComes
  <2>. QED
    BY <2>6, <2>9, <2>10, <2>11
<1>6. CASE ~running
  <2>1. UNCHANGED <<isBanned, messages, sent, refused>> /\ connections = {}
    BY <1>2, <1>6 DEF Fresh
  <2>2. TypeOK'
    BY <1>0, <1>1, <2>1 DEF DoneRecovering, TypeOK, signVars
  <2>3. Fresh' /\ FlushComes'
    BY <1>1, <1>6, <2>1 DEF Fresh, FlushComes
  <2>4. KeysTrue'
    BY <1>1, <1>4, <2>1 DEF KeysTrue
  <2>. QED
    BY <2>2, <2>3, <2>4
<1>. QED
  BY <1>5, <1>6

LEMMA ApplicationKeeps ==
    ASSUME PInv,
           \/ \E k \in Key, m \in Msg : SendDirectly(k, m) \/ StoreMessage(k, m)
           \/ \E m \in Msg : BroadcastMessage(m)
           \/ \E k \in Key : BanPeer(k) \/ RemoveFromBanList(k)
           \/ SetSignature
           \/ Stop
    PROVE  PInv'
<1> USE DEF PInv
<1>1. ASSUME NEW k \in Key, NEW m \in Msg, SendDirectly(k, m) PROVE PInv'
  <2>1. PICK p \in WithKey(k) : SendAll(p, <<m>>)
    BY <1>1 DEF SendDirectly
  <2>2. p \in PeerId /\ <<m>> \in Seq(Msg)
    BY <2>1 DEF WithKey, TypeOK
  <2>3. sent' \in [PeerId -> Seq(Msg)] /\ refused' \in SUBSET Msg
    BY <2>1, <2>2, SendAllType
  <2>4. UNCHANGED <<running, signVars, connVars, banVars, messages, broadcast>>
        /\ addressed' = [addressed EXCEPT ![k] = @ \union {m}]
    BY <1>1 DEF SendDirectly
  <2>5. TypeOK'
    BY <2>3, <2>4 DEF TypeOK, signVars, connVars, keyVars, banVars
  <2>. QED
    BY <2>4, <2>5 DEF Fresh, KeysTrue, FlushComes, Idle, connVars, keyVars, banVars
<1>2. ASSUME NEW k \in Key, NEW m \in Msg, StoreMessage(k, m) PROVE PInv'
  <2>1. /\ UNCHANGED <<running, signVars, connVars, banVars, sent, broadcast>>
        /\ WithKey(k) = {}
        /\ messages' = [messages EXCEPT ![k] = IF bannedPeer[k] THEN @ ELSE Append(@, m)]
        /\ refused' = IF bannedPeer[k] THEN refused \union {m} ELSE refused
        /\ addressed' = [addressed EXCEPT ![k] = @ \union {m}]
    BY <1>2 DEF StoreMessage
  <2>2. Append(messages[k], m) \in Seq(Msg)
    BY AppendProperties DEF TypeOK
  <2>3. messages' \in [Key -> Seq(Msg)]
    BY <2>1, <2>2 DEF TypeOK
  <2>4. TypeOK'
    BY <2>1, <2>3 DEF TypeOK, signVars, connVars, keyVars, banVars
  <2>5. Fresh' /\ KeysTrue'
    BY <2>1 DEF Fresh, KeysTrue, Idle, connVars, keyVars, banVars
  <2>6. FlushComes'
    <3>1. \A q \in connections : publicKey[q] # k
      BY <2>1 DEF WithKey
    <3>2. \A q \in connections : publicKey[q] # NoKey => publicKey[q] \in Key
      BY DEF TypeOK
    <3>3. \A l \in Key \ {k} : messages'[l] = messages[l]
      BY <2>1 DEF TypeOK
    <3>. QED
      BY <2>1, <3>1, <3>2, <3>3 DEF FlushComes, connVars, keyVars
  <2>. QED
    BY <2>4, <2>5, <2>6
<1>3. ASSUME NEW m \in Msg, BroadcastMessage(m) PROVE PInv'
  <2>1. \A p \in PeerId : Append(sent[p], m) \in Seq(Msg) /\ sent[p] \in Seq(Msg)
    BY AppendProperties DEF TypeOK
  <2>2. sent' \in [PeerId -> Seq(Msg)]
    BY <1>3, <2>1 DEF BroadcastMessage
  <2>3. UNCHANGED <<running, signVars, connVars, banVars, messages, addressed, refused>>
        /\ broadcast' = broadcast \union {m}
    BY <1>3 DEF BroadcastMessage
  <2>4. TypeOK'
    BY <2>2, <2>3 DEF TypeOK, signVars, connVars, keyVars, banVars
  <2>. QED
    BY <2>3, <2>4 DEF Fresh, KeysTrue, FlushComes, Idle, connVars, keyVars, banVars
<1>4. ASSUME NEW k \in Key, NEW banned \in BOOLEAN, SetBan(k, banned) PROVE PInv'
  <2>1. UNCHANGED <<running, signVars, connVars, msgVars>>
    BY <1>4 DEF SetBan
  <2>2. \/ isBanned' = isBanned
        \/ \E p \in WithKey(k) : isBanned' = [isBanned EXCEPT ![p] = banned]
    BY <1>4 DEF SetBan
  <2>3. isBanned' \in [PeerId -> BOOLEAN]
        /\ \A p \in PeerId \ WithKey(k) : isBanned'[p] = isBanned[p]
    BY <2>2 DEF TypeOK, WithKey
  <2>4. bans' \in 0 .. MaxBans /\ bannedPeer' \in [Key -> BOOLEAN]
    BY <1>4, BansAssumption DEF SetBan, TypeOK
  <2>5. TypeOK'
    BY <2>1, <2>3, <2>4 DEF TypeOK, signVars, connVars, keyVars, msgVars
  <2>6. Fresh' /\ KeysTrue'
    BY <2>1, <2>3, KeyAssumption DEF Fresh, KeysTrue, Idle, WithKey, connVars, keyVars
  <2>7. FlushComes'
    BY <2>1 DEF FlushComes, connVars, keyVars, msgVars
  <2>. QED
    BY <2>5, <2>6, <2>7
<1>5. CASE Stop
  <2>1. TypeOK'
    BY <1>5 DEF Stop, TypeOK, keyVars, signVars, banVars, msgVars
  <2>2. Fresh' /\ KeysTrue' /\ FlushComes'
    BY <1>5 DEF Stop, Fresh, KeysTrue, FlushComes, keyVars, banVars
  <2>. QED
    BY <2>1, <2>2
<1>6. CASE SetSignature
  <2>1. /\ UNCHANGED <<running, connVars, banVars, msgVars>>
        /\ signature' \in BOOLEAN /\ hasSignature' \in SUBSET PeerId
    BY <1>6 DEF SetSignature, TypeOK
  <2>2. TypeOK'
    BY <2>1 DEF TypeOK, connVars, keyVars, banVars, msgVars
  <2>3. Fresh' /\ KeysTrue' /\ FlushComes'
    BY <2>1 DEF Fresh, KeysTrue, FlushComes, Idle, connVars, keyVars, banVars, msgVars
  <2>. QED
    BY <2>2, <2>3
<1>. QED
  BY <1>1, <1>2, <1>3, <1>4, <1>5, <1>6 DEF BanPeer, RemoveFromBanList

LEMMA PInvStep == PInv /\ [Next]_vars => PInv'
<1> SUFFICES ASSUME PInv, [Next]_vars PROVE PInv'
  OBVIOUS
<1>1. CASE UNCHANGED vars
  <2>1. TypeOK'
    BY <1>1 DEF vars, signVars, connVars, keyVars, banVars, msgVars, PInv, TypeOK
  <2>2. Fresh' /\ KeysTrue' /\ FlushComes'
    BY <1>1 DEF vars, connVars, keyVars, banVars, msgVars, PInv, Fresh, KeysTrue,
                FlushComes, Idle
  <2>. QED
    BY <2>1, <2>2 DEF PInv
<1>2. CASE Network
  BY <1>2, NetworkKeeps, ValidatingKeeps, KeySetKeeps, RecoveredKeeps DEF Network
<1>3. CASE Application
  BY <1>3, ValidatingKeeps, ApplicationKeeps DEF Application
<1>. QED
  BY <1>1, <1>2, <1>3 DEF Next

\* TypeOK, for every set of peers, keys and messages.
THEOREM RegistryTypes == Spec => []TypeOK
<1>1. PInv => TypeOK
  BY DEF PInv
<1>. QED
  BY InitPInv, PInvStep, <1>1, PTL DEF Spec

\* No message waits for a peer that is there (PostponedFlushed), also when peers
\* share keys and when the two setters set different ones.
THEOREM NothingWaits == Spec => []PostponedFlushed
<1>1. PInv => PostponedFlushed
  BY DEF PInv, FlushComes, PostponedFlushed, Recovered
<1>. QED
  BY InitPInv, PInvStep, <1>1, PTL DEF Spec

\* No connection lacks the hub's signature once it is set (SignatureEverywhere).
THEOREM EveryConnectionSigned == Spec => []SignatureEverywhere
<1>1. Init => SignatureEverywhere
  BY DEF Init, SignatureEverywhere
<1>2. ASSUME SignatureEverywhere, [Next]_vars PROVE SignatureEverywhere'
  <2>1. ASSUME NEW p \in PeerId, Network PROVE SignatureEverywhere'
    BY <1>2, <2>1 DEF Network, OnConnect, UpdatePeerList, ToggleStreams, HandleSignature,
                      KeySet, OnPublicKeyRecovered, Add, signVars, SignatureEverywhere
  <2>2. CASE SetSignature
    BY <2>2 DEF SetSignature, connVars, SignatureEverywhere
  <2>3. CASE Application /\ ~SetSignature
    <3>1. UNCHANGED signVars /\ connections' \in {connections, {}}
      BY <2>3 DEF Application, SetPeerPublicKey, SendDirectly, StoreMessage,
                  BroadcastMessage, BanPeer, RemoveFromBanList, SetBan, Stop, connVars
    <3>. QED
      BY <1>2, <3>1 DEF signVars, SignatureEverywhere
  <2>4. CASE UNCHANGED vars
    BY <1>2, <2>4 DEF vars, signVars, connVars, SignatureEverywhere
  <2>. QED
    BY <1>2, <2>1, <2>2, <2>3, <2>4 DEF Next, Network
<1>. QED
  BY <1>1, <1>2, PTL DEF Spec

-----------------------------------------------------------------------------
(* The ban lists agree about a connection that had one key, and alone.     *)

\* A flagged connection's key is on the list at any time, and the converse once
\* the key was recovered.
BInv ==
    \A p \in connections : Alone(p) =>
        /\ isBanned[p] => bannedPeer[publicKey[p]]
        /\ Recovered(p) /\ bannedPeer[publicKey[p]] => isBanned[p]

\* A ban, or its removal, finds the one connection with the key.
LEMMA SetBanKeepsBInv ==
    ASSUME PInv, BInv, NEW k \in Key, NEW banned \in BOOLEAN, SetBan(k, banned)
    PROVE  BInv'
<1>1. /\ UNCHANGED <<connections, publicKey, recovering, held>>
      /\ bannedPeer' = [bannedPeer EXCEPT ![k] = banned]
  BY DEF SetBan, connVars, keyVars
<1>2. SUFFICES ASSUME NEW q \in connections, Alone(q)
               PROVE  /\ isBanned'[q] => bannedPeer'[publicKey[q]]
                      /\ Recovered(q) /\ bannedPeer'[publicKey[q]] => isBanned'[q]
  BY <1>1 DEF BInv, Recovered, Alone
<1>3. q \in PeerId
  BY DEF PInv, TypeOK
<1>4. CASE publicKey[q] = k
  <2>1. q \in WithKey(k)
    BY <1>3, <1>4 DEF WithKey
  <2>2. PICK p \in WithKey(k) : isBanned' = [isBanned EXCEPT ![p] = banned]
    BY <2>1 DEF SetBan
  <2>3. p \in PeerId /\ publicKey[p] = k
    BY <2>2 DEF WithKey, PInv, TypeOK
  <2>4. k # NoKey
    BY KeyAssumption
  <2>5. k \in held[p]
    BY <2>3, <2>4 DEF PInv, KeysTrue
  <2>6. p = q
    BY <1>2, <1>4, <2>3, <2>5 DEF Alone
  <2>7. isBanned'[q] = banned
    BY <1>3, <2>2, <2>6 DEF PInv, TypeOK
  <2>8. bannedPeer'[publicKey[q]] = banned
    BY <1>1, <1>4 DEF PInv, TypeOK
  <2>. QED
    BY <2>7, <2>8
<1>5. CASE publicKey[q] # k
  <2>1. isBanned'[q] = isBanned[q]
    BY <1>3, <1>5 DEF SetBan, WithKey, PInv, TypeOK
  <2>2. bannedPeer'[publicKey[q]] = bannedPeer[publicKey[q]]
    BY <1>1, <1>5 DEF PInv, TypeOK
  <2>. QED
    BY <1>2, <2>1, <2>2 DEF BInv
<1>. QED
  BY <1>4, <1>5

\* A key is set: a peer that has no other was not flagged before, or had this key.
LEMMA KeySetKeepsBInv ==
    ASSUME PInv, BInv, NEW p \in PeerId, NEW by \in Setter, KeySet(p, by)
    PROVE  BInv'
<1> DEFINE k == verified[p][by]
<1>0. KeySetTo(p, by, k)
  BY KeySetEffect
<1> HIDE DEF k
<1>1. /\ UNCHANGED <<connections, isBanned, bannedPeer>>
      /\ publicKey'[p] = k /\ held'[p] = held[p] \union {k} /\ k \in Key
      /\ \A q \in PeerId \ {p} : /\ publicKey'[q] = publicKey[q] /\ held'[q] = held[q]
                                 /\ recovering'[q] = recovering[q]
  BY <1>0 DEF KeySetTo, PInv, TypeOK, banVars
<1>2. SUFFICES ASSUME NEW q \in connections, Alone(q)'
               PROVE  /\ isBanned[q] => bannedPeer[publicKey'[q]]
                      /\ Recovered(q)' /\ bannedPeer[publicKey'[q]] => isBanned[q]
  BY <1>1 DEF BInv
<1>3. q \in PeerId
  BY DEF PInv, TypeOK
<1>4. CASE q = p
  <2>1. ~Recovered(q)'
    BY <1>0, <1>4 DEF KeySetTo, Recovered
  <2>2. held[p] \subseteq {k} /\ \A r \in PeerId \ {p} : k \notin held[r]
    BY <1>1, <1>2, <1>4 DEF Alone
  <2>3. ASSUME isBanned[p] PROVE bannedPeer[k]
    <3>1. publicKey[p] # NoKey /\ publicKey[p] \in held[p]
      BY <2>3 DEF PInv, KeysTrue
    <3>2. publicKey[p] = k /\ Alone(p)
      BY <2>2, <3>1 DEF Alone
    <3>. QED
      BY <1>4, <2>3, <3>2 DEF BInv
  <2>. QED
    BY <1>1, <1>4, <2>1, <2>3
<1>5. CASE q # p
  <2>1. /\ publicKey'[q] = publicKey[q] /\ held'[q] = held[q]
        /\ (Recovered(q)' => Recovered(q))
    BY <1>1, <1>3, <1>5 DEF Recovered
  <2>2. \A r \in PeerId : held[r] \subseteq held'[r]
    BY <1>1
  <2>3. Alone(q)
    BY <1>2, <2>1, <2>2 DEF Alone
  <2>. QED
    BY <2>1, <2>3 DEF BInv
<1>. QED
  BY <1>4, <1>5

\* The flag is copied from the list; for other connections nothing changes.
LEMMA RecoveredKeepsBInv ==
    ASSUME PInv, BInv, NEW p \in PeerId, NEW by \in Setter, OnPublicKeyRecovered(p, by)
    PROVE  BInv'
<1>0. DoneRecovering(p, by)
  BY RecoveredEffect
<1>1. UNCHANGED <<running, connections, publicKey, held, bannedPeer>>
  BY DEF OnPublicKeyRecovered
<1>2. CASE ~running
  BY <1>1, <1>2 DEF BInv, PInv, Fresh
<1>3. CASE running
  <2>1. PICK k \in recovering[p][by] : isBanned' = [isBanned EXCEPT ![p] = @ \/ bannedPeer[k]]
    BY <1>3 DEF OnPublicKeyRecovered, CopyBan
  <2>2. SUFFICES ASSUME NEW q \in connections, Alone(q)
                 PROVE  /\ isBanned'[q] => bannedPeer[publicKey[q]]
                        /\ Recovered(q)' /\ bannedPeer[publicKey[q]] => isBanned'[q]
    BY <1>1 DEF BInv, Alone
  <2>3. q \in PeerId
    BY DEF PInv, TypeOK
  <2>4. CASE q = p
    <3>1. k = publicKey[q]
      BY <2>1, <2>2, <2>4 DEF Alone, PInv, KeysTrue
    <3>2. isBanned'[q] <=> isBanned[q] \/ bannedPeer[publicKey[q]]
      BY <2>1, <2>3, <2>4, <3>1 DEF PInv, TypeOK
    <3>. QED
      BY <2>2, <3>2 DEF BInv
  <2>5. CASE q # p
    <3>1. isBanned'[q] = isBanned[q]
      BY <2>1, <2>3, <2>5 DEF PInv, TypeOK
    <3>2. Recovered(q)' => Recovered(q)
      BY <1>0, <1>1, <2>3, <2>5 DEF DoneRecovering, Recovered
    <3>. QED
      BY <2>2, <3>1, <3>2 DEF BInv
  <2>. QED
    BY <2>4, <2>5
<1>. QED
  BY <1>2, <1>3

\* Every other step leaves keys, flags and list alone; a new connection has none.
LEMMA OthersKeepBInv ==
    ASSUME PInv, BInv,
           \/ \E p \in PeerId : \/ OnConnect(p) \/ UpdatePeerList(p) \/ ToggleStreams(p)
                               \/ HandleSignature(p) \/ SetPeerPublicKey(p)
           \/ \E k \in Key, m \in Msg : SendDirectly(k, m) \/ StoreMessage(k, m)
           \/ \E m \in Msg : BroadcastMessage(m)
           \/ SetSignature
           \/ Stop
           \/ UNCHANGED vars
    PROVE  BInv'
<1>1. UNCHANGED <<publicKey, recovering, held, isBanned, bannedPeer>>
  BY DEF OnConnect, UpdatePeerList, ToggleStreams, HandleSignature, SetPeerPublicKey,
         SendDirectly, StoreMessage, BroadcastMessage, SetSignature, Stop, Add, banVars,
         connVars, keyVars, vars
<1>2. \/ connections' \subseteq connections
      \/ running /\ \E p \in PeerId : connections' = connections \union {p}
  BY DEF OnConnect, UpdatePeerList, ToggleStreams, HandleSignature, SetPeerPublicKey,
         SendDirectly, StoreMessage, BroadcastMessage, SetSignature, Stop, Add, connVars,
         vars
<1>3. \A q \in connections' \ connections : publicKey[q] = NoKey /\ held[q] = {}
  BY <1>2 DEF PInv, Fresh
<1>4. \A q \in connections' : Alone(q) => q \in connections
  BY <1>3 DEF Alone
<1>. QED
  BY <1>1, <1>4 DEF BInv, Recovered, Alone

\* BansAgree for every set of peers and keys, whichever peers share them: the list and
\* the flag agree about every connection whose key no other had.
THEOREM BanListsAgree == Spec => []BansAgree
<1>1. Init => PInv /\ BInv
  BY InitPInv, BootstrapAssumption DEF Init, BInv, Alone
<1>2. ASSUME PInv, BInv, [Next]_vars PROVE BInv'
  BY <1>2, SetBanKeepsBInv, KeySetKeepsBInv, RecoveredKeepsBInv, OthersKeepBInv
     DEF Next, Network, Application, BanPeer, RemoveFromBanList
<1>3. PInv /\ BInv /\ [Next]_vars => (PInv /\ BInv)'
  BY <1>2, PInvStep
<1>4. PInv /\ BInv => BansAgree
  <2>1. SUFFICES ASSUME PInv, BInv, NEW p \in PeerId, Recovered(p), Alone(p)
                 PROVE  isBanned[p] = bannedPeer[publicKey[p]]
    BY DEF BansAgree
  <2>2. isBanned[p] <=> bannedPeer[publicKey[p]]
    BY <2>1 DEF BInv, Recovered
  <2>3. publicKey[p] \in Key
    BY <2>1 DEF PInv, TypeOK, Recovered
  <2>4. isBanned[p] \in BOOLEAN /\ bannedPeer[publicKey[p]] \in BOOLEAN
    BY <2>1, <2>3 DEF PInv, TypeOK
  <2>. QED
    BY <2>2, <2>4
<1>. QED
  BY <1>1, <1>3, <1>4, PTL DEF Spec

-----------------------------------------------------------------------------
(* Every message of SendMessageToPeer is handled once.                     *)

LEMMA PositionsEmpty ==
    ASSUME NEW s, NEW m
    PROVE  Positions(s, m) = {} <=> m \notin Elements(s)
BY DEF Positions, Elements

LEMMA PositionsConcat ==
    ASSUME NEW s \in Seq(Msg), NEW t \in Seq(Msg), NEW m
    PROVE  Positions(s \o t, m) =
               Positions(s, m) \union {Len(s) + i : i \in Positions(t, m)}
<1>1. /\ s \o t \in Seq(Msg) /\ Len(s \o t) = Len(s) + Len(t)
      /\ \A i \in 1 .. Len(s) + Len(t) :
            (s \o t)[i] = IF i <= Len(s) THEN s[i] ELSE t[i - Len(s)]
  BY ConcatProperties
<1>2. Len(s) \in Nat /\ Len(t) \in Nat
  BY LenProperties
<1>3. ASSUME NEW i \in Positions(s \o t, m)
      PROVE  i \in Positions(s, m) \union {Len(s) + j : j \in Positions(t, m)}
  <2>1. i \in 1 .. Len(s) + Len(t) /\ (s \o t)[i] = m
    BY <1>1, <1>3 DEF Positions
  <2>2. CASE i <= Len(s)
    BY <1>1, <1>2, <2>1, <2>2 DEF Positions
  <2>3. CASE ~(i <= Len(s))
    <3>1. i - Len(s) \in 1 .. Len(t) /\ t[i - Len(s)] = m /\ i = Len(s) + (i - Len(s))
      BY <1>1, <1>2, <2>1, <2>3
    <3>. QED
      BY <3>1 DEF Positions
  <2>. QED
    BY <2>2, <2>3
<1>4. ASSUME NEW i \in Positions(s, m) PROVE i \in Positions(s \o t, m)
  BY <1>1, <1>2, <1>4 DEF Positions
<1>5. ASSUME NEW j \in Positions(t, m) PROVE Len(s) + j \in Positions(s \o t, m)
  <2>1. j \in 1 .. Len(t) /\ t[j] = m
    BY <1>5 DEF Positions
  <2>2. /\ Len(s) + j \in 1 .. Len(s) + Len(t) /\ ~(Len(s) + j <= Len(s))
        /\ Len(s) + j - Len(s) = j
    BY <1>2, <2>1
  <2>. QED
    BY <1>1, <2>1, <2>2 DEF Positions
<1>. QED
  BY <1>3, <1>4, <1>5

\* What a sequence to which one message is appended has of it and of the others.
LEMMA PositionsAppend ==
    ASSUME NEW s \in Seq(Msg), NEW x \in Msg, NEW m
    PROVE  /\ m # x => Positions(Append(s, x), m) = Positions(s, m)
           /\ m = x /\ m \notin Elements(s)
                => Positions(Append(s, x), m) = {Len(s) + 1}
<1>1. /\ Append(s, x) \in Seq(Msg) /\ Len(Append(s, x)) = Len(s) + 1
      /\ \A i \in 1 .. Len(s) : Append(s, x)[i] = s[i]
      /\ Append(s, x)[Len(s) + 1] = x
  BY AppendProperties
<1>2. Len(s) \in Nat
  BY LenProperties
<1>3. 1 .. Len(s) + 1 = (1 .. Len(s)) \union {Len(s) + 1}
  BY <1>2
<1>. QED
  BY <1>1, <1>2, <1>3 DEF Positions, Elements

LEMMA PositionsNothing == ASSUME NEW m PROVE Positions(<<>>, m) = {}
BY DEF Positions

Once(s, m) == \E i : Positions(s, m) = {i}

\* A message for k is in one place: postponed, or queued once at one connection,
\* or refused.
Postponed(k, m) ==
    /\ Once(messages[k], m)
    /\ \A p \in PeerId : Positions(sent[p], m) = {}
    /\ m \notin refused

QueuedAt(p, k, m) ==
    /\ Positions(messages[k], m) = {}
    /\ Once(sent[p], m)
    /\ \A q \in PeerId \ {p} : Positions(sent[q], m) = {}
    /\ m \notin refused

Refused(k, m) ==
    /\ Positions(messages[k], m) = {}
    /\ \A p \in PeerId : Positions(sent[p], m) = {}
    /\ m \in refused

InOnePlace(k, m) ==
    Postponed(k, m) \/ (\E p \in PeerId : QueuedAt(p, k, m)) \/ Refused(k, m)

\* A message a connection may have been given: for all, or for a key it has had.
MayHave(p, m) == m \in broadcast \/ \E k \in held[p] : m \in addressed[k]

\* A message was sent by one call, for one key or for all: only such messages are
\* postponed, queued or refused, and those for a key at connections with the key.
OneCall ==
    /\ \A k \in Key : /\ addressed[k] \intersect broadcast = {}
                      /\ \A l \in Key \ {k} : addressed[k] \intersect addressed[l] = {}
                      /\ Elements(messages[k]) \subseteq addressed[k]
    /\ \A p \in PeerId : \A m \in Elements(sent[p]) : MayHave(p, m)
    /\ \A m \in refused : \E k \in Key : m \in addressed[k]

HInv == OneCall /\ \A k \in Key : \A m \in addressed[k] : InOnePlace(k, m)

LEMMA InitHInv == Init => HInv
BY DEF Init, HInv, OneCall, Elements

\* A message nobody has sent yet is nowhere.
LEMMA NewIsNowhere ==
    ASSUME PInv, HInv, NEW m \in Msg, New(m)
    PROVE  /\ m \notin broadcast /\ m \notin refused
           /\ \A k \in Key : m \notin addressed[k] /\ Positions(messages[k], m) = {}
           /\ \A p \in PeerId : Positions(sent[p], m) = {}
<1>1. m \notin broadcast /\ \A k \in Key : m \notin addressed[k]
  BY DEF New
<1>2. m \notin refused
  BY <1>1 DEF HInv, OneCall
<1>3. \A k \in Key : m \notin Elements(messages[k])
  BY <1>1 DEF HInv, OneCall
<1>4. \A p \in PeerId : m \notin Elements(sent[p])
  <2>1. \A p \in PeerId : held[p] \subseteq Key
    BY DEF PInv, TypeOK
  <2>. QED
    BY <1>1, <2>1 DEF HInv, OneCall, MayHave
<1>. QED
  BY <1>1, <1>2, <1>3, <1>4, PositionsEmpty

\* A step that does not touch a message leaves it where it is.
LEMMA UntouchedStays ==
    ASSUME NEW k, NEW m, InOnePlace(k, m),
           Positions(messages'[k], m) = Positions(messages[k], m),
           \A p \in PeerId : Positions(sent'[p], m) = Positions(sent[p], m),
           m \in refused' <=> m \in refused
    PROVE  InOnePlace(k, m)'
<1>1. ASSUME Postponed(k, m) PROVE Postponed(k, m)'
  BY <1>1 DEF Postponed, Once
<1>2. ASSUME NEW p \in PeerId, QueuedAt(p, k, m) PROVE QueuedAt(p, k, m)'
  BY <1>2 DEF QueuedAt, Once
<1>3. ASSUME Refused(k, m) PROVE Refused(k, m)'
  BY <1>3 DEF Refused
<1>. QED
  BY <1>1, <1>2, <1>3 DEF InOnePlace

\* What a connection may have been given is not taken back.
LEMMA MayHaveStays ==
    ASSUME NEW p \in PeerId, held[p] \in SUBSET Key, held[p] \subseteq held'[p],
           broadcast \subseteq broadcast',
           \A k \in Key : addressed[k] \subseteq addressed'[k],
           NEW m, MayHave(p, m)
    PROVE  MayHave(p, m)'
BY DEF MayHave

\* HInv after a step whose histories and stores are the same, but for keys set.
LEMMA UnchangedKeepsHInv ==
    ASSUME PInv, HInv, UNCHANGED msgVars, \A p \in PeerId : held[p] \subseteq held'[p]
    PROVE  HInv'
<1>1. UNCHANGED <<messages, sent, addressed, refused, broadcast>>
  BY DEF msgVars
<1>2. OneCall'
  <2>1. \A p \in PeerId : held[p] \in SUBSET Key
    BY DEF PInv, TypeOK
  <2>2. \A p \in PeerId : \A m \in Elements(sent[p]) : MayHave(p, m)'
    BY <1>1, <2>1, MayHaveStays DEF HInv, OneCall
  <2>. QED
    BY <1>1, <2>2 DEF HInv, OneCall
<1>3. ASSUME NEW k \in Key, NEW m \in addressed'[k] PROVE InOnePlace(k, m)'
  <2>1. InOnePlace(k, m)
    BY <1>1, <1>3 DEF HInv
  <2>. QED
    BY <1>1, <2>1, UntouchedStays
<1>. QED
  BY <1>2, <1>3 DEF HInv

\* The flush moves what is postponed for a key to one connection with the key, or
\* refuses it.
LEMMA FlushKeepsHInv ==
    ASSUME PInv, HInv, NEW p \in PeerId, NEW k \in Key, k \in held[p], Flush(p, k),
           UNCHANGED <<addressed, broadcast, held>>
    PROVE  HInv'
<1>1. \A q \in PeerId : \A m : MayHave(q, m) => MayHave(q, m)'
  BY DEF MayHave
<1>2. /\ messages' = [messages EXCEPT ![k] = <<>>]
      /\ SendAll(p, messages[k])
  BY DEF Flush
<1>3. /\ messages \in [Key -> Seq(Msg)] /\ sent \in [PeerId -> Seq(Msg)]
      /\ messages[k] \in Seq(Msg) /\ sent[p] \in Seq(Msg)
  BY <1>1 DEF PInv, TypeOK
<1>4. \A l \in Key \ {k} : messages'[l] = messages[l]
  BY <1>1, <1>2, <1>3
<1>5. messages'[k] = <<>> /\ \A m : Positions(messages'[k], m) = {}
  BY <1>1, <1>2, <1>3, PositionsNothing
<1>6. Elements(messages[k]) \subseteq addressed[k]
  BY <1>1 DEF HInv, OneCall
<1>7. \A l \in Key \ {k} : \A m \in addressed[l] : Positions(messages[k], m) = {}
  BY <1>1, <1>6, PositionsEmpty DEF HInv, OneCall
<1>8. \A q \in PeerId \ {p} : sent'[q] = sent[q]
  BY <1>2, <1>3 DEF SendAll
<1>9. \A l \in Key : Elements(messages'[l]) \subseteq addressed[l]
  BY <1>4, <1>5 DEF HInv, OneCall, Elements
<1>10. CASE isBanned[p]
  <2>1. sent' = sent /\ refused' = refused \union Elements(messages[k])
    BY <1>2, <1>10 DEF SendAll
  <2>2. OneCall'
    BY <1>1, <1>6, <1>9, <2>1 DEF HInv, OneCall
  <2>3. ASSUME NEW l \in Key, NEW m \in addressed[l] PROVE InOnePlace(l, m)'
    <3>1. InOnePlace(l, m)
      BY <2>3 DEF HInv
    <3>2. CASE l # k
      <4>1. m \notin Elements(messages[k])
        BY <1>7, <2>3, <3>2, PositionsEmpty
      <4>2. m \in refused' <=> m \in refused
        BY <2>1, <4>1
      <4>. QED
        BY <1>4, <2>1, <3>1, <3>2, <4>2, UntouchedStays
    <3>3. CASE l = k
      <4>1. CASE Positions(messages[k], m) = {}
        <5>1. m \in refused' <=> m \in refused
          BY <2>1, <4>1, PositionsEmpty
        <5>. QED
          BY <1>5, <2>1, <3>1, <3>3, <4>1, <5>1, UntouchedStays
      <4>2. CASE Positions(messages[k], m) # {}
        <5>1. m \in refused'
          BY <2>1, <4>2, PositionsEmpty
        <5>2. \A q \in PeerId : Positions(sent[q], m) = {}
          BY <3>1, <3>3, <4>2 DEF InOnePlace, Postponed, QueuedAt, Refused
        <5>. QED
          BY <1>5, <2>1, <3>3, <5>1, <5>2 DEF InOnePlace, Refused
      <4>. QED
        BY <4>1, <4>2
    <3>. QED
      BY <3>2, <3>3
  <2>. QED
    BY <2>2, <2>3 DEF HInv
<1>11. CASE ~isBanned[p]
  <2>1. sent'[p] = sent[p] \o messages[k] /\ refused' = refused
    BY <1>2, <1>3, <1>11 DEF SendAll
  <2>2. \A m : Positions(sent'[p], m) =
                  Positions(sent[p], m)
                  \union {Len(sent[p]) + i : i \in Positions(messages[k], m)}
    BY <1>3, <2>1, PositionsConcat
  <2>3. \A m \in Elements(sent'[p]) : MayHave(p, m)'
    <3>1. SUFFICES ASSUME NEW m \in Elements(sent'[p]) PROVE MayHave(p, m)
      BY <1>1
    <3>2. Positions(sent[p], m) # {} \/ Positions(messages[k], m) # {}
      BY <2>2, <3>1, PositionsEmpty
    <3>3. m \in Elements(sent[p]) \/ m \in Elements(messages[k])
      BY <3>2, PositionsEmpty
    <3>. QED
      BY <1>6, <3>3 DEF HInv, OneCall, MayHave
  <2>4. OneCall'
    <3>1. \A q \in PeerId : \A m \in Elements(sent'[q]) : MayHave(q, m)'
      BY <1>1, <1>8, <2>3 DEF HInv, OneCall
    <3>. QED
      BY <1>1, <1>9, <2>1, <3>1 DEF HInv, OneCall
  <2>5. ASSUME NEW l \in Key, NEW m \in addressed[l] PROVE InOnePlace(l, m)'
    <3>1. InOnePlace(l, m)
      BY <2>5 DEF HInv
    <3>2. CASE Positions(messages[k], m) = {}
      <4>1. Positions(sent'[p], m) = Positions(sent[p], m)
        BY <2>2, <3>2
      <4>2. \A q \in PeerId : Positions(sent'[q], m) = Positions(sent[q], m)
        BY <1>8, <4>1
      <4>3. Positions(messages'[l], m) = Positions(messages[l], m)
        BY <1>4, <1>5, <3>2
      <4>. QED
        BY <2>1, <3>1, <4>2, <4>3, UntouchedStays
    <3>3. CASE Positions(messages[k], m) # {}
      <4>1. l = k
        BY <1>7, <2>5, <3>3
      <4>2. PICK i : Positions(messages[k], m) = {i}
        BY <3>1, <3>3, <4>1 DEF InOnePlace, Postponed, QueuedAt, Refused, Once
      <4>3. (\A q \in PeerId : Positions(sent[q], m) = {}) /\ m \notin refused
        BY <3>1, <3>3, <4>1 DEF InOnePlace, Postponed, QueuedAt, Refused
      <4>4. Positions(sent'[p], m) = {Len(sent[p]) + i}
        <5>1. {Len(sent[p]) + j : j \in {i}} = {Len(sent[p]) + i}
          OBVIOUS
        <5>2. Positions(sent'[p], m) =
                  Positions(sent[p], m)
                  \union {Len(sent[p]) + j : j \in Positions(messages[k], m)}
          BY <2>2
        <5>. QED
          BY <4>2, <4>3, <5>1, <5>2
      <4>5. \A q \in PeerId \ {p} : Positions(sent'[q], m) = {}
        BY <1>8, <4>3
      <4>6. QueuedAt(p, l, m)'
        BY <1>5, <2>1, <4>1, <4>3, <4>4, <4>5 DEF QueuedAt, Once
      <4>. QED
        BY <4>6 DEF InOnePlace
    <3>. QED
      BY <3>2, <3>3
  <2>. QED
    BY <2>4, <2>5 DEF HInv
<1>. QED
  BY <1>10, <1>11

LEMMA SendDirectlyKeepsHInv ==
    ASSUME PInv, HInv, NEW k \in Key, NEW m \in Msg, SendDirectly(k, m)
    PROVE  HInv'
<1>1. PICK p \in WithKey(k) : SendAll(p, <<m>>)
  BY DEF SendDirectly
<1>2. p \in PeerId /\ k \in held[p]
  BY <1>1, KeyAssumption DEF WithKey, PInv, TypeOK, KeysTrue
<1>3. /\ addressed' = [addressed EXCEPT ![k] = @ \union {m}]
      /\ UNCHANGED <<messages, broadcast, held>> /\ New(m)
  BY DEF SendDirectly, connVars, keyVars
<1>4. /\ addressed'[k] = addressed[k] \union {m}
      /\ \A l \in Key \ {k} : addressed'[l] = addressed[l]
  BY <1>3 DEF PInv, TypeOK
<1>5. /\ sent[p] \in Seq(Msg) /\ <<m>> \in Seq(Msg) /\ sent \in [PeerId -> Seq(Msg)]
  BY <1>2 DEF PInv, TypeOK
<1>6. /\ m \notin broadcast /\ m \notin refused
      /\ \A l \in Key : m \notin addressed[l] /\ Positions(messages[l], m) = {}
      /\ \A q \in PeerId : Positions(sent[q], m) = {}
  BY <1>3, NewIsNowhere
<1>7. \A x \in refused \union {m} : \E l \in Key : x \in addressed'[l]
  BY <1>4 DEF HInv, OneCall
<1>8. \A q \in PeerId : \A x : MayHave(q, x) => MayHave(q, x)'
  <2>1. \A q \in PeerId : held[q] \in SUBSET Key
    BY DEF PInv, TypeOK
  <2>2. \A l \in Key : addressed[l] \subseteq addressed'[l]
    BY <1>4
  <2>. QED
    BY <1>3, <2>1, <2>2, MayHaveStays
<1>9. \A l \in Key : /\ addressed'[l] \intersect broadcast = {}
                     /\ \A j \in Key \ {l} : addressed'[l] \intersect addressed'[j] = {}
                     /\ Elements(messages[l]) \subseteq addressed'[l]
  BY <1>4, <1>6 DEF HInv, OneCall
<1>10. CASE isBanned[p]
  <2>1. sent' = sent /\ refused' = refused \union {m}
    <3>1. Elements(<<m>>) = {m}
      BY DEF Elements
    <3>. QED
      BY <1>1, <1>10, <3>1 DEF SendAll
  <2>2. OneCall'
    BY <1>3, <1>7, <1>8, <1>9, <2>1 DEF HInv, OneCall
  <2>3. ASSUME NEW l \in Key, NEW x \in addressed'[l] PROVE InOnePlace(l, x)'
    <3>1. CASE x = m
      BY <1>3, <1>6, <2>1, <3>1 DEF InOnePlace, Refused
    <3>2. CASE x # m
      <4>1. InOnePlace(l, x)
        BY <1>4, <2>3, <3>2 DEF HInv
      <4>. QED
        BY <1>3, <2>1, <3>2, <4>1, UntouchedStays
    <3>. QED
      BY <3>1, <3>2
  <2>. QED
    BY <2>2, <2>3 DEF HInv
<1>11. CASE ~isBanned[p]
  <2>1. /\ sent' = [sent EXCEPT ![p] = @ \o <<m>>] /\ refused' = refused
    BY <1>1, <1>11 DEF SendAll
  <2>2. sent'[p] = Append(sent[p], m) /\ \A q \in PeerId \ {p} : sent'[q] = sent[q]
    <3>1. sent[p] \o <<m>> = Append(sent[p], m)
      BY <1>5, AppendIsConcat
    <3>. QED
      BY <1>2, <1>5, <2>1, <3>1
  <2>3. \A x : x # m => Positions(sent'[p], x) = Positions(sent[p], x)
    BY <1>5, <2>2, PositionsAppend
  <2>4. Positions(sent'[p], m) = {Len(sent[p]) + 1}
    <3>1. m \notin Elements(sent[p])
      BY <1>2, <1>6, PositionsEmpty
    <3>. QED
      BY <1>5, <2>2, <3>1, PositionsAppend
  <2>5. Elements(sent'[p]) \subseteq Elements(sent[p]) \union {m}
    BY <2>3, PositionsEmpty
  <2>6. OneCall'
    <3>1. MayHave(p, m)'
      BY <1>2, <1>3, <1>4 DEF MayHave
    <3>2. \A q \in PeerId : \A x \in Elements(sent'[q]) : MayHave(q, x)'
      BY <1>8, <2>2, <2>5, <3>1 DEF HInv, OneCall
    <3>. QED
      BY <1>3, <1>7, <1>9, <2>1, <3>2 DEF HInv, OneCall
  <2>7. ASSUME NEW l \in Key, NEW x \in addressed'[l] PROVE InOnePlace(l, x)'
    <3>1. CASE x = m
      <4>1. \A q \in PeerId \ {p} : Positions(sent'[q], m) = {}
        BY <1>6, <2>2
      <4>2. QueuedAt(p, l, m)'
        BY <1>3, <1>6, <2>1, <2>4, <3>1, <4>1 DEF QueuedAt, Once
      <4>. QED
        BY <1>2, <3>1, <4>2 DEF InOnePlace
    <3>2. CASE x # m
      <4>1. InOnePlace(l, x)
        BY <1>4, <2>7, <3>2 DEF HInv
      <4>2. \A q \in PeerId : Positions(sent'[q], x) = Positions(sent[q], x)
        BY <2>2, <2>3, <3>2
      <4>. QED
        BY <1>3, <2>1, <4>1, <4>2, UntouchedStays
    <3>. QED
      BY <3>1, <3>2
  <2>. QED
    BY <2>6, <2>7 DEF HInv
<1>. QED
  BY <1>10, <1>11

LEMMA StoreMessageKeepsHInv ==
    ASSUME PInv, HInv, NEW k \in Key, NEW m \in Msg, StoreMessage(k, m)
    PROVE  HInv'
<1>1. /\ addressed' = [addressed EXCEPT ![k] = @ \union {m}]
      /\ messages' = [messages EXCEPT ![k] = IF bannedPeer[k] THEN @ ELSE Append(@, m)]
      /\ refused' = IF bannedPeer[k] THEN refused \union {m} ELSE refused
      /\ UNCHANGED <<sent, broadcast, held>> /\ New(m)
  BY DEF StoreMessage, connVars, keyVars
<1>2. /\ addressed'[k] = addressed[k] \union {m}
      /\ \A l \in Key \ {k} : addressed'[l] = addressed[l]
  BY <1>1 DEF PInv, TypeOK
<1>3. messages \in [Key -> Seq(Msg)] /\ messages[k] \in Seq(Msg)
  BY DEF PInv, TypeOK
<1>4. /\ m \notin broadcast /\ m \notin refused
      /\ \A l \in Key : m \notin addressed[l] /\ Positions(messages[l], m) = {}
      /\ \A q \in PeerId : Positions(sent[q], m) = {}
  BY <1>1, NewIsNowhere
<1>5. \A l \in Key \ {k} : messages'[l] = messages[l]
  BY <1>1, <1>3
<1>6. \A x : x # m => Positions(messages'[k], x) = Positions(messages[k], x)
  BY <1>1, <1>3, PositionsAppend
<1>7. Positions(messages'[k], m) =
          IF bannedPeer[k] THEN {} ELSE {Len(messages[k]) + 1}
  <2>1. m \notin Elements(messages[k])
    BY <1>4, PositionsEmpty
  <2>2. CASE bannedPeer[k]
    BY <1>1, <1>3, <1>4, <2>2
  <2>3. CASE ~bannedPeer[k]
    BY <1>1, <1>3, <2>1, <2>3, PositionsAppend
  <2>. QED
    BY <2>2, <2>3
<1>8. \A l \in Key : Elements(messages'[l]) \subseteq Elements(messages[l])
                                                       \union (IF l = k THEN {m} ELSE {})
  BY <1>5, <1>6, PositionsEmpty
<1>9. OneCall'
  <2>1. \A l \in Key : /\ addressed'[l] \intersect broadcast = {}
                       /\ \A j \in Key \ {l} : addressed'[l] \intersect addressed'[j] = {}
    BY <1>2, <1>4 DEF HInv, OneCall
  <2>2. \A l \in Key : Elements(messages'[l]) \subseteq addressed'[l]
    BY <1>2, <1>8 DEF HInv, OneCall
  <2>3. \A q \in PeerId : \A x \in Elements(sent[q]) : MayHave(q, x)'
    <3>1. \A q \in PeerId : held[q] \in SUBSET Key
      BY DEF PInv, TypeOK
    <3>2. \A l \in Key : addressed[l] \subseteq addressed'[l]
      BY <1>2
    <3>. QED
      BY <1>1, <3>1, <3>2, MayHaveStays DEF HInv, OneCall
  <2>4. \A x \in refused' : \E l \in Key : x \in addressed'[l]
    BY <1>1, <1>2 DEF HInv, OneCall
  <2>. QED
    BY <1>1, <2>1, <2>2, <2>3, <2>4 DEF OneCall
<1>10. ASSUME NEW l \in Key, NEW x \in addressed'[l] PROVE InOnePlace(l, x)'
  <2>1. CASE x = m
    <3>1. l = k
      BY <1>2, <1>4, <1>10, <2>1
    <3>2. CASE bannedPeer[k]
      BY <1>1, <1>4, <1>7, <2>1, <3>1, <3>2 DEF InOnePlace, Refused
    <3>3. CASE ~bannedPeer[k]
      BY <1>1, <1>4, <1>7, <2>1, <3>1, <3>3 DEF InOnePlace, Postponed, Once
    <3>. QED
      BY <3>2, <3>3
  <2>2. CASE x # m
    <3>1. InOnePlace(l, x)
      BY <1>2, <1>10, <2>2 DEF HInv
    <3>2. Positions(messages'[l], x) = Positions(messages[l], x)
      BY <1>5, <1>6, <2>2
    <3>3. x \in refused' <=> x \in refused
      BY <1>1, <2>2
    <3>. QED
      BY <1>1, <3>1, <3>2, <3>3, UntouchedStays
  <2>. QED
    BY <2>1, <2>2
<1>. QED
  BY <1>9, <1>10 DEF HInv

LEMMA BroadcastKeepsHInv ==
    ASSUME PInv, HInv, NEW m \in Msg, BroadcastMessage(m)
    PROVE  HInv'
<1>1. /\ broadcast' = broadcast \union {m} /\ New(m)
      /\ UNCHANGED <<messages, addressed, refused, held>>
      /\ \A q \in PeerId : sent'[q] \in {sent[q], Append(sent[q], m)}
  BY DEF BroadcastMessage, connVars, keyVars
<1>2. \A q \in PeerId : sent[q] \in Seq(Msg)
  BY DEF PInv, TypeOK
<1>3. \A k \in Key : m \notin addressed[k]
  BY <1>1, NewIsNowhere
<1>4. \A q \in PeerId : \A x : x # m => Positions(sent'[q], x) = Positions(sent[q], x)
  <2>1. ASSUME NEW q \in PeerId, NEW x, x # m
        PROVE  Positions(Append(sent[q], m), x) = Positions(sent[q], x)
    BY <1>2, <2>1, PositionsAppend
  <2>. QED
    BY <1>1, <2>1
<1>5. \A q \in PeerId : Elements(sent'[q]) \subseteq Elements(sent[q]) \union {m}
  <2>1. ASSUME NEW q \in PeerId, NEW x \in Elements(sent'[q]), x # m
        PROVE  x \in Elements(sent[q])
    <3>1. Positions(sent'[q], x) # {}
      BY <2>1, PositionsEmpty
    <3>2. Positions(sent[q], x) # {}
      BY <1>4, <2>1, <3>1
    <3>. QED
      BY <3>2, PositionsEmpty
  <2>. QED
    BY <2>1
<1>6. OneCall'
  <2>1. \A q \in PeerId : \A x \in Elements(sent'[q]) : MayHave(q, x)'
    BY <1>1, <1>5 DEF HInv, OneCall, MayHave
  <2>. QED
    BY <1>1, <1>3, <2>1 DEF HInv, OneCall
<1>7. ASSUME NEW k \in Key, NEW x \in addressed'[k] PROVE InOnePlace(k, x)'
  <2>1. x # m /\ InOnePlace(k, x)
    BY <1>1, <1>3, <1>7 DEF HInv
  <2>. QED
    BY <1>1, <1>4, <2>1, UntouchedStays
<1>. QED
  BY <1>6, <1>7 DEF HInv

LEMMA HInvStep == PInv /\ HInv /\ [Next]_vars => HInv'
<1> SUFFICES ASSUME PInv, HInv, [Next]_vars PROVE HInv'
  OBVIOUS
<1>1. CASE UNCHANGED vars
  BY <1>1, UnchangedKeepsHInv DEF vars, connVars, keyVars
<1>2. ASSUME NEW p \in PeerId,
             \/ OnConnect(p) \/ UpdatePeerList(p) \/ ToggleStreams(p)
             \/ HandleSignature(p) \/ SetPeerPublicKey(p)
      PROVE  HInv'
  <2>1. UNCHANGED <<msgVars, held>>
    BY <1>2 DEF OnConnect, UpdatePeerList, ToggleStreams, HandleSignature,
                SetPeerPublicKey, keyVars
  <2>. QED
    BY <2>1, UnchangedKeepsHInv
<1>5. ASSUME NEW p \in PeerId, NEW by \in Setter, KeySet(p, by) PROVE HInv'
  <2>1. UNCHANGED msgVars /\ held' = [held EXCEPT ![p] = @ \union {verified[p][by]}]
    BY <1>5 DEF KeySet
  <2>2. \A q \in PeerId : held[q] \subseteq held'[q]
    BY <2>1 DEF PInv, TypeOK
  <2>. QED
    BY <2>1, <2>2, UnchangedKeepsHInv
<1>3. ASSUME NEW p \in PeerId, NEW by \in Setter, OnPublicKeyRecovered(p, by)
      PROVE  HInv'
  <2>1. PICK k \in recovering[p][by] :
          IF running THEN Flush(p, k) /\ CopyBan(p, k)
                     ELSE UNCHANGED <<isBanned, messages, sent, refused>>
    BY <1>3 DEF OnPublicKeyRecovered
  <2>2. k \in Key /\ k \in held[p] /\ UNCHANGED <<addressed, broadcast, held>>
    BY <1>3, <2>1 DEF OnPublicKeyRecovered, PInv, TypeOK, KeysTrue
  <2>3. CASE running
    BY <2>1, <2>2, <2>3, FlushKeepsHInv
  <2>4. CASE ~running
    BY <2>1, <2>2, <2>4, UnchangedKeepsHInv DEF msgVars
  <2>. QED
    BY <2>3, <2>4
<1>4. CASE \/ \E k \in Key : BanPeer(k) \/ RemoveFromBanList(k)
           \/ SetSignature
           \/ Stop
  <2>1. UNCHANGED <<msgVars, held>>
    BY <1>4 DEF BanPeer, RemoveFromBanList, SetBan, SetSignature, Stop, connVars, keyVars
  <2>. QED
    BY <2>1, UnchangedKeepsHInv
<1>. QED
  BY <1>1, <1>2, <1>3, <1>4, <1>5, SendDirectlyKeepsHInv, StoreMessageKeepsHInv,
     BroadcastKeepsHInv DEF Next, Network, Application

\* HandledOnce for every set of peers, keys and messages, also when several peers
\* share a key or one shows several: a message for a key is postponed, or queued once,
\* at a peer that has shown the key, or refused because of a ban.
THEOREM EachHandledOnce == Spec => []HandledOnce
<1>1. ASSUME PInv, HInv PROVE HandledOnce
  <2>1. SUFFICES ASSUME NEW k \in Key, NEW m \in addressed[k]
                 PROVE  /\ Cardinality(Places(k, m)) = 1
                        /\ \A p \in PeerId : m \in Elements(sent[p]) => k \in held[p]
    BY DEF HandledOnce
  <2>2. InOnePlace(k, m)
    BY <1>1 DEF HInv
  <2>3. \E x : Places(k, m) = {x}
    <3>1. CASE Postponed(k, m)
      <4>1. PICK i : Positions(messages[k], m) = {i}
        BY <3>1 DEF Postponed, Once
      <4>2. Places(k, m) = {<<"stored", i>>}
        BY <3>1, <4>1 DEF Postponed, Places
      <4>. QED
        BY <4>2
    <3>2. ASSUME NEW p \in PeerId, QueuedAt(p, k, m) PROVE \E x : Places(k, m) = {x}
      <4>1. PICK i : Positions(sent[p], m) = {i}
        BY <3>2 DEF QueuedAt, Once
      <4>2. Places(k, m) = {<<p, i>>}
        BY <3>2, <4>1 DEF QueuedAt, Places
      <4>. QED
        BY <4>2
    <3>3. CASE Refused(k, m)
      <4>1. Places(k, m) = {<<"refused", 1>>}
        BY <3>3 DEF Refused, Places
      <4>. QED
        BY <4>1
    <3>. QED
      BY <2>2, <3>1, <3>2, <3>3 DEF InOnePlace
  <2>4. Cardinality(Places(k, m)) = 1
    BY <2>3, FS_Singleton
  <2>5. ASSUME NEW p \in PeerId, m \in Elements(sent[p]) PROVE k \in held[p]
    <3>1. MayHave(p, m) /\ m \notin broadcast
      BY <1>1, <2>1, <2>5 DEF HInv, OneCall
    <3>2. PICK l \in held[p] : m \in addressed[l]
      BY <3>1 DEF MayHave
    <3>3. l \in Key
      BY <1>1 DEF PInv, TypeOK
    <3>4. l = k
      BY <1>1, <2>1, <3>2, <3>3 DEF HInv, OneCall
    <3>. QED
      BY <3>4
  <2>. QED
    BY <2>4, <2>5
<1>. QED
  BY <1>1, InitPInv, PInvStep, InitHInv, HInvStep, PTL DEF Spec

=============================================================================
