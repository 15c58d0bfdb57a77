---------------------------- MODULE PeerService -----------------------------
(***************************************************************************)
(* The registry of a hub: which peers it has a Connection for, the         *)
(* messages postponed for peers whose public key no connection has yet,    *)
(* and the ban list, which is kept twice: by public key in bannedPeer and  *)
(* as a flag in each Connection.                                           *)
(*                                                                         *)
(* Every operation holds the service's mutex from beginning to end and is  *)
(* one step, with one exception that matters: a connection learns its      *)
(* peer's key outside the mutex, on the goroutine that handles the peer's  *)
(* signature or on the application's.  Each compares the key with the one  *)
(* that is known, then sets it, and only then takes the mutex to flush the *)
(* postponed messages and to look up the ban list (onPublicKeyRecovered).  *)
(* Between these steps anything may happen, also that the other one sets   *)
(* another key.                                                            *)
(*                                                                         *)
(* Connection.Send is represented by its effect: it queues the message or, *)
(* for a flagged connection, ignores it; Delivery has the rest.            *)
(***************************************************************************)
EXTENDS Integers, Sequences, FiniteSets

CONSTANTS
    PeerId,     \* libp2p ids of the other hubs
    Key,        \* public keys of the validators behind them
    KeysOf,     \* the keys a peer's signatures and messages show, one if all is well
    Bootstrap,  \* those the hub is configured to connect to
    Msg,        \* messages of the application, each sent once
    MaxBans,    \* bound: calls of BanPeer and RemoveFromBanList
    NoKey       \* a connection whose peer's key is unknown: ""

ASSUME KeyAssumption == KeysOf \in [PeerId -> SUBSET Key] /\ NoKey \notin Key
ASSUME BootstrapAssumption == Bootstrap \subseteq PeerId
ASSUME BansAssumption == MaxBans \in Nat

\* Who may set a connection's key: its receive cycle, from the peer's signature,
\* and the application, by SetPeerPublicKey.
Setter == {"signature", "core"}

VARIABLES
    running,       \* not stopped yet
    signature,     \* the application has set the hub's own signature
    hasSignature,  \* Connection.Signature is set
    connections,   \* peers with a Connection in the map
    active,        \* Connection.IsActive
    publicKey,     \* Connection.PeerPublicKey
    verified,      \* the key a setter has validated and is about to set
    recovering,    \* who has set the key and has yet to run onPublicKeyRecovered, with
                   \* what PeerPublicKey was since: it reads the field once more
    held,          \* history: the keys a connection has had
    isBanned,      \* Connection.isBanned
    messages,      \* postponed messages by public key
    bannedPeer,    \* the ban list by public key
    sent,          \* history: what Send queued at each connection
    addressed,     \* history: the messages of SendMessageToPeer, by key
    refused,       \* history: messages ignored because of a ban
    broadcast,     \* history: the messages of BroadcastMessage
    bans           \* calls of BanPeer and RemoveFromBanList so far

keyVars == <<publicKey, verified, recovering, held>>
connVars == <<connections, active, keyVars>>
signVars == <<signature, hasSignature>>
banVars == <<isBanned, bannedPeer, bans>>
msgVars == <<messages, sent, addressed, refused, broadcast>>
vars == <<running, signVars, connVars, banVars, msgVars>>

Elements(s) == {s[k] : k \in 1 .. Len(s)}

TypeOK ==
    /\ running \in BOOLEAN
    /\ signature \in BOOLEAN
    /\ hasSignature \in SUBSET PeerId
    /\ connections \subseteq PeerId
    /\ active \in [PeerId -> BOOLEAN]
    /\ publicKey \in [PeerId -> Key \union {NoKey}]
    /\ verified \in [PeerId -> [Setter -> Key \union {NoKey}]]
    /\ recovering \in [PeerId -> [Setter -> SUBSET Key]]
    /\ held \in [PeerId -> SUBSET Key]
    /\ isBanned \in [PeerId -> BOOLEAN]
    /\ messages \in [Key -> Seq(Msg)]
    /\ bannedPeer \in [Key -> BOOLEAN]
    /\ sent \in [PeerId -> Seq(Msg)]
    /\ addressed \in [Key -> SUBSET Msg]
    /\ refused \in SUBSET Msg
    /\ broadcast \in SUBSET Msg
    /\ bans \in 0 .. MaxBans

\* New has made a connection, with no signature, for each bootstrap peer.  (That it
\* makes them without the mutex, while streams may already come in, is left out.)
Init ==
    /\ running = TRUE
    /\ signature = FALSE
    /\ hasSignature = {}
    /\ connections = Bootstrap
    /\ active = [p \in PeerId |-> FALSE]
    /\ publicKey = [p \in PeerId |-> NoKey]
    /\ verified = [p \in PeerId |-> [by \in Setter |-> NoKey]]
    /\ recovering = [p \in PeerId |-> [by \in Setter |-> {}]]
    /\ held = [p \in PeerId |-> {}]
    /\ isBanned = [p \in PeerId |-> FALSE]
    /\ messages = [k \in Key |-> <<>>]
    /\ bannedPeer = [k \in Key |-> FALSE]
    /\ sent = [p \in PeerId |-> <<>>]
    /\ addressed = [k \in Key |-> {}]
    /\ refused = {}
    /\ broadcast = {}
    /\ bans = 0

-----------------------------------------------------------------------------
(* Peers come and go.                                                      *)

\* Faulty: a new connection starts without the signature, as those of New do.
AddUnsigned(p) ==
    /\ connections' = connections \union {p}
    /\ UNCHANGED signVars

\* A new connection is given the signature the hub has.
Add(p) ==
    /\ connections' = connections \union {p}
    /\ hasSignature' = IF signature /\ p \notin connections
                       THEN hasSignature \union {p} ELSE hasSignature
    /\ UNCHANGED signature

\* onConnect: a stream of an unknown peer makes a connection, whose status is
\* NotConnected still; one of a known peer replaces its inbound stream, and makes
\* the connection active.
OnConnect(p) ==
    /\ running
    /\ Add(p)
    /\ active' = IF p \in connections THEN [active EXCEPT ![p] = TRUE] ELSE active
    /\ UNCHANGED <<running, keyVars, banVars, msgVars>>

\* updatePeerList: a peer heard of makes a connection that is not active yet.
UpdatePeerList(p) ==
    /\ running
    /\ p \notin connections
    /\ Add(p)
    /\ UNCHANGED <<running, active, keyVars, banVars, msgVars>>

\* A connection loses its streams, or opens its outbound stream.
ToggleStreams(p) ==
    /\ p \in connections
    /\ active' = [active EXCEPT ![p] = ~@]
    /\ UNCHANGED <<running, signVars, connections, keyVars, banVars, msgVars>>

\* Neither thread is in the middle of setting the key of p.
Idle(p, by) == verified[p][by] = NoKey /\ recovering[p][by] = {}

\* handleSignature up to validatePublicKey.  A peer sends its signature again whenever
\* it opens a stream.  One for another key than the known one costs the stream.
HandleSignature(p) ==
    /\ p \in connections
    /\ Idle(p, "signature")
    /\ \E k \in KeysOf[p] :
          \/ /\ publicKey[p] \in {NoKey, k}
             /\ verified' = [verified EXCEPT ![p]["signature"] = k]
             /\ UNCHANGED active
          \/ /\ publicKey[p] \notin {NoKey, k}
             /\ active' = [active EXCEPT ![p] = FALSE]
             /\ UNCHANGED verified
    /\ UNCHANGED <<running, signVars, connections, publicKey, recovering, held, banVars,
                   msgVars>>

\* SetPeerPublicKey up to its test for a key, with the key the application verified.
\* A key that is set already is left alone; another costs the stream, as a stream may
\* be lost at any time.
SetPeerPublicKey(p) ==
    /\ p \in connections
    /\ Idle(p, "core")
    /\ publicKey[p] = NoKey
    /\ \E k \in KeysOf[p] : verified' = [verified EXCEPT ![p]["core"] = k]
    /\ UNCHANGED <<running, signVars, connections, active, publicKey, recovering, held,
                   banVars, msgVars>>

\* What a setter may read from PeerPublicKey after the key of p was set to k.
Recovering(p, by, k) ==
    [recovering EXCEPT ![p] =
        [other \in Setter |->
            CASE other = by -> {k}
              [] other # by /\ recovering[p][other] # {} -> recovering[p][other] \union {k}
              [] OTHER -> {}]]

\* Faulty: the peer's libp2p id is taken for its key.
KeyIsId(p, by) ==
    /\ verified[p][by] # NoKey
    /\ publicKey' = [publicKey EXCEPT ![p] = p]
    /\ recovering' = Recovering(p, by, verified[p][by])
    /\ verified' = [verified EXCEPT ![p][by] = NoKey]
    /\ UNCHANGED <<running, signVars, connections, active, held, banVars, msgVars>>

\* The key is set, whatever the other setter has set since, and the handshake complete:
\* a connection with a stream becomes active, if it was not.
KeySet(p, by) ==
    /\ verified[p][by] # NoKey
    /\ publicKey' = [publicKey EXCEPT ![p] = verified[p][by]]
    /\ held' = [held EXCEPT ![p] = @ \union {verified[p][by]}]
    /\ recovering' = Recovering(p, by, verified[p][by])
    /\ verified' = [verified EXCEPT ![p][by] = NoKey]
    /\ \E hasStream \in BOOLEAN :
          /\ hasStream => p \in connections
          /\ active' = [active EXCEPT ![p] = @ \/ hasStream]
    /\ UNCHANGED <<running, signVars, connections, banVars, msgVars>>

\* Send of all of ms to the connection of p, on the given history of refusals.
SendAll(p, ms) ==
    IF isBanned[p]
    THEN /\ sent' = sent
         /\ refused' = refused \union Elements(ms)
    ELSE /\ sent' = [sent EXCEPT ![p] = @ \o ms]
         /\ refused' = refused

\* Faulty: the flushed messages stay where they were.
FlushKeepingMessages(p, k) ==
    /\ SendAll(p, messages[k])
    /\ UNCHANGED messages

\* Faulty: an inactive connection is not sent the postponed messages.
FlushIfActive(p, k) ==
    IF active[p]
    THEN SendAll(p, messages[k]) /\ messages' = [messages EXCEPT ![k] = <<>>]
    ELSE UNCHANGED <<messages, sent, refused>>

\* The postponed messages are sent, and not postponed any longer.
Flush(p, k) ==
    /\ SendAll(p, messages[k])
    /\ messages' = [messages EXCEPT ![k] = <<>>]

\* Faulty: a connection that was flagged keeps its flag, no other gets one.
KeepFlag(p, k) == isBanned' = isBanned

\* The flag of a connection whose key is on the ban list.
CopyBan(p, k) == isBanned' = [isBanned EXCEPT ![p] = @ \/ bannedPeer[k]]

\* onPublicKeyRecovered: first the flush, then the ban.
OnPublicKeyRecovered(p, by) ==
    /\ \E k \in recovering[p][by] :
          IF running
          THEN Flush(p, k) /\ CopyBan(p, k)
          ELSE UNCHANGED <<isBanned, messages, sent, refused>>
    /\ recovering' = [recovering EXCEPT ![p][by] = {}]
    /\ UNCHANGED <<running, signVars, connections, active, publicKey, verified, held,
                   bannedPeer, bans, addressed, broadcast>>

-----------------------------------------------------------------------------
(* The application.                                                        *)

\* connectionByPublicKey: any connection whose peer has the key.
WithKey(k) == {p \in connections : publicKey[p] = k}

New(m) == m \notin broadcast \union UNION {addressed[k] : k \in Key}

\* SendMessageToPeer to a connection.
SendDirectly(k, m) ==
    /\ New(m)
    /\ \E p \in WithKey(k) : SendAll(p, <<m>>)
    /\ addressed' = [addressed EXCEPT ![k] = @ \union {m}]
    /\ UNCHANGED <<running, signVars, connVars, banVars, messages, broadcast>>

\* SendMessageToPeer without a connection: storeMessage, which ignores messages
\* for banned peers.
StoreMessage(k, m) ==
    /\ New(m)
    /\ WithKey(k) = {}
    /\ addressed' = [addressed EXCEPT ![k] = @ \union {m}]
    /\ messages' = [messages EXCEPT ![k] = IF bannedPeer[k] THEN @ ELSE Append(@, m)]
    /\ refused' = IF bannedPeer[k] THEN refused \union {m} ELSE refused
    /\ UNCHANGED <<running, signVars, connVars, banVars, sent, broadcast>>

\* Every active connection gets it, and every connection whose key is unknown.
BroadcastMessage(m) ==
    /\ New(m)
    /\ broadcast' = broadcast \union {m}
    /\ sent' = [p \in PeerId |->
                   IF /\ p \in connections
                      /\ active[p] \/ publicKey[p] = NoKey
                      /\ ~isBanned[p]
                   THEN Append(sent[p], m) ELSE sent[p]]
    /\ UNCHANGED <<running, signVars, connVars, banVars, messages, addressed, refused>>

\* The entry of the ban list and the flag of one connection with the key.
SetBan(k, banned) ==
    /\ bans < MaxBans
    /\ bans' = bans + 1
    /\ bannedPeer' = [bannedPeer EXCEPT ![k] = banned]
    /\ IF WithKey(k) = {}
       THEN isBanned' = isBanned
       ELSE \E p \in WithKey(k) : isBanned' = [isBanned EXCEPT ![p] = banned]
    /\ UNCHANGED <<running, signVars, connVars, msgVars>>

BanPeer(k) == SetBan(k, TRUE)
RemoveFromBanList(k) == SetBan(k, FALSE)

\* SetSignature with a signature of the hub's id: every connection in the map gets it.
SetSignature ==
    /\ signature' = TRUE
    /\ hasSignature' = hasSignature \union connections
    /\ UNCHANGED <<running, connVars, banVars, msgVars>>

\* Stop empties the map.
Stop ==
    /\ running
    /\ running' = FALSE
    /\ connections' = {}
    /\ active' = [p \in PeerId |-> FALSE]
    /\ UNCHANGED <<signVars, keyVars, banVars, msgVars>>

-----------------------------------------------------------------------------

Network ==
    \E p \in PeerId :
        \/ OnConnect(p)
        \/ UpdatePeerList(p)
        \/ ToggleStreams(p)
        \/ HandleSignature(p)
        \/ \E by \in Setter : KeySet(p, by) \/ OnPublicKeyRecovered(p, by)

Application ==
    \/ \E p \in PeerId : SetPeerPublicKey(p)
    \/ \E k \in Key, m \in Msg : SendDirectly(k, m) \/ StoreMessage(k, m)
    \/ \E m \in Msg : BroadcastMessage(m)
    \/ \E k \in Key : BanPeer(k) \/ RemoveFromBanList(k)
    \/ SetSignature
    \/ Stop

Next == Network \/ Application

Spec == Init /\ [][Next]_vars

-----------------------------------------------------------------------------

\* A connection whose key is known and whose postponed messages were flushed.
Recovered(p) ==
    /\ p \in connections
    /\ publicKey[p] # NoKey
    /\ \A by \in Setter : recovering[p][by] = {}

\* No message waits for a peer that is there: once a connection has recovered the
\* key, nothing is postponed for the key, although messages may be postponed, keys
\* set by either thread, and the flush run in any order with sends and bans
\* (peer_service.go:142-157, 297-309, 401-411).
PostponedFlushed ==
    \A p \in PeerId : Recovered(p) => messages[publicKey[p]] = <<>>

Positions(s, m) == {i \in 1 .. Len(s) : s[i] = m}

\* Where a message for a key has gone: it is stored, in a connection's queue, or
\* was refused.
Places(k, m) ==
    {<<"stored", i>> : i \in Positions(messages[k], m)}
    \union (UNION {{<<p, i>> : i \in Positions(sent[p], m)} : p \in PeerId})
    \union (IF m \in refused THEN {<<"refused", 1>>} ELSE {})

\* SendMessageToPeer neither loses nor repeats a message on its way to a
\* connection, and gives it only to a peer that has shown the key: it is postponed,
\* or sent once, or refused because of a ban, however often and by whomever keys are
\* set (peer_service.go:142-157, 297-309, 401-411).
HandledOnce ==
    \A k \in Key : \A m \in addressed[k] :
        /\ Cardinality(Places(k, m)) = 1
        /\ \A p \in PeerId : m \in Elements(sent[p]) => k \in held[p]

\* The connection has had one key, and no other connection had it.
Alone(p) ==
    /\ held[p] = {publicKey[p]}
    /\ \A q \in PeerId \ {p} : publicKey[p] \notin held[q]

\* The two ban lists agree: a connection is flagged just if its peer's key is on
\* the list, whether the ban, its removal or the key came first.  A connection that
\* shares its key, or has had another, is the exception: BanPeer flags one connection
\* with the key, any one, and a flag stays when the key changes
\* (peer_service.go:152-156, 245-278).
BansAgree ==
    \A p \in PeerId :
        Recovered(p) /\ Alone(p) => isBanned[p] = bannedPeer[publicKey[p]]

\* Once the application has set the signature, no connection lacks it, whether it was
\* made by New, which gives none, from a stream or from a peer list, before or after
\* (peer_service.go:109, 133, 179, 195-214).  To the peer of a connection without
\* a signature the hub stays a stranger.
SignatureEverywhere ==
    signature => connections \subseteq hasSignature

\* "Trying to ban peer %v but not connected, removing all stored messages for
\* this peer" (peer_service.go:263): what is stored for a banned peer is not sent
\* to it when it connects.
StoredNotSentToBanned ==
    [][\A p \in PeerId, k \in Key :
          bannedPeer[k] => Elements(sent'[p]) \intersect Elements(messages[k])
                              \subseteq Elements(sent[p])]_vars

=============================================================================
