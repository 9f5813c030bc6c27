---------------------------- MODULE NoiseTunnel ----------------------------
(***************************************************************************)
(* The encrypted tunnels between routers (router/src/noise.rs): each       *)
(* router keeps one Noise_XX session per remote public key in an LRU       *)
(* cache, and try_encrypt and try_decrypt move the sessions along.         *)
(*                                                                         *)
(* A router is named by the public key it is configured with.  The network *)
(* may lose, repeat, delay and reorder packets: `net` holds every packet   *)
(* ever sent, and any of them may arrive at any time, or never.            *)
(*                                                                         *)
(* The snow crate is external.  A handshake message stands for its         *)
(* transcript: the entries of all messages up to it.  Reading succeeds if  *)
(* the transcript goes on from the reader's own, which is what the         *)
(* handshake hash checks.  The finished transcript names the pair of       *)
(* transport keys.                                                         *)
(***************************************************************************)
EXTENDS Naturals, Sequences, FiniteSets

CONSTANTS
    Peer,          \* routers, by their configured public keys
    Key,           \* public keys
    StaticOf,      \* public half of a router's configured private key
    SessionCap,    \* capacity of the LRU cache (1000 in the code)
    MaxEphemeral,  \* bound: ephemeral keys made
    MaxNonce,      \* bound: packets encrypted by one transport session
    MaxRestarts,   \* bound: restarts of routers
    None           \* absence of a value

ASSUME TunnelAssumption ==
    /\ Peer \subseteq Key
    /\ None \notin Key
    /\ StaticOf \in [Peer -> Key]
    /\ SessionCap \in Nat \ {0}
    /\ {MaxEphemeral, MaxNonce, MaxRestarts} \subseteq Nat

VARIABLES
    cache,     \* router -> its LruCache: sessions and their order of use
    net,       \* every packet sent
    fresh,     \* ephemeral keys made so far
    restarts   \* restarts so far

vars == <<cache, net, fresh, restarts>>

(***************************************************************************)
(* The messages, by what decides their fate: Handshake; the others whose   *)
(* encoding has at most 30 bytes and is sent plain, such as Confirm        *)
(* (Short); the larger ones, such as every message with an application id, *)
(* which are compressed (Long).                                            *)
(***************************************************************************)
Message == {"Handshake", "Short", "Long"}

\* One handshake message's part of the transcript.  Ephemeral key 0 and the
\* payload "Noise" stand for bytes that were no first handshake message.
Entry == [eph : 0..MaxEphemeral, static : Key \cup {None},
          payload : Message \cup {"Noise"}]

Session ==
    [phase : {"handshake", "transport"}, role : {"initiator", "responder"},
     log : Seq(Entry), my_turn : BOOLEAN, sent : Nat, rcvd : Nat]

Packet ==
    [source : Peer, destination : Peer, phase : {"handshake", "transport"},
     role : {"initiator", "responder"}, log : Seq(Entry), nonce : Nat,
     message : Message]

Absent == [phase |-> "absent", role |-> None, log |-> <<>>,
           my_turn |-> FALSE, sent |-> 0, rcvd |-> 0]

Begun(role, my_turn) == [phase |-> "handshake", role |-> role, log |-> <<>>,
                         my_turn |-> my_turn, sent |-> 0, rcvd |-> 0]

create_initiator == Begun("initiator", TRUE)
create_responder == Begun("responder", FALSE)

INSTANCE LruCache WITH Capacity <- SessionCap

EmptyCache == Empty(Peer)

Init ==
    /\ cache = [p \in Peer |-> EmptyCache]
    /\ net = {}
    /\ fresh = 0
    /\ restarts = 0

-----------------------------------------------------------------------------
(* snow: sessions *)

RemoteStatic(s) ==
    IF s.role = "initiator" THEN s.log[2].static ELSE s.log[3].static

IsHandshakeFinished(s) == Len(s.log) = 3

\* Mutant: every router draws its ephemeral keys from the same seed.
NewEntrySeeded(p, s, message) ==
    [eph |-> IF Len(s.log) < 2 THEN 1 ELSE 0,
     static |-> IF Len(s.log) > 0 THEN StaticOf[p] ELSE None,
     payload |-> message]

\* The parts a message adds: every message but the third carries a fresh
\* ephemeral key, every message but the first the writer's static key.
NewEntry(p, s, message) ==
    [eph |-> IF Len(s.log) < 2 THEN fresh + 1 ELSE 0,
     static |-> IF Len(s.log) > 0 THEN StaticOf[p] ELSE None,
     payload |-> message]

\* write_message fails on a finished handshake.
CanWrite(s) ==
    s.phase = "handshake" => s.my_turn /\ ~IsHandshakeFinished(s)

\* Mutant: the session that writes the last message of a handshake moves on.
WrittenMovesOn(p, s, message) ==
    IF s.phase = "transport"
      THEN [s EXCEPT !.sent = @ + 1]
      ELSE [s EXCEPT !.log = Append(@, NewEntry(p, s, message)),
                     !.my_turn = FALSE,
                     !.phase = IF Len(s.log) = 2 THEN "transport" ELSE @]

Written(p, s, message) ==
    IF s.phase = "transport"
      THEN [s EXCEPT !.sent = @ + 1]
      ELSE [s EXCEPT !.log = Append(@, NewEntry(p, s, message)),
                     !.my_turn = FALSE]

\* What read_message makes of packet m, for the next message of the
\* handshake or of the transport.
ReadsNext(s, m) ==
    \/ /\ s.phase = "handshake" /\ m.phase = "handshake"
       /\ ~IsHandshakeFinished(s)
       /\ Len(m.log) = Len(s.log) + 1
       /\ SubSeq(m.log, 1, Len(s.log)) = s.log
    \/ /\ s.phase = "transport" /\ m.phase = "transport"
       /\ m.role # s.role /\ m.log = s.log
       /\ m.nonce = s.rcvd

\* The first message of a handshake is not encrypted: a responder without
\* any transcript takes any 32 bytes for an ephemeral key and the rest for
\* the payload.  A short transport packet may have fewer bytes.
ReadsNoise(s, m) ==
    s.phase = "handshake" /\ s.log = <<>> /\ ~ReadsNext(s, m)

MayRead(s, m) == ReadsNext(s, m) \/ ReadsNoise(s, m)

MayFail(s, m) ==
    /\ ~ReadsNext(s, m)
    /\ ReadsNoise(s, m) => m.phase = "transport" /\ m.message = "Short"

NoiseEntry == [eph |-> 0, static |-> None, payload |-> "Noise"]

Read(s, m) ==
    IF s.phase = "transport" THEN [s EXCEPT !.rcvd = @ + 1]
    ELSE [s EXCEPT !.my_turn = TRUE,
                   !.log = IF ReadsNext(s, m) THEN m.log ELSE <<NoiseEntry>>]

\* What reverse_pre_encryption_transformations and wire_decode may make of
\* the payload, None for an error.  try_encrypt cuts the last four bytes off
\* a compressed payload, so that it can never be decompressed; payload bytes
\* that are noise may decode to anything.
Decoded(s, m) ==
    IF m.message = "Long" THEN {None}
    ELSE IF ReadsNoise(s, m) THEN {None, "Handshake", "Short"}
    ELSE {m.message}

-----------------------------------------------------------------------------
(* try_encrypt *)

is_transport_capable(p, remote) == cache[p].map[remote].phase = "transport"

\* The lookup is by the router's own key, under which no session is stored.
verify_remote_public_key(p, remote) ==
    IF Contains(cache[p], p)
      THEN {RemoteStatic(cache[p].map[p]) = remote}
      ELSE {}

\* The cache after is_transport_capable, and after is_my_turn.
Checked(p, r) == Used(cache[p], r)
Opened(p, r) == EntryOr(Checked(p, r), r, create_initiator)

is_my_turn(s) == s.phase = "transport" \/ s.my_turn

\* The guards of try_encrypt that come before is_my_turn.
Allowed(p, destination, message) ==
    /\ ~(is_transport_capable(p, destination) /\ message = "Handshake")
    /\ FALSE \notin verify_remote_public_key(p, destination)

\* try_encrypt(message, destination) returned Ok and the packet is sent.
TryEncrypt(p, destination, message) ==
    LET opened == Opened(p, destination)
        s      == opened.map[destination]
        first  == s.phase = "handshake" /\ Len(s.log) < 2
    IN
    /\ p # destination
    /\ Allowed(p, destination, message)
    /\ is_my_turn(s) /\ CanWrite(s)
    /\ s.phase = "transport" => s.sent < MaxNonce
    /\ first => fresh < MaxEphemeral
    /\ cache' = [cache EXCEPT ![p] = Put(opened, destination,
                                         Written(p, s, message))]
    /\ net' = net \cup
         {[source |-> p, destination |-> destination, phase |-> s.phase,
           role |-> s.role, log |-> Written(p, s, message).log,
           nonce |-> s.sent, message |-> message]}
    /\ fresh' = IF first THEN fresh + 1 ELSE fresh
    /\ UNCHANGED restarts

\* try_encrypt(message, destination) returned Err: at most a use of the key
\* and an eviction are left behind.
TryEncryptRefused(p, destination, message) ==
    LET opened == Opened(p, destination)
        s      == opened.map[destination]
    IN
    /\ p # destination
    /\ \/ /\ ~Allowed(p, destination, message)
          /\ cache' = [cache EXCEPT ![p] = Checked(p, destination)]
       \/ /\ Allowed(p, destination, message)
          /\ ~is_my_turn(s)
          /\ cache' = [cache EXCEPT ![p] = opened]
       \/ /\ Allowed(p, destination, message)
          /\ is_my_turn(s) /\ ~CanWrite(s)
          /\ cache' = [cache EXCEPT ![p] = Used(opened, destination)]
    /\ UNCHANGED <<net, fresh, restarts>>

-----------------------------------------------------------------------------
(* try_decrypt *)

is_their_turn(s) == s.phase = "transport" \/ ~s.my_turn

\* Mutant: the remote static key of a finished handshake is not compared.
SettledUnverified(c, r, message) ==
    LET s == c.map[r] IN
    IF message = None \/ s.phase = "transport" THEN c
    ELSE IF message # "Handshake" THEN Remove(c, r)
    ELSE IF ~IsHandshakeFinished(s) THEN c
    ELSE Insert(Remove(c, r), r,
                [s EXCEPT !.phase = "transport", !.my_turn = FALSE])

\* What a decoded message does to the session, which has been read on: an
\* error in decoding leaves it as it is.
Settled(c, r, message) ==
    LET s == c.map[r] IN
    IF message = None \/ s.phase = "transport" THEN c
    ELSE IF message # "Handshake" THEN Remove(c, r)
    ELSE IF ~IsHandshakeFinished(s) THEN c
    ELSE IF RemoteStatic(s) # r THEN Remove(c, r)
    ELSE Insert(Remove(c, r), r,
                [s EXCEPT !.phase = "transport", !.my_turn = FALSE])

\* Mutant: the retry reads the packet, whatever session it replaces.
RetriedReading(c, m) ==
    IF MayRead(create_responder, m)
      THEN Insert(c, m.source, Read(create_responder, m))
      ELSE c

\* "Trying again as a responder" calls write_message, not read_message, on
\* the new responder, whose turn it is not: nothing is ever inserted.
RetriedAsResponder(c, m) ==
    IF is_my_turn(create_responder)
      THEN Insert(c, m.source, create_responder)
      ELSE c

\* try_decrypt(m) by the router a packet is addressed to.  The sorter does
\* not pass on packets whose source is their destination.
TryDecrypt(p, m) ==
    LET opened == EntryOr(cache[p], m.source, create_responder)
        used   == Used(opened, m.source)
        s      == opened.map[m.source]
    IN
    /\ m.destination = p /\ m.source # p
    /\ \/ /\ is_their_turn(s) /\ MayRead(s, m)
          /\ \E message \in Decoded(s, m) :
               cache' = [cache EXCEPT ![p] =
                           Settled(Put(opened, m.source, Read(s, m)),
                                   m.source, message)]
       \/ /\ is_their_turn(s) /\ MayFail(s, m)
          /\ cache' = [cache EXCEPT ![p] = RetriedAsResponder(used, m)]
       \/ /\ ~is_their_turn(s)
          /\ cache' = [cache EXCEPT ![p] = RetriedAsResponder(opened, m)]
    /\ UNCHANGED <<net, fresh, restarts>>

\* Sessions live in memory only.
Restart(p) ==
    /\ restarts < MaxRestarts
    /\ cache' = [cache EXCEPT ![p] = EmptyCache]
    /\ restarts' = restarts + 1
    /\ UNCHANGED <<net, fresh>>

-----------------------------------------------------------------------------
Next ==
    \E p \in Peer :
        \/ \E r \in Peer, message \in Message :
             \/ TryEncrypt(p, r, message)
             \/ TryEncryptRefused(p, r, message)
        \/ \E m \in net : TryDecrypt(p, m)
        \/ Restart(p)

Spec == Init /\ [][Next]_vars

-----------------------------------------------------------------------------
(* Properties *)

TypeOK ==
    /\ DOMAIN cache = Peer
    /\ \A p \in Peer : CacheOf(cache[p], Peer, Session)
    /\ net \subseteq Packet
    /\ fresh \in 0..MaxEphemeral
    /\ restarts \in 0..MaxRestarts

Transport(p, r) == cache[p].map[r].phase = "transport"

\* A tunnel in transport mode leads to the router it is filed under: that
\* router holds the private key of its public key, and has itself written
\* the last message of this very handshake for this router, whatever was
\* replayed, mixed up or sent by routers with other keys.
TransportAuthenticated ==
    \A p, r \in Peer : Transport(p, r) =>
        /\ StaticOf[r] = r
        /\ \E m \in net : /\ m.source = r /\ m.destination = p
                         /\ m.phase = "handshake"
                         /\ m.log = cache[p].map[r].log

\* A key and nonce never encrypt two messages, over all sessions, replays
\* and restarts.
NonceUnique ==
    \A m, n \in net :
        /\ m.phase = "transport" /\ n.phase = "transport"
        /\ m.role = n.role /\ m.log = n.log /\ m.nonce = n.nonce
        => m = n

\* No packet ends a tunnel in transport mode: stale, repeated and foreign
\* packets leave it there.  Only a restart does, or an overfull cache.
TransportIsStable ==
    [][\A p, r \in Peer :
         /\ Transport(p, r)
         /\ Len(cache[p].order) <= SessionCap
         /\ UNCHANGED restarts
         => Transport(p, r)' /\ cache'[p].map[r].log = cache[p].map[r].log]_vars

\* What is sent through a tunnel in transport mode is never decrypted: only the
\* router that reads the last message of a handshake moves on, so that no two
\* sessions of a tunnel are ever in transport mode with each other.
EncryptedIsNeverRead ==
    \A m \in net : m.phase = "transport" =>
        ~ReadsNext(cache[m.destination].map[m.source], m)

-----------------------------------------------------------------------------
(* What comments of the code say and the code does not do *)

\* noise.rs:252 "If the handshake is finished and everything looks right lets
\* transition into transport mode".
FinishedIsTransport ==
    \A p, r \in Peer :
        LET s == cache[p].map[r] IN
        s.phase = "handshake" /\ IsHandshakeFinished(s) => RemoteStatic(s) # r

\* message.rs:36 "Only valid message for handshakes before encryption except
\* for the next one", which is Confirm: no long message goes into a handshake.
OnlyHandshakesBeforeEncryption ==
    \A m \in net : m.phase = "handshake" => m.message # "Long"

\* noise.rs:297 "Trying to decrypt it with a new responder": a new handshake
\* that the session at hand cannot read is taken up by a new responder.
NewHandshakeIsTakenUp ==
    \A m \in net :
        LET c == cache[m.destination] IN
        /\ m.phase = "handshake" /\ Len(m.log) = 1 /\ m.message = "Handshake"
        /\ Contains(c, m.source) /\ ~MayRead(c.map[m.source], m)
        => RetriedAsResponder(c, m).map[m.source].log = m.log

=============================================================================
