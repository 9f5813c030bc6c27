-------------------------- MODULE NoiseTunnelProofs --------------------------
(***************************************************************************)
(* Proofs about NoiseTunnel, for every set of routers and of keys, every   *)
(* configuration of the private keys, every capacity of the caches and     *)
(* every bound.                                                            *)
(***************************************************************************)
EXTENDS NoiseTunnel, SequenceTheorems, TLAPS

-----------------------------------------------------------------------------
(* Types *)

LEMMA NewSessions ==
    /\ create_initiator \in Session /\ create_responder \in Session
    /\ \A s \in Session : s # Absent
<1>1. <<>> \in Seq(Entry)
  BY EmptySeq
<1>2. create_initiator \in Session
  BY <1>1 DEF create_initiator, Begun, Session
<1>3. create_responder \in Session
  BY <1>1 DEF create_responder, Begun, Session
<1>4. \A s \in Session : s # Absent
  BY DEF Session, Absent
<1> QED BY <1>2, <1>3, <1>4

\* The session a router looks up, or makes, for a remote.
LEMMA EntryTyped ==
    ASSUME NEW c, CacheOf(c, Peer, Session), NEW r \in Peer, NEW v \in Session
    PROVE  LET e == EntryOr(c, r, v) IN
           /\ CacheOf(e, Peer, Session)
           /\ e.map[r] \in Session /\ e.map[r] \in {c.map[r], v}
           /\ \A j \in Peer \ {r} : e.map[j] \in {c.map[j], Absent}
           /\ Len(c.order) <= SessionCap =>
                /\ \A j \in Peer : Contains(c, j) => e.map[j] = c.map[j]
                /\ Contains(c, r) => e = c
<1> DEFINE e == EntryOr(c, r, v)
<1>1. v # Absent /\ SessionCap \in Nat
  BY NewSessions, TunnelAssumption
<1>2. /\ CacheOf(e, Peer, Session)
      /\ e.map[r] \in {c.map[r], v} /\ e.map[r] # Absent
      /\ \A j \in Peer \ {r} : e.map[j] \in {c.map[j], Absent}
      /\ Len(c.order) <= SessionCap =>
           /\ \A j \in Peer : Contains(c, j) => e.map[j] = c.map[j]
           /\ Contains(c, r) => e = c
  BY <1>1, EntryOrKeeps
<1> HIDE DEF e
<1>3. e.map[r] \in Session
  BY <1>2 DEF CacheOf
<1> QED BY <1>2, <1>3 DEF e

LEMMA CacheTyped ==
    ASSUME TypeOK, NEW p \in Peer
    PROVE  /\ CacheOf(cache[p], Peer, Session)
           /\ \A r \in Peer : cache[p].map[r] \in Session \cup {Absent}
  BY DEF TypeOK, CacheOf

LEMMA OpenedTyped ==
    ASSUME TypeOK, NEW p \in Peer, NEW r \in Peer
    PROVE  /\ CacheOf(Checked(p, r), Peer, Session)
           /\ Checked(p, r).map = cache[p].map
           /\ Len(Checked(p, r).order) = Len(cache[p].order)
           /\ CacheOf(Opened(p, r), Peer, Session)
           /\ Opened(p, r).map[r] \in Session
           /\ Opened(p, r).map[r] \in {cache[p].map[r], create_initiator}
           /\ \A j \in Peer \ {r} : Opened(p, r).map[j] \in {cache[p].map[j], Absent}
           /\ Len(cache[p].order) <= SessionCap =>
                \A j \in Peer : Contains(cache[p], j) =>
                  Opened(p, r).map[j] = cache[p].map[j]
<1> DEFINE c == Checked(p, r)
<1>1. /\ CacheOf(c, Peer, Session) /\ c.map = cache[p].map
      /\ Len(c.order) = Len(cache[p].order)
  BY CacheTyped, UsedKeeps DEF Checked
<1>2. Opened(p, r) = EntryOr(c, r, create_initiator)
  BY DEF Opened
<1> HIDE DEF c
<1>3. /\ CacheOf(EntryOr(c, r, create_initiator), Peer, Session)
      /\ EntryOr(c, r, create_initiator).map[r] \in Session
      /\ EntryOr(c, r, create_initiator).map[r] \in {c.map[r], create_initiator}
      /\ \A j \in Peer \ {r} :
           EntryOr(c, r, create_initiator).map[j] \in {c.map[j], Absent}
      /\ Len(c.order) <= SessionCap =>
           \A j \in Peer : Contains(c, j) =>
             EntryOr(c, r, create_initiator).map[j] = c.map[j]
  BY <1>1, EntryTyped, NewSessions
<1>4. \A j : Contains(c, j) <=> Contains(cache[p], j)
  BY <1>1 DEF Contains
<1> QED BY <1>1, <1>2, <1>3, <1>4 DEF c

LEMMA WrittenTyped ==
    ASSUME NEW p \in Peer, NEW s \in Session, NEW message \in Message,
           fresh \in 0..MaxEphemeral,
           s.phase = "handshake" /\ Len(s.log) < 2 => fresh < MaxEphemeral
    PROVE  Written(p, s, message) \in Session
<1>1. CASE s.phase = "transport"
  BY <1>1 DEF Written, Session
<1>2. CASE s.phase # "transport"
  <2>1. s.log \in Seq(Entry) /\ Len(s.log) \in Nat /\ s.phase = "handshake"
    BY <1>2 DEF Session
  <2>2. NewEntry(p, s, message) \in Entry
    BY <2>1, TunnelAssumption DEF NewEntry, Entry
  <2>3. Append(s.log, NewEntry(p, s, message)) \in Seq(Entry)
    BY <2>1, <2>2, AppendProperties
  <2>4. Written(p, s, message) =
          [s EXCEPT !.log = Append(s.log, NewEntry(p, s, message)),
                    !.my_turn = FALSE]
    BY <1>2 DEF Written
  <2> QED BY <2>3, <2>4 DEF Session
<1> QED BY <1>1, <1>2

LEMMA ReadTyped ==
    ASSUME NEW s \in Session, NEW m \in Packet
    PROVE  Read(s, m) \in Session
<1>1. NoiseEntry \in Entry
  BY TunnelAssumption DEF NoiseEntry, Entry
<1>2. <<NoiseEntry>> \in Seq(Entry) /\ m.log \in Seq(Entry)
  BY <1>1 DEF Packet
<1>3. CASE s.phase = "transport"
  BY <1>3 DEF Read, Session
<1>4. CASE s.phase # "transport"
  <2> DEFINE l == IF ReadsNext(s, m) THEN m.log ELSE <<NoiseEntry>>
  <2>1. l \in Seq(Entry)
    BY <1>2
  <2>2. Read(s, m) = [s EXCEPT !.my_turn = TRUE, !.log = l]
    BY <1>4 DEF Read
  <2> HIDE DEF l
  <2> QED BY <2>1, <2>2 DEF Session
<1> QED BY <1>3, <1>4

\* What becomes of a session that has been read on.
LEMMA SettledKeeps ==
    ASSUME NEW c, CacheOf(c, Peer, Session), NEW r \in Peer,
           c.map[r] \in Session, NEW message
    PROVE  LET s == c.map[r]
               t == [s EXCEPT !.phase = "transport", !.my_turn = FALSE]
               d == Settled(c, r, message)
           IN
           /\ CacheOf(d, Peer, Session)
           /\ \A j \in Peer \ {r} : d.map[j] \in {c.map[j], Absent}
           /\ \/ d.map[r] \in {s, Absent}
              \/ /\ d.map[r] = t /\ s.phase # "transport"
                 /\ IsHandshakeFinished(s) /\ RemoteStatic(s) = r
<1> DEFINE s == c.map[r]
           t == [s EXCEPT !.phase = "transport", !.my_turn = FALSE]
           b == Remove(c, r)
<1>1. t \in Session /\ t # Absent /\ SessionCap \in Nat
  <2>1. t \in Session
    BY DEF Session
  <2> QED BY <2>1, NewSessions, TunnelAssumption
<1>2. CacheOf(b, Peer, Session) /\ DOMAIN c.map = Peer /\ DOMAIN b.map = Peer
  BY RemoveKeeps DEF CacheOf
<1>3. b.map[r] = Absent /\ \A j \in Peer \ {r} : b.map[j] = c.map[j]
  BY <1>2 DEF Remove
<1>4. Settled(c, r, message) \in {c, b, Insert(b, r, t)}
  BY DEF Settled
<1>5. Settled(c, r, message) = Insert(b, r, t) =>
         \/ Insert(b, r, t) \in {c, b}
         \/ s.phase # "transport" /\ IsHandshakeFinished(s) /\ RemoteStatic(s) = r
  BY DEF Settled
<1> HIDE DEF b, t
<1>6. /\ CacheOf(Insert(b, r, t), Peer, Session)
      /\ Insert(b, r, t).map[r] \in {t, Absent}
      /\ \A j \in Peer \ {r} : Insert(b, r, t).map[j] \in {b.map[j], Absent}
  <2>1. CacheOf(Insert(b, r, t), Peer, Session)
    BY <1>1, <1>2, InsertKeeps
  <2>2. /\ DOMAIN Put(b, r, t).map = Peer
        /\ Put(b, r, t).map[r] = t
        /\ \A j \in Peer \ {r} : Put(b, r, t).map[j] = b.map[j]
    BY <1>2, PutMap
  <2>3. \A j \in Peer : Evicted(Put(b, r, t)).map[j] \in {Put(b, r, t).map[j], Absent}
    BY <2>2, EvictedMap
  <2> QED BY <2>1, <2>2, <2>3 DEF Insert
<1>7. s \in {s, Absent}
  OBVIOUS
<1> QED BY <1>2, <1>3, <1>4, <1>5, <1>6, <1>7 DEF t

\* What an action makes of the caches: the one of router p becomes a cache
\* d, in which only the session for r may be another one than before.
Changes(p, r, d) ==
    /\ cache' = [cache EXCEPT ![p] = d]
    /\ CacheOf(d, Peer, Session)
    /\ \A j \in Peer \ {r} : d.map[j] \in {cache[p].map[j], Absent}

\* The packet that TryEncrypt sends.
Sealed(p, r, s, message) ==
    [source |-> p, destination |-> r, phase |-> s.phase, role |-> s.role,
     log |-> Written(p, s, message).log, nonce |-> s.sent, message |-> message]

LEMMA EncryptChanges ==
    ASSUME TypeOK, NEW p \in Peer, NEW r \in Peer, NEW message \in Message,
           TryEncrypt(p, r, message)
    PROVE  LET s == Opened(p, r).map[r]
               d == Put(Opened(p, r), r, Written(p, s, message))
           IN
           /\ Changes(p, r, d) /\ d.map[r] = Written(p, s, message)
           /\ s \in Session /\ s \in {cache[p].map[r], create_initiator}
           /\ is_my_turn(s) /\ CanWrite(s)
           /\ Written(p, s, message) \in Session
           /\ net' = net \cup {Sealed(p, r, s, message)}
           /\ Sealed(p, r, s, message) \in Packet
           /\ fresh' = IF s.phase = "handshake" /\ Len(s.log) < 2
                         THEN fresh + 1 ELSE fresh
           /\ fresh' \in 0..MaxEphemeral
<1> DEFINE o == Opened(p, r)
           s == o.map[r]
           w == Written(p, s, message)
           d == Put(o, r, w)
<1>1. /\ is_my_turn(s) /\ CanWrite(s)
      /\ s.phase = "handshake" /\ Len(s.log) < 2 => fresh < MaxEphemeral
      /\ cache' = [cache EXCEPT ![p] = d]
      /\ net' = net \cup {Sealed(p, r, s, message)}
      /\ fresh' = IF s.phase = "handshake" /\ Len(s.log) < 2
                    THEN fresh + 1 ELSE fresh
  BY DEF TryEncrypt, Sealed
<1>2. fresh \in 0..MaxEphemeral /\ fresh' \in 0..MaxEphemeral
  BY <1>1, TunnelAssumption DEF TypeOK
<1>3. /\ CacheOf(o, Peer, Session) /\ s \in Session
      /\ s \in {cache[p].map[r], create_initiator}
      /\ \A j \in Peer \ {r} : o.map[j] \in {cache[p].map[j], Absent}
  BY OpenedTyped
<1> HIDE DEF o, s
<1>4. w \in Session /\ w # Absent
  BY <1>1, <1>2, <1>3, WrittenTyped, NewSessions
<1>5. Sealed(p, r, s, message) \in Packet
  BY <1>3, <1>4 DEF Sealed, Packet, Session
<1>6. DOMAIN o.map = Peer
  BY <1>3 DEF CacheOf
<1> HIDE DEF w
<1>7. /\ CacheOf(d, Peer, Session) /\ d.map[r] = w
      /\ \A j \in Peer \ {r} : d.map[j] = o.map[j]
  BY <1>3, <1>4, <1>6, PutKeeps, PutMap
<1> HIDE DEF d
<1>8. Changes(p, r, d)
  BY <1>1, <1>3, <1>7 DEF Changes
<1> QED BY <1>1, <1>2, <1>3, <1>4, <1>5, <1>7, <1>8 DEF o, s, w, d

LEMMA RefusedChanges ==
    ASSUME TypeOK, NEW p \in Peer, NEW r \in Peer, NEW message \in Message,
           TryEncryptRefused(p, r, message)
    PROVE  \E d : /\ Changes(p, r, d)
                  /\ d.map[r] \in {cache[p].map[r], create_initiator}
<1> DEFINE o == Opened(p, r)
<1>1. /\ CacheOf(Checked(p, r), Peer, Session)
      /\ Checked(p, r).map = cache[p].map
      /\ CacheOf(o, Peer, Session)
      /\ o.map[r] \in {cache[p].map[r], create_initiator}
      /\ \A j \in Peer \ {r} : o.map[j] \in {cache[p].map[j], Absent}
  BY OpenedTyped
<1>2. PICK d \in {Checked(p, r), o, Used(o, r)} : cache' = [cache EXCEPT ![p] = d]
  BY DEF TryEncryptRefused
<1> HIDE DEF o
<1>3. CacheOf(Used(o, r), Peer, Session) /\ Used(o, r).map = o.map
  BY <1>1, UsedKeeps
<1> QED BY <1>1, <1>2, <1>3 DEF Changes

\* What TryDecrypt makes of the cache and of the session s looked up in it.
Decrypted(p, m, d, s) ==
    /\ Changes(p, m.source, d)
    /\ s \in Session /\ s \in {cache[p].map[m.source], create_responder}
    /\ m \in Packet /\ m.destination = p
    /\ \/ d.map[m.source] = s
       \/ /\ is_their_turn(s) /\ MayRead(s, m)
          /\ Read(s, m) \in Session
          /\ \/ d.map[m.source] \in {Read(s, m), Absent}
             \/ /\ d.map[m.source] =
                     [Read(s, m) EXCEPT !.phase = "transport",
                                        !.my_turn = FALSE]
                /\ Read(s, m).phase # "transport"
                /\ IsHandshakeFinished(Read(s, m))
                /\ RemoteStatic(Read(s, m)) = m.source

LEMMA DecryptChanges ==
    ASSUME TypeOK, NEW p \in Peer, NEW m \in net, TryDecrypt(p, m)
    PROVE  \E d, s : Decrypted(p, m, d, s)
<1> DEFINE r == m.source
           o == EntryOr(cache[p], r, create_responder)
           s == o.map[r]
           u == Read(s, m)
<1>1. m \in Packet /\ r \in Peer /\ m.destination = p
  BY DEF TypeOK, Packet, TryDecrypt
<1>2. /\ CacheOf(o, Peer, Session) /\ DOMAIN o.map = Peer
      /\ s \in Session /\ s \in {cache[p].map[r], create_responder}
      /\ \A j \in Peer \ {r} : o.map[j] \in {cache[p].map[j], Absent}
  <2>1. CacheOf(cache[p], Peer, Session)
    BY CacheTyped
  <2>2. CacheOf(o, Peer, Session) => DOMAIN o.map = Peer
    BY DEF CacheOf
  <2> QED BY <1>1, <2>1, <2>2, EntryTyped, NewSessions
<1>3. ~is_my_turn(create_responder)
  BY DEF is_my_turn, create_responder, Begun
<1>4. \/ /\ is_their_turn(s) /\ MayRead(s, m)
         /\ \E message : cache' = [cache EXCEPT ![p] = Settled(Put(o, r, u), r, message)]
      \/ cache' = [cache EXCEPT ![p] = Used(o, r)]
      \/ cache' = [cache EXCEPT ![p] = o]
  BY <1>3 DEF TryDecrypt, RetriedAsResponder
<1> HIDE DEF o, s
<1>5. CASE \E d \in {Used(o, r), o} : cache' = [cache EXCEPT ![p] = d]
  <2>1. CacheOf(Used(o, r), Peer, Session) /\ Used(o, r).map = o.map
    BY <1>1, <1>2, UsedKeeps
  <2>2. PICK d : /\ d \in {Used(o, r), o} /\ cache' = [cache EXCEPT ![p] = d]
    BY <1>5
  <2>3. CacheOf(d, Peer, Session) /\ d.map = o.map
    BY <1>2, <2>1, <2>2
  <2>4. Changes(p, r, d) /\ d.map[r] = s
    BY <1>2, <2>2, <2>3 DEF Changes, s
  <2> QED BY <1>1, <1>2, <2>4 DEF Decrypted
<1>6. ASSUME is_their_turn(s), MayRead(s, m), NEW message,
             cache' = [cache EXCEPT ![p] = Settled(Put(o, r, u), r, message)]
      PROVE  \E d : /\ Changes(p, r, d)
                    /\ is_their_turn(s) /\ MayRead(s, m) /\ u \in Session
                    /\ \/ d.map[r] \in {u, Absent}
                       \/ /\ d.map[r] = [u EXCEPT !.phase = "transport",
                                                  !.my_turn = FALSE]
                          /\ u.phase # "transport"
                          /\ IsHandshakeFinished(u) /\ RemoteStatic(u) = r
  <2> DEFINE c == Put(o, r, u)
             d == Settled(c, r, message)
  <2>1. u \in Session /\ u # Absent
    BY <1>1, <1>2, ReadTyped, NewSessions
  <2> HIDE DEF u
  <2>2. /\ CacheOf(c, Peer, Session) /\ c.map[r] = u
        /\ \A j \in Peer \ {r} : c.map[j] = o.map[j]
    BY <1>1, <1>2, <2>1, PutKeeps, PutMap
  <2> HIDE DEF c
  <2>3. /\ CacheOf(d, Peer, Session)
        /\ \A j \in Peer \ {r} : d.map[j] \in {c.map[j], Absent}
        /\ \/ d.map[r] \in {u, Absent}
           \/ /\ d.map[r] = [u EXCEPT !.phase = "transport", !.my_turn = FALSE]
              /\ u.phase # "transport"
              /\ IsHandshakeFinished(u) /\ RemoteStatic(u) = r
    BY <1>1, <2>1, <2>2, SettledKeeps
  <2>4. cache' = [cache EXCEPT ![p] = d]
    BY <1>6 DEF c
  <2> HIDE DEF d
  <2>5. Changes(p, r, d)
    BY <1>2, <2>2, <2>3, <2>4 DEF Changes
  <2> QED BY <1>6, <2>1, <2>3, <2>5
<1> QED BY <1>1, <1>2, <1>4, <1>5, <1>6 DEF Decrypted

LEMMA TypeInit == Init => TypeOK
<1>1. CacheOf(EmptyCache, Peer, Session)
  BY EmptySeq DEF EmptyCache, Empty, CacheOf, Coherent, Once, Occurs, Contains
<1> QED BY <1>1, TunnelAssumption DEF Init, TypeOK

LEMMA TypeNext == TypeOK /\ [Next]_vars => TypeOK'
<1> SUFFICES ASSUME TypeOK, [Next]_vars PROVE TypeOK'
  OBVIOUS
<1> USE TunnelAssumption
<1>1. ASSUME NEW p \in Peer, NEW r, NEW d, Changes(p, r, d)
      PROVE  /\ DOMAIN cache' = Peer
             /\ \A q \in Peer : CacheOf(cache'[q], Peer, Session)
  BY <1>1 DEF Changes, TypeOK
<1>2. ASSUME NEW p \in Peer, NEW r \in Peer, NEW message \in Message,
             TryEncrypt(p, r, message)
      PROVE  TypeOK'
  <2>1. /\ \E d : Changes(p, r, d)
        /\ \E m \in Packet : net' = net \cup {m}
        /\ fresh' \in 0..MaxEphemeral
    BY <1>2, EncryptChanges
  <2>2. UNCHANGED restarts
    BY <1>2 DEF TryEncrypt
  <2> QED BY <1>1, <2>1, <2>2 DEF TypeOK
<1>3. ASSUME NEW p \in Peer, NEW r \in Peer, NEW message \in Message,
             TryEncryptRefused(p, r, message)
      PROVE  TypeOK'
  <2>1. \E d : Changes(p, r, d)
    BY <1>3, RefusedChanges
  <2>2. UNCHANGED <<net, fresh, restarts>>
    BY <1>3 DEF TryEncryptRefused
  <2> QED BY <1>1, <2>1, <2>2 DEF TypeOK
<1>4. ASSUME NEW p \in Peer, NEW m \in net, TryDecrypt(p, m)
      PROVE  TypeOK'
  <2>1. \E d : Changes(p, m.source, d)
    BY <1>4, DecryptChanges DEF Decrypted
  <2>2. UNCHANGED <<net, fresh, restarts>>
    BY <1>4 DEF TryDecrypt
  <2> QED BY <1>1, <2>1, <2>2 DEF TypeOK
<1>5. ASSUME NEW p \in Peer, Restart(p)
      PROVE  TypeOK'
  <2>1. CacheOf(EmptyCache, Peer, Session)
    BY EmptySeq DEF EmptyCache, Empty, CacheOf, Coherent, Once, Occurs, Contains
  <2> QED BY <1>5, <2>1 DEF Restart, TypeOK
<1>6. CASE UNCHANGED vars
  BY <1>6 DEF vars, TypeOK
<1> QED BY <1>2, <1>3, <1>4, <1>5, <1>6 DEF Next

\* Every reachable state is well typed: the caches stay caches, and sessions
\* and packets what they are.
THEOREM TunnelTyped == Spec => []TypeOK
  BY TypeInit, TypeNext, PTL DEF Spec

-----------------------------------------------------------------------------
(***************************************************************************)
(* How a session goes on.  The two sides of a handshake write in turn, and *)
(* only the side that reads the last message, the responder, reaches       *)
(* transport mode.                                                         *)
(***************************************************************************)
SessionOK(s) ==
    /\ Len(s.log) <= 3
    /\ s.phase = "handshake" /\ is_my_turn(s) =>
         IF s.role = "initiator" THEN Len(s.log) \in {0, 2} ELSE Len(s.log) \in {1, 3}
    /\ s.phase = "handshake" /\ ~is_my_turn(s) =>
         IF s.role = "initiator" THEN Len(s.log) \in {1, 3} ELSE Len(s.log) \in {0, 2}
    /\ s.phase = "transport" => s.role = "responder" /\ Len(s.log) = 3

Sess(p, r) == cache[p].map[r]

SessionsOK == TypeOK /\ \A p, r \in Peer : SessionOK(Sess(p, r))

\* The ephemeral key that the holder of a session made for it, if it has.
Owns(s) == IF s.role = "initiator" THEN Len(s.log) >= 1 ELSE Len(s.log) >= 2
Own(s)  == IF s.role = "initiator" THEN s.log[1].eph ELSE s.log[2].eph

\* From s to t no ephemeral key is made, no transport mode is left, and
\* nothing is encrypted.
Continues(s, t) ==
    Owns(t) => /\ Owns(s) /\ t.role = s.role /\ Own(t) = Own(s)
               /\ s.phase = "transport" => t.phase = "transport" /\ t.sent = s.sent

LEMMA NewSessionOK ==
    /\ SessionOK(Absent) /\ SessionOK(create_initiator) /\ SessionOK(create_responder)
    /\ \A s : /\ Continues(s, Absent) /\ Continues(s, create_initiator)
              /\ Continues(s, create_responder) /\ Continues(s, s)
<1>1. Len(<<>>) = 0
  BY EmptySeq
<1>2. SessionOK(Absent) /\ SessionOK(create_initiator) /\ SessionOK(create_responder)
  BY <1>1 DEF SessionOK, Absent, create_initiator, create_responder, Begun, is_my_turn
<1>3. ~Owns(Absent) /\ ~Owns(create_initiator) /\ ~Owns(create_responder)
  BY <1>1 DEF Owns, Absent, create_initiator, create_responder, Begun
<1> QED BY <1>2, <1>3 DEF Continues

\* Reading a message.
LEMMA ReadOK ==
    ASSUME NEW s \in Session, SessionOK(s), NEW m \in Packet,
           is_their_turn(s), MayRead(s, m)
    PROVE  LET u == Read(s, m) IN
           /\ SessionOK(u) /\ Continues(s, u) /\ Continues(u, s)
           /\ u.phase = s.phase
           /\ u.phase = "transport" => u.log = s.log
           /\ u.phase = "handshake" /\ IsHandshakeFinished(u) =>
                u.role = "responder" /\ m.phase = "handshake" /\ u.log = m.log
<1> DEFINE u == Read(s, m)
<1>1. /\ s.log \in Seq(Entry) /\ Len(s.log) \in Nat
      /\ m.log \in Seq(Entry) /\ Len(m.log) \in Nat
      /\ s.role \in {"initiator", "responder"}
      /\ s.phase \in {"handshake", "transport"}
  BY DEF Session, Packet
<1>2. CASE s.phase = "transport"
  <2>1. u = [s EXCEPT !.rcvd = s.rcvd + 1]
    BY <1>2 DEF Read
  <2>2. /\ u.phase = s.phase /\ u.role = s.role /\ u.log = s.log
        /\ u.sent = s.sent
    BY <2>1 DEF Session
  <2> QED BY <1>2, <2>2 DEF SessionOK, Continues, Owns, Own
<1>3. CASE s.phase = "handshake" /\ ReadsNext(s, m)
  <2>1. u = [s EXCEPT !.my_turn = TRUE, !.log = m.log]
    BY <1>3 DEF Read
  <2>2. /\ u.phase = s.phase /\ u.role = s.role /\ u.log = m.log
        /\ u.sent = s.sent /\ u.my_turn
    BY <2>1 DEF Session
  <2>3. /\ m.phase = "handshake" /\ Len(s.log) # 3
        /\ Len(m.log) = Len(s.log) + 1
        /\ SubSeq(m.log, 1, Len(s.log)) = s.log
    BY <1>3 DEF ReadsNext, IsHandshakeFinished
  <2>4. \A i \in 1..Len(s.log) : m.log[i] = s.log[i]
    BY <1>1, <2>3
  <2>5. \/ s.role = "initiator" /\ Len(s.log) = 1
        \/ s.role = "responder" /\ Len(s.log) \in {0, 2}
    <3>1. ~is_my_turn(s)
      BY <1>3 DEF is_their_turn, is_my_turn
    <3> QED BY <1>1, <1>3, <2>3, <3>1 DEF SessionOK
  <2>6. SessionOK(u)
    BY <1>1, <1>3, <2>2, <2>3, <2>5 DEF SessionOK, is_my_turn
  <2>7. Continues(s, u) /\ Continues(u, s)
    BY <1>1, <1>3, <2>2, <2>3, <2>4, <2>5 DEF Continues, Owns, Own
  <2>8. IsHandshakeFinished(u) => u.role = "responder"
    <3>1. ASSUME s.role = "initiator" PROVE Len(m.log) = 2
      <4>1. Len(s.log) = 1
        BY <2>5, <3>1
      <4> QED BY <2>3, <4>1
    <3> QED BY <1>1, <2>2, <3>1 DEF IsHandshakeFinished
  <2> QED BY <1>3, <2>2, <2>3, <2>6, <2>7, <2>8
<1>4. CASE s.phase = "handshake" /\ ~ReadsNext(s, m)
  <2>1. s.log = <<>>
    BY <1>4 DEF MayRead, ReadsNoise
  <2>2. u = [s EXCEPT !.my_turn = TRUE, !.log = <<NoiseEntry>>]
    BY <1>4 DEF Read
  <2>3. /\ u.phase = s.phase /\ u.role = s.role /\ u.log = <<NoiseEntry>>
        /\ u.my_turn /\ Len(u.log) = 1 /\ Len(s.log) = 0
    BY <2>1, <2>2 DEF Session
  <2>4. s.role = "responder"
    BY <1>1, <1>4, <2>3 DEF SessionOK, is_their_turn, is_my_turn
  <2>5. SessionOK(u)
    BY <1>4, <2>3, <2>4 DEF SessionOK, is_my_turn
  <2>6. Continues(s, u) /\ Continues(u, s)
    BY <2>3, <2>4 DEF Continues, Owns
  <2> QED BY <1>4, <2>3, <2>5, <2>6 DEF IsHandshakeFinished
<1> QED BY <1>1, <1>2, <1>3, <1>4

\* Writing one.
LEMMA WrittenOK ==
    ASSUME NEW p, NEW s \in Session, SessionOK(s), NEW message,
           is_my_turn(s), CanWrite(s), Written(p, s, message) \in Session
    PROVE  LET w == Written(p, s, message) IN
           /\ SessionOK(w) /\ w.role = s.role /\ w.phase = s.phase
           /\ s.phase = "transport" =>
                w.log = s.log /\ w.sent = s.sent + 1 /\ Owns(s)
           /\ s.phase = "handshake" =>
                /\ Len(w.log) = Len(s.log) + 1
                /\ w.log[Len(w.log)] = NewEntry(p, s, message)
                /\ IF Len(s.log) < 2
                     THEN ~Owns(s) /\ Owns(w) /\ Own(w) = fresh + 1
                     ELSE Continues(s, w)
<1> DEFINE w == Written(p, s, message)
<1>1. /\ s.log \in Seq(Entry) /\ Len(s.log) \in Nat
      /\ s.role \in {"initiator", "responder"}
      /\ s.phase \in {"handshake", "transport"}
  BY DEF Session
<1>2. CASE s.phase = "transport"
  <2>1. w = [s EXCEPT !.sent = s.sent + 1]
    BY <1>2 DEF Written
  <2>2. /\ w.phase = s.phase /\ w.role = s.role /\ w.log = s.log
        /\ w.sent = s.sent + 1
    BY <2>1 DEF Session
  <2> HIDE DEF w
  <2>3. s.role = "responder" /\ Len(s.log) = 3
    BY <1>2 DEF SessionOK
  <2>4. SessionOK(w)
    BY <1>2, <2>2, <2>3 DEF SessionOK
  <2>5. Owns(s)
    BY <2>3 DEF Owns
  <2> QED BY <1>2, <2>2, <2>4, <2>5 DEF w
<1>3. CASE s.phase = "handshake"
  <2> DEFINE e == NewEntry(p, s, message)
  <2>1. w = [s EXCEPT !.log = Append(s.log, e), !.my_turn = FALSE]
    BY <1>3 DEF Written
  <2>2. /\ w.phase = s.phase /\ w.role = s.role /\ w.log = Append(s.log, e)
        /\ ~w.my_turn
    BY <2>1 DEF Session
  <2>3. /\ Len(w.log) = Len(s.log) + 1 /\ w.log[Len(w.log)] = e
        /\ \A i \in 1..Len(s.log) : w.log[i] = s.log[i]
    BY <1>1, <2>2
  <2>4. Len(s.log) # 3
    BY <1>3 DEF CanWrite, IsHandshakeFinished
  <2>5. \/ s.role = "initiator" /\ Len(s.log) \in {0, 2}
        \/ s.role = "responder" /\ Len(s.log) = 1
    BY <1>1, <1>3, <2>4 DEF SessionOK
  <2>6. SessionOK(w)
    BY <1>1, <1>3, <2>2, <2>3, <2>5 DEF SessionOK, is_my_turn
  <2>7. CASE Len(s.log) < 2
    <3>1. e.eph = fresh + 1
      BY <2>7 DEF NewEntry
    <3> HIDE DEF e
    <3>2. Owns(w) /\ Own(w) = fresh + 1 /\ ~Owns(s)
      BY <1>1, <2>2, <2>3, <2>5, <2>7, <3>1 DEF Owns, Own
    <3> QED BY <1>3, <2>2, <2>3, <2>6, <2>7, <3>2 DEF e
  <2>8. CASE Len(s.log) = 2
    <3> HIDE DEF e
    <3>1. Continues(s, w)
      BY <1>1, <1>3, <2>2, <2>3, <2>5, <2>8 DEF Continues, Owns, Own
    <3> QED BY <1>3, <2>2, <2>3, <2>6, <2>8, <3>1 DEF e
  <2>9. Len(s.log) < 2 \/ Len(s.log) = 2
    BY <2>5
  <2> QED BY <2>7, <2>8, <2>9
<1> QED BY <1>1, <1>2, <1>3

\* A change of a cache touches one session, and may drop others.
LEMMA ChangesOne ==
    ASSUME TypeOK, NEW p \in Peer, NEW r \in Peer, NEW d, Changes(p, r, d)
    PROVE  /\ Sess(p, r)' = d.map[r]
           /\ \A q, t \in Peer : q # p \/ t # r =>
                Sess(q, t)' \in {Sess(q, t), Absent}
  BY DEF Changes, TypeOK, Sess

\* What a reader learns of the remote when it completes a handshake.
Learned(p, r, t) ==
    \E m \in net : /\ m.source = r /\ m.destination = p /\ m.phase = "handshake"
                   /\ m.log = t.log /\ Len(m.log) = 3 /\ m.log[3].static = r

\* A session is in transport mode if it was so before, with the same
\* transcript, or if the step completed its handshake.
Knows(p, r, s, t) ==
    t.phase = "transport" => \/ s.phase = "transport" /\ t.log = s.log
                             \/ Learned(p, r, t)

LEMMA DecryptOK ==
    ASSUME SessionsOK, NEW p \in Peer, NEW m \in net, TryDecrypt(p, m)
    PROVE  /\ m.source \in Peer
           /\ \E d : /\ Changes(p, m.source, d)
                     /\ SessionOK(d.map[m.source])
                     /\ Continues(Sess(p, m.source), d.map[m.source])
                     /\ Knows(p, m.source, Sess(p, m.source), d.map[m.source])
<1> DEFINE r == m.source
<1>1. PICK d, s : Decrypted(p, m, d, s)
  BY DecryptChanges DEF SessionsOK
<1>2. r \in Peer
  BY <1>1 DEF Decrypted, Packet
<1>3. /\ SessionOK(s) /\ Continues(Sess(p, r), s) /\ SessionOK(Absent)
      /\ Continues(Sess(p, r), Absent)
      /\ s.phase = "transport" => s = Sess(p, r)
      /\ Absent.phase # "transport"
  <2>1. create_responder.phase # "transport" /\ Absent.phase # "transport"
    BY DEF create_responder, Begun, Absent
  <2> QED BY <1>1, <1>2, <2>1, NewSessionOK DEF Decrypted, SessionsOK, Sess
<1>4. CASE d.map[r] = s
  BY <1>1, <1>2, <1>3, <1>4 DEF Decrypted, Knows
<1>5. CASE /\ is_their_turn(s) /\ MayRead(s, m) /\ Read(s, m) \in Session
           /\ d.map[r] # s
  <2> DEFINE u == Read(s, m)
             t == [u EXCEPT !.phase = "transport", !.my_turn = FALSE]
  <2>1. /\ SessionOK(u) /\ Continues(s, u) /\ Continues(u, s)
        /\ u.phase = s.phase
        /\ u.phase = "transport" => u.log = s.log
        /\ u.phase = "handshake" /\ IsHandshakeFinished(u) =>
             u.role = "responder" /\ m.phase = "handshake" /\ u.log = m.log
    BY <1>1, <1>3, <1>5, ReadOK DEF Decrypted
  <2>2. u \in Session
    BY <1>5
  <2>3. \/ d.map[r] \in {u, Absent}
        \/ /\ d.map[r] = t /\ u.phase # "transport"
           /\ IsHandshakeFinished(u) /\ RemoteStatic(u) = r
    BY <1>1, <1>5 DEF Decrypted
  <2> HIDE DEF u
  <2>4. Continues(Sess(p, r), u)
    BY <1>3, <2>1 DEF Continues
  <2>5. CASE d.map[r] = Absent
    BY <1>1, <1>2, <1>3, <2>5 DEF Decrypted, Knows
  <2>6. CASE d.map[r] = u
    <3>1. Knows(p, r, Sess(p, r), u)
      BY <1>3, <2>1 DEF Knows
    <3> QED BY <1>1, <1>2, <2>1, <2>4, <2>6, <3>1 DEF Decrypted
  <2>7. CASE /\ d.map[r] = t /\ u.phase # "transport"
             /\ IsHandshakeFinished(u) /\ RemoteStatic(u) = r
    <3>1. u.phase = "handshake" /\ u.role = "responder" /\ u.log = m.log
            /\ Len(u.log) = 3 /\ m.phase = "handshake" /\ u.log[3].static = r
      BY <2>1, <2>2, <2>7 DEF Session, IsHandshakeFinished, RemoteStatic
    <3>2. /\ t.phase = "transport" /\ t.role = u.role /\ t.log = u.log
          /\ t.sent = u.sent
      BY <2>2 DEF Session
    <3> HIDE DEF t
    <3>3. SessionOK(t)
      <4>1. t.role = "responder" /\ Len(t.log) = 3
        BY <3>1, <3>2
      <4> QED BY <3>2, <4>1 DEF SessionOK
    <3>4. Continues(u, t)
      BY <3>1, <3>2 DEF Continues, Owns, Own
    <3>5. Continues(Sess(p, r), t)
      BY <2>4, <3>1, <3>2, <3>4 DEF Continues
    <3>6. Knows(p, r, Sess(p, r), t)
      BY <1>1, <3>1, <3>2 DEF Decrypted, Knows, Learned
    <3> QED BY <1>1, <1>2, <2>7, <3>3, <3>5, <3>6 DEF Decrypted
  <2> QED BY <2>3, <2>5, <2>6, <2>7
<1> QED BY <1>1, <1>4, <1>5 DEF Decrypted

\* The steps that encrypt, and those that do not.
Encrypts == \E p, r \in Peer, message \in Message : TryEncrypt(p, r, message)

Quiet == \/ UNCHANGED vars
         \/ \E p \in Peer : \/ \E r \in Peer, message \in Message :
                                 TryEncryptRefused(p, r, message)
                            \/ \E m \in net : TryDecrypt(p, m)
                            \/ Restart(p)

LEMMA StepKinds == [Next]_vars => Encrypts \/ Quiet
  BY DEF Next, Encrypts, Quiet

\* What a step that encrypts nothing does to the sessions.
LEMMA QuietSessions ==
    ASSUME SessionsOK, Quiet
    PROVE  /\ UNCHANGED <<net, fresh>>
           /\ \A q, t \in Peer :
                /\ SessionOK(Sess(q, t)')
                /\ Continues(Sess(q, t), Sess(q, t)')
                /\ Knows(q, t, Sess(q, t), Sess(q, t)')
<1>1. TypeOK /\ \A q, t \in Peer : SessionOK(Sess(q, t))
  BY DEF SessionsOK
<1>2. \A q, t : Knows(q, t, Sess(q, t), Sess(q, t))
                  /\ Knows(q, t, Sess(q, t), Absent)
                  /\ Knows(q, t, Sess(q, t), create_initiator)
  BY DEF Knows, Absent, create_initiator, Begun
<1>3. ASSUME NEW p \in Peer, NEW r \in Peer, NEW d, Changes(p, r, d),
             SessionOK(d.map[r]), Continues(Sess(p, r), d.map[r]),
             Knows(p, r, Sess(p, r), d.map[r]),
             NEW q \in Peer, NEW t \in Peer
      PROVE  /\ SessionOK(Sess(q, t)')
             /\ Continues(Sess(q, t), Sess(q, t)')
             /\ Knows(q, t, Sess(q, t), Sess(q, t)')
  <2>1. CASE q = p /\ t = r
    BY <1>1, <1>3, <2>1, ChangesOne
  <2>2. CASE q # p \/ t # r
    <3>1. Sess(q, t)' \in {Sess(q, t), Absent}
      BY <1>1, <1>3, <2>2, ChangesOne
    <3> QED BY <1>1, <1>2, <3>1, NewSessionOK
  <2> QED BY <2>1, <2>2
<1>4. CASE UNCHANGED vars
  <2>1. \A q, t : Sess(q, t)' = Sess(q, t)
    BY <1>4 DEF vars, Sess
  <2> QED BY <1>1, <1>2, <1>4, <2>1, NewSessionOK DEF vars
<1>5. ASSUME NEW p \in Peer, NEW r \in Peer, NEW message \in Message,
             TryEncryptRefused(p, r, message), NEW q \in Peer, NEW t \in Peer
      PROVE  /\ SessionOK(Sess(q, t)')
             /\ Continues(Sess(q, t), Sess(q, t)')
             /\ Knows(q, t, Sess(q, t), Sess(q, t)')
  <2>1. PICK d : Changes(p, r, d) /\ d.map[r] \in {Sess(p, r), create_initiator}
    BY <1>1, <1>5, RefusedChanges DEF Sess
  <2>2. /\ SessionOK(d.map[r]) /\ Continues(Sess(p, r), d.map[r])
        /\ Knows(p, r, Sess(p, r), d.map[r])
    BY <1>1, <1>2, <2>1, NewSessionOK
  <2> QED BY <1>3, <2>1, <2>2
<1>6. ASSUME NEW p \in Peer, NEW m \in net, TryDecrypt(p, m),
             NEW q \in Peer, NEW t \in Peer
      PROVE  /\ SessionOK(Sess(q, t)')
             /\ Continues(Sess(q, t), Sess(q, t)')
             /\ Knows(q, t, Sess(q, t), Sess(q, t)')
  BY <1>3, <1>6, DecryptOK
<1>7. ASSUME NEW p \in Peer, Restart(p), NEW q \in Peer, NEW t \in Peer
      PROVE  Sess(q, t)' \in {Sess(q, t), Absent}
  BY <1>1, <1>7 DEF Restart, EmptyCache, Empty, Sess, TypeOK
<1>8. UNCHANGED <<net, fresh>>
  BY DEF Quiet, vars, TryEncryptRefused, TryDecrypt, Restart
<1> QED BY <1>1, <1>2, <1>4, <1>5, <1>6, <1>7, <1>8, NewSessionOK DEF Quiet

\* What a step that encrypts does to them.
LEMMA EncryptSessions ==
    ASSUME SessionsOK, NEW p \in Peer, NEW r \in Peer, NEW message \in Message,
           TryEncrypt(p, r, message)
    PROVE  \E s \in Session :
             LET w == Written(p, s, message) IN
             /\ s \in {Sess(p, r), create_initiator}
             /\ is_my_turn(s) /\ CanWrite(s) /\ SessionOK(s) /\ w \in Session
             /\ Continues(Sess(p, r), s)
             /\ Sess(p, r)' = w
             /\ \A q, t \in Peer : q # p \/ t # r =>
                  Sess(q, t)' \in {Sess(q, t), Absent}
             /\ net' = net \cup {Sealed(p, r, s, message)}
             /\ fresh \in Nat
             /\ fresh' = IF s.phase = "handshake" /\ Len(s.log) < 2
                           THEN fresh + 1 ELSE fresh
<1> DEFINE s == Opened(p, r).map[r]
           d == Put(Opened(p, r), r, Written(p, s, message))
<1>1. TypeOK /\ SessionOK(Sess(p, r)) /\ fresh \in Nat
  BY TunnelAssumption DEF SessionsOK, TypeOK
<1>2. /\ Changes(p, r, d) /\ d.map[r] = Written(p, s, message)
      /\ s \in Session /\ s \in {cache[p].map[r], create_initiator}
      /\ is_my_turn(s) /\ CanWrite(s)
      /\ Written(p, s, message) \in Session
      /\ net' = net \cup {Sealed(p, r, s, message)}
      /\ fresh' = IF s.phase = "handshake" /\ Len(s.log) < 2
                    THEN fresh + 1 ELSE fresh
  BY <1>1, EncryptChanges
<1> HIDE DEF s, d
<1>3. /\ Sess(p, r)' = d.map[r]
      /\ \A q, t \in Peer : q # p \/ t # r =>
           Sess(q, t)' \in {Sess(q, t), Absent}
  BY <1>1, <1>2, ChangesOne
<1>4. SessionOK(s) /\ Continues(Sess(p, r), s) /\ s \in {Sess(p, r), create_initiator}
  BY <1>1, <1>2, NewSessionOK DEF Sess
<1> QED BY <1>1, <1>2, <1>3, <1>4

LEMMA SessionsInit == Init => SessionsOK
<1> SUFFICES ASSUME Init PROVE SessionsOK
  OBVIOUS
<1>1. \A p, r \in Peer : Sess(p, r) = Absent
  BY DEF Init, EmptyCache, Empty, Sess
<1> QED BY <1>1, TypeInit, NewSessionOK DEF SessionsOK

LEMMA SessionsNext == SessionsOK /\ [Next]_vars => SessionsOK'
<1> SUFFICES ASSUME SessionsOK, [Next]_vars PROVE SessionsOK'
  OBVIOUS
<1>1. TypeOK'
  BY TypeNext DEF SessionsOK
<1>2. ASSUME NEW p \in Peer, NEW r \in Peer, NEW message \in Message,
             TryEncrypt(p, r, message), NEW q \in Peer, NEW t \in Peer
      PROVE  SessionOK(Sess(q, t)')
  <2>1. PICK s \in Session :
          /\ SessionOK(s) /\ is_my_turn(s) /\ CanWrite(s)
          /\ Written(p, s, message) \in Session
          /\ Sess(p, r)' = Written(p, s, message)
          /\ q # p \/ t # r => Sess(q, t)' \in {Sess(q, t), Absent}
    BY <1>2, EncryptSessions
  <2>2. SessionOK(Written(p, s, message))
    BY <2>1, WrittenOK
  <2>3. CASE q = p /\ t = r
    BY <2>1, <2>2, <2>3
  <2>4. CASE q # p \/ t # r
    BY <2>1, <2>4, NewSessionOK DEF SessionsOK
  <2> QED BY <2>3, <2>4
<1>3. ASSUME Quiet
      PROVE  \A q, t \in Peer : SessionOK(Sess(q, t)')
  BY <1>3, QuietSessions
<1>4. \A q, t \in Peer : SessionOK(Sess(q, t)')
  BY <1>2, <1>3, StepKinds DEF Encrypts
<1> QED BY <1>1, <1>4 DEF SessionsOK

-----------------------------------------------------------------------------
(***************************************************************************)
(* Keys and nonces.  An ephemeral key is made once, by one session, which  *)
(* keeps it to its end.  The packets that were encrypted under it came     *)
(* from that session, which has counted past them; when it is gone nobody  *)
(* has the key.                                                            *)
(***************************************************************************)
NonceInv ==
    /\ SessionsOK
    /\ \A p, r \in Peer : Owns(Sess(p, r)) => Own(Sess(p, r)) <= fresh
    /\ \A p, r, q, t \in Peer :
         /\ Owns(Sess(p, r)) /\ Owns(Sess(q, t))
         /\ Sess(p, r).role = Sess(q, t).role /\ Own(Sess(p, r)) = Own(Sess(q, t))
         => p = q /\ r = t
    /\ \A m \in net : m.phase = "transport" => Owns(m) /\ Own(m) <= fresh
    /\ \A m \in net, p, r \in Peer :
         /\ m.phase = "transport" /\ Owns(Sess(p, r))
         /\ Sess(p, r).role = m.role /\ Own(Sess(p, r)) = Own(m)
         => Sess(p, r).phase = "transport" /\ m.nonce < Sess(p, r).sent
    /\ NonceUnique

LEMMA NonceInit == Init => NonceInv
<1> SUFFICES ASSUME Init PROVE NonceInv
  OBVIOUS
<1>1. \A p, r \in Peer : Sess(p, r) = Absent
  BY DEF Init, EmptyCache, Empty, Sess
<1>2. ~Owns(Absent)
  BY EmptySeq DEF Owns, Absent
<1> QED BY <1>1, <1>2, SessionsInit DEF NonceInv, Init, NonceUnique

\* A step that encrypts nothing.
LEMMA NonceQuiet ==
    ASSUME NonceInv, SessionsOK', fresh \in Nat, fresh' \in Nat, fresh <= fresh',
           \A q, t \in Peer : Continues(Sess(q, t), Sess(q, t)'),
           \A m \in net' : m.phase = "transport" => m \in net,
           \A m \in net : m.phase = "transport" => Own(m) \in Nat,
           \A q, t \in Peer : Owns(Sess(q, t)) => Own(Sess(q, t)) \in Nat
    PROVE  NonceInv'
<1>1. \A p, r \in Peer : Owns(Sess(p, r)') => Own(Sess(p, r)') <= fresh'
  BY DEF NonceInv, Continues
<1>2. \A p, r, q, t \in Peer :
         /\ Owns(Sess(p, r)') /\ Owns(Sess(q, t)')
         /\ Sess(p, r)'.role = Sess(q, t)'.role /\ Own(Sess(p, r)') = Own(Sess(q, t)')
         => p = q /\ r = t
  BY DEF NonceInv, Continues
<1>3. \A m \in net' : m.phase = "transport" => Owns(m) /\ Own(m) <= fresh'
  BY DEF NonceInv
<1>4. \A m \in net', p, r \in Peer :
         /\ m.phase = "transport" /\ Owns(Sess(p, r)')
         /\ Sess(p, r)'.role = m.role /\ Own(Sess(p, r)') = Own(m)
         => Sess(p, r)'.phase = "transport" /\ m.nonce < Sess(p, r)'.sent
  BY DEF NonceInv, Continues
<1>5. NonceUnique'
  BY DEF NonceInv, NonceUnique
<1> QED BY <1>1, <1>2, <1>3, <1>4, <1>5 DEF NonceInv

LEMMA OwnNat ==
    /\ \A s \in Session : Owns(s) => Own(s) \in Nat
    /\ \A m \in Packet : Owns(m) => Own(m) \in Nat
<1>1. ASSUME NEW log \in Seq(Entry), NEW i \in Nat, 1 <= i, Len(log) >= i
      PROVE  log[i].eph \in Nat
  <2>1. log[i] \in Entry
    BY <1>1
  <2> QED BY <2>1, TunnelAssumption DEF Entry
<1>2. ASSUME NEW x, x.log \in Seq(Entry), Owns(x)
      PROVE  Own(x) \in Nat
  BY <1>1, <1>2 DEF Owns, Own
<1> QED BY <1>2 DEF Session, Packet

\* The types that the proofs below need, and the transport keys of a step.
LEMMA NonceTypes ==
    ASSUME SessionsOK
    PROVE  /\ fresh \in Nat
           /\ \A p, r \in Peer : Owns(Sess(p, r)) => Own(Sess(p, r)) \in Nat
           /\ \A m \in net : Owns(m) => Own(m) \in Nat
<1>1. ~Owns(Absent)
  BY EmptySeq DEF Owns, Absent
<1>2. \A p, r \in Peer : Sess(p, r) \in Session \cup {Absent}
  BY CacheTyped DEF SessionsOK, Sess
<1>3. fresh \in Nat /\ \A m \in net : m \in Packet
  BY TunnelAssumption DEF SessionsOK, TypeOK
<1> QED BY <1>1, <1>2, <1>3, OwnNat

\* A step that makes an ephemeral key.
LEMMA NonceMade ==
    ASSUME NonceInv, SessionsOK', NEW p \in Peer, NEW r \in Peer,
           fresh' = fresh + 1,
           Owns(Sess(p, r)'), Own(Sess(p, r)') = fresh + 1,
           \A q, t \in Peer : q # p \/ t # r =>
             Continues(Sess(q, t), Sess(q, t)'),
           \A m \in net' : m.phase = "transport" => m \in net
    PROVE  NonceInv'
<1>1. /\ fresh \in Nat
      /\ \A q, t \in Peer : Owns(Sess(q, t)) => Own(Sess(q, t)) \in Nat
      /\ \A m \in net : Owns(m) => Own(m) \in Nat
  BY NonceTypes DEF NonceInv
<1>2. \A q, t \in Peer : /\ q # p \/ t # r
                         /\ Owns(Sess(q, t)')
                         => /\ Own(Sess(q, t)') \in Nat
                            /\ Own(Sess(q, t)') <= fresh
                            /\ Own(Sess(q, t)') # fresh + 1
  BY <1>1 DEF NonceInv, Continues
<1>3. \A m \in net : m.phase = "transport" =>
        Owns(m) /\ Own(m) <= fresh /\ Own(m) # fresh + 1 /\ Own(m) <= fresh'
  BY <1>1 DEF NonceInv
<1>4. \A q, t \in Peer : Owns(Sess(q, t)') => Own(Sess(q, t)') <= fresh'
  BY <1>1, <1>2
<1>5. \A q, t, u, v \in Peer :
         /\ Owns(Sess(q, t)') /\ Owns(Sess(u, v)')
         /\ Sess(q, t)'.role = Sess(u, v)'.role /\ Own(Sess(q, t)') = Own(Sess(u, v)')
         => q = u /\ t = v
  <2> SUFFICES ASSUME NEW q \in Peer, NEW t \in Peer, NEW u \in Peer, NEW v \in Peer,
                      Owns(Sess(q, t)'), Owns(Sess(u, v)'),
                      Sess(q, t)'.role = Sess(u, v)'.role,
                      Own(Sess(q, t)') = Own(Sess(u, v)')
               PROVE  q = u /\ t = v
    OBVIOUS
  <2>1. CASE (q = p /\ t = r) \/ (u = p /\ v = r)
    BY <1>2, <2>1
  <2>2. CASE (q # p \/ t # r) /\ (u # p \/ v # r)
    <3>1. /\ Owns(Sess(q, t)) /\ Owns(Sess(u, v))
          /\ Sess(q, t).role = Sess(u, v).role /\ Own(Sess(q, t)) = Own(Sess(u, v))
      BY <2>2 DEF Continues
    <3> QED BY <3>1 DEF NonceInv
  <2> QED BY <2>1, <2>2
<1>6. \A m \in net' : m.phase = "transport" => Owns(m) /\ Own(m) <= fresh'
  BY <1>3
<1>7. \A m \in net', q, t \in Peer :
         /\ m.phase = "transport" /\ Owns(Sess(q, t)')
         /\ Sess(q, t)'.role = m.role /\ Own(Sess(q, t)') = Own(m)
         => Sess(q, t)'.phase = "transport" /\ m.nonce < Sess(q, t)'.sent
  <2> SUFFICES ASSUME NEW m \in net', NEW q \in Peer, NEW t \in Peer,
                      m.phase = "transport", Owns(Sess(q, t)'),
                      Sess(q, t)'.role = m.role, Own(Sess(q, t)') = Own(m)
               PROVE  Sess(q, t)'.phase = "transport" /\ m.nonce < Sess(q, t)'.sent
    OBVIOUS
  <2>1. q # p \/ t # r
    BY <1>3
  <2>2. /\ Owns(Sess(q, t)) /\ Sess(q, t).role = m.role /\ Own(Sess(q, t)) = Own(m)
        /\ Sess(q, t).phase = "transport" =>
             Sess(q, t)'.phase = "transport" /\ Sess(q, t)'.sent = Sess(q, t).sent
    BY <2>1 DEF Continues
  <2> QED BY <2>2 DEF NonceInv
<1>8. NonceUnique'
  BY DEF NonceInv, NonceUnique
<1> QED BY <1>4, <1>5, <1>6, <1>7, <1>8 DEF NonceInv

\* A step that encrypts a packet n under a transport key.
LEMMA NonceUsed ==
    ASSUME NonceInv, SessionsOK', NEW p \in Peer, NEW r \in Peer, NEW n,
           UNCHANGED fresh, net' = net \cup {n},
           Owns(Sess(p, r)), Sess(p, r).phase = "transport",
           Sess(p, r)'.phase = "transport", Sess(p, r).sent \in Nat,
           Sess(p, r)'.role = Sess(p, r).role, Sess(p, r)'.log = Sess(p, r).log,
           Sess(p, r)'.sent = Sess(p, r).sent + 1,
           n.role = Sess(p, r).role, n.log = Sess(p, r).log,
           n.nonce = Sess(p, r).sent, \A m \in net : m.nonce \in Nat,
           \A q, t \in Peer : q # p \/ t # r =>
             Continues(Sess(q, t), Sess(q, t)')
    PROVE  NonceInv'
<1> DEFINE s == Sess(p, r)
           w == Sess(p, r)'
<1>1. Owns(w) /\ Own(w) = Own(s) /\ Owns(n) /\ Own(n) = Own(s)
  BY DEF Owns, Own
<1>2. \A q, t \in Peer : Owns(Sess(q, t)') =>
        /\ Owns(Sess(q, t)) /\ Sess(q, t)'.role = Sess(q, t).role
        /\ Own(Sess(q, t)') = Own(Sess(q, t))
        /\ Sess(q, t).phase = "transport" =>
             /\ Sess(q, t)'.phase = "transport"
             /\ q # p \/ t # r => Sess(q, t)'.sent = Sess(q, t).sent
  BY <1>1 DEF Continues
<1>3. \A m \in net : /\ m.phase = "transport" /\ m.role = s.role /\ m.log = s.log
                     => m.nonce < s.sent
  BY DEF NonceInv, Owns, Own
<1>4. \A q, t \in Peer : Owns(Sess(q, t)') => Own(Sess(q, t)') <= fresh'
  BY <1>2 DEF NonceInv
<1>5. \A q, t, u, v \in Peer :
         /\ Owns(Sess(q, t)') /\ Owns(Sess(u, v)')
         /\ Sess(q, t)'.role = Sess(u, v)'.role /\ Own(Sess(q, t)') = Own(Sess(u, v)')
         => q = u /\ t = v
  BY <1>2 DEF NonceInv
<1>6. \A m \in net' : m.phase = "transport" => Owns(m) /\ Own(m) <= fresh'
  BY <1>1 DEF NonceInv
<1>7. \A m \in net', q, t \in Peer :
         /\ m.phase = "transport" /\ Owns(Sess(q, t)')
         /\ Sess(q, t)'.role = m.role /\ Own(Sess(q, t)') = Own(m)
         => Sess(q, t)'.phase = "transport" /\ m.nonce < Sess(q, t)'.sent
  <2> SUFFICES ASSUME NEW m \in net', NEW q \in Peer, NEW t \in Peer,
                      m.phase = "transport", Owns(Sess(q, t)'),
                      Sess(q, t)'.role = m.role, Own(Sess(q, t)') = Own(m)
               PROVE  Sess(q, t)'.phase = "transport" /\ m.nonce < Sess(q, t)'.sent
    OBVIOUS
  <2>1. CASE m = n
    <3>1. q = p /\ t = r
      BY <1>1, <1>5, <2>1
    <3> QED BY <2>1, <3>1
  <2>2. CASE m \in net
    <3>1. Sess(q, t).phase = "transport" /\ m.nonce < Sess(q, t).sent
      BY <1>2, <2>2 DEF NonceInv
    <3>2. CASE q = p /\ t = r
      BY <2>2, <3>1, <3>2
    <3>3. CASE q # p \/ t # r
      BY <1>2, <3>1, <3>3
    <3> QED BY <3>2, <3>3
  <2> QED BY <2>1, <2>2
<1>8. NonceUnique'
  <2> SUFFICES ASSUME NEW m \in net', NEW o \in net',
                      m.phase = "transport", o.phase = "transport",
                      m.role = o.role, m.log = o.log, m.nonce = o.nonce
               PROVE  m = o
    BY DEF NonceUnique
  <2>1. CASE m \in net /\ o \in net
    BY <2>1 DEF NonceInv, NonceUnique
  <2>2. CASE m = n /\ o \in net
    BY <1>3, <2>2
  <2>3. CASE m \in net /\ o = n
    BY <1>3, <2>3
  <2> QED BY <2>1, <2>2, <2>3
<1> QED BY <1>4, <1>5, <1>6, <1>7, <1>8 DEF NonceInv

LEMMA NonceNext == NonceInv /\ [Next]_vars => NonceInv'
<1> SUFFICES ASSUME NonceInv, [Next]_vars PROVE NonceInv'
  OBVIOUS
<1>1. SessionsOK /\ SessionsOK'
  BY SessionsNext DEF NonceInv
<1>2. /\ fresh \in Nat
      /\ \A q, t \in Peer : Owns(Sess(q, t)) => Own(Sess(q, t)) \in Nat
      /\ \A m \in net : m.phase = "transport" => Own(m) \in Nat
  BY <1>1, NonceTypes DEF NonceInv
<1>3. CASE Quiet
  <2>1. /\ UNCHANGED <<net, fresh>>
        /\ \A q, t \in Peer : Continues(Sess(q, t), Sess(q, t)')
    BY <1>1, <1>3, QuietSessions
  <2> QED BY <1>1, <1>2, <2>1, NonceQuiet
<1>4. ASSUME NEW p \in Peer, NEW r \in Peer, NEW message \in Message,
             TryEncrypt(p, r, message)
      PROVE  NonceInv'
  <2> DEFINE W(s) == Written(p, s, message)
  <2>1. PICK s \in Session :
          /\ s \in {Sess(p, r), create_initiator}
          /\ is_my_turn(s) /\ CanWrite(s) /\ SessionOK(s) /\ W(s) \in Session
          /\ Continues(Sess(p, r), s)
          /\ Sess(p, r)' = W(s)
          /\ \A q, t \in Peer : q # p \/ t # r =>
               Sess(q, t)' \in {Sess(q, t), Absent}
          /\ net' = net \cup {Sealed(p, r, s, message)}
          /\ fresh' = IF s.phase = "handshake" /\ Len(s.log) < 2
                        THEN fresh + 1 ELSE fresh
    BY <1>1, <1>4, EncryptSessions
  <2> DEFINE w == W(s)
             n == Sealed(p, r, s, message)
  <2>2. \A q, t \in Peer : q # p \/ t # r => Continues(Sess(q, t), Sess(q, t)')
    BY <2>1, NewSessionOK
  <2>3. /\ w.role = s.role /\ w.phase = s.phase
        /\ s.phase = "transport" => w.log = s.log /\ w.sent = s.sent + 1 /\ Owns(s)
        /\ s.phase = "handshake" =>
             IF Len(s.log) < 2
               THEN ~Owns(s) /\ Owns(w) /\ Own(w) = fresh + 1
               ELSE Continues(s, w)
    BY <2>1, WrittenOK
  <2>4. /\ n.phase = s.phase /\ n.role = s.role /\ n.nonce = s.sent /\ n.log = w.log
    BY DEF Sealed
  <2>5. s.sent \in Nat /\ s.phase \in {"handshake", "transport"}
    BY <2>1 DEF Session
  <2> HIDE DEF W, n
  <2>6. CASE s.phase = "handshake" /\ Len(s.log) < 2
    <3>1. fresh' = fresh + 1 /\ Owns(Sess(p, r)') /\ Own(Sess(p, r)') = fresh + 1
      BY <2>1, <2>3, <2>6
    <3>2. \A m \in net' : m.phase = "transport" => m \in net
      BY <2>1, <2>4, <2>6 DEF n
    <3> QED BY <1>1, <2>2, <3>1, <3>2, NonceMade
  <2>7. CASE s.phase = "handshake" /\ ~(Len(s.log) < 2)
    <3>1. Continues(Sess(p, r), Sess(p, r)')
      BY <2>1, <2>3, <2>5, <2>7 DEF Continues
    <3>2. \A m \in net' : m.phase = "transport" => m \in net
      BY <2>1, <2>4, <2>7 DEF n
    <3>3. fresh' = fresh /\ fresh <= fresh'
      BY <1>2, <2>1, <2>7
    <3>4. \A q, t \in Peer : Continues(Sess(q, t), Sess(q, t)')
      BY <2>2, <3>1
    <3> QED BY <1>1, <1>2, <3>2, <3>3, <3>4, NonceQuiet
  <2>8. CASE s.phase = "transport"
    <3>1. s = Sess(p, r)
      BY <2>1, <2>8 DEF create_initiator, Begun
    <3>2. \A m \in net : m.nonce \in Nat
      BY <1>1 DEF SessionsOK, TypeOK, Packet
    <3>3. UNCHANGED fresh /\ net' = net \cup {n}
      BY <2>1, <2>8 DEF n
    <3>4. /\ Owns(Sess(p, r)) /\ Sess(p, r).phase = "transport"
          /\ Sess(p, r)'.phase = "transport" /\ Sess(p, r).sent \in Nat
          /\ Sess(p, r)'.role = Sess(p, r).role /\ Sess(p, r)'.log = Sess(p, r).log
          /\ Sess(p, r)'.sent = Sess(p, r).sent + 1
          /\ n.role = Sess(p, r).role /\ n.log = Sess(p, r).log
          /\ n.nonce = Sess(p, r).sent
      BY <2>1, <2>3, <2>4, <2>5, <2>8, <3>1
    <3> QED BY <1>1, <2>2, <3>2, <3>3, <3>4, NonceUsed
  <2> QED BY <2>5, <2>6, <2>7, <2>8
<1> QED BY <1>3, <1>4, StepKinds DEF Encrypts

\* No key and nonce encrypt two messages, however packets are repeated and
\* mixed up, sessions dropped for want of room and routers restarted.
THEOREM NonceNeverReused == Spec => []NonceUnique
<1>1. NonceInv => NonceUnique
  BY DEF NonceInv
<1> QED BY <1>1, NonceInit, NonceNext, PTL DEF Spec

-----------------------------------------------------------------------------
(***************************************************************************)
(* Who is at the other end.  The last message of a handshake holds the     *)
(* static key of its writer, and only its reader reaches transport mode.   *)
(***************************************************************************)
AuthInv ==
    /\ SessionsOK
    /\ \A m \in net : m.phase = "handshake" /\ Len(m.log) = 3 =>
         m.log[3].static = StaticOf[m.source]
    /\ TransportAuthenticated

LEMMA AuthInit == Init => AuthInv
<1> SUFFICES ASSUME Init PROVE AuthInv
  OBVIOUS
<1>1. \A p, r \in Peer : cache[p].map[r] = Absent
  BY DEF Init, EmptyCache, Empty
<1>2. Absent.phase # "transport"
  BY DEF Absent
<1> QED BY <1>1, <1>2, SessionsInit DEF AuthInv, Init, TransportAuthenticated, Transport

\* A step keeps the invariant if sessions reach transport mode by reading.
LEMMA AuthStep ==
    ASSUME AuthInv, SessionsOK', net \subseteq net',
           \A q, t \in Peer : Knows(q, t, Sess(q, t), Sess(q, t)'),
           \A m \in net' \ net : m.phase = "handshake" /\ Len(m.log) = 3 =>
             m.log[3].static = StaticOf[m.source]
    PROVE  AuthInv'
<1>1. ASSUME NEW q \in Peer, NEW t \in Peer, Sess(q, t)'.phase = "transport"
      PROVE  /\ StaticOf[t] = t
             /\ \E m \in net' : /\ m.source = t /\ m.destination = q
                                /\ m.phase = "handshake"
                                /\ m.log = Sess(q, t)'.log
  <2>1. CASE Sess(q, t).phase = "transport" /\ Sess(q, t)'.log = Sess(q, t).log
    BY <2>1 DEF AuthInv, TransportAuthenticated, Transport, Sess
  <2>2. CASE Learned(q, t, Sess(q, t)')
    BY <2>2 DEF Learned, AuthInv
  <2> QED BY <1>1, <2>1, <2>2 DEF Knows
<1>2. TransportAuthenticated'
  BY <1>1 DEF TransportAuthenticated, Transport, Sess
<1> QED BY <1>2 DEF AuthInv

LEMMA AuthNext == AuthInv /\ [Next]_vars => AuthInv'
<1> SUFFICES ASSUME AuthInv, [Next]_vars PROVE AuthInv'
  OBVIOUS
<1>1. SessionsOK /\ SessionsOK'
  BY SessionsNext DEF AuthInv
<1>2. CASE Quiet
  BY <1>1, <1>2, QuietSessions, AuthStep
<1>3. ASSUME NEW p \in Peer, NEW r \in Peer, NEW message \in Message,
             TryEncrypt(p, r, message)
      PROVE  AuthInv'
  <2>1. PICK s \in Session :
          /\ s \in {Sess(p, r), create_initiator}
          /\ is_my_turn(s) /\ CanWrite(s) /\ SessionOK(s)
          /\ Written(p, s, message) \in Session
          /\ Sess(p, r)' = Written(p, s, message)
          /\ \A q, t \in Peer : q # p \/ t # r =>
               Sess(q, t)' \in {Sess(q, t), Absent}
          /\ net' = net \cup {Sealed(p, r, s, message)}
    BY <1>1, <1>3, EncryptSessions
  <2> DEFINE w == Written(p, s, message)
             n == Sealed(p, r, s, message)
  <2>2. /\ w.phase = s.phase
        /\ s.phase = "transport" => w.log = s.log
        /\ s.phase = "handshake" =>
             /\ Len(w.log) = Len(s.log) + 1
             /\ w.log[Len(w.log)] = NewEntry(p, s, message)
    BY <2>1, WrittenOK
  <2>3. n.phase = s.phase /\ n.log = w.log /\ n.source = p
    BY DEF Sealed
  <2> HIDE DEF w, n
  <2>4. Knows(p, r, Sess(p, r), Sess(p, r)')
    <3>1. create_initiator.phase # "transport"
      BY DEF create_initiator, Begun
    <3> QED BY <2>1, <2>2, <3>1 DEF Knows, w
  <2>5. \A q, t \in Peer : Knows(q, t, Sess(q, t), Sess(q, t)')
    <3>1. \A q, t \in Peer : /\ Knows(q, t, Sess(q, t), Sess(q, t))
                             /\ Knows(q, t, Sess(q, t), Absent)
      BY DEF Knows, Absent
    <3> QED BY <2>1, <2>4, <3>1
  <2>6. n.phase = "handshake" /\ Len(n.log) = 3 => n.log[3].static = StaticOf[n.source]
    <3> SUFFICES ASSUME n.phase = "handshake", Len(n.log) = 3
                 PROVE  n.log[3].static = StaticOf[p]
      BY <2>3
    <3>1. Len(s.log) \in Nat
      <4>1. s.log \in Seq(Entry)
        BY <2>1 DEF Session
      <4> QED BY <4>1
    <3>2. Len(s.log) + 1 = 3 /\ w.log[3] = NewEntry(p, s, message)
      BY <2>2, <2>3
    <3> QED BY <2>3, <3>1, <3>2 DEF NewEntry
  <2> QED BY <1>1, <2>1, <2>5, <2>6, AuthStep DEF n
<1> QED BY <1>2, <1>3, StepKinds DEF Encrypts

\* A tunnel in transport mode leads to the router it is filed under, for
\* every network and every configuration of keys.
THEOREM TunnelLeadsToItsRouter == Spec => []TransportAuthenticated
<1>1. AuthInv => TransportAuthenticated
  BY DEF AuthInv
<1> QED BY <1>1, AuthInit, AuthNext, PTL DEF Spec

-----------------------------------------------------------------------------
(* Tunnels last *)

Lasts(p, r) == Transport(p, r)' /\ cache'[p].map[r].log = cache[p].map[r].log

LEMMA TransportContained ==
    \A p, r : Transport(p, r) => Contains(cache[p], r)
  BY DEF Transport, Contains, Absent

LEMMA EncryptLasts ==
    ASSUME SessionsOK, NEW p \in Peer, NEW r \in Peer, NEW message \in Message,
           TryEncrypt(p, r, message),
           NEW j \in Peer, Transport(p, j), Len(cache[p].order) <= SessionCap
    PROVE  Lasts(p, j)
<1> DEFINE o == Opened(p, r)
           s == o.map[r]
           w == Written(p, s, message)
<1>1. TypeOK /\ \A q, t \in Peer : SessionOK(Sess(q, t))
  BY DEF SessionsOK
<1>2. cache' = [cache EXCEPT ![p] = Put(o, r, w)] /\ p \in DOMAIN cache
  BY <1>1 DEF TryEncrypt, TypeOK
<1>3. s \in Session /\ is_my_turn(s) /\ CanWrite(s) /\ w \in Session
      /\ s \in {Sess(p, r), create_initiator}
  BY <1>1, EncryptChanges DEF Sess
<1>4. CacheOf(o, Peer, Session) /\ o.map[j] = cache[p].map[j]
  BY <1>1, TransportContained, OpenedTyped
<1> HIDE DEF o, s
<1>5. /\ w.phase = s.phase
      /\ s.phase = "transport" => w.log = s.log
  BY <1>1, <1>3, WrittenOK, NewSessionOK
<1> HIDE DEF w
<1>6. DOMAIN o.map = Peer
  BY <1>4 DEF CacheOf
<1>7. /\ Put(o, r, w).map[r] = w
      /\ j # r => Put(o, r, w).map[j] = o.map[j]
  BY <1>6, PutMap
<1>8. cache'[p] = Put(o, r, w)
  BY <1>2
<1>9. CASE j # r
  BY <1>4, <1>7, <1>8, <1>9 DEF Lasts, Transport
<1>10. CASE j = r
  <2>1. s.phase = "transport" /\ s = cache[p].map[r]
    BY <1>4, <1>10 DEF Transport, s
  <2>2. w.phase = "transport" /\ w.log = cache[p].map[r].log
    BY <1>5, <2>1
  <2> QED BY <1>7, <1>8, <1>10, <2>2 DEF Lasts, Transport
<1> QED BY <1>9, <1>10

LEMMA RefusedLasts ==
    ASSUME SessionsOK, NEW p \in Peer, NEW r \in Peer, NEW message \in Message,
           TryEncryptRefused(p, r, message),
           NEW j \in Peer, Transport(p, j), Len(cache[p].order) <= SessionCap
    PROVE  Lasts(p, j)
<1> DEFINE o == Opened(p, r)
<1>1. TypeOK /\ p \in DOMAIN cache
  BY DEF SessionsOK, TypeOK
<1>2. /\ Checked(p, r).map = cache[p].map
      /\ CacheOf(o, Peer, Session) /\ o.map[j] = cache[p].map[j]
  BY <1>1, TransportContained, OpenedTyped
<1>3. PICK d \in {Checked(p, r), o, Used(o, r)} : cache' = [cache EXCEPT ![p] = d]
  BY DEF TryEncryptRefused
<1> HIDE DEF o
<1>4. Used(o, r).map = o.map
  BY <1>2, UsedKeeps
<1>5. cache'[p].map[j] = cache[p].map[j]
  BY <1>1, <1>2, <1>3, <1>4
<1> QED BY <1>5 DEF Lasts, Transport

\* A session that has been read on settles without dropping another.
LEMMA SettledLasts ==
    ASSUME NEW c, CacheOf(c, Peer, Session), NEW r \in Peer, c.map[r] \in Session,
           NEW message, NEW j \in Peer, j # r,
           c.map[r].phase # "transport" /\ IsHandshakeFinished(c.map[r]) =>
             Len(c.order) <= SessionCap
    PROVE  Settled(c, r, message).map[j] = c.map[j]
<1> DEFINE s == c.map[r]
           t == [s EXCEPT !.phase = "transport", !.my_turn = FALSE]
           b == Remove(c, r)
<1>1. t \in Session /\ t # Absent /\ SessionCap \in Nat /\ Contains(c, r)
  <2>1. t \in Session
    BY DEF Session
  <2>2. Contains(c, r)
    BY NewSessions DEF Contains
  <2> QED BY <2>1, <2>2, NewSessions, TunnelAssumption
<1>2. /\ CacheOf(b, Peer, Session) /\ DOMAIN c.map = Peer /\ DOMAIN b.map = Peer
      /\ Len(b.order) = Len(c.order) - 1
  BY <1>1, RemoveKeeps DEF CacheOf
<1>3. b.map[r] = Absent /\ b.map[j] = c.map[j]
  BY <1>2 DEF Remove
<1>4. \/ Settled(c, r, message) \in {c, b}
      \/ /\ Settled(c, r, message) = Insert(b, r, t)
         /\ s.phase # "transport" /\ IsHandshakeFinished(s)
  BY DEF Settled
<1> HIDE DEF b, t
<1>5. ASSUME Len(c.order) <= SessionCap
      PROVE  Insert(b, r, t).map[j] = c.map[j]
  <2>1. Len(c.order) \in Nat
    BY DEF CacheOf
  <2>2. ~Contains(b, r) /\ Len(b.order) < SessionCap
    BY <1>1, <1>2, <1>3, <1>5, <2>1 DEF Contains
  <2>3. Insert(b, r, t) = Put(b, r, t)
    BY <1>1, <1>2, <2>2, InsertWithRoom
  <2> QED BY <1>2, <1>3, <2>3, PutMap
<1> QED BY <1>3, <1>4, <1>5

LEMMA DecryptLasts ==
    ASSUME SessionsOK, NEW p \in Peer, NEW m \in net, TryDecrypt(p, m),
           NEW j \in Peer, Transport(p, j), Len(cache[p].order) <= SessionCap
    PROVE  Lasts(p, j)
<1> DEFINE r == m.source
           c == cache[p]
           o == EntryOr(c, r, create_responder)
           s == o.map[r]
           u == Read(s, m)
<1>1. /\ TypeOK /\ p \in DOMAIN cache /\ m \in Packet /\ r \in Peer
      /\ SessionOK(Sess(p, r)) /\ CacheOf(c, Peer, Session)
  BY DEF SessionsOK, TypeOK, Packet
<1>2. Contains(c, j)
  BY TransportContained
<1>3. /\ CacheOf(o, Peer, Session) /\ DOMAIN o.map = Peer
      /\ s \in Session /\ s \in {c.map[r], create_responder}
      /\ o.map[j] = c.map[j]
      /\ Contains(c, r) => o = c
  <2>1. CacheOf(o, Peer, Session) => DOMAIN o.map = Peer
    BY DEF CacheOf
  <2> QED BY <1>1, <1>2, <2>1, EntryTyped, NewSessions
<1>4. ~is_my_turn(create_responder)
  BY DEF is_my_turn, create_responder, Begun
<1>5. \/ /\ is_their_turn(s) /\ MayRead(s, m)
         /\ \E message : cache' = [cache EXCEPT ![p] = Settled(Put(o, r, u), r, message)]
      \/ cache' = [cache EXCEPT ![p] = Used(o, r)]
      \/ cache' = [cache EXCEPT ![p] = o]
  BY <1>4 DEF TryDecrypt, RetriedAsResponder
<1>6. SessionOK(s) /\ s \in {Sess(p, r), create_responder}
  BY <1>1, <1>3, NewSessionOK DEF Sess
<1> HIDE DEF o, s
<1>7. CASE cache' \in {[cache EXCEPT ![p] = Used(o, r)], [cache EXCEPT ![p] = o]}
  <2>1. Used(o, r).map = o.map
    BY <1>1, <1>3, UsedKeeps
  <2>2. cache'[p].map[j] = c.map[j]
    BY <1>1, <1>3, <1>7, <2>1
  <2> QED BY <2>2 DEF Lasts, Transport
<1>8. ASSUME is_their_turn(s), MayRead(s, m), NEW message,
             cache' = [cache EXCEPT ![p] = Settled(Put(o, r, u), r, message)]
      PROVE  Lasts(p, j)
  <2> DEFINE d == Put(o, r, u)
             e == Settled(d, r, message)
  <2>1. /\ u.phase = s.phase
        /\ u.phase = "transport" => u.log = s.log
        /\ Continues(s, u)
    BY <1>1, <1>3, <1>6, <1>8, ReadOK
  <2>2. u \in Session /\ u # Absent
    BY <1>1, <1>3, ReadTyped, NewSessions
  <2>3. IsHandshakeFinished(u) => Owns(s)
    <3>1. ASSUME Len(u.log) = 3 PROVE Owns(u)
      BY <3>1 DEF Owns
    <3> QED BY <2>1, <3>1 DEF IsHandshakeFinished, Continues
  <2>4. ~Owns(create_responder)
    BY EmptySeq DEF Owns, create_responder, Begun
  <2> HIDE DEF u
  <2>5. /\ CacheOf(d, Peer, Session) /\ d.map[r] = u
        /\ j # r => d.map[j] = o.map[j]
        /\ Contains(o, r) => Len(d.order) = Len(o.order)
    BY <1>1, <1>3, <2>2, PutKeeps, PutMap
  <2>6. s # create_responder => Contains(c, r) /\ s = c.map[r]
    BY <1>3, NewSessions DEF Contains
  <2>7. Contains(o, r)
    BY <1>3, NewSessions DEF Contains, s
  <2>8. u.phase # "transport" /\ IsHandshakeFinished(u) => Len(d.order) <= SessionCap
    BY <1>3, <2>3, <2>4, <2>5, <2>6, <2>7
  <2> HIDE DEF d
  <2>9. CASE j # r
    <3>1. e.map[j] = d.map[j]
      BY <1>1, <2>2, <2>5, <2>8, <2>9, SettledLasts
    <3>2. cache'[p] = e
      BY <1>1, <1>8 DEF d
    <3> HIDE DEF e
    <3>3. cache'[p].map[j] = c.map[j]
      BY <1>3, <2>5, <2>9, <3>1, <3>2
    <3> QED BY <3>3 DEF Lasts, Transport
  <2>10. CASE j = r
    <3>1. s = c.map[r] /\ s.phase = "transport"
      BY <1>2, <1>3, <2>10 DEF Transport, s
    <3>2. u.phase = "transport" /\ u.log = c.map[r].log
      BY <2>1, <3>1
    <3>3. e = d
      BY <2>5, <3>2 DEF Settled
    <3>4. cache'[p].map[j] = u
      BY <1>1, <1>8, <2>5, <2>10, <3>3 DEF d
    <3> QED BY <2>10, <3>2, <3>4 DEF Lasts, Transport
  <2> QED BY <2>9, <2>10
<1> QED BY <1>5, <1>7, <1>8

LEMMA LastsNext ==
    ASSUME SessionsOK, Next, NEW q \in Peer, NEW j \in Peer, Transport(q, j),
           Len(cache[q].order) <= SessionCap, UNCHANGED restarts
    PROVE  Lasts(q, j)
<1>1. restarts \in Nat /\ q \in DOMAIN cache
  BY TunnelAssumption DEF SessionsOK, TypeOK
<1>2. ASSUME NEW p \in Peer, p # q, NEW d, cache' = [cache EXCEPT ![p] = d]
      PROVE  Lasts(q, j)
  BY <1>1, <1>2 DEF Lasts, Transport
<1>3. ASSUME NEW p \in Peer, NEW r \in Peer, NEW message \in Message,
             TryEncrypt(p, r, message)
      PROVE  Lasts(q, j)
  <2>1. \E d : cache' = [cache EXCEPT ![p] = d]
    BY <1>3 DEF TryEncrypt
  <2> QED BY <1>2, <1>3, <2>1, EncryptLasts
<1>4. ASSUME NEW p \in Peer, NEW r \in Peer, NEW message \in Message,
             TryEncryptRefused(p, r, message)
      PROVE  Lasts(q, j)
  <2>1. \E d : cache' = [cache EXCEPT ![p] = d]
    BY <1>4 DEF TryEncryptRefused
  <2> QED BY <1>2, <1>4, <2>1, RefusedLasts
<1>5. ASSUME NEW p \in Peer, NEW m \in net, TryDecrypt(p, m)
      PROVE  Lasts(q, j)
  <2>1. \E d : cache' = [cache EXCEPT ![p] = d]
    BY <1>5 DEF TryDecrypt
  <2> QED BY <1>2, <1>5, <2>1, DecryptLasts
<1>6. ASSUME NEW p \in Peer, Restart(p)
      PROVE  FALSE
  BY <1>1, <1>6 DEF Restart
<1> QED BY <1>3, <1>4, <1>5, <1>6 DEF Next

\* No packet ends a tunnel: only a restart does, or an overfull cache.
THEOREM TunnelLasts == Spec => TransportIsStable
<1>1. SessionsOK /\ [Next]_vars =>
        [\A p, r \in Peer :
           /\ Transport(p, r)
           /\ Len(cache[p].order) <= SessionCap
           /\ UNCHANGED restarts
           => Transport(p, r)' /\ cache'[p].map[r].log = cache[p].map[r].log]_vars
  BY LastsNext DEF Lasts
<1> QED BY <1>1, SessionsInit, SessionsNext, PTL DEF Spec, TransportIsStable

-----------------------------------------------------------------------------
(***************************************************************************)
(* Who reads what is encrypted.  Only responders come into transport mode, *)
(* so that all that is encrypted is for an initiator in transport mode.    *)
(***************************************************************************)
RespondersEncrypt ==
    \A m \in net : m.phase = "transport" => m.role = "responder"

LEMMA RespondersNext ==
    ASSUME SessionsOK, RespondersEncrypt, [Next]_vars
    PROVE  RespondersEncrypt'
<1>1. ASSUME NEW p \in Peer, NEW r \in Peer, NEW message \in Message,
             TryEncrypt(p, r, message)
      PROVE  RespondersEncrypt'
  <2>1. PICK s \in Session :
          SessionOK(s) /\ net' = net \cup {Sealed(p, r, s, message)}
    BY <1>1, EncryptSessions
  <2>2. Sealed(p, r, s, message).phase = "transport" =>
          Sealed(p, r, s, message).role = "responder"
    BY <2>1 DEF Sealed, SessionOK
  <2> QED BY <2>1, <2>2 DEF RespondersEncrypt
<1>2. CASE Quiet
  BY <1>2, QuietSessions DEF RespondersEncrypt
<1> QED BY <1>1, <1>2, StepKinds DEF Encrypts

\* No packet that was encrypted in transport mode is ever decrypted, by any
\* router, in any order of calls, losses, replays and restarts.
THEOREM TunnelIsDeaf == Spec => []EncryptedIsNeverRead
<1>1. Init => SessionsOK /\ RespondersEncrypt
  BY SessionsInit DEF Init, RespondersEncrypt
<1>2. SessionsOK /\ RespondersEncrypt /\ [Next]_vars
        => (SessionsOK /\ RespondersEncrypt)'
  BY SessionsNext, RespondersNext
<1>3. ASSUME SessionsOK, RespondersEncrypt, NEW m \in net,
             m.phase = "transport", ReadsNext(Sess(m.destination, m.source), m)
      PROVE  FALSE
  <2>1. m.destination \in Peer /\ m.source \in Peer /\ m.role = "responder"
    BY <1>3 DEF SessionsOK, TypeOK, Packet, RespondersEncrypt
  <2>2. /\ Sess(m.destination, m.source).phase = "transport"
        /\ Sess(m.destination, m.source).role # m.role
    BY <1>3 DEF ReadsNext
  <2> QED BY <1>3, <2>1, <2>2 DEF SessionsOK, SessionOK
<1>4. SessionsOK /\ RespondersEncrypt => EncryptedIsNeverRead
  BY <1>3 DEF EncryptedIsNeverRead, Sess
<1> QED BY <1>1, <1>2, <1>4, PTL DEF Spec

=============================================================================
