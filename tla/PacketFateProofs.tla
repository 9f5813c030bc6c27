--------------------------- MODULE PacketFateProofs ---------------------------
(***************************************************************************)
(* That the links of PeerLinks neither multiply nor lose packets, for      *)
(* every set of addresses, links and packets, every capacity and every     *)
(* number of worker threads.                                               *)
(*                                                                         *)
(* A packet is at a site of the process: with a task, in a queue, not yet  *)
(* in the process, or sent.  The argument is that every step either moves  *)
(* one packet from its site to another one, or drops packets; the latter   *)
(* where the code gives up a queue or a task.                              *)
(***************************************************************************)
EXTENDS PeerLinksProofs, FiniteSetTheorems

-----------------------------------------------------------------------------
(* Queues *)

LEMMA EmptyQueue == Range(<<>>) = {} /\ IsInjective(<<>>)
  BY DEF Range, IsInjective

LEMMA AppendedQueue ==
    ASSUME NEW q \in Seq(Packet), NEW p \in Packet
    PROVE  /\ Range(Append(q, p)) = Range(q) \cup {p}
           /\ IsInjective(q) /\ p \notin Range(q) => IsInjective(Append(q, p))
<1> DEFINE r == Append(q, p)
<1>1. /\ r \in Seq(Packet) /\ Len(r) = Len(q) + 1 /\ Len(q) \in Nat
      /\ DOMAIN r = 1..Len(q) + 1 /\ DOMAIN q = 1..Len(q)
      /\ r[Len(q) + 1] = p /\ \A i \in 1..Len(q) : r[i] = q[i]
  OBVIOUS
<1> HIDE DEF r
<1>2. Range(r) = Range(q) \cup {p}
  BY <1>1 DEF Range
<1>3. IsInjective(q) /\ p \notin Range(q) => IsInjective(r)
  BY <1>1 DEF Range, IsInjective
<1> QED BY <1>2, <1>3 DEF r

LEMMA TakenQueue ==
    ASSUME NEW q \in Seq(Packet), q # <<>>, IsInjective(q)
    PROVE  /\ Head(q) \in Range(q) /\ Range(Tail(q)) = Range(q) \ {Head(q)}
           /\ IsInjective(Tail(q))
<1> DEFINE t == Tail(q)
<1>1. /\ t \in Seq(Packet) /\ Len(t) = Len(q) - 1 /\ Len(q) \in Nat \ {0}
      /\ DOMAIN t = 1..Len(q) - 1 /\ DOMAIN q = 1..Len(q)
      /\ Head(q) = q[1] /\ \A i \in 1..Len(q) - 1 : t[i] = q[i + 1]
  OBVIOUS
<1> HIDE DEF t
<1>2. Head(q) \in Range(q)
  BY <1>1 DEF Range
<1>3. IsInjective(t)
  <2> SUFFICES ASSUME NEW i \in DOMAIN t, NEW j \in DOMAIN t, t[i] = t[j]
               PROVE  i = j
    BY DEF IsInjective
  <2>1. /\ i + 1 \in DOMAIN q /\ j + 1 \in DOMAIN q
        /\ q[i + 1] = q[j + 1]
    BY <1>1
  <2>2. i + 1 = j + 1
    BY <2>1 DEF IsInjective
  <2> QED BY <1>1, <2>2
<1>4. ASSUME NEW i \in DOMAIN t
      PROVE  t[i] \in Range(q) \ {Head(q)}
  <2>1. /\ i + 1 \in DOMAIN q /\ 1 \in DOMAIN q /\ i + 1 # 1
        /\ t[i] = q[i + 1] /\ Head(q) = q[1]
    BY <1>1
  <2>2. q[i + 1] # q[1]
    BY <2>1 DEF IsInjective
  <2> QED BY <2>1, <2>2 DEF Range
<1>5. ASSUME NEW i \in DOMAIN q, q[i] # Head(q)
      PROVE  q[i] \in Range(t)
  <2>1. i - 1 \in DOMAIN t /\ t[i - 1] = q[i]
    BY <1>1, <1>5
  <2> QED BY <2>1 DEF Range
<1>6. Range(t) = Range(q) \ {Head(q)}
  BY <1>4, <1>5 DEF Range
<1> QED BY <1>2, <1>3, <1>6 DEF t

-----------------------------------------------------------------------------
(* Sites *)

Kind == {"received", "sending", "pipe", "sent", "packet_router_pipe",
         "transport_packet_pipe", "routing", "held", "unseen"}

\* Packet p is at the site of this kind, of link c if links have such sites.
At(p, kind, c) ==
    \/ kind = "received" /\ c \in Conn /\ received[c] = p
    \/ kind = "sending"  /\ c \in Conn /\ sending[c] = p
    \/ kind = "pipe"     /\ c \in Conn /\ p \in Range(pipe[c])
    \/ kind = "sent"     /\ c \in Conn /\ <<c, p>> \in sent_ok
    \/ kind = "packet_router_pipe" /\ c = None
         /\ p \in Range(packet_router_pipe)
    \/ kind = "transport_packet_pipe" /\ c = None
         /\ p \in Range(transport_packet_pipe)
    \/ kind = "routing"  /\ c = None /\ routing.packet = p
    \/ kind = "held"     /\ c = None /\ p \in held
    \/ kind = "unseen"   /\ c = None /\ p \in unseen

\* Every packet is at one site at most, and in no queue twice.
OnePlace ==
    \A p \in Packet : \A j, k \in Kind : \A c, d \in Conn \cup {None} :
        At(p, j, c) /\ At(p, k, d) => j = k /\ c = d

InjectiveQueues ==
    /\ \A c \in Conn : IsInjective(pipe[c])
    /\ IsInjective(packet_router_pipe)
    /\ IsInjective(transport_packet_pipe)

\* The kinds of sites inside the process.
Inside == Kind \ {"unseen", "sent"}

siteVars == <<received, sending, pipe, sent_ok, packet_router_pipe,
              transport_packet_pipe, routing, held, unseen>>

\* The step moves packet p from one site to another one.
Moves(p, k, c, l, d) ==
    /\ At(p, k, c) /\ ~At(p, k, c)' /\ At(p, l, d)'
    /\ \A q \in Packet : \A j \in Kind : \A e \in Conn \cup {None} :
         ~(q = p /\ ((j = k /\ e = c) \/ (j = l /\ e = d)))
         => (At(q, j, e)' <=> At(q, j, e))

\* The step drops packets that were inside.
Drops ==
    \A q \in Packet : \A j \in Kind : \A e \in Conn \cup {None} :
        /\ At(q, j, e)' => At(q, j, e)
        /\ j \notin Inside => (At(q, j, e)' <=> At(q, j, e))

LEMMA MovesOne ==
    ASSUME OnePlace, NEW p \in Packet, NEW k \in Kind, NEW l \in Kind,
           NEW c \in Conn \cup {None}, NEW d \in Conn \cup {None},
           Moves(p, k, c, l, d)
    PROVE  OnePlace'
<1> SUFFICES ASSUME NEW q \in Packet, NEW i \in Kind, NEW j \in Kind,
                    NEW a \in Conn \cup {None}, NEW b \in Conn \cup {None},
                    At(q, i, a)', At(q, j, b)'
             PROVE  i = j /\ a = b
  BY DEF OnePlace
<1>1. CASE q # p
  BY <1>1 DEF Moves, OnePlace
<1>2. CASE q = p
  <2>1. (i = l /\ a = d) \/ (At(p, i, a) /\ ~(i = k /\ a = c))
    BY <1>2 DEF Moves
  <2>2. (j = l /\ b = d) \/ (At(p, j, b) /\ ~(j = k /\ b = c))
    BY <1>2 DEF Moves
  <2> QED BY <2>1, <2>2 DEF Moves, OnePlace
<1> QED BY <1>1, <1>2

LEMMA DropsOne == OnePlace /\ Drops => OnePlace'
  BY DEF OnePlace, Drops

\* What a step does to the packets, and what failure it records.
SiteStep ==
    \/ UNCHANGED siteVars
    \/ Drops /\ fault'
    \/ \E p \in Packet, c \in Conn :
         /\ \/ Moves(p, "unseen", None, "received", c)
            \/ Moves(p, "sending", c, "sent", c)
         /\ fault' <=> fault
    \/ \E p \in Packet : \E k, l \in Inside : \E c, d \in Conn \cup {None} :
         Moves(p, k, c, l, d)

\* A task holds a packet only where the code passes one on.
EmptyHanded ==
    /\ \A c \in Conn : sender[c] \notin {"write", "reroute"}
                         => sending[c] = None
    /\ \A c \in Conn : listener[c] # "forward" => received[c] = None
    /\ router # "sending" => routing = Nothing

SiteInv == Inv /\ EmptyHanded /\ OnePlace /\ InjectiveQueues

LEMMA SiteInit == Init => EmptyHanded /\ OnePlace /\ InjectiveQueues
<1> SUFFICES ASSUME Init PROVE EmptyHanded /\ OnePlace /\ InjectiveQueues
  OBVIOUS
<1>1. EmptyHanded
  BY DEF Init, EmptyHanded
<1>2. InjectiveQueues
  BY EmptyQueue DEF Init, InjectiveQueues
<1>3. ASSUME NEW p \in Packet, NEW k \in Kind, NEW c \in Conn \cup {None},
             At(p, k, c)
      PROVE  k = "unseen" /\ c = None
  BY <1>3, EmptyQueue, LinkAssumption DEF Init, At, Nothing
<1>4. OnePlace
  BY <1>3 DEF OnePlace
<1> QED BY <1>1, <1>2, <1>4

\* Facts about typing that every step uses.
LEMMA WellTyped ==
    SiteInv => /\ None \notin Packet /\ None \notin Conn
               /\ pipe \in [Conn -> Seq(Packet)]
               /\ packet_router_pipe \in Seq(Packet)
               /\ transport_packet_pipe \in Seq(Packet)
               /\ sending \in [Conn -> Packet \cup {None}]
               /\ received \in [Conn -> Packet \cup {None}]
               /\ sender \in [Conn -> SenderStep]
               /\ listener \in [Conn -> ListenerStep]
               /\ held \subseteq Packet /\ unseen \subseteq Packet
  BY LinkAssumption DEF SiteInv, Inv, Typed, TypeOK

-----------------------------------------------------------------------------
(* The steps of a sender task *)

LEMMA SenderRecvMoves ==
    ASSUME SiteInv, NEW c \in Conn, SenderRecv(c)
    PROVE  SiteStep /\ InjectiveQueues'
<1> USE DEF exceptSender, listenerVars, routerVars, sorterVars
<1>1. CASE UNCHANGED siteVars
  BY <1>1 DEF SiteStep, SiteInv, InjectiveQueues, siteVars
<1>2. CASE /\ pipe[c] # <<>>
           /\ sending' = [sending EXCEPT ![c] = Head(pipe[c])]
           /\ pipe' = [pipe EXCEPT ![c] = Tail(pipe[c])]
  <2>0. PICK p \in Packet : p = Head(pipe[c])
    BY <1>2, WellTyped, QueueSteps
  <2>1. /\ p \in Packet /\ p \in Range(pipe[c])
        /\ Range(Tail(pipe[c])) = Range(pipe[c]) \ {p}
        /\ IsInjective(Tail(pipe[c]))
    BY <1>2, <2>0, WellTyped, TakenQueue DEF SiteInv, InjectiveQueues
  <2>2. sending[c] = None
    BY DEF SenderRecv, SiteInv, EmptyHanded
  <2>3. UNCHANGED <<received, sent_ok, packet_router_pipe,
                    transport_packet_pipe, routing, held, unseen>>
    BY DEF SenderRecv
  <2>4. /\ sending' = [sending EXCEPT ![c] = p]
        /\ Range(pipe'[c]) = Range(pipe[c]) \ {p}
        /\ \A d \in Conn \ {c} : pipe'[d] = pipe[d] /\ sending'[d] = sending[d]
        /\ sending'[c] = p
    BY <1>2, <2>0, <2>1, WellTyped
  <2>5. Moves(p, "pipe", c, "sending", c)
    <3>1. /\ At(p, "pipe", c) /\ ~At(p, "pipe", c)' /\ At(p, "sending", c)'
      BY <2>1, <2>4 DEF At
    <3> SUFFICES ASSUME NEW q \in Packet, NEW j \in Kind,
                        NEW e \in Conn \cup {None},
                        ~(q = p /\ e = c /\ j \in {"pipe", "sending"})
                 PROVE  At(q, j, e)' <=> At(q, j, e)
      BY <3>1 DEF Moves
    <3>2. CASE j = "pipe"
      BY <2>1, <2>4, <3>2 DEF At
    <3>3. CASE j = "sending"
      BY <2>2, <2>4, <3>3, WellTyped DEF At
    <3>4. CASE j \notin {"pipe", "sending"}
      BY <2>3, <3>4 DEF At
    <3> QED BY <3>2, <3>3, <3>4
  <2>6. InjectiveQueues'
    BY <1>2, <2>1, <2>3, <2>4, WellTyped DEF SiteInv, InjectiveQueues
  <2> QED BY <2>1, <2>5, <2>6 DEF SiteStep, Inside, Kind
<1> QED BY <1>1, <1>2 DEF SenderRecv, siteVars, Taken

LEMMA SenderWriteMoves ==
    ASSUME SiteInv, NEW c \in Conn, SenderWrite(c)
    PROVE  SiteStep /\ InjectiveQueues'
<1> USE DEF exceptSender, listenerVars, routerVars, sorterVars
<1>1. UNCHANGED <<pipe, received, packet_router_pipe, transport_packet_pipe,
                  routing, held, unseen, listener, router, sorter_up>>
  BY DEF SenderWrite
<1>2. InjectiveQueues'
  BY <1>1 DEF SiteInv, InjectiveQueues
<1>3. CASE UNCHANGED siteVars
  BY <1>2, <1>3 DEF SiteStep
<1>4. CASE /\ sent_ok' = sent_ok \cup {<<c, sending[c]>>}
           /\ sending' = [sending EXCEPT ![c] = None]
           /\ sender' = [sender EXCEPT ![c] = "check"]
  <2>1. PICK p \in Packet : p = sending[c]
    BY DEF SenderWrite, SiteInv, Inv, Typed, TasksHold
  <2>2. /\ \A d \in Conn \ {c} : sending'[d] = sending[d]
        /\ sending'[c] = None
    BY <1>4, WellTyped
  <2>3. Moves(p, "sending", c, "sent", c)
    <3>1. /\ At(p, "sending", c) /\ ~At(p, "sending", c)' /\ At(p, "sent", c)'
      BY <1>4, <2>1, <2>2, WellTyped DEF At
    <3> SUFFICES ASSUME NEW q \in Packet, NEW j \in Kind,
                        NEW e \in Conn \cup {None},
                        ~(q = p /\ e = c /\ j \in {"sending", "sent"})
                 PROVE  At(q, j, e)' <=> At(q, j, e)
      BY <3>1 DEF Moves
    <3>2. CASE j = "sending"
      BY <2>1, <2>2, <3>2, WellTyped DEF At
    <3>3. CASE j = "sent"
      BY <1>4, <2>1, <3>3 DEF At
    <3>4. CASE j \notin {"sending", "sent"}
      BY <1>1, <3>4 DEF At
    <3> QED BY <3>2, <3>3, <3>4
  <2>4. fault' <=> fault
    <3>1. sender[c] = "write" /\ sender'[c] = "check"
          /\ \A d \in Conn \ {c} : sender'[d] = sender[d]
      BY <1>4, WellTyped DEF SenderWrite
    <3> QED BY <1>1, <3>1 DEF fault
  <2> QED BY <1>2, <2>3, <2>4 DEF SiteStep
<1> QED BY <1>1, <1>3, <1>4 DEF SenderWrite, siteVars, Kept

\* A sender task that ends drops the queue of its pipe, and what it holds if
\* it panics.
LEMMA EndDrops ==
    ASSUME SiteInv, NEW c \in Conn, NEW step \in {"done", "panicked"},
           SenderEnds(c, step),
           UNCHANGED <<sent_ok, received, packet_router_pipe,
                       transport_packet_pipe, routing, held, unseen>>,
           sending' \in {sending, [sending EXCEPT ![c] = None]}
    PROVE  SiteStep /\ InjectiveQueues'
<1>1. /\ \A d \in Conn \ {c} : pipe'[d] = pipe[d]
      /\ pipe'[c] = <<>> /\ Range(pipe'[c]) = {} /\ IsInjective(pipe'[c])
      /\ sender'[c] = step
      /\ \A d \in Conn : sending'[d] \in {sending[d], None}
  BY WellTyped, EmptyQueue DEF SenderEnds
<1>2. InjectiveQueues'
  BY <1>1 DEF SiteInv, InjectiveQueues
<1>3. fault'
  BY <1>1 DEF fault
<1>4. Drops
  <2> SUFFICES ASSUME NEW q \in Packet, NEW j \in Kind,
                      NEW e \in Conn \cup {None}
               PROVE  /\ At(q, j, e)' => At(q, j, e)
                      /\ j \notin Inside => (At(q, j, e)' <=> At(q, j, e))
    BY DEF Drops
  <2>1. CASE j \in {"sending", "pipe"}
    BY <1>1, <2>1, WellTyped DEF At, Inside, Kind
  <2>2. CASE j \notin {"sending", "pipe"}
    BY <2>2 DEF At
  <2> QED BY <2>1, <2>2
<1> QED BY <1>2, <1>3, <1>4 DEF SiteStep

LEMMA SenderRerouteMoves ==
    ASSUME SiteInv, NEW c \in Conn, SenderReroute(c)
    PROVE  SiteStep /\ InjectiveQueues'
<1> USE DEF exceptSender, listenerVars, routerVars, sorterVars
<1>1. /\ UNCHANGED <<sent_ok, received, transport_packet_pipe, routing, held,
                     unseen>>
      /\ sending' = [sending EXCEPT ![c] = None]
  BY DEF SenderReroute
<1>2. CASE SenderEnds(c, "panicked") /\ UNCHANGED packet_router_pipe
  BY <1>1, <1>2, EndDrops
<1>3. CASE /\ packet_router_pipe' = Append(packet_router_pipe, sending[c])
           /\ UNCHANGED pipe
  <2>1. PICK p \in Packet : p = sending[c]
    BY DEF SenderReroute, SiteInv, Inv, Typed, TasksHold
  <2>2. p \notin Range(packet_router_pipe)
    BY <2>1 DEF SiteInv, OnePlace, At, Kind
  <2>3. /\ Range(packet_router_pipe') = Range(packet_router_pipe) \cup {p}
        /\ IsInjective(packet_router_pipe')
    BY <1>3, <2>1, <2>2, AppendedQueue, WellTyped DEF SiteInv, InjectiveQueues
  <2>4. InjectiveQueues'
    BY <1>1, <1>3, <2>3 DEF SiteInv, InjectiveQueues
  <2>5. /\ \A d \in Conn \ {c} : sending'[d] = sending[d]
        /\ sending'[c] = None
    BY <1>1, WellTyped
  <2>6. Moves(p, "sending", c, "packet_router_pipe", None)
    <3>1. /\ At(p, "sending", c) /\ ~At(p, "sending", c)'
          /\ At(p, "packet_router_pipe", None)'
      BY <2>1, <2>3, <2>5, WellTyped DEF At
    <3> SUFFICES ASSUME NEW q \in Packet, NEW j \in Kind,
                        NEW e \in Conn \cup {None},
                        ~(q = p /\ \/ j = "sending" /\ e = c
                                   \/ j = "packet_router_pipe" /\ e = None)
                 PROVE  At(q, j, e)' <=> At(q, j, e)
      BY <3>1 DEF Moves
    <3>2. CASE j = "sending"
      BY <2>1, <2>5, <3>2, WellTyped DEF At
    <3>3. CASE j = "packet_router_pipe"
      BY <2>3, <3>3 DEF At
    <3>4. CASE j \notin {"sending", "packet_router_pipe"}
      BY <1>1, <1>3, <3>4 DEF At
    <3> QED BY <3>2, <3>3, <3>4
  <2> QED BY <2>4, <2>6 DEF SiteStep, Inside, Kind
<1> QED BY <1>2, <1>3 DEF SenderReroute

LEMMA SenderSteps ==
    ASSUME SiteInv, NEW c \in Conn, SenderWork(c) \/ SenderWrite(c)
    PROVE  SiteStep /\ InjectiveQueues'
<1> USE DEF exceptSender, listenerVars, routerVars, sorterVars
<1>1. CASE SenderCheck(c)
  <2>1. UNCHANGED <<sending, sent_ok, received, packet_router_pipe,
                    transport_packet_pipe, routing, held, unseen>>
    BY <1>1 DEF SenderCheck
  <2>2. CASE SenderEnds(c, "done")
    BY <2>1, <2>2, EndDrops
  <2>3. CASE UNCHANGED pipe
    BY <2>1, <2>3 DEF SiteStep, siteVars, SiteInv, InjectiveQueues
  <2> QED BY <1>1, <2>2, <2>3 DEF SenderCheck
<1>2. CASE SenderRemove(c)
  BY <1>2, EndDrops DEF SenderRemove
<1> QED BY <1>1, <1>2, SenderRecvMoves, SenderWriteMoves, SenderRerouteMoves
        DEF SenderWork

-----------------------------------------------------------------------------
(* The steps of a listener task *)

LEMMA ListenerForwardMoves ==
    ASSUME SiteInv, NEW c \in Conn, ListenerForward(c)
    PROVE  SiteStep /\ InjectiveQueues'
<1> USE DEF exceptListener, openVars, senderVars, routerVars, sorterVars
<1>1. /\ UNCHANGED <<sending, pipe, sent_ok, packet_router_pipe, routing, held,
                     unseen>>
      /\ \A d \in Conn \ {c} : received'[d] = received[d]
      /\ received'[c] = None
  BY WellTyped DEF ListenerForward
<1>2. CASE /\ listener' = [listener EXCEPT ![c] = "panicked"]
           /\ UNCHANGED transport_packet_pipe
  <2>1. fault'
    BY <1>2, WellTyped DEF fault
  <2>2. InjectiveQueues'
    BY <1>1, <1>2 DEF SiteInv, InjectiveQueues
  <2>3. Drops
    <3> SUFFICES ASSUME NEW q \in Packet, NEW j \in Kind,
                        NEW e \in Conn \cup {None}
                 PROVE  /\ At(q, j, e)' => At(q, j, e)
                        /\ j \notin Inside => (At(q, j, e)' <=> At(q, j, e))
      BY DEF Drops
    <3>1. CASE j = "received"
      BY <1>1, <3>1, WellTyped DEF At, Inside, Kind
    <3>2. CASE j # "received"
      BY <1>1, <1>2, <3>2 DEF At
    <3> QED BY <3>1, <3>2
  <2> QED BY <2>1, <2>2, <2>3 DEF SiteStep
<1>3. CASE transport_packet_pipe' = Append(transport_packet_pipe, received[c])
  <2>1. PICK p \in Packet : p = received[c]
    BY DEF ListenerForward, SiteInv, Inv, Typed, TasksHold
  <2>2. p \notin Range(transport_packet_pipe)
    BY <2>1 DEF SiteInv, OnePlace, At, Kind
  <2>3. /\ Range(transport_packet_pipe') = Range(transport_packet_pipe) \cup {p}
        /\ IsInjective(transport_packet_pipe')
    BY <1>3, <2>1, <2>2, AppendedQueue, WellTyped DEF SiteInv, InjectiveQueues
  <2>4. InjectiveQueues'
    BY <1>1, <2>3 DEF SiteInv, InjectiveQueues
  <2>5. Moves(p, "received", c, "transport_packet_pipe", None)
    <3>1. /\ At(p, "received", c) /\ ~At(p, "received", c)'
          /\ At(p, "transport_packet_pipe", None)'
      BY <1>1, <2>1, <2>3, WellTyped DEF At
    <3> SUFFICES ASSUME NEW q \in Packet, NEW j \in Kind,
                        NEW e \in Conn \cup {None},
                        ~(q = p /\ \/ j = "received" /\ e = c
                                   \/ j = "transport_packet_pipe" /\ e = None)
                 PROVE  At(q, j, e)' <=> At(q, j, e)
      BY <3>1 DEF Moves
    <3>2. CASE j = "received"
      BY <1>1, <2>1, <3>2, WellTyped DEF At
    <3>3. CASE j = "transport_packet_pipe"
      BY <2>3, <3>3 DEF At
    <3>4. CASE j \notin {"received", "transport_packet_pipe"}
      BY <1>1, <3>4 DEF At
    <3> QED BY <3>2, <3>3, <3>4
  <2> QED BY <2>4, <2>5 DEF SiteStep, Inside, Kind
<1> QED BY <1>2, <1>3 DEF ListenerForward

LEMMA ListenerReadMoves ==
    ASSUME SiteInv, NEW c \in Conn, ListenerRead(c)
    PROVE  SiteStep /\ InjectiveQueues'
<1> USE DEF exceptListener, openVars, senderVars, routerVars, sorterVars
<1>1. UNCHANGED <<sending, pipe, sent_ok, packet_router_pipe,
                  transport_packet_pipe, routing, held, sender, router,
                  sorter_up>>
  BY DEF ListenerRead
<1>2. InjectiveQueues'
  BY <1>1 DEF SiteInv, InjectiveQueues
<1>3. CASE UNCHANGED <<received, unseen>>
  BY <1>1, <1>2, <1>3 DEF SiteStep, siteVars
<1>4. ASSUME NEW p \in unseen,
             unseen' = unseen \ {p},
             received' = [received EXCEPT ![c] = p],
             listener' = [listener EXCEPT ![c] = "forward"]
      PROVE  SiteStep
  <2>1. /\ p \in Packet /\ p # None /\ received[c] = None
        /\ listener[c] = "reading"
    BY <1>4, WellTyped DEF ListenerRead, SiteInv, EmptyHanded
  <2>2. /\ \A d \in Conn \ {c} :
             received'[d] = received[d] /\ listener'[d] = listener[d]
        /\ received'[c] = p /\ listener'[c] = "forward"
    BY <1>4, WellTyped
  <2>3. fault' <=> fault
    BY <1>1, <2>1, <2>2 DEF fault
  <2>4. Moves(p, "unseen", None, "received", c)
    <3>1. /\ At(p, "unseen", None) /\ ~At(p, "unseen", None)'
          /\ At(p, "received", c)'
      BY <1>4, <2>2 DEF At
    <3> SUFFICES ASSUME NEW q \in Packet, NEW j \in Kind,
                        NEW e \in Conn \cup {None},
                        ~(q = p /\ \/ j = "unseen" /\ e = None
                                   \/ j = "received" /\ e = c)
                 PROVE  At(q, j, e)' <=> At(q, j, e)
      BY <3>1 DEF Moves
    <3>2. CASE j = "unseen"
      BY <1>4, <3>2 DEF At
    <3>3. CASE j = "received"
      BY <2>1, <2>2, <3>3, WellTyped DEF At
    <3>4. CASE j \notin {"unseen", "received"}
      BY <1>1, <3>4 DEF At
    <3> QED BY <3>2, <3>3, <3>4
  <2> QED BY <2>1, <2>3, <2>4 DEF SiteStep
<1> QED BY <1>2, <1>3, <1>4 DEF ListenerRead

LEMMA ListenerSteps ==
    ASSUME SiteInv, NEW c \in Conn, ListenerWork(c) \/ ListenerRead(c)
    PROVE  SiteStep /\ InjectiveQueues'
<1>1. CASE ListenerStart(c) \/ ListenerDeregister(c) \/ ListenerUntrack(c)
  <2>1. UNCHANGED siteVars
    BY <1>1 DEF ListenerStart, ListenerDeregister, ListenerUntrack, siteVars,
       exceptListener, senderVars, routerVars, sorterVars
  <2> QED BY <2>1 DEF SiteStep, siteVars, SiteInv, InjectiveQueues
<1> QED BY <1>1, ListenerForwardMoves, ListenerReadMoves DEF ListenerWork

-----------------------------------------------------------------------------
(* The steps of the router task *)

\* A router task that panics drops its packet and its queue.
LEMMA PanicDrops ==
    ASSUME SiteInv, RouterPanics,
           UNCHANGED <<received, sending, pipe, sent_ok,
                       transport_packet_pipe, held, unseen>>
    PROVE  SiteStep /\ InjectiveQueues'
<1>1. /\ Range(packet_router_pipe') = {} /\ IsInjective(packet_router_pipe')
      /\ routing'.packet = None
  BY EmptyQueue DEF RouterPanics, Nothing
<1>2. InjectiveQueues'
  BY <1>1 DEF SiteInv, InjectiveQueues
<1>3. fault'
  BY DEF RouterPanics, fault
<1>4. Drops
  <2> SUFFICES ASSUME NEW q \in Packet, NEW j \in Kind,
                      NEW e \in Conn \cup {None}
               PROVE  /\ At(q, j, e)' => At(q, j, e)
                      /\ j \notin Inside => (At(q, j, e)' <=> At(q, j, e))
    BY DEF Drops
  <2>1. CASE j \in {"packet_router_pipe", "routing"}
    BY <1>1, <2>1, WellTyped DEF At, Inside, Kind
  <2>2. CASE j \notin {"packet_router_pipe", "routing"}
    BY <2>2 DEF At
  <2> QED BY <2>1, <2>2
<1> QED BY <1>2, <1>3, <1>4 DEF SiteStep

LEMMA RouterTakeMoves ==
    ASSUME SiteInv, RouterTake
    PROVE  SiteStep /\ InjectiveQueues'
<1> USE DEF exceptRouter, openVars, listenerVars, sorterVars, mapVars
<1>1. UNCHANGED <<received, sending, pipe, sent_ok, transport_packet_pipe,
                  held, unseen>>
  BY DEF RouterTake
<1>2. CASE RouterPanics
  BY <1>1, <1>2, PanicDrops
<1>3. ASSUME NEW a \in Address,
             routing' = [packet |-> Head(packet_router_pipe),
                         to |-> writers[a], via |-> a],
             packet_router_pipe' = Tail(packet_router_pipe)
      PROVE  SiteStep /\ InjectiveQueues'
  <2>0. PICK p \in Packet : p = Head(packet_router_pipe)
    BY WellTyped, QueueSteps DEF RouterTake
  <2>1. /\ p \in Range(packet_router_pipe)
        /\ Range(packet_router_pipe') = Range(packet_router_pipe) \ {p}
        /\ IsInjective(packet_router_pipe')
    BY <1>3, <2>0, WellTyped, TakenQueue
       DEF RouterTake, SiteInv, InjectiveQueues
  <2>2. routing.packet = None /\ routing'.packet = p
    BY <1>3, <2>0 DEF RouterTake, SiteInv, EmptyHanded, Nothing
  <2>3. InjectiveQueues'
    BY <1>1, <2>1 DEF SiteInv, InjectiveQueues
  <2>4. Moves(p, "packet_router_pipe", None, "routing", None)
    <3>1. /\ At(p, "packet_router_pipe", None)
          /\ ~At(p, "packet_router_pipe", None)' /\ At(p, "routing", None)'
      BY <2>1, <2>2 DEF At
    <3> SUFFICES ASSUME NEW q \in Packet, NEW j \in Kind,
                        NEW e \in Conn \cup {None},
                        ~(q = p /\ e = None
                            /\ j \in {"packet_router_pipe", "routing"})
                 PROVE  At(q, j, e)' <=> At(q, j, e)
      BY <3>1 DEF Moves
    <3>2. CASE j = "packet_router_pipe"
      BY <2>1, <3>2 DEF At
    <3>3. CASE j = "routing"
      BY <2>2, <3>3, WellTyped DEF At
    <3>4. CASE j \notin {"packet_router_pipe", "routing"}
      BY <1>1, <3>4 DEF At
    <3> QED BY <3>2, <3>3, <3>4
  <2> QED BY <2>3, <2>4 DEF SiteStep, Inside, Kind
<1> QED BY <1>2, <1>3 DEF RouterTake, Taken

LEMMA RouterSendMoves ==
    ASSUME SiteInv, RouterSend
    PROVE  SiteStep /\ InjectiveQueues'
<1> USE DEF exceptRouter, openVars, listenerVars, sorterVars, mapVars
<1>1. UNCHANGED <<received, sending, sent_ok, transport_packet_pipe, held,
                  unseen>>
  BY DEF RouterSend
<1>2. CASE RouterPanics /\ UNCHANGED pipe
  BY <1>1, <1>2, PanicDrops
<1>3. CASE /\ pipe' = [pipe EXCEPT ![routing.to] = Append(@, routing.packet)]
           /\ routing' = Nothing /\ UNCHANGED packet_router_pipe
  <2>0. routing \in [packet : Packet, to : Conn, via : Address]
    BY DEF RouterSend, SiteInv, Inv, Typed, TasksHold
  <2>1. PICK p \in Packet, c \in Conn : p = routing.packet /\ c = routing.to
    BY <2>0
  <2>2. p \notin Range(pipe[c])
    BY <2>1, WellTyped DEF SiteInv, OnePlace, At, Kind
  <2>3. /\ pipe'[c] = Append(pipe[c], p)
        /\ \A d \in Conn \ {c} : pipe'[d] = pipe[d]
        /\ routing'.packet = None
    BY <1>3, <2>1, WellTyped DEF Nothing
  <2>4. /\ Range(pipe'[c]) = Range(pipe[c]) \cup {p}
        /\ IsInjective(pipe'[c])
    BY <2>2, <2>3, AppendedQueue, WellTyped DEF SiteInv, InjectiveQueues
  <2>5. InjectiveQueues'
    BY <1>1, <1>3, <2>3, <2>4 DEF SiteInv, InjectiveQueues
  <2>6. Moves(p, "routing", None, "pipe", c)
    <3>1. /\ At(p, "routing", None) /\ ~At(p, "routing", None)'
          /\ At(p, "pipe", c)'
      BY <2>1, <2>3, <2>4, WellTyped DEF At
    <3> SUFFICES ASSUME NEW q \in Packet, NEW j \in Kind,
                        NEW e \in Conn \cup {None},
                        ~(q = p /\ \/ j = "routing" /\ e = None
                                   \/ j = "pipe" /\ e = c)
                 PROVE  At(q, j, e)' <=> At(q, j, e)
      BY <3>1 DEF Moves
    <3>2. CASE j = "routing"
      BY <2>1, <2>3, <3>2, WellTyped DEF At
    <3>3. CASE j = "pipe"
      BY <2>3, <2>4, <3>3 DEF At
    <3>4. CASE j \notin {"routing", "pipe"}
      BY <1>1, <1>3, <3>4 DEF At
    <3> QED BY <3>2, <3>3, <3>4
  <2> QED BY <2>5, <2>6 DEF SiteStep, Inside, Kind
<1> QED BY <1>2, <1>3 DEF RouterSend

-----------------------------------------------------------------------------
(* The steps of the environment *)

LEMMA SorterTakeMoves ==
    ASSUME SiteInv, SorterTake
    PROVE  SiteStep /\ InjectiveQueues'
<1> USE DEF exceptSorter, openVars, senderVars, listenerVars, routerVars,
        mapVars
<1>1. UNCHANGED <<received, sending, pipe, sent_ok, packet_router_pipe, routing,
                  unseen>>
  BY DEF SorterTake
<1>2. PICK p \in Packet : p = Head(transport_packet_pipe)
  BY WellTyped, QueueSteps DEF SorterTake
<1>3. /\ p \in Range(transport_packet_pipe)
      /\ Range(transport_packet_pipe') = Range(transport_packet_pipe) \ {p}
      /\ IsInjective(transport_packet_pipe')
      /\ held' = held \cup {p}
  BY <1>2, WellTyped, TakenQueue DEF SorterTake, Taken, SiteInv, InjectiveQueues
<1>4. InjectiveQueues'
  BY <1>1, <1>3 DEF SiteInv, InjectiveQueues
<1>5. Moves(p, "transport_packet_pipe", None, "held", None)
  <2>1. /\ At(p, "transport_packet_pipe", None)
        /\ ~At(p, "transport_packet_pipe", None)' /\ At(p, "held", None)'
    BY <1>3 DEF At
  <2> SUFFICES ASSUME NEW q \in Packet, NEW j \in Kind,
                      NEW e \in Conn \cup {None},
                      ~(q = p /\ e = None
                          /\ j \in {"transport_packet_pipe", "held"})
               PROVE  At(q, j, e)' <=> At(q, j, e)
    BY <2>1 DEF Moves
  <2>2. CASE j \in {"transport_packet_pipe", "held"}
    BY <1>3, <2>2 DEF At
  <2>3. CASE j \notin {"transport_packet_pipe", "held"}
    BY <1>1, <2>3 DEF At
  <2> QED BY <2>2, <2>3
<1> QED BY <1>4, <1>5 DEF SiteStep, Inside, Kind

LEMMA SubmitMoves ==
    ASSUME SiteInv, NEW p \in Packet, Submit(p)
    PROVE  SiteStep /\ InjectiveQueues'
<1> USE DEF exceptSorter, openVars, senderVars, listenerVars, routerVars,
        mapVars
<1>1. UNCHANGED <<received, sending, pipe, sent_ok, transport_packet_pipe,
                  routing, unseen>>
  BY DEF Submit
<1>2. p \in held /\ held' = held \ {p}
  BY DEF Submit
<1>3. p \notin Range(packet_router_pipe)
  BY <1>2 DEF SiteInv, OnePlace, At, Kind
<1>4. /\ Range(packet_router_pipe') = Range(packet_router_pipe) \cup {p}
      /\ IsInjective(packet_router_pipe')
  BY <1>3, AppendedQueue, WellTyped DEF Submit, SiteInv, InjectiveQueues
<1>5. InjectiveQueues'
  BY <1>1, <1>4 DEF SiteInv, InjectiveQueues
<1>6. Moves(p, "held", None, "packet_router_pipe", None)
  <2>1. /\ At(p, "held", None) /\ ~At(p, "held", None)'
        /\ At(p, "packet_router_pipe", None)'
    BY <1>2, <1>4 DEF At
  <2> SUFFICES ASSUME NEW q \in Packet, NEW j \in Kind,
                      NEW e \in Conn \cup {None},
                      ~(q = p /\ e = None
                          /\ j \in {"held", "packet_router_pipe"})
               PROVE  At(q, j, e)' <=> At(q, j, e)
    BY <2>1 DEF Moves
  <2>2. CASE j \in {"held", "packet_router_pipe"}
    BY <1>2, <1>4, <2>2 DEF At
  <2>3. CASE j \notin {"held", "packet_router_pipe"}
    BY <1>1, <2>3 DEF At
  <2> QED BY <2>2, <2>3
<1> QED BY <1>5, <1>6 DEF SiteStep, Inside, Kind

LEMMA SorterStopsDrops ==
    ASSUME SiteInv, SorterStops
    PROVE  SiteStep /\ InjectiveQueues'
<1> USE DEF exceptSorter, openVars, senderVars, listenerVars, routerVars,
        mapVars
<1>1. /\ UNCHANGED <<received, sending, pipe, sent_ok, packet_router_pipe,
                     routing, held, unseen>>
      /\ Range(transport_packet_pipe') = {}
      /\ IsInjective(transport_packet_pipe')
  BY EmptyQueue DEF SorterStops
<1>2. InjectiveQueues'
  BY <1>1 DEF SiteInv, InjectiveQueues
<1>3. fault'
  BY DEF SorterStops, fault
<1>4. Drops
  BY <1>1 DEF Drops, At, Inside, Kind
<1> QED BY <1>2, <1>3, <1>4 DEF SiteStep

LEMMA SiteSteps ==
    ASSUME SiteInv, [Next]_vars
    PROVE  SiteStep /\ InjectiveQueues'
<1>1. ASSUME UNCHANGED siteVars
      PROVE  SiteStep /\ InjectiveQueues'
  BY <1>1 DEF SiteStep, siteVars, SiteInv, InjectiveQueues
<1>2. CASE UNCHANGED vars
  BY <1>1, <1>2 DEF vars, siteVars, senderVars, listenerVars, routerVars,
     sorterVars, pipeVars
<1>3. ASSUME NEW t \in Transports, NEW c \in Conn, NEW a \in Address,
             AcceptConn(t, c, a)
      PROVE  UNCHANGED siteVars
  BY <1>3 DEF AcceptConn, siteVars, exceptOpener, routerVars, sorterVars, pipeVars
<1>4. CASE ContactorWork
  BY <1>1, <1>4 DEF ContactorWork, ContactorChoose, ContactorConnect, siteVars,
     exceptOpener, routerVars, sorterVars, pipeVars
<1>5. ASSUME NEW t \in Opener, Register(t)
      PROVE  UNCHANGED siteVars
  BY <1>5 DEF Register, siteVars, exceptOpener, routerVars, sorterVars, pipeVars
<1> QED BY <1>1, <1>2, <1>3, <1>4, <1>5, SenderSteps, ListenerSteps,
        RouterTakeMoves, RouterSendMoves, SorterTakeMoves, SubmitMoves,
        SorterStopsDrops DEF Next, RouterWork

-----------------------------------------------------------------------------
(* The invariant *)

LEMMA EmptyHandedNext == SiteInv /\ [Next]_vars => EmptyHanded'
<1> SUFFICES ASSUME SiteInv, [Next]_vars PROVE EmptyHanded'
  OBVIOUS
<1> USE WellTyped DEF exceptOpener, exceptSender, exceptListener, exceptRouter,
        exceptSorter, openVars, senderVars, listenerVars, routerVars,
        sorterVars, mapVars, pipeVars
<1>1. EmptyHanded
  BY DEF SiteInv
<1>2. CASE UNCHANGED <<sender, sending, listener, received, router, routing>>
  BY <1>1, <1>2 DEF EmptyHanded
<1>3. ASSUME NEW c \in Conn, SenderWork(c) \/ SenderWrite(c)
      PROVE  EmptyHanded'
  <2>1. UNCHANGED <<listener, received, router, routing>>
    BY <1>3 DEF SenderWork, SenderCheck, SenderRecv, SenderReroute,
       SenderRemove, SenderWrite
  <2>2. /\ \E step \in SenderStep : sender' = [sender EXCEPT ![c] = step]
        /\ \/ UNCHANGED sending
           \/ sending' = [sending EXCEPT ![c] = None]
           \/ /\ sender' = [sender EXCEPT ![c] = "write"]
              /\ \E x : sending' = [sending EXCEPT ![c] = x]
        /\ sender'[c] \in {"write", "reroute"} \/ sending'[c] = None
    BY <1>1, <1>3 DEF SenderWork, SenderCheck, SenderRecv, SenderReroute,
       SenderRemove, SenderWrite, SenderEnds, SenderStep, EmptyHanded, Kept
  <2>3. \A d \in Conn \ {c} : sender'[d] = sender[d] /\ sending'[d] = sending[d]
    BY <2>2
  <2> QED BY <1>1, <2>1, <2>2, <2>3 DEF EmptyHanded
<1>4. ASSUME NEW c \in Conn, ListenerWork(c) \/ ListenerRead(c)
      PROVE  EmptyHanded'
  <2>1. UNCHANGED <<sender, sending, router, routing>>
    BY <1>4 DEF ListenerWork, ListenerStart, ListenerForward,
       ListenerDeregister, ListenerUntrack, ListenerRead
  <2>2. /\ \A d \in Conn \ {c} :
             listener'[d] = listener[d] /\ received'[d] = received[d]
        /\ listener'[c] = "forward" \/ received'[c] = None
    BY <1>1, <1>4 DEF ListenerWork, ListenerStart, ListenerForward,
       ListenerDeregister, ListenerUntrack, ListenerRead, EmptyHanded
  <2> QED BY <1>1, <2>1, <2>2 DEF EmptyHanded
<1>5. CASE RouterWork
  BY <1>1, <1>5 DEF RouterWork, RouterTake, RouterSend, RouterPanics, EmptyHanded
<1>6. ASSUME NEW t \in Opener, Register(t) PROVE EmptyHanded'
  <2>1. PICK c \in Conn : c = opening[t] /\ sender[c] = "unborn"
    BY <1>6 DEF Register, SiteInv, Inv, Typed, TypeOK, RegistrationInv
  <2>2. listener[c] = "unborn"
    BY <2>1 DEF SiteInv, Inv, RegistrationInv
  <2>3. /\ sender' = [sender EXCEPT ![c] = "check"]
        /\ listener' = [listener EXCEPT ![c] = "start"]
        /\ UNCHANGED <<sending, received, router, routing>>
    BY <1>6, <2>1 DEF Register
  <2> QED BY <1>1, <2>1, <2>2, <2>3 DEF EmptyHanded
<1>7. ASSUME NEW t \in Transports, NEW c \in Conn, NEW a \in Address,
             AcceptConn(t, c, a)
      PROVE  EmptyHanded'
  BY <1>2, <1>7 DEF AcceptConn
<1>8. CASE ContactorWork
  BY <1>2, <1>8 DEF ContactorWork, ContactorChoose, ContactorConnect
<1>9. CASE \/ SorterTake \/ SorterStops \/ \E p \in Packet : Submit(p)
           \/ UNCHANGED vars
  BY <1>2, <1>9 DEF SorterTake, SorterStops, Submit, vars
<1> QED BY <1>3, <1>4, <1>5, <1>6, <1>7, <1>8, <1>9 DEF Next

LEMMA SiteNext == SiteInv /\ [Next]_vars => SiteInv'
<1> SUFFICES ASSUME SiteInv, [Next]_vars PROVE SiteInv'
  OBVIOUS
<1>1. Inv' /\ EmptyHanded' /\ InjectiveQueues'
  BY InvNext, EmptyHandedNext, SiteSteps DEF SiteInv
<1>2. OnePlace'
  <2>1. CASE UNCHANGED siteVars
    BY <2>1 DEF siteVars, SiteInv, OnePlace, At
  <2>2. CASE Drops
    BY <2>2, DropsOne DEF SiteInv
  <2>3. ASSUME NEW p \in Packet, NEW k \in Kind, NEW l \in Kind,
               NEW c \in Conn \cup {None}, NEW d \in Conn \cup {None},
               Moves(p, k, c, l, d)
        PROVE  OnePlace'
    BY <2>3, MovesOne DEF SiteInv
  <2> QED BY <2>1, <2>2, <2>3, SiteSteps DEF SiteStep, Inside, Kind
<1> QED BY <1>1, <1>2 DEF SiteInv

THEOREM SiteInvariance == Spec => []SiteInv
<1>1. Init => SiteInv
  BY TypedInit, RegistrationInit, SiteInit DEF SiteInv, Inv
<1> QED BY <1>1, SiteNext, PTL DEF Spec

-----------------------------------------------------------------------------
(* One place for a packet *)

InsideAt(p) == \E k \in Inside : \E c \in Conn \cup {None} : At(p, k, c)

\* The element of Places(p) that stands for a site.
Spot(x, p, k, c) ==
    \/ k = "received" /\ c \in Conn /\ x = <<"received", c>>
    \/ k = "sending" /\ c \in Conn /\ x = <<"sending", c>>
    \/ k = "pipe" /\ c \in Conn
         /\ \E i \in DOMAIN pipe[c] : pipe[c][i] = p /\ x = <<"pipe", c, i>>
    \/ k = "packet_router_pipe" /\ c = None
         /\ \E i \in DOMAIN packet_router_pipe :
              packet_router_pipe[i] = p /\ x = <<"packet_router_pipe", i>>
    \/ k = "transport_packet_pipe" /\ c = None
         /\ \E i \in DOMAIN transport_packet_pipe :
              transport_packet_pipe[i] = p /\ x = <<"transport_packet_pipe", i>>
    \/ k = "routing" /\ c = None /\ x = <<"routing">>
    \/ k = "held" /\ c = None /\ x = <<"held">>

LEMMA Spots ==
    ASSUME NEW p \in Packet, NEW x \in Places(p)
    PROVE  \E k \in Inside : \E c \in Conn \cup {None} :
             At(p, k, c) /\ Spot(x, p, k, c)
<1>1. ASSUME NEW c \in Conn, received[c] = p, x = <<"received", c>>
      PROVE  At(p, "received", c) /\ Spot(x, p, "received", c)
  BY <1>1 DEF At, Spot
<1>2. ASSUME NEW c \in Conn, sending[c] = p, x = <<"sending", c>>
      PROVE  At(p, "sending", c) /\ Spot(x, p, "sending", c)
  BY <1>2 DEF At, Spot
<1>3. ASSUME NEW c \in Conn, NEW i \in DOMAIN pipe[c], pipe[c][i] = p,
             x = <<"pipe", c, i>>
      PROVE  At(p, "pipe", c) /\ Spot(x, p, "pipe", c)
  BY <1>3 DEF At, Spot, Range
<1>4. ASSUME NEW i \in DOMAIN packet_router_pipe, packet_router_pipe[i] = p,
             x = <<"packet_router_pipe", i>>
      PROVE  /\ At(p, "packet_router_pipe", None)
             /\ Spot(x, p, "packet_router_pipe", None)
  BY <1>4 DEF At, Spot, Range
<1>5. ASSUME NEW i \in DOMAIN transport_packet_pipe,
             transport_packet_pipe[i] = p, x = <<"transport_packet_pipe", i>>
      PROVE  /\ At(p, "transport_packet_pipe", None)
             /\ Spot(x, p, "transport_packet_pipe", None)
  BY <1>5 DEF At, Spot, Range
<1>6. ASSUME routing.packet = p, x = <<"routing">>
      PROVE  At(p, "routing", None) /\ Spot(x, p, "routing", None)
  BY <1>6 DEF At, Spot
<1>7. ASSUME p \in held, x = <<"held">>
      PROVE  At(p, "held", None) /\ Spot(x, p, "held", None)
  BY <1>7 DEF At, Spot
<1>8. ASSUME NEW at \in {ci \in UNION {{c} \X DOMAIN pipe[c] : c \in Conn} :
                           pipe[ci[1]][ci[2]] = p},
             x = <<"pipe", at[1], at[2]>>
      PROVE  \E c \in Conn : \E i \in DOMAIN pipe[c] :
               pipe[c][i] = p /\ x = <<"pipe", c, i>>
  BY <1>8
<1> QED BY <1>1, <1>2, <1>3, <1>4, <1>5, <1>6, <1>7, <1>8
        DEF Places, Inside, Kind

\* A packet is in a place of the process if it is at a site inside.
LEMMA Placed == \A p \in Packet : Places(p) # {} <=> InsideAt(p)
<1> SUFFICES ASSUME NEW p \in Packet PROVE Places(p) # {} <=> InsideAt(p)
  OBVIOUS
<1>1. Places(p) # {} => InsideAt(p)
  BY Spots DEF InsideAt
<1>2. ASSUME NEW k \in Inside, NEW c \in Conn \cup {None}, At(p, k, c)
      PROVE  Places(p) # {}
  <2>1. CASE k = "pipe"
    <3>1. PICK i \in DOMAIN pipe[c] : pipe[c][i] = p
      BY <1>2, <2>1 DEF At, Range
    <3>2. c \in Conn
      BY <1>2, <2>1 DEF At
    <3> DEFINE S == {ci \in UNION {{d} \X DOMAIN pipe[d] : d \in Conn} :
                       pipe[ci[1]][ci[2]] = p}
               T == {<<"pipe", at[1], at[2]>> : at \in S}
    <3>3. <<c, i>> \in S
      BY <3>1, <3>2
    <3>4. <<"pipe", c, i>> \in T
      <4> HIDE DEF S
      <4>1. <<"pipe", <<c, i>>[1], <<c, i>>[2]>> \in T
        BY <3>3
      <4> QED BY <4>1
    <3>5. T \subseteq Places(p)
      BY DEF Places
    <3> QED BY <3>4, <3>5
  <2>2. CASE k = "packet_router_pipe"
    <3>1. PICK i \in DOMAIN packet_router_pipe : packet_router_pipe[i] = p
      BY <1>2, <2>2 DEF At, Range
    <3>2. <<"packet_router_pipe", i>> \in
            {<<"packet_router_pipe", j>> :
                j \in {j \in DOMAIN packet_router_pipe :
                        packet_router_pipe[j] = p}}
      BY <3>1
    <3> QED BY <3>2 DEF Places
  <2>3. CASE k = "transport_packet_pipe"
    <3>1. PICK i \in DOMAIN transport_packet_pipe : transport_packet_pipe[i] = p
      BY <1>2, <2>3 DEF At, Range
    <3>2. <<"transport_packet_pipe", i>> \in
            {<<"transport_packet_pipe", j>> :
                j \in {j \in DOMAIN transport_packet_pipe :
                        transport_packet_pipe[j] = p}}
      BY <3>1
    <3> QED BY <3>2 DEF Places
  <2>4. CASE k = "received"
    BY <1>2, <2>4 DEF At, Places
  <2>5. CASE k = "sending"
    BY <1>2, <2>5 DEF At, Places
  <2>6. CASE k = "routing"
    BY <1>2, <2>6 DEF At, Places
  <2>7. CASE k = "held"
    BY <1>2, <2>7 DEF At, Places
  <2> QED BY <2>1, <2>2, <2>3, <2>4, <2>5, <2>6, <2>7 DEF Inside, Kind
<1> QED BY <1>1, <1>2 DEF InsideAt

\* A site is one place, as no queue holds a packet twice.
LEMMA SpotsMeet ==
    ASSUME InjectiveQueues, NEW p \in Packet, NEW k \in Inside,
           NEW c \in Conn \cup {None}, NEW x, NEW y,
           Spot(x, p, k, c), Spot(y, p, k, c)
    PROVE  x = y
<1>1. CASE k = "pipe"
  <2>1. PICK i \in DOMAIN pipe[c] : pipe[c][i] = p /\ x = <<"pipe", c, i>>
    BY <1>1 DEF Spot
  <2>2. PICK j \in DOMAIN pipe[c] : pipe[c][j] = p /\ y = <<"pipe", c, j>>
    BY <1>1 DEF Spot
  <2>3. i = j
    BY <1>1, <2>1, <2>2 DEF Spot, InjectiveQueues, IsInjective
  <2> QED BY <2>1, <2>2, <2>3
<1>2. CASE k = "packet_router_pipe"
  <2>1. PICK i \in DOMAIN packet_router_pipe :
          packet_router_pipe[i] = p /\ x = <<"packet_router_pipe", i>>
    BY <1>2 DEF Spot
  <2>2. PICK j \in DOMAIN packet_router_pipe :
          packet_router_pipe[j] = p /\ y = <<"packet_router_pipe", j>>
    BY <1>2 DEF Spot
  <2>3. i = j
    BY <2>1, <2>2 DEF InjectiveQueues, IsInjective
  <2> QED BY <2>1, <2>2, <2>3
<1>3. CASE k = "transport_packet_pipe"
  <2>1. PICK i \in DOMAIN transport_packet_pipe :
          transport_packet_pipe[i] = p /\ x = <<"transport_packet_pipe", i>>
    BY <1>3 DEF Spot
  <2>2. PICK j \in DOMAIN transport_packet_pipe :
          transport_packet_pipe[j] = p /\ y = <<"transport_packet_pipe", j>>
    BY <1>3 DEF Spot
  <2>3. i = j
    BY <2>1, <2>2 DEF InjectiveQueues, IsInjective
  <2> QED BY <2>1, <2>2, <2>3
<1>4. CASE k \in {"received", "sending", "routing", "held"}
  BY <1>4 DEF Spot
<1> QED BY <1>1, <1>2, <1>3, <1>4 DEF Inside, Kind

LEMMA SiteOneFate == SiteInv => OneFate
<1> SUFFICES ASSUME SiteInv, NEW p \in Packet
             PROVE  /\ Cardinality(Places(p)) <= 1
                    /\ \A c \in Conn : <<c, p>> \in sent_ok =>
                         /\ Places(p) = {}
                         /\ \A d \in Conn : <<d, p>> \in sent_ok => d = c
  BY DEF OneFate
<1>1. OnePlace /\ InjectiveQueues
  BY DEF SiteInv
<1>2. ASSUME NEW x \in Places(p), NEW y \in Places(p)
      PROVE  x = y
  <2>1. PICK j \in Inside, c \in Conn \cup {None} :
          At(p, j, c) /\ Spot(x, p, j, c)
    BY Spots
  <2>2. PICK k \in Inside, d \in Conn \cup {None} :
          At(p, k, d) /\ Spot(y, p, k, d)
    BY Spots
  <2>3. j = k /\ c = d
    BY <1>1, <2>1, <2>2 DEF OnePlace, Inside
  <2> QED BY <1>1, <2>1, <2>2, <2>3, SpotsMeet
<1>3. Cardinality(Places(p)) <= 1
  <2>1. CASE Places(p) = {}
    BY <2>1, FS_EmptySet
  <2>2. ASSUME NEW x \in Places(p)
        PROVE  Cardinality(Places(p)) <= 1
    <3>1. Places(p) = {x}
      BY <1>2
    <3>2. Cardinality({x}) = 1
      BY FS_Singleton
    <3> QED BY <3>1, <3>2
  <2> QED BY <2>1, <2>2
<1>4. ASSUME NEW c \in Conn, <<c, p>> \in sent_ok
      PROVE  /\ Places(p) = {}
             /\ \A d \in Conn : <<d, p>> \in sent_ok => d = c
  <2>1. At(p, "sent", c)
    BY <1>4 DEF At
  <2>2. ~InsideAt(p)
    BY <1>1, <2>1 DEF OnePlace, InsideAt, Inside, Kind
  <2>3. ASSUME NEW d \in Conn, <<d, p>> \in sent_ok PROVE d = c
    <3>1. At(p, "sent", d)
      BY <2>3 DEF At
    <3> QED BY <1>1, <2>1, <3>1 DEF OnePlace, Kind
  <2> QED BY <2>2, <2>3, Placed
<1> QED BY <1>3, <1>4

\* No packet is multiplied, and none that a link has sent is sent again,
\* whatever links fail while it waits, is rerouted or is being written.
THEOREM NoPacketTwice == Spec => []OneFate
  BY SiteInvariance, SiteOneFate, PTL

-----------------------------------------------------------------------------
(* The fate of a packet *)

FateIsWhere ==
    \A p \in Packet :
        fate[p] = IF At(p, "unseen", None) THEN "outside"
                  ELSE IF InsideAt(p) THEN "inside"
                  ELSE IF \E c \in Conn : At(p, "sent", c) THEN "sent"
                  ELSE "lost"

LEMMA FateWhere == FateIsWhere /\ fate = [p \in Packet |-> fate[p]]
  BY Placed DEF FateIsWhere, fate, At

\* With one place for each packet, where it is tells what became of it.
SiteTellsFate ==
    \A p \in Packet :
        /\ At(p, "unseen", None) => fate[p] = "outside"
        /\ InsideAt(p) => fate[p] = "inside"
        /\ \A c \in Conn : At(p, "sent", c) => fate[p] = "sent"
        /\ \/ At(p, "unseen", None) \/ InsideAt(p)
           \/ \E c \in Conn : At(p, "sent", c)
           \/ fate[p] = "lost"

LEMMA SiteFate == OnePlace => SiteTellsFate
<1> SUFFICES ASSUME OnePlace, NEW p \in Packet
             PROVE  /\ At(p, "unseen", None) => fate[p] = "outside"
                    /\ InsideAt(p) => fate[p] = "inside"
                    /\ \A c \in Conn : At(p, "sent", c) => fate[p] = "sent"
                    /\ \/ At(p, "unseen", None) \/ InsideAt(p)
                       \/ \E c \in Conn : At(p, "sent", c)
                       \/ fate[p] = "lost"
  BY DEF SiteTellsFate
<1>1. InsideAt(p) => ~At(p, "unseen", None)
  BY DEF OnePlace, InsideAt, Inside, Kind
<1>2. ASSUME NEW c \in Conn, At(p, "sent", c)
      PROVE  ~InsideAt(p) /\ ~At(p, "unseen", None)
  BY <1>2 DEF OnePlace, InsideAt, Inside, Kind
<1> QED BY <1>1, <1>2, FateWhere DEF FateIsWhere

LEMMA FateKept == (FateIsWhere /\ fate = [p \in Packet |-> fate[p]])'
  BY FateWhere, PTL
LEMMA SiteFateNext == (OnePlace => SiteTellsFate)'
  BY SiteFate, PTL

\* Where a packet's sites of each kind stay, its fate stays.
LEMMA FateStays ==
    ASSUME NEW p \in Packet,
           At(p, "unseen", None)' <=> At(p, "unseen", None),
           InsideAt(p)' <=> InsideAt(p),
           \A c \in Conn : At(p, "sent", c)' <=> At(p, "sent", c)
    PROVE  fate'[p] = fate[p]
  BY FateWhere, FateKept DEF FateIsWhere

\* Once something has failed, the process remembers it.
LEMMA FaultStays == SiteInv /\ [Next]_vars => (fault => fault')
<1> SUFFICES ASSUME SiteInv, [Next]_vars, fault PROVE fault'
  OBVIOUS
<1> USE WellTyped DEF exceptOpener, exceptSender, exceptListener, exceptRouter,
        exceptSorter, openVars, senderVars, listenerVars, routerVars,
        sorterVars, mapVars, pipeVars
<1>1. CASE UNCHANGED <<sender, listener, router, sorter_up>>
  BY <1>1 DEF fault
<1>2. ASSUME NEW c \in Conn, SenderWork(c) \/ SenderWrite(c)
      PROVE  fault'
  <2>1. UNCHANGED <<listener, router, sorter_up>>
    BY <1>2 DEF SenderWork, SenderCheck, SenderRecv, SenderReroute,
       SenderRemove, SenderWrite
  <2>2. /\ \A d \in Conn \ {c} : sender'[d] = sender[d]
        /\ sender[c] \in {"reroute", "remove", "done", "panicked"}
             => sender'[c] \in {"remove", "done", "panicked"}
    BY <1>2 DEF SenderWork, SenderCheck, SenderRecv, SenderReroute,
       SenderRemove, SenderWrite, SenderEnds
  <2> QED BY <2>1, <2>2 DEF fault
<1>3. ASSUME NEW c \in Conn, ListenerWork(c) \/ ListenerRead(c)
      PROVE  fault'
  <2>1. UNCHANGED <<sender, router, sorter_up>>
    BY <1>3 DEF ListenerWork, ListenerStart, ListenerForward,
       ListenerDeregister, ListenerUntrack, ListenerRead
  <2>2. /\ \A d \in Conn \ {c} : listener'[d] = listener[d]
        /\ listener[c] \in {"deregister", "untrack", "done", "panicked"}
             => listener'[c] \in {"untrack", "done"}
    BY <1>3 DEF ListenerWork, ListenerStart, ListenerForward,
       ListenerDeregister, ListenerUntrack, ListenerRead
  <2> QED BY <2>1, <2>2 DEF fault
<1>4. CASE RouterWork
  BY <1>4 DEF RouterWork, RouterTake, RouterSend, RouterPanics, fault
<1>5. ASSUME NEW t \in Opener, Register(t) PROVE fault'
  <2>1. PICK c \in Conn : c = opening[t] /\ sender[c] = "unborn"
    BY <1>5 DEF Register, SiteInv, Inv, Typed, TypeOK, RegistrationInv
  <2>2. listener[c] = "unborn"
    BY <2>1 DEF SiteInv, Inv, RegistrationInv
  <2>3. \A d \in Conn \ {c} : sender'[d] = sender[d] /\ listener'[d] = listener[d]
    BY <1>5, <2>1 DEF Register
  <2>4. UNCHANGED <<router, sorter_up>>
    BY <1>5 DEF Register
  <2> QED BY <2>1, <2>2, <2>3, <2>4 DEF fault
<1>6. ASSUME NEW t \in Transports, NEW c \in Conn, NEW a \in Address,
             AcceptConn(t, c, a)
      PROVE  fault'
  BY <1>1, <1>6 DEF AcceptConn
<1>7. CASE ContactorWork
  BY <1>1, <1>7 DEF ContactorWork, ContactorChoose, ContactorConnect
<1>8. CASE \/ SorterTake \/ UNCHANGED vars
           \/ \E p \in Packet : Submit(p)
  BY <1>1, <1>8 DEF SorterTake, Submit, vars
<1>9. CASE SorterStops
  BY <1>9 DEF SorterStops, fault
<1> QED BY <1>2, <1>3, <1>4, <1>5, <1>6, <1>7, <1>8, <1>9 DEF Next

\* A failure that loses no packet, and a step that the promise does not see.
LEMMA SameFates ==
    ASSUME \A p \in Packet : fate'[p] = fate[p], fault => fault'
    PROVE  [Fate!Next]_(Fate!vars)
<1>1. fate' = fate
  BY FateWhere, FateKept
<1>2. CASE fault' <=> fault
  <2>1. fault' = fault
    BY <1>2 DEF fault
  <2> QED BY <1>1, <2>1 DEF Fate!vars
<1>3. CASE fault' /\ ~fault
  <2>1. fault' = TRUE
    BY <1>3
  <2>2. fate' = [p \in Packet |-> IF p \in {} THEN "lost" ELSE fate[p]]
    BY FateKept, <1>1, FateWhere
  <2>3. Fate!Lose({})
    BY <2>1, <2>2 DEF Fate!Lose
  <2> QED BY <2>3 DEF Fate!Next
<1> QED BY <1>2, <1>3

LEMMA DropsLose ==
    ASSUME OnePlace, Drops, fault'
    PROVE  [Fate!Next]_(Fate!vars)
<1> DEFINE S == {p \in Packet : InsideAt(p) /\ ~InsideAt(p)'}
<1>1. ASSUME NEW p \in Packet
      PROVE  /\ At(p, "unseen", None)' <=> At(p, "unseen", None)
             /\ \A c \in Conn : At(p, "sent", c)' <=> At(p, "sent", c)
             /\ InsideAt(p)' => InsideAt(p)
  BY DEF Drops, InsideAt, Inside, Kind
<1>2. ASSUME NEW p \in Packet, p \notin S
      PROVE  fate'[p] = fate[p]
  BY <1>1, <1>2, FateStays
<1>3. ASSUME NEW p \in Packet, p \in S
      PROVE  fate[p] = "inside" /\ fate'[p] = "lost"
  <2>1. fate[p] = "inside"
    BY <1>3, SiteFate DEF SiteTellsFate
  <2>2. ~At(p, "unseen", None) /\ \A c \in Conn : ~At(p, "sent", c)
    BY <2>1, SiteFate DEF SiteTellsFate
  <2>3. fate'[p] = "lost"
    BY <1>1, <1>3, <2>2, FateKept DEF FateIsWhere
  <2> QED BY <2>1, <2>3
<1> HIDE DEF S
<1>4. fate' = [p \in Packet |-> IF p \in S THEN "lost" ELSE fate[p]]
  BY <1>2, <1>3, FateKept
<1>5. S \in SUBSET {p \in Packet : fate[p] = "inside"}
  <2>1. S \subseteq Packet
    BY DEF S
  <2> QED BY <1>3, <2>1
<1>6. fault' = TRUE
  BY DEF fault
<1> QED BY <1>4, <1>5, <1>6 DEF Fate!Next, Fate!Lose

\* A packet that moves inside the process, enters it or is sent.
LEMMA MovesFate ==
    ASSUME OnePlace, NEW p \in Packet, NEW k \in Kind, NEW l \in Kind,
           NEW c \in Conn \cup {None}, NEW d \in Conn \cup {None},
           Moves(p, k, c, l, d)
    PROVE  /\ \A q \in Packet \ {p} : fate'[q] = fate[q]
           /\ k \in Inside => fate[p] = "inside"
           /\ l \in Inside => fate'[p] = "inside"
           /\ k = "unseen" => fate[p] = "outside"
           /\ l = "sent" => fate'[p] = "sent"
<1>1. ASSUME NEW q \in Packet \ {p}
      PROVE  fate'[q] = fate[q]
  <2>1. \A j \in Kind : \A e \in Conn \cup {None} : At(q, j, e)' <=> At(q, j, e)
    BY DEF Moves
  <2>2. InsideAt(q)' <=> InsideAt(q)
    BY <2>1 DEF InsideAt, Inside
  <2> QED BY <2>1, <2>2, FateStays DEF Kind
<1>2. OnePlace'
  BY MovesOne
<1>3. At(p, k, c) /\ At(p, l, d)'
  BY DEF Moves
<1>4. SiteTellsFate /\ SiteTellsFate'
  BY <1>2, SiteFate, SiteFateNext
<1>5. k \in Inside => InsideAt(p)
  BY <1>3 DEF InsideAt
<1>6. l \in Inside => InsideAt(p)'
  BY <1>3 DEF InsideAt
<1>7. k = "unseen" => At(p, "unseen", None)
  BY <1>3 DEF At
<1>8. l = "sent" => d \in Conn /\ At(p, "sent", d)'
  BY <1>3 DEF At
<1> QED BY <1>1, <1>4, <1>5, <1>6, <1>7, <1>8 DEF SiteTellsFate

LEMMA FateStep ==
    ASSUME SiteInv, [Next]_vars
    PROVE  [Fate!Next]_(Fate!vars)
<1>1. OnePlace /\ SiteStep /\ (fault => fault')
  BY SiteSteps, FaultStays DEF SiteInv
<1>2. CASE UNCHANGED siteVars
  <2>1. \A p \in Packet : fate'[p] = fate[p]
    BY <1>2, FateStays DEF siteVars, At, InsideAt
  <2> QED BY <1>1, <2>1, SameFates
<1>3. CASE Drops /\ fault'
  BY <1>1, <1>3, DropsLose
<1>4. ASSUME NEW p \in Packet, NEW c \in Conn,
             Moves(p, "unseen", None, "received", c), fault' <=> fault
      PROVE  [Fate!Next]_(Fate!vars)
  <2>1. /\ \A q \in Packet \ {p} : fate'[q] = fate[q]
        /\ fate[p] = "outside" /\ fate'[p] = "inside"
    BY <1>1, <1>4, MovesFate DEF Inside, Kind
  <2>2. fate' = [fate EXCEPT ![p] = "inside"]
    BY <2>1, FateWhere, FateKept
  <2>3. fault' = fault
    BY <1>4 DEF fault
  <2> QED BY <2>1, <2>2, <2>3 DEF Fate!Next, Fate!Enter
<1>5. ASSUME NEW p \in Packet, NEW c \in Conn,
             Moves(p, "sending", c, "sent", c), fault' <=> fault
      PROVE  [Fate!Next]_(Fate!vars)
  <2>1. /\ \A q \in Packet \ {p} : fate'[q] = fate[q]
        /\ fate[p] = "inside" /\ fate'[p] = "sent"
    BY <1>1, <1>5, MovesFate DEF Inside, Kind
  <2>2. fate' = [fate EXCEPT ![p] = "sent"]
    BY <2>1, FateWhere, FateKept
  <2>3. fault' = fault
    BY <1>5 DEF fault
  <2> QED BY <2>1, <2>2, <2>3 DEF Fate!Next, Fate!Send
<1>6. ASSUME NEW p \in Packet, NEW k \in Inside, NEW l \in Inside,
             NEW c \in Conn \cup {None}, NEW d \in Conn \cup {None},
             Moves(p, k, c, l, d)
      PROVE  [Fate!Next]_(Fate!vars)
  <2>1. \A q \in Packet : fate'[q] = fate[q]
    BY <1>1, <1>6, MovesFate DEF Inside
  <2> QED BY <1>1, <2>1, SameFates
<1> QED BY <1>1, <1>2, <1>3, <1>4, <1>5, <1>6 DEF SiteStep

LEMMA FateInit == Init => Fate!Init
<1> SUFFICES ASSUME Init PROVE Fate!Init
  OBVIOUS
<1>1. \A p \in Packet : At(p, "unseen", None)
  BY DEF Init, At
<1>2. fate = [p \in Packet |-> "outside"]
  BY <1>1, FateWhere DEF FateIsWhere
<1>3. fault = FALSE
  BY DEF Init, fault
<1> QED BY <1>2, <1>3 DEF Fate!Init

\* A packet that came in stays until some link has sent it; it is lost only
\* in a process where a link or a task has failed, and then for good.
THEOREM LinksKeepPackets == Spec => ImplementsPacketFate
<1>1. SiteInv /\ [Next]_vars => [Fate!Next]_(Fate!vars)
  BY FateStep
<1> QED BY <1>1, FateInit, SiteInvariance, PTL
        DEF Spec, ImplementsPacketFate, Fate!Spec

===============================================================================
