------------------------ MODULE RouterProcessProofs ------------------------
(***************************************************************************)
(* That the two halves of a router process fit together, for every set of  *)
(* links, finite or not, every capacity and every number of threads.       *)
(*                                                                         *)
(* First, that the links alone keep to the exchange of packets (module     *)
(* PacketExchange).  The abstract state is made of numbers: lengths of     *)
(* queues and sizes of sets.  All of them are finite in every reachable    *)
(* state, as each step adds one packet at most to each, and that every     *)
(* packet is at one site only (SiteInv) makes each step count for exactly  *)
(* one.  Second, that the process implements each half (module             *)
(* RouterProcess), so that what was proved of one half is true of it.      *)
(***************************************************************************)
EXTENDS PacketFateProofs, RouterProcess

Writing == {c \in Conn : sending[c] # None}

FiniteInv == IsFiniteSet(held) /\ IsFiniteSet(Writing) /\ IsFiniteSet(Queued)

CountInv == SiteInv /\ FiniteInv

-----------------------------------------------------------------------------
(* What the steps do to the parts of Leaving *)

LEMMA InQueued ==
    ASSUME pipe \in [Conn -> Seq(Packet)]
    PROVE  \A x : x \in Queued
                    <=> \E d \in Conn : \E i \in 1..Len(pipe[d]) : x = <<d, i>>
<1>1. \A d \in Conn : DOMAIN pipe[d] = 1..Len(pipe[d])
  BY LenProperties
<1> QED BY <1>1 DEF Queued

LEMMA InQueuedNext ==
    ASSUME pipe' \in [Conn -> Seq(Packet)]
    PROVE  \A x : x \in Queued'
                    <=> \E d \in Conn : \E i \in 1..Len(pipe'[d]) : x = <<d, i>>
<1>1. \A d \in Conn : DOMAIN pipe'[d] = 1..Len(pipe'[d])
  BY LenProperties
<1> QED BY <1>1 DEF Queued

\* A packet more in a writer pipe.
LEMMA QueuedGrows ==
    ASSUME pipe \in [Conn -> Seq(Packet)], IsFiniteSet(Queued),
           NEW c \in Conn, NEW p \in Packet,
           pipe' = [pipe EXCEPT ![c] = Append(pipe[c], p)]
    PROVE  /\ IsFiniteSet(Queued')
           /\ Cardinality(Queued') = Cardinality(Queued) + 1
<1> DEFINE n == Len(pipe[c])
<1>1. /\ n \in Nat /\ pipe' \in [Conn -> Seq(Packet)]
      /\ Len(pipe'[c]) = n + 1
      /\ \A d \in Conn \ {c} : pipe'[d] = pipe[d]
  BY AppendProperties, LenProperties
<1>2. Queued' = Queued \cup {<<c, n + 1>>}
  <2>1. ASSUME NEW d \in Conn, NEW i \in 1..Len(pipe'[d])
        PROVE  <<d, i>> \in Queued \cup {<<c, n + 1>>}
    BY <1>1, InQueued
  <2>2. ASSUME NEW d \in Conn, NEW i \in 1..Len(pipe[d])
        PROVE  <<d, i>> \in Queued'
    BY <1>1, InQueuedNext
  <2>3. <<c, n + 1>> \in Queued'
    BY <1>1, InQueuedNext
  <2> QED BY <1>1, <2>1, <2>2, <2>3, InQueued, InQueuedNext
<1>3. <<c, n + 1>> \notin Queued
  BY <1>1, InQueued
<1> QED BY <1>2, <1>3, FS_AddElement

\* A packet less.
LEMMA QueuedShrinks ==
    ASSUME pipe \in [Conn -> Seq(Packet)], IsFiniteSet(Queued),
           NEW c \in Conn, pipe[c] # <<>>,
           pipe' = [pipe EXCEPT ![c] = Tail(pipe[c])]
    PROVE  /\ IsFiniteSet(Queued')
           /\ Cardinality(Queued') = Cardinality(Queued) - 1
<1>1. PICK n \in Nat \ {0} : n = Len(pipe[c])
  BY LenProperties, EmptySeq
<1>2. /\ pipe' \in [Conn -> Seq(Packet)] /\ Len(pipe'[c]) = n - 1
      /\ \A d \in Conn \ {c} : pipe'[d] = pipe[d]
  BY <1>1, HeadTailProperties
<1>3. Queued' = Queued \ {<<c, n>>}
  <2>1. ASSUME NEW d \in Conn, NEW i \in 1..Len(pipe'[d])
        PROVE  i \in 1..Len(pipe[d]) /\ ~(d = c /\ i = n)
    BY <1>1, <1>2
  <2>2. ASSUME NEW d \in Conn, NEW i \in 1..Len(pipe[d]), ~(d = c /\ i = n)
        PROVE  i \in 1..Len(pipe'[d])
    <3>1. CASE d = c
      BY <1>1, <1>2, <2>2, <3>1
    <3>2. CASE d # c
      BY <1>2, <3>2
    <3> QED BY <3>1, <3>2
  <2>3. Queued' \subseteq Queued \ {<<c, n>>}
    BY <1>2, <2>1, InQueued, InQueuedNext
  <2>4. Queued \ {<<c, n>>} \subseteq Queued'
    BY <1>2, <2>2, InQueued, InQueuedNext
  <2> QED BY <2>3, <2>4
<1>4. <<c, n>> \in Queued
  BY <1>1, InQueued
<1> QED BY <1>3, <1>4, FS_RemoveElement

\* A writer pipe is dropped.
LEMMA QueuedDropped ==
    ASSUME pipe \in [Conn -> Seq(Packet)], IsFiniteSet(Queued),
           NEW c \in Conn, pipe' = [pipe EXCEPT ![c] = <<>>]
    PROVE  /\ IsFiniteSet(Queued')
           /\ Cardinality(Queued') <= Cardinality(Queued)
<1>1. /\ pipe' \in [Conn -> Seq(Packet)] /\ Len(pipe'[c]) = 0
      /\ \A d \in Conn \ {c} : pipe'[d] = pipe[d]
  BY EmptySeq
<1>2. Queued' \subseteq Queued
  BY <1>1, InQueued, InQueuedNext
<1> QED BY <1>2, FS_Subset

\* A sender task takes a packet in its hands, or gets rid of one.
LEMMA WritingGrows ==
    ASSUME sending \in [Conn -> Packet \cup {None}], IsFiniteSet(Writing),
           NEW c \in Conn, NEW p \in Packet, sending[c] = None, p # None,
           sending' = [sending EXCEPT ![c] = p]
    PROVE  /\ IsFiniteSet(Writing')
           /\ Cardinality(Writing') = Cardinality(Writing) + 1
<1>1. Writing' = Writing \cup {c} /\ c \notin Writing
  BY DEF Writing
<1> QED BY <1>1, FS_AddElement

LEMMA WritingShrinks ==
    ASSUME sending \in [Conn -> Packet \cup {None}], IsFiniteSet(Writing),
           NEW c \in Conn, sending[c] # None,
           sending' = [sending EXCEPT ![c] = None]
    PROVE  /\ IsFiniteSet(Writing')
           /\ Cardinality(Writing') = Cardinality(Writing) - 1
<1>1. Writing' = Writing \ {c} /\ c \in Writing
  BY DEF Writing
<1> QED BY <1>1, FS_RemoveElement

LEMMA RoutedCount == \A x : Cardinality({x} \ {None}) = IF x = None THEN 0 ELSE 1
<1> SUFFICES ASSUME NEW x
             PROVE  Cardinality({x} \ {None}) = IF x = None THEN 0 ELSE 1
  OBVIOUS
<1>1. CASE x = None
  BY <1>1, FS_EmptySet
<1>2. CASE x # None
  <2>1. {x} \ {None} = {x}
    BY <1>2
  <2> QED BY <1>2, <2>1, FS_Singleton
<1> QED BY <1>1, <1>2

LEMMA LeavingNat ==
    /\ FiniteInv => /\ Cardinality(Writing) \in Nat
                    /\ Cardinality(Queued) \in Nat
                    /\ Cardinality(held) \in Nat
                    /\ Leaving \in Nat
    /\ FiniteInv' => Leaving' \in Nat
    /\ Leaving = (IF routing.packet = None THEN 0 ELSE 1)
                   + Cardinality(Writing) + Cardinality(Queued)
    /\ Leaving' = (IF routing'.packet = None THEN 0 ELSE 1)
                   + Cardinality(Writing') + Cardinality(Queued')
<1>1. FiniteInv => /\ Cardinality(Writing) \in Nat
                   /\ Cardinality(Queued) \in Nat
                   /\ Cardinality(held) \in Nat
  BY FS_CardinalityType DEF FiniteInv
<1>2. /\ Leaving = Cardinality({routing.packet} \ {None})
                     + Cardinality(Writing) + Cardinality(Queued)
      /\ Leaving' = Cardinality({routing'.packet} \ {None})
                      + Cardinality(Writing') + Cardinality(Queued')
  BY DEF Leaving, Writing
<1>3. Leaving = (IF routing.packet = None THEN 0 ELSE 1)
                  + Cardinality(Writing) + Cardinality(Queued)
  BY <1>2, RoutedCount
<1>4. Leaving' = (IF routing'.packet = None THEN 0 ELSE 1)
                   + Cardinality(Writing') + Cardinality(Queued')
  BY <1>2, RoutedCount
<1>5. FiniteInv' => Cardinality(Writing') \in Nat /\ Cardinality(Queued') \in Nat
  BY FS_CardinalityType DEF FiniteInv
<1> QED BY <1>1, <1>3, <1>4, <1>5

-----------------------------------------------------------------------------
(* The steps *)

\* A step that leaves the links with fewer packets to write, or as many, and
\* touches nothing else of the exchange.
LEMMA FewerIsLeave ==
    ASSUME FiniteInv, FiniteInv', Leaving' <= Leaving,
           UNCHANGED <<transport_packet_pipe, held, packet_router_pipe,
                       sorter_up, router>>
    PROVE  Exchange!Next
<1>1. \A a, b \in Nat : b <= a => \E n \in 0..a : b = a - n
  <2> SUFFICES ASSUME NEW a \in Nat, NEW b \in Nat, b <= a
               PROVE  a - b \in 0..a /\ b = a - (a - b)
    OBVIOUS
  <2> QED OBVIOUS
<1>2. PICK n \in 0..Leaving : Leaving' = Leaving - n
  BY <1>1, LeavingNat
<1>3. Exchange!Leave(n)
  BY <1>2 DEF Exchange!Leave
<1> QED BY <1>2, <1>3 DEF Exchange!Next

\* A step that touches nothing of the exchange.
LEMMA ExchangeIdle ==
    ASSUME UNCHANGED <<transport_packet_pipe, held, packet_router_pipe, sorter_up,
                       router, routing, sending, pipe>>
    PROVE  /\ UNCHANGED Exchange!vars
           /\ FiniteInv => FiniteInv'
<1>1. Queued' = Queued /\ Writing' = Writing
  BY DEF Queued, Writing
<1> QED BY <1>1, LeavingNat DEF Exchange!vars, FiniteInv

LEMMA SenderRecvExchanges ==
    ASSUME CountInv, NEW c \in Conn, SenderRecv(c)
    PROVE  FiniteInv' /\ [Exchange!Next]_(Exchange!vars)
<1> USE DEF exceptSender, listenerVars, routerVars, sorterVars
<1>1. UNCHANGED <<transport_packet_pipe, held, packet_router_pipe, sorter_up,
                  router, routing>>
  BY DEF SenderRecv
<1>2. CASE UNCHANGED <<pipe, sending>>
  BY <1>1, <1>2, ExchangeIdle DEF CountInv
<1>3. CASE /\ pipe[c] # <<>>
           /\ sending' = [sending EXCEPT ![c] = Head(pipe[c])]
           /\ pipe' = [pipe EXCEPT ![c] = Tail(pipe[c])]
  <2>1. PICK p \in Packet : p = Head(pipe[c])
    BY <1>3, WellTyped, QueueSteps DEF CountInv
  <2>2. sending[c] = None /\ p # None
    BY <2>1, WellTyped DEF SenderRecv, CountInv, SiteInv, EmptyHanded
  <2>3. /\ IsFiniteSet(Writing')
        /\ Cardinality(Writing') = Cardinality(Writing) + 1
    BY <1>3, <2>1, <2>2, WritingGrows, WellTyped DEF CountInv, FiniteInv
  <2>4. /\ IsFiniteSet(Queued')
        /\ Cardinality(Queued') = Cardinality(Queued) - 1
    BY <1>3, QueuedShrinks, WellTyped DEF CountInv, FiniteInv
  <2>5. FiniteInv'
    BY <1>1, <2>3, <2>4 DEF CountInv, FiniteInv
  <2>6. Leaving' = Leaving
    BY <1>1, <2>3, <2>4, LeavingNat DEF CountInv
  <2> QED BY <1>1, <2>5, <2>6 DEF Exchange!vars
<1> QED BY <1>2, <1>3 DEF SenderRecv, Taken

LEMMA SenderWriteExchanges ==
    ASSUME CountInv, NEW c \in Conn, SenderWrite(c)
    PROVE  FiniteInv' /\ [Exchange!Next]_(Exchange!vars)
<1> USE DEF exceptSender, listenerVars, routerVars, sorterVars
<1>1. UNCHANGED <<transport_packet_pipe, held, packet_router_pipe, sorter_up,
                  router, routing, pipe>>
  BY DEF SenderWrite
<1>2. CASE sending' = Kept(c)
  BY <1>1, <1>2, ExchangeIdle DEF CountInv, Kept
<1>3. CASE sending' = [sending EXCEPT ![c] = None]
  <2>1. sending[c] # None
    BY WellTyped DEF SenderWrite, CountInv, SiteInv, Inv, Typed, TasksHold
  <2>2. /\ IsFiniteSet(Writing')
        /\ Cardinality(Writing') = Cardinality(Writing) - 1
    BY <1>3, <2>1, WritingShrinks, WellTyped DEF CountInv, FiniteInv
  <2>3. Queued' = Queued
    BY <1>1 DEF Queued
  <2>4. FiniteInv'
    BY <1>1, <2>2, <2>3 DEF CountInv, FiniteInv
  <2>5. Leaving' <= Leaving
    BY <1>1, <2>2, <2>3, LeavingNat DEF CountInv
  <2> QED BY <1>1, <2>4, <2>5, FewerIsLeave DEF CountInv
<1> QED BY <1>2, <1>3 DEF SenderWrite

\* A sender task that ends without a packet in its hands.
LEMMA SenderEndExchanges ==
    ASSUME CountInv, NEW c \in Conn, NEW step, SenderEnds(c, step),
           UNCHANGED <<transport_packet_pipe, held, packet_router_pipe, sorter_up,
                       router, routing, sending>>
    PROVE  FiniteInv' /\ [Exchange!Next]_(Exchange!vars)
<1>1. /\ IsFiniteSet(Queued')
      /\ Cardinality(Queued') <= Cardinality(Queued)
  BY QueuedDropped, WellTyped DEF SenderEnds, CountInv, FiniteInv
<1>2. Writing' = Writing
  BY DEF Writing
<1>3. FiniteInv'
  BY <1>1, <1>2 DEF CountInv, FiniteInv
<1>4. Cardinality(Queued') \in Nat
  BY <1>1, FS_CardinalityType
<1>5. Leaving' <= Leaving
  BY <1>1, <1>2, <1>4, LeavingNat DEF CountInv
<1> QED BY <1>3, <1>5, FewerIsLeave DEF CountInv

LEMMA SenderRerouteExchanges ==
    ASSUME CountInv, NEW c \in Conn, SenderReroute(c)
    PROVE  FiniteInv' /\ [Exchange!Next]_(Exchange!vars)
<1> USE DEF exceptSender, listenerVars, routerVars, sorterVars
<1>1. UNCHANGED <<transport_packet_pipe, held, sorter_up, router, routing>>
  BY DEF SenderReroute
<1>2. PICK p \in Packet : sending[c] = p
  BY DEF SenderReroute, CountInv, SiteInv, Inv, Typed, TasksHold
<1>3. /\ IsFiniteSet(Writing')
      /\ Cardinality(Writing') = Cardinality(Writing) - 1
  BY <1>2, WritingShrinks, WellTyped DEF SenderReroute, CountInv, FiniteInv
<1>4. /\ Cardinality(Writing) \in Nat /\ Cardinality(Writing') \in Nat
      /\ Cardinality(Queued) \in Nat
  BY <1>3, LeavingNat, FS_CardinalityType DEF CountInv
<1>5. CASE router = "panicked"
  <2>1. pipe' = [pipe EXCEPT ![c] = <<>>] /\ UNCHANGED packet_router_pipe
    BY <1>5 DEF SenderReroute, SenderEnds
  <2>2. /\ IsFiniteSet(Queued')
        /\ Cardinality(Queued') <= Cardinality(Queued)
    BY <2>1, QueuedDropped, WellTyped DEF CountInv, FiniteInv
  <2>3. FiniteInv'
    BY <1>1, <1>3, <2>2 DEF CountInv, FiniteInv
  <2>4. Cardinality(Queued') \in Nat
    BY <2>2, FS_CardinalityType
  <2>5. Leaving' <= Leaving
    BY <1>1, <1>3, <1>4, <2>2, <2>4, LeavingNat DEF CountInv
  <2> QED BY <1>1, <2>1, <2>3, <2>5, FewerIsLeave DEF CountInv
<1>6. CASE router # "panicked"
  <2>1. /\ UNCHANGED pipe
        /\ Len(packet_router_pipe) < RouterPipeCap
        /\ packet_router_pipe' = Append(packet_router_pipe, p)
    BY <1>2, <1>6 DEF SenderReroute
  <2>2. Queued' = Queued
    BY <2>1 DEF Queued
  <2>3. FiniteInv'
    BY <1>1, <1>3, <2>2 DEF CountInv, FiniteInv
  <2>4. Leaving' = Leaving - 1 /\ Leaving > 0
    BY <1>1, <1>3, <1>4, <2>2, LeavingNat DEF CountInv
  <2>5. Len(packet_router_pipe') = Len(packet_router_pipe) + 1
    BY <2>1, AppendProperties, WellTyped DEF CountInv
  <2>6. Exchange!PutBack
    BY <1>1, <1>6, <2>1, <2>4, <2>5 DEF Exchange!PutBack
  <2> QED BY <2>3, <2>6 DEF Exchange!Next
<1> QED BY <1>5, <1>6

LEMMA SenderExchanges ==
    ASSUME CountInv, NEW c \in Conn, SenderWork(c) \/ SenderWrite(c)
    PROVE  FiniteInv' /\ [Exchange!Next]_(Exchange!vars)
<1> USE DEF exceptSender, listenerVars, routerVars, sorterVars
<1>1. CASE SenderCheck(c)
  <2>1. UNCHANGED <<transport_packet_pipe, held, packet_router_pipe, sorter_up,
                    router, routing, sending>>
    BY <1>1 DEF SenderCheck
  <2>2. UNCHANGED pipe \/ SenderEnds(c, "done")
    BY <1>1 DEF SenderCheck
  <2> QED BY <2>1, <2>2, ExchangeIdle, SenderEndExchanges DEF CountInv
<1>2. CASE SenderRemove(c)
  <2>1. UNCHANGED <<transport_packet_pipe, held, packet_router_pipe, sorter_up,
                    router, routing, sending>>
    BY <1>2 DEF SenderRemove
  <2> QED BY <1>2, <2>1, SenderEndExchanges DEF SenderRemove
<1> QED BY <1>1, <1>2, SenderRecvExchanges, SenderRerouteExchanges,
           SenderWriteExchanges DEF SenderWork

LEMMA ListenerExchanges ==
    ASSUME CountInv, NEW c \in Conn, ListenerWork(c) \/ ListenerRead(c)
    PROVE  FiniteInv' /\ [Exchange!Next]_(Exchange!vars)
<1> USE DEF exceptListener, senderVars, routerVars, sorterVars
<1>1. UNCHANGED <<held, packet_router_pipe, sorter_up, router, routing, sending,
                  pipe>>
  BY DEF ListenerWork, ListenerStart, ListenerForward, ListenerDeregister,
     ListenerUntrack, ListenerRead
<1>2. CASE UNCHANGED transport_packet_pipe
  BY <1>1, <1>2, ExchangeIdle DEF CountInv
<1>3. CASE ListenerForward(c) /\ sorter_up
  <2>1. received[c] \in Packet
    BY <1>3 DEF ListenerForward, CountInv, SiteInv, Inv, Typed, TasksHold
  <2>2. /\ Len(transport_packet_pipe) < TransportPipeCap
        /\ Len(transport_packet_pipe') = Len(transport_packet_pipe) + 1
    BY <1>3, <2>1, AppendProperties, WellTyped DEF ListenerForward, CountInv
  <2>3. Writing' = Writing /\ Queued' = Queued
    BY <1>1 DEF Writing, Queued
  <2>4. FiniteInv' /\ Leaving' = Leaving
    BY <1>1, <2>3, LeavingNat DEF CountInv, FiniteInv
  <2>5. Exchange!Arrive
    BY <1>1, <1>3, <2>2, <2>4 DEF Exchange!Arrive
  <2> QED BY <2>4, <2>5 DEF Exchange!Next
<1> QED BY <1>2, <1>3 DEF ListenerWork, ListenerStart, ListenerForward,
           ListenerDeregister, ListenerUntrack, ListenerRead, mapVars

LEMMA RouterTakeExchanges ==
    ASSUME CountInv, RouterTake
    PROVE  FiniteInv' /\ [Exchange!Next]_(Exchange!vars)
<1> USE DEF exceptRouter, openVars, listenerVars, sorterVars, mapVars
<1>1. /\ UNCHANGED <<transport_packet_pipe, held, sorter_up, sending, pipe>>
      /\ router = "idle" /\ packet_router_pipe # <<>>
  BY DEF RouterTake
<1>2. Writing' = Writing /\ Queued' = Queued
  BY <1>1 DEF Writing, Queued
<1>3. FiniteInv'
  BY <1>1, <1>2 DEF CountInv, FiniteInv
<1>4. routing.packet = None
  BY <1>1 DEF CountInv, SiteInv, EmptyHanded, Nothing
<1>5. CASE \E a \in Address :
             /\ router' = "sending"
             /\ routing' = [packet |-> Head(packet_router_pipe),
                            to |-> writers[a], via |-> a]
             /\ packet_router_pipe' = Taken(packet_router_pipe)
  <2>1. routing'.packet # None
    BY <1>1, <1>5, WellTyped, QueueSteps DEF CountInv
  <2>2. Leaving' = Leaving + 1
    BY <1>2, <1>4, <2>1, LeavingNat DEF CountInv
  <2>3. /\ Len(packet_router_pipe) > 0
        /\ Len(packet_router_pipe') = Len(packet_router_pipe) - 1
    BY <1>1, <1>5, WellTyped, HeadTailProperties, LenProperties, EmptySeq
       DEF CountInv, Taken
  <2>4. Exchange!RouterTakes
    BY <1>1, <1>5, <2>2, <2>3 DEF Exchange!RouterTakes
  <2> QED BY <1>3, <2>4 DEF Exchange!Next
<1>6. CASE RouterPanics
  <2>1. routing'.packet = None /\ Len(packet_router_pipe') = 0
    BY <1>6, EmptySeq DEF RouterPanics, Nothing
  <2>2. Leaving' = Leaving - 0 /\ 0 \in 0..Leaving
    BY <1>2, <1>4, <2>1, LeavingNat DEF CountInv
  <2>3. Exchange!RouterStops(0)
    BY <1>1, <1>6, <2>1, <2>2 DEF RouterPanics, Exchange!RouterStops
  <2> QED BY <1>3, <2>2, <2>3 DEF Exchange!Next
<1> QED BY <1>5, <1>6 DEF RouterTake

LEMMA RouterSendExchanges ==
    ASSUME CountInv, RouterSend
    PROVE  FiniteInv' /\ [Exchange!Next]_(Exchange!vars)
<1> USE DEF exceptRouter, openVars, listenerVars, sorterVars, mapVars
<1>1. /\ UNCHANGED <<transport_packet_pipe, held, sorter_up, sending>>
      /\ router = "sending"
  BY DEF RouterSend
<1>2. PICK p \in Packet, c \in Conn : p = routing.packet /\ c = routing.to
  BY <1>1 DEF CountInv, SiteInv, Inv, Typed, TasksHold
<1>3. p # None /\ Writing' = Writing
  BY <1>1, WellTyped DEF CountInv, Writing
<1>4. routing' = Nothing /\ routing'.packet = None
  BY DEF RouterSend, RouterPanics, Nothing
<1>5. CASE ReceiverAlive(c)
  <2>1. /\ pipe' = [pipe EXCEPT ![c] = Append(pipe[c], p)]
        /\ router' = "idle" /\ UNCHANGED packet_router_pipe
    BY <1>2, <1>5 DEF RouterSend
  <2>2. /\ IsFiniteSet(Queued')
        /\ Cardinality(Queued') = Cardinality(Queued) + 1
    BY <2>1, QueuedGrows, WellTyped DEF CountInv, FiniteInv
  <2>3. FiniteInv'
    BY <1>1, <1>3, <2>2 DEF CountInv, FiniteInv
  <2>4. Leaving' = Leaving
    BY <1>2, <1>3, <1>4, <2>2, LeavingNat DEF CountInv
  <2> QED BY <1>1, <2>1, <2>3, <2>4 DEF Exchange!vars
<1>6. CASE ~ReceiverAlive(c)
  <2>1. RouterPanics /\ UNCHANGED pipe
    BY <1>2, <1>6 DEF RouterSend
  <2>2. Queued' = Queued /\ Len(packet_router_pipe') = 0
    BY <2>1, EmptySeq DEF Queued, RouterPanics
  <2>3. FiniteInv'
    BY <1>1, <1>3, <2>2 DEF CountInv, FiniteInv
  <2>4. Leaving' = Leaving - 1 /\ 1 \in 0..Leaving
    BY <1>2, <1>3, <1>4, <2>2, LeavingNat DEF CountInv
  <2>5. Exchange!RouterStops(1)
    BY <1>1, <2>1, <2>2, <2>4 DEF RouterPanics, Exchange!RouterStops
  <2> QED BY <2>3, <2>4, <2>5 DEF Exchange!Next
<1> QED BY <1>5, <1>6

\* The tasks behind the links: what PeerLinks lets them do, they may do.
LEMMA SorterExchanges ==
    ASSUME CountInv, SorterTake \/ SorterStops \/ \E p \in Packet : Submit(p)
    PROVE  FiniteInv' /\ [Exchange!Next]_(Exchange!vars)
<1> USE DEF exceptSorter, openVars, senderVars, listenerVars, routerVars, mapVars
<1>1. UNCHANGED <<sending, pipe, router, routing>>
  BY DEF SorterTake, SorterStops, Submit
<1>2. Writing' = Writing /\ Queued' = Queued /\ Leaving' = Leaving
  BY <1>1, LeavingNat DEF Writing, Queued
<1>3. IsFiniteSet(held) /\ Cardinality(held) \in Nat /\ Leaving \in Nat
  BY LeavingNat DEF CountInv, FiniteInv
<1>4. CASE SorterTake
  <2>1. PICK p \in Packet : p = Head(transport_packet_pipe)
    BY <1>4, WellTyped, QueueSteps DEF CountInv, SorterTake
  <2>2. p \notin held
    <3>1. p \in Range(transport_packet_pipe)
      BY <1>4, <2>1, WellTyped, TakenQueue
         DEF CountInv, SiteInv, InjectiveQueues, SorterTake
    <3>2. At(p, "transport_packet_pipe", None)
      BY <3>1 DEF At
    <3>3. p \in held => At(p, "held", None)
      BY DEF At
    <3> QED BY <3>2, <3>3 DEF CountInv, SiteInv, OnePlace, Kind
  <2>3. held' = held \cup {p}
    BY <1>4, <2>1 DEF SorterTake
  <2>4. IsFiniteSet(held') /\ Cardinality(held') = Cardinality(held) + 1
    BY <1>3, <2>2, <2>3, FS_AddElement
  <2>5. /\ Len(transport_packet_pipe) > 0
        /\ Len(transport_packet_pipe') = Len(transport_packet_pipe) - 1
    BY <1>4, WellTyped, HeadTailProperties, LenProperties, EmptySeq
       DEF CountInv, SorterTake, Taken
  <2>6. Exchange!Take
    BY <1>1, <1>2, <1>4, <2>4, <2>5 DEF SorterTake, Exchange!Take
  <2> QED BY <1>2, <2>4, <2>6 DEF Exchange!Next, CountInv, FiniteInv
<1>5. ASSUME NEW p \in Packet, Submit(p)
      PROVE  FiniteInv' /\ [Exchange!Next]_(Exchange!vars)
  <2>1. p \in held /\ held' = held \ {p}
    BY <1>5 DEF Submit
  <2>2. IsFiniteSet(held') /\ Cardinality(held') = Cardinality(held) - 1
    BY <1>3, <2>1, FS_RemoveElement
  <2>3. Cardinality(held) > 0
    BY <1>3, <2>2, FS_CardinalityType
  <2>4. Len(packet_router_pipe') = Len(packet_router_pipe) + 1
    BY <1>5, WellTyped, AppendProperties DEF CountInv, Submit
  <2>5. Exchange!Submit
    BY <1>1, <1>2, <1>5, <2>2, <2>3, <2>4 DEF Submit, Exchange!Submit
  <2> QED BY <1>2, <2>2, <2>5 DEF Exchange!Next, CountInv, FiniteInv
<1>6. CASE SorterStops
  <2>1. UNCHANGED <<held, packet_router_pipe>> /\ Len(transport_packet_pipe') = 0
    BY <1>6, EmptySeq DEF SorterStops
  <2>2. Cardinality(held)' = Cardinality(held) - 0 /\ 0 \in 0..Cardinality(held)
    BY <1>3, <2>1
  <2>3. Exchange!SorterStops(0)
    BY <1>1, <1>2, <1>6, <2>1, <2>2 DEF SorterStops, Exchange!SorterStops
  <2> QED BY <1>2, <2>1, <2>2, <2>3 DEF Exchange!Next, CountInv, FiniteInv
<1> QED BY <1>4, <1>5, <1>6

LEMMA ExchangeNext ==
    ASSUME CountInv, [Next]_vars
    PROVE  FiniteInv' /\ [Exchange!Next]_(Exchange!vars)
<1> USE DEF exceptOpener, senderVars, routerVars, sorterVars, pipeVars
<1>1. CASE UNCHANGED vars
  BY <1>1, ExchangeIdle DEF CountInv, vars
<1>2. ASSUME NEW t \in Transports, NEW c \in Conn, NEW a \in Address,
             AcceptConn(t, c, a)
      PROVE  FiniteInv' /\ [Exchange!Next]_(Exchange!vars)
  BY <1>2, ExchangeIdle DEF CountInv, AcceptConn
<1>3. CASE ContactorWork
  BY <1>3, ExchangeIdle DEF CountInv, ContactorWork, ContactorChoose,
     ContactorConnect
<1>4. ASSUME NEW t \in Opener, Register(t)
      PROVE  FiniteInv' /\ [Exchange!Next]_(Exchange!vars)
  BY <1>4, ExchangeIdle DEF CountInv, Register
<1> QED BY <1>1, <1>2, <1>3, <1>4, SenderExchanges, ListenerExchanges,
           RouterTakeExchanges, RouterSendExchanges, SorterExchanges
        DEF Next, RouterWork

-----------------------------------------------------------------------------
LEMMA ExchangeInit == Init => FiniteInv /\ Exchange!Init
<1> SUFFICES ASSUME Init PROVE FiniteInv /\ Exchange!Init
  OBVIOUS
<1>1. Writing = {} /\ routing.packet = None /\ held = {}
  BY DEF Init, Writing, Nothing
<1>2. Queued = {}
  BY EmptySeq DEF Init, Queued
<1>3. FiniteInv /\ Leaving = 0
  BY <1>1, <1>2, LeavingNat, FS_EmptySet DEF FiniteInv
<1> QED BY <1>1, <1>3, FS_EmptySet, EmptySeq DEF Init, Exchange!Init

\* The links answer for every packet they take, as the tasks behind them do
\* (theorem PipelineIsExchange of PacketPipelineProofs): no more are put back
\* than were taken, no pipe is filled beyond its capacity, and nothing is put
\* where the receiver has stopped.
THEOREM LinksExchange == Spec => ImplementsPacketExchange
<1>1. Init => SiteInv
  BY TypedInit, RegistrationInit, SiteInit DEF SiteInv, Inv
<1>2. Init => CountInv /\ Exchange!Init
  BY <1>1, ExchangeInit DEF CountInv
<1>3. CountInv /\ [Next]_vars => CountInv' /\ [Exchange!Next]_(Exchange!vars)
  BY SiteNext, ExchangeNext DEF CountInv
<1> QED BY <1>2, <1>3, PTL DEF Spec, ImplementsPacketExchange, Exchange!Spec

-----------------------------------------------------------------------------
(***************************************************************************)
(* The process implements the links.                                       *)
(***************************************************************************)
ProcessInv == CountInv /\ Custody /\ Tasks!TypeOK

\* What is in custody was taken, and what comes in next was not.
LEMMA ComesIn ==
    ASSUME SiteInv, transport_packet_pipe # <<>>
    PROVE  /\ Head(transport_packet_pipe) \in Packet \ held
           /\ Head(transport_packet_pipe) # None
<1>1. PICK p \in Packet : p = Head(transport_packet_pipe)
  BY WellTyped, QueueSteps
<1>2. p \in Range(transport_packet_pipe)
  BY <1>1, WellTyped, TakenQueue DEF SiteInv, InjectiveQueues
<1>3. At(p, "transport_packet_pipe", None)
  BY <1>2 DEF At
<1>4. p \in held => At(p, "held", None)
  BY DEF At
<1> QED BY <1>1, <1>3, <1>4, WellTyped DEF SiteInv, OnePlace, Kind

LEMMA SorterIsEnvironment ==
    ASSUME ProcessInv,
           SorterRecv \/ SorterSort \/ SorterReroute \/ SorterDeliver
    PROVE  [Next]_vars
<1> USE DEF SorterPolled, SorterGoesOn, NothingGoesOut, exceptSorter
<1>1. CASE SorterRecv
  <2>1. sorter_up
    BY <1>1 DEF SorterRecv, Tasks!SorterRecv, ProcessInv, Custody
  <2> QED BY <1>1, <2>1 DEF SorterRecv, SorterTake, Next
<1>2. CASE SorterSort
  BY <1>2 DEF SorterSort, vars, sorterVars, pipeVars
<1>3. CASE SorterReroute
  <2>1. sorter_up /\ sorted \in held
    BY <1>3 DEF SorterReroute, Tasks!SorterReroute, ProcessInv, Custody
  <2>2. CASE router = "panicked"
    BY <1>3, <2>1, <2>2 DEF SorterReroute, SorterFalls, SorterStops, Next
  <2>3. CASE router # "panicked"
    <3>1. Len(packet_router_pipe) < RouterPipeCap
      BY <1>3, <2>3 DEF SorterReroute, Tasks!SorterReroute, Tasks!SendToRouter,
         Tasks!HasRoom
    <3>2. Submit(sorted)
      BY <1>3, <2>1, <2>3, <3>1 DEF SorterReroute, GoesOut, Submit
    <3>3. sorted \in Packet
      BY <2>1, WellTyped DEF ProcessInv, CountInv
    <3> QED BY <3>2, <3>3 DEF Next
  <2> QED BY <2>2, <2>3
<1>4. CASE SorterDeliver
  <2>1. sorter_up
    BY <1>4 DEF SorterDeliver, Tasks!SorterDeliver, ProcessInv, Custody
  <2>2. CASE handler = "panicked"
    BY <1>4, <2>1, <2>2 DEF SorterDeliver, SorterFalls, SorterStops, Next
  <2>3. CASE handler # "panicked"
    BY <1>4, <2>3 DEF SorterDeliver, vars, sorterVars, pipeVars
  <2> QED BY <2>2, <2>3
<1> QED BY <1>1, <1>2, <1>3, <1>4

LEMMA HandlerIsEnvironment ==
    ASSUME ProcessInv,
           HandlerHandles \/ HandlerRecvNone \/ HandlerEncrypt \/ HandlerRespond
    PROVE  [Next]_vars
<1> USE DEF HandlerPolled, SorterGoesOn, NothingGoesOut, exceptSorter
<1>1. CASE HandlerHandles \/ HandlerRecvNone \/ HandlerEncrypt
  BY <1>1 DEF HandlerHandles, HandlerRecvNone, HandlerEncrypt, vars, sorterVars,
     pipeVars
<1>2. CASE HandlerRespond /\ router = "panicked"
  BY <1>2 DEF HandlerRespond, vars, sorterVars, pipeVars
<1>3. CASE HandlerRespond /\ router # "panicked"
  <2>1. answered \in held
    BY <1>3 DEF HandlerRespond, Tasks!HandlerRespond, ProcessInv, Custody
  <2>2. Len(packet_router_pipe) < RouterPipeCap
    BY <1>3 DEF HandlerRespond, Tasks!HandlerRespond, Tasks!SendToRouter,
       Tasks!HasRoom
  <2>3. Submit(answered)
    BY <1>3, <2>1, <2>2 DEF HandlerRespond, GoesOut, Submit
  <2>4. answered \in Packet
    BY <2>1, WellTyped DEF ProcessInv, CountInv
  <2> QED BY <2>3, <2>4 DEF Next
<1> QED BY <1>1, <1>2, <1>3

\* The pipe of the handler task and the packets its messages came in.
LEMMA CustodyOfQueue ==
    ASSUME Custody
    PROVE  /\ packets \in Seq(Packet) /\ IsInjective(packets)
           /\ Range(packets) \subseteq held \ {sorted, answered}
           /\ Len(packets) = Len(message_pipe)
  BY DEF Custody

LEMMA SorterKeepsCustody ==
    ASSUME ProcessInv,
           SorterRecv \/ SorterSort \/ SorterReroute \/ SorterDeliver
    PROVE  Custody'
<1> USE DEF SorterPolled, SorterGoesOn, NothingGoesOut, Tasks!handlerVars
<1>1. /\ Custody /\ held \subseteq Packet /\ None \notin Packet
  BY WellTyped DEF ProcessInv, CountInv
<1>2. CASE SorterRecv
  <2>1. /\ UNCHANGED <<sorter_up, packets, answered, handler, message_pipe>>
        /\ sorter = "recv" /\ sorter' = "lock"
        /\ sorted' = Head(transport_packet_pipe) /\ held' = held \cup {sorted'}
    BY <1>2 DEF SorterRecv, Tasks!SorterRecv
  <2>2. sorted' \notin held
    BY <1>2, <2>1, ComesIn DEF SorterRecv, ProcessInv, CountInv
  <2> QED BY <1>1, <2>1, <2>2 DEF Custody
<1>3. CASE SorterSort
  <2>1. /\ UNCHANGED <<sorter_up, held, packets, answered, handler, message_pipe>>
        /\ sorter = "lock" /\ sorter' \in {"recv", "reroute", "deliver"}
        /\ sorted' = IF sorter' = "recv" THEN None ELSE sorted
    BY <1>3 DEF SorterSort, Tasks!SorterSort, Tasks!Dropped
  <2>2. None \notin Range(packets)
    BY <1>1 DEF Custody
  <2> QED BY <1>1, <2>1, <2>2 DEF Custody
<1>4. CASE SorterReroute
  <2>1. /\ UNCHANGED <<packets, answered, handler, message_pipe>>
        /\ sorter = "reroute" /\ sorted' = None
    BY <1>4 DEF SorterReroute, Tasks!SorterReroute
  <2>2. \/ /\ UNCHANGED sorter_up /\ sorter' = "recv" /\ held' = held \ {sorted}
        \/ /\ sorter_up' = FALSE /\ sorter' = "panicked" /\ held' = held
    BY <1>4 DEF SorterReroute, Tasks!SorterReroute, Tasks!SendToRouter,
       Tasks!SorterPanics, SorterFalls, GoesOut
  <2> QED BY <1>1, <2>1, <2>2 DEF Custody
<1>5. CASE SorterDeliver
  <2>1. /\ UNCHANGED <<held, answered, handler>>
        /\ sorter = "deliver" /\ sorted' = None /\ sorted \in held
    BY <1>1, <1>5 DEF SorterDeliver, Tasks!SorterDeliver, Custody
  <2>2. CASE handler = "panicked"
    <3>1. /\ UNCHANGED <<packets, message_pipe>>
          /\ sorter_up' = FALSE /\ sorter' = "panicked"
      BY <1>5, <2>2 DEF SorterDeliver, Tasks!SorterDeliver, Tasks!SorterPanics,
         Tasks!MessagePipeClosed, SorterFalls
    <3> QED BY <1>1, <2>1, <3>1 DEF Custody
  <2>3. CASE handler # "panicked"
    <3>1. /\ packets' = Append(packets, sorted) /\ UNCHANGED sorter_up
          /\ message_pipe' = Append(message_pipe, sorting)
          /\ sorter' = "recv"
      BY <1>5, <2>3 DEF SorterDeliver, Tasks!SorterDeliver,
         Tasks!MessagePipeClosed
    <3>2. /\ packets' \in Seq(Packet) /\ IsInjective(packets')
          /\ Range(packets') = Range(packets) \cup {sorted}
      BY <1>1, <2>1, <3>1, AppendedQueue, AppendProperties DEF Custody
    <3>3. message_pipe \in Seq(Tasks!Message) /\ sorting \in Tasks!Message
      BY <1>5 DEF SorterDeliver, Tasks!SorterDeliver, ProcessInv, Tasks!TypeOK
    <3>4. Len(packets') = Len(message_pipe')
      BY <1>1, <2>1, <3>1, <3>3, AppendProperties DEF Custody
    <3> QED BY <1>1, <2>1, <3>1, <3>2, <3>4 DEF Custody
  <2> QED BY <2>2, <2>3
<1> QED BY <1>2, <1>3, <1>4, <1>5

\* A message less, or all of them when the handler task panics.
LEMMA HandledQueue ==
    ASSUME ProcessInv, message_pipe # <<>>
    PROVE  /\ packets # <<>>
           /\ Head(packets) \in held \ {sorted, answered}
           /\ Tail(packets) \in Seq(Packet) /\ IsInjective(Tail(packets))
           /\ Range(Tail(packets)) = Range(packets) \ {Head(packets)}
           /\ Len(Tail(packets)) = Len(Tail(message_pipe))
<1>1. /\ packets \in Seq(Packet) /\ IsInjective(packets)
      /\ Range(packets) \subseteq held \ {sorted, answered}
      /\ Len(packets) = Len(message_pipe)
  BY CustodyOfQueue DEF ProcessInv
<1>2. /\ message_pipe \in Seq(Tasks!Message)
      /\ Len(Tail(message_pipe)) = Len(message_pipe) - 1
      /\ Len(message_pipe) # 0
  BY EmptySeq, HeadTailProperties DEF ProcessInv, Tasks!TypeOK
<1>3. packets # <<>>
  BY <1>1, <1>2, EmptySeq
<1> QED BY <1>1, <1>2, <1>3, TakenQueue, HeadTailProperties

LEMMA HandlesKeepsCustody ==
    ASSUME ProcessInv, HandlerHandles
    PROVE  Custody'
<1>1. /\ Custody /\ held \subseteq Packet /\ None \notin Packet
  BY WellTyped DEF ProcessInv, CountInv
<1>2. /\ UNCHANGED <<sorter_up, held, sorted, sorter>>
      /\ handler = "recv" /\ message_pipe # <<>> /\ answered = None
  BY <1>1 DEF HandlerHandles, HandlerPolled, SorterGoesOn, NothingGoesOut,
     Tasks!HandleQuiet, Tasks!HandleUnwritten, Tasks!HandleStart,
     Tasks!HandleData, Tasks!HandleEnd, Tasks!Receives, Tasks!sorterVars, Custody
<1>3. \/ handler' = "panicked" /\ message_pipe' = <<>>
      \/ handler' \in {"recv", "lock"} /\ message_pipe' = Tail(message_pipe)
  BY <1>2 DEF HandlerHandles, Tasks!HandleQuiet, Tasks!HandleUnwritten,
     Tasks!HandleStart, Tasks!HandleData, Tasks!HandleEnd, Tasks!HandlerPanics,
     Tasks!handlerVars
<1>4. CASE handler' = "panicked"
  <2>1. packets' = <<>> /\ answered' = None
    BY <1>4 DEF HandlerHandles
  <2>2. packets' \in Seq(Packet) /\ Range(packets') = {} /\ IsInjective(packets')
    BY <2>1, EmptyQueue, QueueSteps
  <2> QED BY <1>1, <1>2, <1>3, <1>4, <2>1, <2>2 DEF Custody
<1>5. CASE handler' # "panicked"
  <2>1. /\ packets' = Tail(packets) /\ message_pipe' = Tail(message_pipe)
        /\ answered' = IF handler' = "lock" THEN Head(packets) ELSE None
    BY <1>3, <1>5 DEF HandlerHandles, Taken
  <2>2. /\ Head(packets) \in held \ {sorted}
        /\ packets' \in Seq(Packet) /\ IsInjective(packets')
        /\ Range(packets') = Range(packets) \ {Head(packets)}
        /\ Len(packets') = Len(message_pipe')
    BY <1>2, <2>1, HandledQueue
  <2> QED BY <1>1, <1>2, <1>3, <1>5, <2>1, <2>2 DEF Custody
<1> QED BY <1>4, <1>5

LEMMA HandlerKeepsCustody ==
    ASSUME ProcessInv,
           HandlerHandles \/ HandlerRecvNone \/ HandlerEncrypt \/ HandlerRespond
    PROVE  Custody'
<1> USE DEF HandlerPolled, SorterGoesOn, NothingGoesOut, Tasks!sorterVars
<1>1. /\ Custody /\ held \subseteq Packet /\ None \notin Packet
  BY WellTyped DEF ProcessInv, CountInv
<1>2. /\ <<>> \in Seq(Packet) /\ Range(<<>>) = {} /\ IsInjective(<<>>)
  BY EmptyQueue, QueueSteps
<1>3. CASE HandlerRecvNone
  <2>1. /\ UNCHANGED <<sorter_up, held, sorted, sorter, packets, answered>>
        /\ handler = "recv" /\ handler' = "panicked"
        /\ message_pipe = <<>> /\ message_pipe' = <<>>
    BY <1>3 DEF HandlerRecvNone, Tasks!HandlerRecvNone, Tasks!HandlerPanics
  <2> QED BY <1>1, <2>1 DEF Custody
<1>4. CASE HandlerEncrypt
  <2>1. UNCHANGED <<sorter_up, held, sorted, sorter>> /\ handler = "lock"
    BY <1>4 DEF HandlerEncrypt, Tasks!HandlerEncrypt
  <2>2. CASE /\ handler' = "respond"
             /\ UNCHANGED <<message_pipe, packets, answered>>
    BY <1>1, <2>1, <2>2 DEF Custody
  <2>3. CASE /\ handler' = "panicked" /\ message_pipe' = <<>>
             /\ packets' = <<>> /\ answered' = None
    BY <1>1, <1>2, <2>1, <2>3 DEF Custody
  <2> QED BY <1>4, <2>2, <2>3
          DEF HandlerEncrypt, Tasks!HandlerEncrypt, Tasks!HandlerPanics
<1>5. CASE HandlerRespond
  <2>1. /\ UNCHANGED <<sorter_up, sorted, sorter>>
        /\ handler = "respond" /\ answered' = None
    BY <1>5 DEF HandlerRespond, Tasks!HandlerRespond
  <2>2. CASE /\ held' = held \ {answered} /\ handler' = "recv"
             /\ UNCHANGED <<message_pipe, packets>>
    BY <1>1, <2>1, <2>2 DEF Custody
  <2>3. CASE /\ UNCHANGED held /\ handler' = "panicked"
             /\ message_pipe' = <<>> /\ packets' = <<>>
    BY <1>1, <1>2, <2>1, <2>3 DEF Custody
  <2> QED BY <1>5, <2>2, <2>3
          DEF HandlerRespond, Tasks!HandlerRespond, Tasks!HandlerPanics,
              Tasks!SendToRouter, GoesOut
<1> QED BY <1>3, <1>4, <1>5, HandlesKeepsCustody

\* What the tasks of the links never touch.
LEMMA LinkWorkApart ==
    ASSUME LinkWork
    PROVE  UNCHANGED <<held, sorter_up>>
<1> USE DEF exceptOpener, exceptSender, exceptListener, exceptRouter, sorterVars
<1>1. ASSUME NEW c \in Conn, \/ SenderWork(c) \/ SenderWrite(c)
                             \/ ListenerWork(c) \/ ListenerRead(c)
      PROVE  UNCHANGED <<held, sorter_up>>
  BY <1>1 DEF SenderWork, SenderCheck, SenderRecv, SenderReroute, SenderRemove,
     SenderWrite, ListenerWork, ListenerStart, ListenerForward,
     ListenerDeregister, ListenerUntrack, ListenerRead
<1>2. CASE RouterWork
  BY <1>2 DEF RouterWork, RouterTake, RouterSend
<1>3. CASE \/ \E t \in Transports, c \in Conn, a \in Address : AcceptConn(t, c, a)
           \/ ContactorWork
           \/ \E t \in Opener : Register(t)
  BY <1>3 DEF AcceptConn, ContactorWork, ContactorChoose, ContactorConnect,
     Register
<1> QED BY <1>1, <1>2, <1>3 DEF LinkWork

LEMMA CustodyNext ==
    ASSUME ProcessInv, [ProcessNext]_processVars
    PROVE  Custody'
<1>1. CASE LinkWork /\ UNCHANGED behindVars
  BY <1>1, LinkWorkApart DEF ProcessInv, Custody, behindVars
<1>2. CASE UNCHANGED processVars
  BY <1>2 DEF ProcessInv, Custody, processVars, vars, behindVars, sorterVars
<1> QED BY <1>1, <1>2, SorterKeepsCustody, HandlerKeepsCustody DEF ProcessNext

LEMMA ProcessStepOfLinks ==
    ASSUME ProcessInv, [ProcessNext]_processVars
    PROVE  [Next]_vars
<1>1. CASE LinkWork
  BY <1>1 DEF LinkWork, Next
<1>2. CASE UNCHANGED processVars
  BY <1>2 DEF processVars
<1> QED BY <1>1, <1>2, SorterIsEnvironment, HandlerIsEnvironment DEF ProcessNext

-----------------------------------------------------------------------------
(***************************************************************************)
(* The process implements the tasks behind the links.  What was proved of  *)
(* them (module PacketPipelineProofs) is taken over by an instance of that *)
(* module, whose definitions are those of Tasks under another name.        *)
(***************************************************************************)
TaskProofs == INSTANCE PacketPipelineProofs WITH
    transport_packet_pipe <- Len(transport_packet_pipe),
    packet_router_pipe    <- Len(packet_router_pipe),
    router_up             <- router # "panicked",
    leaving               <- Leaving,
    MaxLeaving            <- None

LEMMA SameTasks ==
    /\ TaskProofs!PipelineAssumption
    /\ TaskProofs!Init <=> Tasks!Init
    /\ [TaskProofs!Next]_(TaskProofs!vars) <=> [Tasks!Next]_(Tasks!vars)
    /\ TaskProofs!TypeOK <=> Tasks!TypeOK
    /\ TaskProofs!TypeOK' <=> Tasks!TypeOK'
<1>1. TaskProofs!PipelineAssumption
  BY LinkAssumption, ProcessAssumption
<1>2. TaskProofs!Init <=> Tasks!Init
  BY DEF TaskProofs!Init, Tasks!Init, TaskProofs!Empty, Tasks!Empty
<1>3. TaskProofs!Next <=> Tasks!Next
  BY Zenon
  DEF TaskProofs!Next, Tasks!Next,
      TaskProofs!SorterWork, Tasks!SorterWork, TaskProofs!HandlerWork,
      Tasks!HandlerWork, TaskProofs!SorterRecv, Tasks!SorterRecv,
      TaskProofs!SorterSort, Tasks!SorterSort, TaskProofs!SorterReroute,
      Tasks!SorterReroute, TaskProofs!SorterDeliver, Tasks!SorterDeliver,
      TaskProofs!HandleQuiet, Tasks!HandleQuiet, TaskProofs!HandleUnwritten,
      Tasks!HandleUnwritten, TaskProofs!HandleStart, Tasks!HandleStart,
      TaskProofs!HandleData, Tasks!HandleData, TaskProofs!HandleEnd,
      Tasks!HandleEnd, TaskProofs!HandlerRecvNone, Tasks!HandlerRecvNone,
      TaskProofs!HandlerEncrypt, Tasks!HandlerEncrypt, TaskProofs!HandlerRespond,
      Tasks!HandlerRespond, TaskProofs!Arrive, Tasks!Arrive, TaskProofs!RouterTakes,
      Tasks!RouterTakes, TaskProofs!PutBack, Tasks!PutBack, TaskProofs!Leave,
      Tasks!Leave, TaskProofs!RouterStops, Tasks!RouterStops, TaskProofs!Receives,
      Tasks!Receives, TaskProofs!SendToRouter, Tasks!SendToRouter,
      TaskProofs!HasRoom, Tasks!HasRoom, TaskProofs!NoiseLocked, Tasks!NoiseLocked,
      TaskProofs!MessagePipeClosed, Tasks!MessagePipeClosed,
      TaskProofs!SorterPanics, Tasks!SorterPanics, TaskProofs!HandlerPanics,
      Tasks!HandlerPanics, TaskProofs!Dropped, Tasks!Dropped, TaskProofs!Recorded,
      Tasks!Recorded, TaskProofs!Message, Tasks!Message, TaskProofs!U8, Tasks!U8,
      TaskProofs!sorterVars, Tasks!sorterVars, TaskProofs!handlerVars,
      Tasks!handlerVars, TaskProofs!routerVars, Tasks!routerVars, TaskProofs!Insert,
      Tasks!Insert, TaskProofs!Evicted, Tasks!Evicted, TaskProofs!Put, Tasks!Put,
      TaskProofs!Remove, Tasks!Remove, TaskProofs!Contains, Tasks!Contains,
      TaskProofs!Without, Tasks!Without, TaskProofs!Occurs, Tasks!Occurs,
      TaskProofs!Place, Tasks!Place
<1>4. UNCHANGED TaskProofs!vars <=> UNCHANGED Tasks!vars
  BY DEF TaskProofs!vars, Tasks!vars, TaskProofs!sorterVars, Tasks!sorterVars,
     TaskProofs!handlerVars, Tasks!handlerVars, TaskProofs!routerVars, Tasks!routerVars
<1>5. TaskProofs!TypeOK <=> Tasks!TypeOK
  BY Zenon
  DEF TaskProofs!TypeOK, Tasks!TypeOK, TaskProofs!Message, Tasks!Message, TaskProofs!U8,
      Tasks!U8, TaskProofs!ApplicationDataProblem, Tasks!ApplicationDataProblem,
      TaskProofs!CacheOf, Tasks!CacheOf, TaskProofs!Coherent, Tasks!Coherent,
      TaskProofs!Once, Tasks!Once, TaskProofs!Contains, Tasks!Contains, TaskProofs!Occurs,
      Tasks!Occurs
<1>6. TaskProofs!TypeOK' <=> Tasks!TypeOK'
  BY Zenon
  DEF TaskProofs!TypeOK, Tasks!TypeOK, TaskProofs!Message, Tasks!Message, TaskProofs!U8,
      Tasks!U8, TaskProofs!ApplicationDataProblem, Tasks!ApplicationDataProblem,
      TaskProofs!CacheOf, Tasks!CacheOf, TaskProofs!Coherent, Tasks!Coherent,
      TaskProofs!Once, Tasks!Once, TaskProofs!Contains, Tasks!Contains, TaskProofs!Occurs,
      Tasks!Occurs
<1> QED BY <1>1, <1>2, <1>3, <1>4, <1>5, <1>6

LEMMA TasksTyped ==
    /\ Tasks!Init => Tasks!TypeOK
    /\ Tasks!TypeOK /\ [Tasks!Next]_(Tasks!vars) => Tasks!TypeOK'
<1>1. TaskProofs!Init => TaskProofs!TypeOK
  BY SameTasks, TaskProofs!TypeInit
<1>2. TaskProofs!TypeOK /\ [TaskProofs!Next]_(TaskProofs!vars)
        => TaskProofs!TypeOK'
  BY SameTasks, TaskProofs!TypeNext
<1> QED BY <1>1, <1>2, SameTasks

\* What the links do to the shared pipes is what PacketPipeline lets its
\* environment do: their steps of the exchange are of the links' side.
LEMMA LinksAreEnvironment ==
    ASSUME ProcessInv, LinkWork, UNCHANGED behindVars
    PROVE  [Tasks!Next]_(Tasks!vars)
<1> USE DEF behindVars, Tasks!sorterVars, Tasks!handlerVars, Tasks!routerVars
<1>1. FiniteInv' /\ [Exchange!Next]_(Exchange!vars)
  <2>1. [Next]_vars
    BY DEF LinkWork, Next
  <2> QED BY <2>1, ExchangeNext DEF ProcessInv
<1>2. UNCHANGED <<held, sorter_up>> /\ sorter_up = (sorter # "panicked")
  BY LinkWorkApart DEF ProcessInv, Custody
<1>3. Leaving \in Nat /\ Cardinality(held) \in Nat
  BY LeavingNat DEF ProcessInv, CountInv
<1>4. CASE UNCHANGED Exchange!vars
  BY <1>4 DEF Exchange!vars, Tasks!vars
<1>5. CASE Exchange!Arrive
  BY <1>2, <1>5 DEF Exchange!Arrive, Tasks!Arrive, Tasks!HasRoom, Tasks!Next
<1>6. CASE Exchange!RouterTakes
  BY <1>6 DEF Exchange!RouterTakes, Tasks!RouterTakes, Tasks!Next
<1>7. CASE Exchange!PutBack
  BY <1>7 DEF Exchange!PutBack, Tasks!PutBack, Tasks!SendToRouter, Tasks!HasRoom,
     Tasks!Next
<1>8. ASSUME NEW n \in 0..Leaving, Exchange!Leave(n)
      PROVE  [Tasks!Next]_(Tasks!vars)
  <2>1. CASE n = 0
    BY <1>3, <1>8, <2>1 DEF Exchange!Leave, Tasks!vars
  <2>2. CASE n # 0
    <3>1. n \in 1..Leaving
      BY <1>3, <2>2
    <3>2. Tasks!Leave
      BY <1>8, <3>1 DEF Exchange!Leave, Tasks!Leave
    <3> QED BY <3>2 DEF Tasks!Next
  <2> QED BY <2>1, <2>2
<1>9. ASSUME NEW n \in 0..Leaving, Exchange!RouterStops(n)
      PROVE  Tasks!RouterStops
  <2>1. Leaving' \in {Leaving, Leaving - 1} \cap Nat
    BY <1>3, <1>9 DEF Exchange!RouterStops
  <2> QED BY <1>9, <2>1 DEF Exchange!RouterStops, Tasks!RouterStops
<1>10. ~Exchange!Take /\ ~Exchange!Submit
  BY <1>2, <1>3 DEF Exchange!Take, Exchange!Submit
<1>11. ASSUME NEW n \in 0..Cardinality(held), Exchange!Drop(n)
       PROVE  UNCHANGED Exchange!vars
  BY <1>2, <1>11 DEF Exchange!Drop, Exchange!vars
<1>12. ASSUME NEW n \in 0..Cardinality(held), Exchange!SorterStops(n)
       PROVE  FALSE
  BY <1>2, <1>12 DEF Exchange!SorterStops
<1> QED BY <1>1, <1>4, <1>5, <1>6, <1>7, <1>8, <1>9, <1>10, <1>11, <1>12
        DEF Exchange!Next, Tasks!Next

LEMMA ProcessStepOfTasks ==
    ASSUME ProcessInv, [ProcessNext]_processVars
    PROVE  [Tasks!Next]_(Tasks!vars)
<1>1. CASE UNCHANGED processVars
  BY <1>1 DEF processVars, vars, behindVars, Tasks!vars, Tasks!sorterVars,
     Tasks!handlerVars, Tasks!routerVars, routerVars, pipeVars, senderVars,
     Leaving, Queued
<1>2. CASE SorterRecv \/ SorterSort \/ SorterReroute \/ SorterDeliver
  BY <1>2 DEF SorterRecv, SorterSort, SorterReroute, SorterDeliver,
     Tasks!SorterWork, Tasks!Next
<1>3. CASE HandlerHandles \/ HandlerRecvNone \/ HandlerEncrypt \/ HandlerRespond
  BY <1>3 DEF HandlerHandles, HandlerRecvNone, HandlerEncrypt, HandlerRespond,
     Tasks!HandlerWork, Tasks!Next
<1> QED BY <1>1, <1>2, <1>3, LinksAreEnvironment DEF ProcessNext

-----------------------------------------------------------------------------
LEMMA ProcessBegins == ProcessInit => ProcessInv
<1> SUFFICES ASSUME ProcessInit PROVE ProcessInv
  OBVIOUS
<1>1. CountInv
  BY TypedInit, RegistrationInit, SiteInit, ExchangeInit
     DEF ProcessInit, CountInv, SiteInv, Inv
<1>2. Tasks!TypeOK
  BY TasksTyped DEF ProcessInit
<1>3. Custody
  BY EmptyQueue, QueueSteps DEF ProcessInit, Init, Tasks!Init, Custody
<1> QED BY <1>1, <1>2, <1>3 DEF ProcessInv

LEMMA ProcessGoesOn ==
    ASSUME ProcessInv, [ProcessNext]_processVars
    PROVE  /\ ProcessInv' /\ [Next]_vars /\ [Tasks!Next]_(Tasks!vars)
<1>1. [Next]_vars /\ [Tasks!Next]_(Tasks!vars)
  BY ProcessStepOfLinks, ProcessStepOfTasks
<1>2. CountInv'
  BY <1>1, SiteNext, ExchangeNext DEF ProcessInv, CountInv
<1>3. Custody'
  BY CustodyNext
<1>4. Tasks!TypeOK'
  BY <1>1, TasksTyped DEF ProcessInv
<1> QED BY <1>1, <1>2, <1>3, <1>4 DEF ProcessInv

\* No packet is in two places behind the links, and none is there that the
\* links did not give away.
THEOREM PacketsInCustody == ProcessSpec => []Custody
<1>1. ProcessInv => Custody
  BY DEF ProcessInv
<1> QED BY <1>1, ProcessBegins, ProcessGoesOn, PTL DEF ProcessSpec

\* The whole process does to the links what the environment of PeerLinks does,
\* so that every theorem about the links is one about the process.
THEOREM ProcessIsLinks == ProcessSpec => ImplementsLinks
<1>1. ProcessInit => Init
  BY DEF ProcessInit
<1> QED BY <1>1, ProcessBegins, ProcessGoesOn, PTL
        DEF ProcessSpec, ImplementsLinks, Spec

\* And it does to the tasks behind them what the environment of PacketPipeline
\* does.
THEOREM ProcessIsPipeline == ProcessSpec => ImplementsPipeline
<1>1. ProcessInit => Tasks!Init
  BY DEF ProcessInit
<1> QED BY <1>1, ProcessBegins, ProcessGoesOn, PTL
        DEF ProcessSpec, ImplementsPipeline, Tasks!Spec

-----------------------------------------------------------------------------
(* Panics *)

ListenersFallBehind ==
    \A c \in Conn : listener[c] = "panicked" => ~sorter_up

LEMMA ListenersFallNext ==
    ASSUME Typed, ListenersFallBehind, [Next]_vars
    PROVE  ListenersFallBehind'
<1> USE DEF ListenersFallBehind, exceptOpener, exceptSender, exceptListener,
        exceptRouter, exceptSorter, openVars, listenerVars, sorterVars
<1>1. listener \in [Conn -> ListenerStep]
  BY DEF Typed, TypeOK
<1>2. ASSUME NEW c \in Conn, SenderWork(c) \/ SenderWrite(c)
      PROVE  ListenersFallBehind'
  BY <1>2 DEF SenderWork, SenderCheck, SenderRecv, SenderReroute, SenderRemove,
     SenderWrite
<1>3. ASSUME NEW c \in Conn, ListenerWork(c) \/ ListenerRead(c)
      PROVE  ListenersFallBehind'
  <2>1. \E step \in ListenerStep :
          /\ listener' = [listener EXCEPT ![c] = step]
          /\ step = "panicked" => ~sorter_up
    BY <1>3 DEF ListenerWork, ListenerStart, ListenerForward, ListenerDeregister,
       ListenerUntrack, ListenerRead, ListenerStep
  <2>2. UNCHANGED sorter_up
    BY <1>3 DEF ListenerWork, ListenerStart, ListenerForward, ListenerDeregister,
       ListenerUntrack, ListenerRead
  <2> QED BY <1>1, <2>1, <2>2
<1>4. CASE RouterWork
  BY <1>4 DEF RouterWork, RouterTake, RouterSend
<1>5. CASE \/ \E t \in Transports, c \in Conn, a \in Address : AcceptConn(t, c, a)
           \/ ContactorWork
  BY <1>5 DEF AcceptConn, ContactorWork, ContactorChoose, ContactorConnect
<1>6. ASSUME NEW t \in Opener, Register(t)
      PROVE  ListenersFallBehind'
  BY <1>1, <1>6 DEF Register
<1>7. CASE SorterTake \/ SorterStops \/ \E p \in Packet : Submit(p)
  BY <1>7 DEF SorterTake, SorterStops, Submit
<1>8. CASE UNCHANGED vars
  BY <1>8 DEF vars
<1> QED BY <1>2, <1>3, <1>4, <1>5, <1>6, <1>7, <1>8 DEF Next

\* No unwrap() of a sender, a listener or the sorter task fails before the
\* handler task or the router task has panicked: panics spread from the ends of
\* the pipes, and what a peer does to a link ends no task but its own two.
THEOREM PanicsSpread == ProcessSpec => []PanicsBeginAtTheEnds
<1>1. Spec => []ListenersFallBehind
  <2>1. Init => ListenersFallBehind
    BY DEF Init, ListenersFallBehind
  <2> QED BY <2>1, ListenersFallNext, Invariance, PTL DEF Spec, Inv
<1>2. Tasks!Spec => []Tasks!SorterIsNotFirst
  <2>1. TaskProofs!Spec => []TaskProofs!SorterIsNotFirst
    BY SameTasks, TaskProofs!SorterFallsSecond
  <2>2. TaskProofs!SorterIsNotFirst <=> Tasks!SorterIsNotFirst
    BY DEF TaskProofs!SorterIsNotFirst, Tasks!SorterIsNotFirst
  <2> QED BY <2>1, <2>2, SameTasks, PTL DEF TaskProofs!Spec, Tasks!Spec
<1>3. /\ Inv /\ ListenersFallBehind /\ Custody /\ Tasks!SorterIsNotFirst
      => PanicsBeginAtTheEnds
  BY DEF Inv, RegistrationInv, ListenersFallBehind, Custody,
     Tasks!SorterIsNotFirst, PanicsBeginAtTheEnds
<1> QED BY <1>1, <1>2, <1>3, Invariance, ProcessIsLinks, ProcessIsPipeline,
           PacketsInCustody, PTL DEF ImplementsLinks, ImplementsPipeline

-----------------------------------------------------------------------------
\* What was proved of each half is true of the process: no packet is sent by
\* two links or is in two places, none is lost unless a fault is recorded, and
\* the chunks a remote is asked for are those that have not come.
THEOREM ProcessKeepsPromises ==
    ProcessSpec => /\ []OneFate
                   /\ ImplementsPacketFate
                   /\ []Tasks!ProblemIsTruth
<1>1. Tasks!Spec => []Tasks!ProblemIsTruth
  <2>1. TaskProofs!Spec => []TaskProofs!ProblemIsTruth
    BY SameTasks, TaskProofs!ReportIsTrue
  <2>2. TaskProofs!ProblemIsTruth <=> Tasks!ProblemIsTruth
    BY DEF TaskProofs!ProblemIsTruth, Tasks!ProblemIsTruth, TaskProofs!U8,
       Tasks!U8
  <2> QED BY <2>1, <2>2, SameTasks, PTL DEF TaskProofs!Spec, Tasks!Spec
<1> QED BY <1>1, NoPacketTwice, LinksKeepPackets, ProcessIsLinks,
           ProcessIsPipeline, PTL DEF ImplementsLinks, ImplementsPipeline

=============================================================================
