------------------------ MODULE PacketPipelineProofs ------------------------
(***************************************************************************)
(* Proofs about PacketPipeline, for every set of transfers, every width of *)
(* the chunk index and every capacity of the pipes and of the cache.       *)
(***************************************************************************)
EXTENDS PacketPipeline, SequenceTheorems, TLAPS

\* No step of the sorter task alone, and no message, ends the sorter task.
THEOREM SorterFallsSecond == Spec => []SorterIsNotFirst
<1>1. Init => SorterIsNotFirst
  BY DEF Init, SorterIsNotFirst
<1>2. SorterIsNotFirst /\ [Next]_vars => SorterIsNotFirst'
  <2> SUFFICES ASSUME SorterIsNotFirst, [Next]_vars PROVE SorterIsNotFirst'
    OBVIOUS
  <2> USE DEF SorterIsNotFirst, sorterVars, handlerVars, routerVars
  <2>1. CASE SorterWork
    BY <2>1 DEF SorterWork, SorterRecv, SorterSort, Dropped, SorterReroute,
       SorterDeliver, SendToRouter, SorterPanics, MessagePipeClosed
  <2>2. CASE HandlerWork
    BY <2>2 DEF HandlerWork, HandleQuiet, HandleUnwritten, HandleStart,
       HandleData, HandleEnd, HandlerRecvNone, HandlerRespond, Receives,
       HandlerPanics, SendToRouter
  <2>3. CASE HandlerEncrypt
    BY <2>3 DEF HandlerEncrypt, HandlerPanics
  <2>4. CASE Arrive \/ RouterTakes \/ PutBack \/ Leave \/ RouterStops
    BY <2>4 DEF Arrive, SendToRouter, RouterTakes, PutBack, Leave, RouterStops
  <2>5. CASE UNCHANGED vars
    BY <2>5 DEF vars
  <2> QED BY <2>1, <2>2, <2>3, <2>4, <2>5 DEF Next
<1> QED BY <1>1, <1>2, PTL DEF Spec

-----------------------------------------------------------------------------
(* Types *)

\* A queue of messages without its head.
LEMMA MessageTaken ==
    ASSUME message_pipe \in Seq(Message), message_pipe # <<>>
    PROVE  /\ Head(message_pipe) \in Message /\ Tail(message_pipe) \in Seq(Message)
           /\ Len(Tail(message_pipe)) = Len(message_pipe) - 1
  BY HeadTailProperties

LEMMA TypeInit == Init => TypeOK
<1> SUFFICES ASSUME Init PROVE TypeOK
  OBVIOUS
<1>1. CacheOf(recv_state, Key, SUBSET U8) /\ Len(recv_state.order) = 0
  BY EmptySeq DEF Init, Empty, CacheOf, Coherent, Once, Occurs, Contains
<1> QED BY <1>1, EmptySeq, PipelineAssumption DEF Init, TypeOK

LEMMA TypeSorter ==
    ASSUME TypeOK, SorterWork
    PROVE  TypeOK'
<1> USE PipelineAssumption
    DEF TypeOK, handlerVars, routerVars, sorterVars
<1>1. CASE SorterRecv     BY <1>1 DEF SorterRecv
<1>2. CASE SorterSort     BY <1>2 DEF SorterSort, Dropped
<1>3. CASE SorterReroute
  BY <1>3 DEF SorterReroute, SorterPanics, SendToRouter, HasRoom
<1>4. CASE SorterDeliver
  <2>1. CASE MessagePipeClosed /\ SorterPanics /\ UNCHANGED message_pipe
    BY <1>4, <2>1 DEF SorterDeliver, SorterPanics
  <2>2. CASE HasRoom(Len(message_pipe), MessagePipeCap)
               /\ message_pipe' = Append(message_pipe, sorting)
    <3>1. sorting \in Message
      BY <1>4 DEF SorterDeliver
    <3>2. /\ message_pipe' \in Seq(Message)
          /\ Len(message_pipe') = Len(message_pipe) + 1
      BY <2>2, <3>1, AppendProperties
    <3> QED BY <1>4, <2>2, <3>2 DEF SorterDeliver, SorterPanics, HasRoom
  <2> QED BY <1>4, <2>1, <2>2 DEF SorterDeliver
<1> QED BY <1>1, <1>2, <1>3, <1>4 DEF SorterWork

\* Handling a message keeps the cache one, and not too large.
LEMMA TypeCache ==
    ASSUME TypeOK, HandleStart \/ HandleData \/ HandleEnd
    PROVE  /\ CacheOf(recv_state', Key, SUBSET U8)
           /\ Len(recv_state'.order) <= RecvStateCap
<1> DEFINE m == Head(message_pipe)
<1>1. m \in Message /\ RecvStateCap \in Nat /\ None \notin SUBSET U8
  BY MessageTaken, PipelineAssumption
     DEF HandleStart, HandleData, HandleEnd, Receives, TypeOK, U8
<1>2. /\ CacheOf(recv_state, Key, SUBSET U8)
      /\ Len(recv_state.order) \in Nat /\ Len(recv_state.order) <= RecvStateCap
  BY DEF TypeOK, CacheOf
<1>3. CASE HandleStart
  <2>1. m.key \in Key /\ recv_state' = Insert(recv_state, m.key, {})
    BY <1>1, <1>3 DEF HandleStart, Receives, Message
  <2>2. {} \in SUBSET U8 /\ {} # None
    BY <1>1
  <2> QED BY <1>1, <1>2, <2>1, <2>2, InsertKeeps
<1>4. CASE HandleData
  <2>1. /\ m.key \in Key /\ m.index \in U8
        /\ recv_state' = Recorded(m.key, m.index)
    BY <1>1, <1>4 DEF HandleData, Receives, Message
  <2>2. CASE Contains(recv_state, m.key)
    <3> DEFINE v == recv_state.map[m.key] \cup {m.index}
    <3>1. v \in SUBSET U8 /\ v # None
      BY <1>1, <1>2, <2>1, <2>2 DEF CacheOf, Contains
    <3>2. recv_state' = Put(recv_state, m.key, v)
      BY <2>1, <2>2 DEF Recorded
    <3> HIDE DEF v
    <3> QED BY <1>2, <2>1, <2>2, <3>1, <3>2, PutKeeps
  <2> QED BY <1>2, <2>1, <2>2 DEF Recorded
<1>5. CASE HandleEnd
  <2>1. m.key \in Key /\ recv_state' = Remove(recv_state, m.key)
    BY <1>1, <1>5 DEF HandleEnd, Receives, Message
  <2>2. /\ CacheOf(recv_state', Key, SUBSET U8)
        /\ Len(recv_state'.order) \in {Len(recv_state.order), Len(recv_state.order) - 1}
    BY <1>2, <2>1, RemoveKeeps
  <2> QED BY <1>1, <1>2, <2>2
<1> QED BY <1>3, <1>4, <1>5

LEMMA TypeHandler ==
    ASSUME TypeOK, HandlerWork \/ HandlerEncrypt
    PROVE  TypeOK'
<1> USE PipelineAssumption DEF handlerVars, routerVars, sorterVars
<1> DEFINE m == Head(message_pipe)
<1>1. ASSUME message_pipe # <<>>
      PROVE  /\ m \in Message /\ Tail(message_pipe) \in Seq(Message)
             /\ Len(Tail(message_pipe)) <= MessagePipeCap
  BY <1>1, MessageTaken DEF TypeOK
<1>2. <<>> \in Seq(Message) /\ Len(<<>>) <= MessagePipeCap
  BY EmptySeq
<1>3. CASE HandleQuiet
  BY <1>1, <1>3 DEF HandleQuiet, Receives, TypeOK
<1>4. CASE HandleUnwritten
  BY <1>2, <1>4 DEF HandleUnwritten, Receives, HandlerPanics, TypeOK
<1>5. CASE HandleStart
  <2>1. m.key \in Key
    BY <1>1, <1>5 DEF HandleStart, Receives, Message
  <2>2. seen' \in [Key -> SUBSET U8]
    BY <1>5, <2>1 DEF HandleStart, TypeOK
  <2> QED BY <1>1, <1>5, <2>2, TypeCache DEF HandleStart, Receives, TypeOK
<1>6. CASE HandleData
  <2>1. m.key \in Key /\ m.index \in U8
    BY <1>1, <1>6 DEF HandleData, Receives, Message
  <2>2. seen' \in [Key -> SUBSET U8]
    BY <1>6, <2>1 DEF HandleData, TypeOK
  <2> QED BY <1>1, <1>6, <2>2, TypeCache DEF HandleData, Receives, TypeOK
<1>7. CASE HandleEnd
  <2>1. m.key \in Key /\ m.total_sent \in U8
    BY <1>1, <1>7 DEF HandleEnd, Receives, Message
  <2>2. /\ problem' \in IF handler' \in {"lock", "respond"}
                          THEN ApplicationDataProblem ELSE {None}
        /\ handler' \in {"recv", "lock", "panicked"}
        /\ message_pipe' \in {Tail(message_pipe), <<>>}
    BY <1>7, <2>1
       DEF HandleEnd, Receives, HandlerPanics, ApplicationDataProblem, TypeOK
  <2>3. message_pipe' \in Seq(Message) /\ Len(message_pipe') <= MessagePipeCap
    BY <1>1, <1>2, <1>7, <2>2 DEF HandleEnd, Receives
  <2>4. UNCHANGED <<transport_packet_pipe, sorter, sorting, packet_router_pipe,
                    router_up, leaving, seen>>
    BY <1>7 DEF HandleEnd, Receives
  <2> QED BY <1>7, <2>2, <2>3, <2>4, TypeCache DEF TypeOK
<1>8. CASE HandlerRecvNone
  BY <1>2, <1>8 DEF HandlerRecvNone, HandlerPanics, TypeOK
<1>9. CASE HandlerEncrypt
  BY <1>2, <1>9 DEF HandlerEncrypt, HandlerPanics, TypeOK
<1>10. CASE HandlerRespond
  <2>1. UNCHANGED <<transport_packet_pipe, sorter, sorting, recv_state,
                    router_up, seen, leaving>>
    BY <1>10 DEF HandlerRespond, SendToRouter
  <2>2. packet_router_pipe' \in 0..RouterPipeCap
    BY <1>10 DEF HandlerRespond, SendToRouter, HasRoom, TypeOK
  <2>3. message_pipe' \in {message_pipe, <<>>}
    BY <1>10 DEF HandlerRespond, HandlerPanics
  <2>4. handler' \in {"recv", "panicked"} /\ problem' = None
    BY <1>10 DEF HandlerRespond, HandlerPanics
  <2> QED BY <1>2, <2>1, <2>2, <2>3, <2>4 DEF TypeOK
<1> QED BY <1>3, <1>4, <1>5, <1>6, <1>7, <1>8, <1>9, <1>10 DEF HandlerWork

LEMMA TypeNext == TypeOK /\ [Next]_vars => TypeOK'
<1> SUFFICES ASSUME TypeOK, [Next]_vars PROVE TypeOK'
  OBVIOUS
<1>1. CASE Arrive \/ RouterTakes \/ PutBack \/ Leave \/ RouterStops
  <2> USE PipelineAssumption DEF sorterVars, handlerVars, routerVars
  <2>1. UNCHANGED <<sorter, sorting, message_pipe, handler, problem, recv_state,
                    seen>>
    BY <1>1 DEF Arrive, RouterTakes, PutBack, Leave, RouterStops
  <2>2. transport_packet_pipe' \in 0..TransportPipeCap
    BY <1>1 DEF Arrive, RouterTakes, PutBack, Leave, RouterStops, HasRoom, TypeOK
  <2>3. packet_router_pipe' \in 0..RouterPipeCap
    BY <1>1 DEF Arrive, RouterTakes, PutBack, Leave, RouterStops, SendToRouter,
       HasRoom, TypeOK
  <2>4. leaving' \in Nat
    BY <1>1 DEF Arrive, RouterTakes, PutBack, Leave, RouterStops, TypeOK
  <2>5. router_up' \in BOOLEAN
    BY <1>1 DEF Arrive, RouterTakes, PutBack, Leave, RouterStops, SendToRouter,
       TypeOK
  <2> QED BY <2>1, <2>2, <2>3, <2>4, <2>5 DEF TypeOK
<1>2. CASE UNCHANGED vars
  BY <1>2 DEF vars, TypeOK, sorterVars, handlerVars, routerVars
<1> QED BY <1>1, <1>2, TypeSorter, TypeHandler DEF Next

\* Every reachable state is well typed; no pipe and no cache outgrows its
\* capacity.
THEOREM PipelineTyped == Spec => []TypeOK
  BY TypeInit, TypeNext, PTL DEF Spec

-----------------------------------------------------------------------------
(***************************************************************************)
(* The refinement of PacketExchange.  A pipe without a receiver is empty:  *)
(* the abstract router takes packets only while it is up.                  *)
(***************************************************************************)
ExchangeInv == TypeOK /\ (~router_up => packet_router_pipe = 0)

LEMMA ExchangeInvNext == ExchangeInv /\ [Next]_vars => ExchangeInv'
<1> SUFFICES ASSUME ExchangeInv, [Next]_vars PROVE ExchangeInv'
  OBVIOUS
<1>1. TypeOK'
  BY TypeNext DEF ExchangeInv
<1>2. (~router_up => packet_router_pipe = 0)'
  <2> USE DEF ExchangeInv, sorterVars, handlerVars, routerVars
  <2>1. CASE SorterWork
    BY <2>1 DEF SorterWork, SorterRecv, SorterSort, SorterReroute, SorterDeliver,
       SendToRouter
  <2>2. CASE HandlerWork \/ HandlerEncrypt
    BY <2>2 DEF HandlerWork, HandleQuiet, HandleUnwritten, HandleStart,
       HandleData, HandleEnd, HandlerRecvNone, HandlerRespond, HandlerEncrypt,
       Receives, SendToRouter
  <2>3. CASE Arrive \/ RouterTakes \/ PutBack \/ Leave \/ RouterStops
    BY <2>3, PipelineAssumption
       DEF Arrive, RouterTakes, PutBack, Leave, RouterStops, SendToRouter, TypeOK
  <2>4. CASE UNCHANGED vars
    BY <2>4 DEF vars
  <2> QED BY <2>1, <2>2, <2>3, <2>4 DEF Next
<1> QED BY <1>1, <1>2 DEF ExchangeInv

LEMMA OneIs == \A at, busy : One(at, busy) = IF at \in busy THEN 1 ELSE 0
  BY DEF One

LEMMA BehindNat ==
    /\ TypeOK => Behind \in Nat /\ Len(message_pipe) \in Nat
    /\ TypeOK' => Behind' \in Nat
<1>1. /\ TypeOK => Len(message_pipe) \in Nat
      /\ TypeOK' => Len(message_pipe') \in Nat
  BY LenProperties DEF TypeOK
<1> QED BY <1>1, OneIs DEF Behind

\* A step that leaves fewer packets behind the links, or as many, and touches
\* nothing else, drops packets.
LEMMA FewerIsDrop ==
    ASSUME TypeOK, TypeOK', Behind' <= Behind,
           UNCHANGED <<transport_packet_pipe, packet_router_pipe, leaving, router_up>>,
           sorter' = "panicked" <=> sorter = "panicked"
    PROVE  Exchange!Next
<1> DEFINE n == Behind - Behind'
<1>1. Behind \in Nat /\ Behind' \in Nat
  BY BehindNat
<1>2. n \in 0..Behind /\ Behind' = Behind - n
  BY <1>1 DEF Behind
<1>3. Exchange!Drop(n)
  BY <1>2 DEF Exchange!Drop
<1> QED BY <1>2, <1>3 DEF Exchange!Next

LEMMA SorterExchanges ==
    ASSUME ExchangeInv, TypeOK', SorterWork
    PROVE  Exchange!Next
<1> USE DEF handlerVars, routerVars, sorterVars
<1>1. TypeOK /\ Behind \in Nat /\ Behind' \in Nat /\ Len(message_pipe) \in Nat
  BY BehindNat DEF ExchangeInv
<1>2. CASE SorterRecv
  <2>1. Behind' = Behind + 1
    BY <1>1, <1>2, OneIs DEF SorterRecv, Behind
  <2> QED BY <1>2, <2>1 DEF SorterRecv, Exchange!Take, Exchange!Next
<1>3. CASE SorterSort
  <2>1. Behind' <= Behind /\ sorter # "panicked" /\ sorter' # "panicked"
    BY <1>1, <1>3, OneIs DEF SorterSort, Dropped, Behind
  <2> QED BY <1>1, <1>3, <2>1, FewerIsDrop DEF SorterSort
<1>4. CASE sorter \in {"reroute", "deliver"} /\ SorterPanics
             /\ UNCHANGED <<message_pipe, handlerVars, routerVars, leaving>>
  <2>1. Behind' = Behind - 1 /\ 1 \in 0..Behind
    BY <1>1, <1>4, OneIs DEF SorterPanics, Behind
  <2>2. Exchange!SorterStops(1)
    BY <1>4, <2>1 DEF SorterPanics, Exchange!SorterStops
  <2> QED BY <2>1, <2>2 DEF Exchange!Next
<1>5. CASE SorterReroute /\ ~SorterPanics
  <2>1. Behind' = Behind - 1 /\ Behind > 0
    BY <1>1, <1>5, OneIs DEF SorterReroute, Behind
  <2>2. Exchange!Submit
    BY <1>5, <2>1 DEF SorterReroute, SendToRouter, HasRoom, Exchange!Submit
  <2> QED BY <2>2 DEF Exchange!Next
<1>6. CASE SorterDeliver /\ ~SorterPanics
  <2>1. sorting \in Message /\ message_pipe \in Seq(Message)
    BY <1>1, <1>6 DEF SorterDeliver, TypeOK
  <2>2. Len(message_pipe') = Len(message_pipe) + 1
    BY <1>6, <2>1, AppendProperties DEF SorterDeliver
  <2>3. Behind' = Behind /\ sorter # "panicked" /\ sorter' # "panicked"
    BY <1>1, <1>6, <2>2, OneIs DEF SorterDeliver, Behind
  <2> QED BY <1>1, <1>6, <2>3, FewerIsDrop DEF SorterDeliver
<1> QED
  BY <1>2, <1>3, <1>4, <1>5, <1>6
     DEF SorterWork, SorterReroute, SorterDeliver, SorterPanics

LEMMA HandlerExchanges ==
    ASSUME ExchangeInv, TypeOK', HandlerWork \/ HandlerEncrypt
    PROVE  Exchange!Next
<1> USE DEF handlerVars, routerVars, sorterVars
<1>1. /\ TypeOK /\ Behind \in Nat /\ Behind' \in Nat
      /\ Len(message_pipe) \in Nat /\ Len(<<>>) = 0
  BY BehindNat, EmptySeq DEF ExchangeInv
<1>2. ASSUME message_pipe # <<>>
      PROVE  Len(Tail(message_pipe)) = Len(message_pipe) - 1
  BY <1>1, <1>2, MessageTaken DEF TypeOK
<1>3. UNCHANGED <<transport_packet_pipe, sorter, leaving>>
  BY DEF HandlerWork, HandleQuiet, HandleUnwritten, HandleStart, HandleData,
     HandleEnd, HandlerRecvNone, HandlerRespond, HandlerEncrypt, Receives
<1>4. CASE HandlerRespond /\ ~HandlerPanics
  <2>1. Behind' = Behind - 1 /\ Behind > 0
    BY <1>1, <1>3, <1>4, OneIs DEF HandlerRespond, Behind
  <2>2. Exchange!Submit
    BY <1>3, <1>4, <2>1 DEF HandlerRespond, SendToRouter, HasRoom, Exchange!Submit
  <2> QED BY <2>2 DEF Exchange!Next
<1>5. CASE HandlerPanics /\ UNCHANGED routerVars
  <2>1. Behind' <= Behind
    BY <1>1, <1>3, <1>5, OneIs DEF HandlerPanics, Behind
  <2> QED BY <1>1, <1>3, <1>5, <2>1, FewerIsDrop
<1>6. CASE HandlerEncrypt /\ ~HandlerPanics
  <2>1. Behind' = Behind
    BY <1>1, <1>3, <1>6, OneIs DEF HandlerEncrypt, Behind
  <2> QED BY <1>1, <1>3, <1>6, <2>1, FewerIsDrop DEF HandlerEncrypt
<1>7. CASE /\ handler = "recv" /\ message_pipe # <<>>
           /\ message_pipe' = Tail(message_pipe)
           /\ handler' \in {"recv", "lock"} /\ UNCHANGED routerVars
  <2>1. Behind' <= Behind
    BY <1>1, <1>2, <1>3, <1>7, OneIs DEF Behind
  <2> QED BY <1>1, <1>3, <1>7, <2>1, FewerIsDrop
<1>8. CASE HandleQuiet \/ HandleStart \/ HandleData
  BY <1>7, <1>8 DEF HandleQuiet, HandleStart, HandleData, Receives
<1>9. CASE HandleUnwritten \/ HandlerRecvNone
  BY <1>5, <1>9 DEF HandleUnwritten, HandlerRecvNone, Receives
<1>10. CASE HandleEnd
  BY <1>5, <1>7, <1>10 DEF HandleEnd, Receives
<1>11. CASE HandlerEncrypt
  BY <1>5, <1>6, <1>11 DEF HandlerEncrypt
<1>12. CASE HandlerRespond
  BY <1>4, <1>5, <1>12 DEF HandlerRespond, HandlerPanics
<1> QED BY <1>8, <1>9, <1>10, <1>11, <1>12 DEF HandlerWork

LEMMA LinksExchange ==
    ASSUME ExchangeInv, TypeOK',
           Arrive \/ RouterTakes \/ PutBack \/ Leave \/ RouterStops
    PROVE  Exchange!Next
<1> USE DEF handlerVars, routerVars, sorterVars
<1>1. Behind' = Behind /\ sorter' = sorter /\ leaving \in Nat /\ leaving' \in Nat
  BY DEF Arrive, RouterTakes, PutBack, Leave, RouterStops, Behind, One,
     ExchangeInv, TypeOK
<1>2. CASE Arrive
  BY <1>1, <1>2 DEF Arrive, HasRoom, Exchange!Arrive, Exchange!Next
<1>3. CASE RouterTakes
  BY <1>1, <1>3
     DEF RouterTakes, ExchangeInv, Exchange!RouterTakes, Exchange!Next
<1>4. CASE PutBack
  BY <1>1, <1>4
     DEF PutBack, SendToRouter, HasRoom, Exchange!PutBack, Exchange!Next
<1>5. CASE Leave
  <2>1. PICK n \in 1..leaving : leaving' = leaving - n
    BY <1>5 DEF Leave
  <2>2. n \in 0..leaving /\ Exchange!Leave(n)
    BY <1>1, <1>5, <2>1 DEF Leave, Exchange!Leave
  <2> QED BY <2>2 DEF Exchange!Next
<1>6. CASE RouterStops
  <2>1. PICK n \in 0..leaving : leaving' = leaving - n
    BY <1>1, <1>6 DEF RouterStops
  <2>2. Exchange!RouterStops(n)
    BY <1>1, <1>6, <2>1 DEF RouterStops, Exchange!RouterStops
  <2> QED BY <2>2 DEF Exchange!Next
<1> QED BY <1>2, <1>3, <1>4, <1>5, <1>6

\* The two tasks answer for every packet they take: a packet that came in
\* makes at most one go out, whatever it holds and whichever task falls.
THEOREM PipelineIsExchange == Spec => ImplementsPacketExchange
<1>1. Init => ExchangeInv
  BY TypeInit DEF Init, ExchangeInv
<1>2. Init => Exchange!Init
  BY EmptySeq DEF Init, Exchange!Init, Behind, One
<1>3. ExchangeInv /\ ExchangeInv' /\ [Next]_vars => [Exchange!Next]_(Exchange!vars)
  <2> SUFFICES ASSUME ExchangeInv, ExchangeInv', [Next]_vars
               PROVE  [Exchange!Next]_(Exchange!vars)
    OBVIOUS
  <2>1. TypeOK'
    BY DEF ExchangeInv
  <2>2. CASE UNCHANGED vars
    BY <2>2 DEF vars, sorterVars, handlerVars, routerVars, Exchange!vars, Behind
  <2> QED BY <2>1, <2>2, SorterExchanges, HandlerExchanges, LinksExchange DEF Next
<1> QED BY <1>1, <1>2, <1>3, ExchangeInvNext, PTL
        DEF Spec, ImplementsPacketExchange, Exchange!Spec

-----------------------------------------------------------------------------
(***************************************************************************)
(* The report of missing chunks.  What the cache holds for a transfer is   *)
(* what came since its last Start; the cache may forget a transfer, but    *)
(* never a part of one.  While a report is on its way no message is        *)
(* handled, so that it stays true.                                         *)
(***************************************************************************)
TruthInv ==
    /\ message_pipe \in Seq(Message)
    /\ sorter = "deliver" => sorting \in Message
    /\ DOMAIN recv_state.map = Key
    /\ seen \in [Key -> SUBSET U8]
    /\ \A k \in Key : Contains(recv_state, k) => recv_state.map[k] = seen[k]
    /\ handler = "recv" => problem = None
    /\ ProblemIsTruth

LEMMA TruthInit == Init => TruthInv
  BY EmptySeq DEF Init, TruthInv, Empty, Contains, ProblemIsTruth

LEMMA TruthSorter ==
    ASSUME TruthInv, SorterWork
    PROVE  TruthInv'
<1> USE DEF TruthInv, ProblemIsTruth, handlerVars, routerVars, sorterVars
<1>1. CASE SorterRecv     BY <1>1 DEF SorterRecv
<1>2. CASE SorterSort     BY <1>2 DEF SorterSort, Dropped
<1>3. CASE SorterReroute  BY <1>3 DEF SorterReroute, SorterPanics
<1>4. CASE SorterDeliver
  <2>1. message_pipe' \in Seq(Message)
    BY <1>4, AppendProperties DEF SorterDeliver
  <2> QED BY <1>4, <2>1 DEF SorterDeliver, SorterPanics
<1> QED BY <1>1, <1>2, <1>3, <1>4 DEF SorterWork

\* Handling a message: the handler task holds no report at that time.
LEMMA TruthMessage ==
    ASSUME TruthInv, HandleQuiet \/ HandleUnwritten \/ HandleStart
                       \/ HandleData \/ HandleEnd
    PROVE  TruthInv'
<1> USE DEF ProblemIsTruth, handlerVars, routerVars, sorterVars
<1> DEFINE m == Head(message_pipe)
<1>1. /\ m \in Message /\ Tail(message_pipe) \in Seq(Message)
      /\ problem = None /\ UNCHANGED <<sorter, sorting>>
      /\ handler = "recv"
      /\ <<>> \in Seq(Message)
  BY MessageTaken, EmptySeq DEF HandleQuiet, HandleUnwritten, HandleStart,
     HandleData, HandleEnd, Receives, TruthInv
<1>2. CASE HandleQuiet
  BY <1>1, <1>2 DEF HandleQuiet, TruthInv
<1>3. CASE HandleUnwritten
  BY <1>1, <1>3 DEF HandleUnwritten, HandlerPanics, TruthInv
<1>4. CASE HandleStart
  <2>1. m.key \in Key
    BY <1>1, <1>4 DEF HandleStart, Receives, Message
  <2>2. /\ DOMAIN recv_state'.map = Key
        /\ \A k \in Key : recv_state'.map[k] \in
              {IF k = m.key THEN {} ELSE recv_state.map[k], None}
    BY <1>4, <2>1, EvictedMap, PutMap DEF HandleStart, Insert, TruthInv
  <2>3. /\ seen' = [seen EXCEPT ![m.key] = {}]
        /\ message_pipe' = Tail(message_pipe)
        /\ UNCHANGED <<handler, problem>>
    BY <1>4 DEF HandleStart
  <2> QED BY <1>1, <2>1, <2>2, <2>3 DEF TruthInv, Contains
<1>5. CASE HandleData
  <2>1. m.key \in Key /\ m.index \in U8
    BY <1>1, <1>5 DEF HandleData, Receives, Message
  <2>2. /\ DOMAIN recv_state'.map = Key
        /\ \A k \in Key : recv_state'.map[k] =
              IF k = m.key /\ Contains(recv_state, k)
                THEN recv_state.map[k] \cup {m.index} ELSE recv_state.map[k]
    BY <1>5, <2>1 DEF HandleData, Recorded, Put, TruthInv
  <2>3. /\ seen' = [seen EXCEPT ![m.key] = @ \cup {m.index}]
        /\ message_pipe' = Tail(message_pipe)
        /\ UNCHANGED <<handler, problem>>
    BY <1>5 DEF HandleData
  <2> QED BY <1>1, <2>1, <2>2, <2>3 DEF TruthInv, Contains
<1>6. CASE HandleEnd
  <2>1. m.key \in Key
    BY <1>1, <1>6 DEF HandleEnd, Receives, Message
  <2>2. /\ DOMAIN recv_state'.map = Key
        /\ \A k \in Key : recv_state'.map[k] \in {recv_state.map[k], None}
    BY <1>6, <2>1 DEF HandleEnd, Remove, TruthInv
  <2>3. /\ UNCHANGED seen
        /\ message_pipe' \in {Tail(message_pipe), <<>>}
        /\ \/ problem' = None
           \/ /\ handler' = "lock"
              /\ problem'.key = m.key /\ problem'.total_sent = m.total_sent
              /\ problem'.missing_indexes =
                   {x \in U8 : x < m.total_sent} \ recv_state.map[m.key]
              /\ Contains(recv_state, m.key)
    BY <1>1, <1>6 DEF HandleEnd, HandlerPanics
  <2>4. ProblemIsTruth'
    BY <2>1, <2>3 DEF TruthInv
  <2>5. handler' = "recv" => problem' = None
    BY <2>3
  <2> QED BY <1>1, <2>2, <2>3, <2>4, <2>5 DEF TruthInv, Contains
<1> QED BY <1>2, <1>3, <1>4, <1>5, <1>6

LEMMA TruthNext == TruthInv /\ [Next]_vars => TruthInv'
<1> SUFFICES ASSUME TruthInv, [Next]_vars PROVE TruthInv'
  OBVIOUS
<1>1. CASE HandlerRecvNone \/ HandlerEncrypt \/ HandlerRespond
  BY <1>1, EmptySeq DEF HandlerRecvNone, HandlerEncrypt, HandlerRespond,
     HandlerPanics, TruthInv, ProblemIsTruth, sorterVars
<1>2. CASE Arrive \/ RouterTakes \/ PutBack \/ Leave \/ RouterStops \/ UNCHANGED vars
  BY <1>2 DEF Arrive, RouterTakes, PutBack, Leave, RouterStops, vars, TruthInv, ProblemIsTruth,
     sorterVars, handlerVars
<1> QED BY <1>1, <1>2, TruthSorter, TruthMessage DEF Next, HandlerWork

\* A remote is asked for exactly the chunks that have not come.
THEOREM ReportIsTrue == Spec => []ProblemIsTruth
<1>1. TruthInv => ProblemIsTruth
  BY DEF TruthInv
<1> QED BY <1>1, TruthInit, TruthNext, PTL DEF Spec

=============================================================================
