--------------------------- MODULE PacketPipeline ---------------------------
(***************************************************************************)
(* What becomes of the packets the links receive (router/src/p2p.rs):      *)
(* packet_sorter_task decrypts or reroutes them, message_handler_task      *)
(* handles the messages found in them.  Both send into bounded pipes, both *)
(* lock `noise`, and each panics when the receiver of its pipe is gone.    *)
(*                                                                         *)
(* The links are the environment: they put packets into                    *)
(* transport_packet_pipe and empty packet_router_pipe, or drop it when the *)
(* router task panics (module PeerLinks).  What noise makes of a packet is *)
(* any message or an error (module NoiseTunnel), and the hash of a         *)
(* transfer matches or not, as the remote likes.                           *)
(***************************************************************************)
EXTENDS Naturals, Sequences, FiniteSets

CONSTANTS
    Key,              \* (remote public key, application id) of a transfer
    Last,             \* largest u8 (255 in the code)
    RecvStateCap,     \* capacity of application_data_recv_state (100)
    TransportPipeCap, \* capacity of transport_packet_pipe (10000)
    MessagePipeCap,   \* capacity of message_pipe (10000)
    RouterPipeCap,    \* capacity of packet_router_pipe (10000)
    MaxLeaving,       \* bound: packets the links have to write; None for none
    None              \* absence of a value

ASSUME PipelineAssumption ==
    /\ {Last, RecvStateCap} \subseteq Nat
    /\ {TransportPipeCap, MessagePipeCap, RouterPipeCap} \subseteq Nat \ {0}
    /\ \A received \in SUBSET (0..Last) : received # None

VARIABLES
    transport_packet_pipe, \* number of packets waiting for the sorter task
    sorter,                \* control point of packet_sorter_task
    sorting,               \* message the sorter task is about to deliver
    message_pipe,          \* messages waiting for the handler task
    handler,               \* control point of message_handler_task
    problem,               \* ApplicationDataProblem about to be sent
    recv_state,            \* application_data_recv_state
    packet_router_pipe,    \* number of packets waiting for the router task
    router_up,             \* the router task has not panicked
    leaving,               \* number of packets the links have to write
    seen                   \* history: chunks handled since the last Start

sorterVars  == <<sorter, sorting>>
handlerVars == <<handler, problem, recv_state, seen>>
routerVars  == <<packet_router_pipe, router_up>>
vars == <<transport_packet_pipe, sorterVars, message_pipe, handlerVars,
          routerVars, leaving>>

INSTANCE LruCache WITH Capacity <- RecvStateCap, Absent <- None

U8 == 0..Last

(***************************************************************************)
(* The messages by what the handler task does with them: nothing           *)
(* (Handshake, ApplicationDataOk), todo!() (Confirm, Deny,                 *)
(* ApplicationDataProblem, RequestPeerList, PeerList), or a step of an     *)
(* application data transfer.                                              *)
(***************************************************************************)
Message ==
    [type : {"Quiet", "Unwritten"}]
    \cup [type : {"StartApplicationData"}, key : Key]
    \cup [type : {"ApplicationData"}, key : Key, index : U8]
    \cup [type : {"EndApplicationData"}, key : Key, total_sent : U8]

ApplicationDataProblem ==
    [key : Key, total_sent : U8, missing_indexes : SUBSET U8]

Init ==
    /\ transport_packet_pipe = 0
    /\ sorter = "recv" /\ sorting = None
    /\ message_pipe = <<>>
    /\ handler = "recv" /\ problem = None
    /\ recv_state = Empty(Key)
    /\ packet_router_pipe = 0
    /\ router_up = TRUE /\ leaving = 0
    /\ seen = [k \in Key |-> {}]

-----------------------------------------------------------------------------
(* Pipes and the lock *)

\* Mutant: one place too many.
HasRoomAtCap(n, cap) == n <= cap

HasRoom(n, cap) == n < cap

\* The sorter task keeps the write lock of `noise` while it sends; the
\* handler task releases it before.
NoiseLocked == sorter \in {"reroute", "deliver"}

\* Mutant: the receiver is not dropped with the task.
NeverClosed == FALSE

MessagePipeClosed == handler = "panicked"

\* A task that panics drops the receiver of its pipe.
SorterPanics ==
    /\ sorter' = "panicked" /\ sorting' = None
    /\ transport_packet_pipe' = 0

HandlerPanics ==
    /\ handler' = "panicked" /\ problem' = None
    /\ message_pipe' = <<>>

\* send(..).await.unwrap() into packet_router_pipe.
SendToRouter == /\ router_up
                /\ HasRoom(packet_router_pipe, RouterPipeCap)
                /\ packet_router_pipe' = packet_router_pipe + 1
                /\ UNCHANGED router_up

-----------------------------------------------------------------------------
(* packet_sorter_task *)

SorterRecv ==
    /\ sorter = "recv" /\ transport_packet_pipe > 0
    /\ transport_packet_pipe' = transport_packet_pipe - 1
    /\ sorter' = "lock"
    /\ UNCHANGED <<sorting, message_pipe, handlerVars, routerVars, leaving>>

\* Mutant: unwrap() on the result of try_decrypt.
DroppedOrPanics == sorter' \in {"recv", "panicked"}

\* The packet is empty, on its way back to its source, or try_decrypt
\* returned an error.
Dropped == sorter' = "recv"

\* With the lock of noise: the packet is dropped, or is for another router,
\* or is decrypted.
SorterSort ==
    /\ sorter = "lock"
    /\ \/ Dropped /\ UNCHANGED sorting
       \/ sorter' = "reroute" /\ UNCHANGED sorting
       \/ \E m \in Message : sorter' = "deliver" /\ sorting' = m
    /\ UNCHANGED <<transport_packet_pipe, message_pipe, handlerVars, routerVars,
                   leaving>>

SorterReroute ==
    /\ sorter = "reroute"
    /\ \/ /\ SendToRouter
          /\ sorter' = "recv"
          /\ UNCHANGED <<transport_packet_pipe, sorting>>
       \/ ~router_up /\ SorterPanics /\ UNCHANGED routerVars
    /\ UNCHANGED <<message_pipe, handlerVars, leaving>>

SorterDeliver ==
    /\ sorter = "deliver"
    /\ \/ /\ ~MessagePipeClosed
          /\ HasRoom(Len(message_pipe), MessagePipeCap)
          /\ message_pipe' = Append(message_pipe, sorting)
          /\ sorter' = "recv" /\ sorting' = None
          /\ UNCHANGED transport_packet_pipe
       \/ MessagePipeClosed /\ SorterPanics /\ UNCHANGED message_pipe
    /\ UNCHANGED <<handlerVars, routerVars, leaving>>

-----------------------------------------------------------------------------
(* message_handler_task *)

\* recv() returned a message of this type.
Receives(type) ==
    /\ handler = "recv" /\ message_pipe # <<>>
    /\ Head(message_pipe).type = type
    /\ UNCHANGED <<transport_packet_pipe, sorterVars, routerVars, leaving>>

HandleQuiet ==
    /\ Receives("Quiet")
    /\ message_pipe' = Tail(message_pipe)
    /\ UNCHANGED handlerVars

HandleUnwritten ==
    /\ Receives("Unwritten")
    /\ HandlerPanics
    /\ UNCHANGED <<recv_state, seen>>

HandleStart ==
    /\ Receives("StartApplicationData")
    /\ LET k == Head(message_pipe).key IN
         /\ recv_state' = Insert(recv_state, k, {})
         /\ seen' = [seen EXCEPT ![k] = {}]
    /\ message_pipe' = Tail(message_pipe)
    /\ UNCHANGED <<handler, problem>>

\* Mutant: entry(..).or_default() for get_mut.
RecordedOrBegun(k, index) ==
    LET c == EntryOr(recv_state, k, {}) IN Put(c, k, c.map[k] \cup {index})

\* A chunk of a transfer that is not known is ignored.
Recorded(k, index) ==
    IF Contains(recv_state, k)
      THEN Put(recv_state, k, recv_state.map[k] \cup {index})
      ELSE recv_state

HandleData ==
    /\ Receives("ApplicationData")
    /\ LET m == Head(message_pipe) IN
         /\ recv_state' = Recorded(m.key, m.index)
         /\ seen' = [seen EXCEPT ![m.key] = @ \cup {m.index}]
    /\ message_pipe' = Tail(message_pipe)
    /\ UNCHANGED <<handler, problem>>

\* The transfer is forgotten.  When the hash matches, unwrap() panics, as
\* nothing is ever put into `listeners`; when it does not, the missing
\* chunks are reported.
HandleEnd ==
    /\ Receives("EndApplicationData")
    /\ LET m == Head(message_pipe) IN
         /\ recv_state' = Remove(recv_state, m.key)
         /\ \/ /\ ~Contains(recv_state, m.key)
               /\ message_pipe' = Tail(message_pipe)
               /\ UNCHANGED <<handler, problem>>
            \/ Contains(recv_state, m.key) /\ HandlerPanics
            \/ /\ Contains(recv_state, m.key)
               /\ problem' =
                    [key |-> m.key, total_sent |-> m.total_sent,
                     missing_indexes |-> {x \in U8 : x < m.total_sent}
                                           \ recv_state.map[m.key]]
               /\ handler' = "lock"
               /\ message_pipe' = Tail(message_pipe)
    /\ UNCHANGED seen

\* recv().await.unwrap() when the sorter task has dropped the sender.
HandlerRecvNone ==
    /\ handler = "recv" /\ message_pipe = <<>> /\ sorter = "panicked"
    /\ HandlerPanics
    /\ UNCHANGED <<transport_packet_pipe, sorterVars, recv_state, routerVars,
                   seen, leaving>>

\* With the lock of noise: try_encrypt(response).unwrap().
HandlerEncrypt ==
    /\ handler = "lock" /\ ~NoiseLocked
    /\ \/ handler' = "respond" /\ UNCHANGED <<problem, message_pipe>>
       \/ HandlerPanics
    /\ UNCHANGED <<transport_packet_pipe, sorterVars, recv_state, routerVars,
                   seen, leaving>>

\* Mutant: the answer is sent until it is refused.
HandlerRespondRepeats ==
    /\ handler = "respond"
    /\ \/ SendToRouter /\ UNCHANGED <<handler, problem, message_pipe>>
       \/ ~router_up /\ HandlerPanics /\ UNCHANGED routerVars
    /\ UNCHANGED <<transport_packet_pipe, sorterVars, recv_state, seen, leaving>>

HandlerRespond ==
    /\ handler = "respond"
    /\ \/ /\ SendToRouter
          /\ handler' = "recv" /\ problem' = None
          /\ UNCHANGED message_pipe
       \/ ~router_up /\ HandlerPanics /\ UNCHANGED routerVars
    /\ UNCHANGED <<transport_packet_pipe, sorterVars, recv_state, seen, leaving>>

-----------------------------------------------------------------------------
(* The environment: the tasks of PeerLinks *)

Arrive ==
    /\ sorter # "panicked"
    /\ HasRoom(transport_packet_pipe, TransportPipeCap)
    /\ transport_packet_pipe' = transport_packet_pipe + 1
    /\ UNCHANGED <<sorterVars, message_pipe, handlerVars, routerVars, leaving>>

RouterTakes ==
    /\ packet_router_pipe > 0
    /\ MaxLeaving = None \/ leaving < MaxLeaving
    /\ packet_router_pipe' = packet_router_pipe - 1
    /\ leaving' = leaving + 1
    /\ UNCHANGED <<transport_packet_pipe, sorterVars, message_pipe, handlerVars,
                   router_up>>

\* A sender task gives back a packet that it could not write.
PutBack ==
    /\ leaving > 0
    /\ SendToRouter
    /\ leaving' = leaving - 1
    /\ UNCHANGED <<transport_packet_pipe, sorterVars, message_pipe, handlerVars>>

\* A packet is written, or packets are lost with their link.
Leave ==
    /\ \E n \in 1..leaving : leaving' = leaving - n
    /\ UNCHANGED <<transport_packet_pipe, sorterVars, message_pipe, handlerVars,
                   routerVars>>

\* The router task panics, maybe with a packet in hand.
RouterStops ==
    /\ router_up
    /\ router_up' = FALSE
    /\ packet_router_pipe' = 0
    /\ leaving' \in {leaving, leaving - 1} \cap Nat
    /\ UNCHANGED <<transport_packet_pipe, sorterVars, message_pipe, handlerVars>>

-----------------------------------------------------------------------------
SorterWork  == SorterRecv \/ SorterSort \/ SorterReroute \/ SorterDeliver
HandlerWork == \/ HandleQuiet \/ HandleUnwritten \/ HandleStart \/ HandleData
               \/ HandleEnd \/ HandlerRecvNone \/ HandlerRespond

Next == \/ SorterWork \/ HandlerWork \/ HandlerEncrypt
        \/ Arrive \/ RouterTakes \/ PutBack \/ Leave \/ RouterStops

Spec == Init /\ [][Next]_vars

(***************************************************************************)
(* Fairness: the runtime polls tasks that are ready.  The lock of noise is *)
(* given in the order of the requests, so that the handler task gets it if *)
(* the sorter task releases it again and again.  Neither the links nor the *)
(* router task have to do anything.                                        *)
(***************************************************************************)
FairSpec == /\ Spec
            /\ WF_vars(SorterWork)
            /\ WF_vars(HandlerWork)
            /\ SF_vars(HandlerEncrypt)

-----------------------------------------------------------------------------
(* Properties *)

TypeOK ==
    /\ transport_packet_pipe \in 0..TransportPipeCap
    /\ sorter \in {"recv", "lock", "reroute", "deliver", "panicked"}
    /\ sorting \in IF sorter = "deliver" THEN Message ELSE {None}
    /\ message_pipe \in Seq(Message) /\ Len(message_pipe) <= MessagePipeCap
    /\ handler \in {"recv", "lock", "respond", "panicked"}
    /\ problem \in IF handler \in {"lock", "respond"}
                     THEN ApplicationDataProblem ELSE {None}
    /\ CacheOf(recv_state, Key, SUBSET U8)
    /\ Len(recv_state.order) <= RecvStateCap
    /\ packet_router_pipe \in 0..RouterPipeCap
    /\ router_up \in BOOLEAN /\ leaving \in Nat
    /\ seen \in [Key -> SUBSET U8]

\* The remote is told to send again exactly the chunks that have not come
\* since it began the transfer, whatever transfers of other applications and
\* remotes came in between, were dropped for want of room or begun again.
ProblemIsTruth ==
    problem # None =>
        problem.missing_indexes =
            {x \in U8 : x < problem.total_sent} \ seen[problem.key]

\* The sorter task is never the first to fall: none of its unwrap() calls
\* fails before the handler task or the router task has panicked, so that no
\* packet a remote may send ends it.  It follows that recv().await.unwrap()
\* of the handler task fails only in a process without a router task.
SorterIsNotFirst ==
    sorter = "panicked" => handler = "panicked" \/ ~router_up

\* The packets that the sorter task took out of transport_packet_pipe and
\* that still wait, as packets, messages or answers.
One(at, busy) == IF at \in busy THEN 1 ELSE 0
Behind == One(sorter, {"lock", "reroute", "deliver"}) + Len(message_pipe)
            + One(handler, {"lock", "respond"})

Exchange == INSTANCE PacketExchange WITH
    coming    <- transport_packet_pipe,
    behind    <- Behind,
    going     <- packet_router_pipe,
    sorter_up <- sorter # "panicked"

\* The two tasks are what PeerLinks takes its environment to be, and expect
\* of the links what those do: a packet that came in makes at most one packet
\* go out, whatever messages it holds, however the two tasks wait for each
\* other and whichever of them falls; and pipes fall with their receivers.
ImplementsPacketExchange == Exchange!Spec

\* When the sorter task waits for ever to deliver a message, it is because
\* the handler task waits for ever too: for the lock of noise, which the
\* sorter task holds, or for a router task that takes no packet.
SorterStallsBehindHandler ==
    <>[](sorter = "deliver")
        => <>[](handler = "lock") \/ <>[](handler = "respond")

=============================================================================
