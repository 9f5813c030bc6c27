--------------------------- MODULE RouterProcess ---------------------------
(***************************************************************************)
(* A whole router process: the tasks of the links (module PeerLinks) and   *)
(* the tasks behind them (module PacketPipeline) on the pipes they share   *)
(* (router/src/p2p.rs).  Nothing of PacketPipeline's environment is left,  *)
(* and of PeerLinks' only the peers: what each module takes the other side *)
(* to do is what it does, which is what this module is about.              *)
(*                                                                         *)
(* The packets of PeerLinks keep their identities behind the links: the    *)
(* sorter task puts the packet it took into packet_router_pipe again, and  *)
(* the handler task an answer, which stands for the packet it answers.     *)
(***************************************************************************)
EXTENDS PeerLinks, Functions

CONSTANTS
    Key,            \* (remote public key, application id) of a transfer
    Last,           \* largest u8 (255 in the code)
    RecvStateCap,   \* capacity of application_data_recv_state (100)
    MessagePipeCap  \* capacity of message_pipe (10000)

ASSUME ProcessAssumption ==
    /\ {Last, RecvStateCap} \subseteq Nat
    /\ MessagePipeCap \in Nat \ {0}
    /\ \A chunks \in SUBSET (0..Last) : chunks # None

VARIABLES
    sorter,        \* control point of packet_sorter_task
    sorting,       \* message the sorter task is about to deliver
    message_pipe,  \* messages waiting for the handler task
    handler,       \* control point of message_handler_task
    problem,       \* ApplicationDataProblem about to be sent
    recv_state,    \* application_data_recv_state
    seen,          \* history: chunks handled since the last Start
    sorted,        \* packet the sorter task has in hand, or None
    packets,       \* packets whose messages wait in message_pipe
    answered       \* packet the handler task is about to answer, or None

behindVars == <<sorter, sorting, message_pipe, handler, problem, recv_state, seen,
                sorted, packets, answered>>
processVars == <<vars, behindVars>>

\* The tasks behind the links, which count the packets.
Tasks == INSTANCE PacketPipeline WITH
    transport_packet_pipe <- Len(transport_packet_pipe),
    packet_router_pipe    <- Len(packet_router_pipe),
    router_up             <- router # "panicked",
    leaving               <- Leaving,
    MaxLeaving            <- None

ProcessInit ==
    /\ Init
    /\ Tasks!Init
    /\ sorted = None /\ packets = <<>> /\ answered = None

-----------------------------------------------------------------------------
(* packet_sorter_task *)

SorterPolled == ThreadFree /\ UNCHANGED <<exceptSorter, answered>>

\* A packet from behind the links goes into packet_router_pipe.
GoesOut(p) ==
    /\ packet_router_pipe' = Append(packet_router_pipe, p)
    /\ held' = held \ {p}

NothingGoesOut == UNCHANGED <<packet_router_pipe, held>>

\* The links see the panic of the sorter task.
SorterFalls ==
    /\ sorter_up' = FALSE
    /\ transport_packet_pipe' = <<>>

SorterGoesOn == UNCHANGED <<sorter_up, transport_packet_pipe>>

SorterRecv ==
    /\ SorterPolled
    /\ transport_packet_pipe # <<>>
    /\ transport_packet_pipe' = Taken(transport_packet_pipe)
    /\ sorted' = Head(transport_packet_pipe)
    /\ held' = held \cup {Head(transport_packet_pipe)}
    /\ UNCHANGED <<packet_router_pipe, sorter_up, packets>>
    /\ Tasks!SorterRecv

SorterSort ==
    /\ SorterPolled
    /\ SorterGoesOn /\ NothingGoesOut /\ UNCHANGED packets
    /\ Tasks!SorterSort
    /\ sorted' = IF sorter' = "recv" THEN None ELSE sorted

SorterReroute ==
    /\ SorterPolled
    /\ IF router = "panicked" THEN SorterFalls /\ NothingGoesOut
                              ELSE SorterGoesOn /\ GoesOut(sorted)
    /\ sorted' = None /\ UNCHANGED packets
    /\ Tasks!SorterReroute

SorterDeliver ==
    /\ SorterPolled
    /\ IF handler = "panicked"
         THEN SorterFalls /\ UNCHANGED packets
         ELSE SorterGoesOn /\ packets' = Append(packets, sorted)
    /\ sorted' = None /\ NothingGoesOut
    /\ Tasks!SorterDeliver

-----------------------------------------------------------------------------
(* message_handler_task *)

HandlerPolled == ThreadFree /\ UNCHANGED <<exceptSorter, sorted>> /\ SorterGoesOn

\* A message is handled: its packet is answered, or is done with.
HandlerHandles ==
    /\ HandlerPolled
    /\ NothingGoesOut
    /\ \/ Tasks!HandleQuiet \/ Tasks!HandleUnwritten \/ Tasks!HandleStart
       \/ Tasks!HandleData \/ Tasks!HandleEnd
    /\ packets' = IF handler' = "panicked" THEN <<>> ELSE Taken(packets)
    /\ answered' = IF handler' = "lock" THEN Head(packets) ELSE None

HandlerRecvNone ==
    /\ HandlerPolled
    /\ NothingGoesOut /\ UNCHANGED <<packets, answered>>
    /\ Tasks!HandlerRecvNone

HandlerEncrypt ==
    /\ HandlerPolled
    /\ NothingGoesOut
    /\ Tasks!HandlerEncrypt
    /\ IF handler' = "panicked" THEN packets' = <<>> /\ answered' = None
                                ELSE UNCHANGED <<packets, answered>>

HandlerRespond ==
    /\ HandlerPolled
    /\ IF router = "panicked"
         THEN NothingGoesOut /\ packets' = <<>>
         ELSE GoesOut(answered) /\ UNCHANGED packets
    /\ answered' = None
    /\ Tasks!HandlerRespond

-----------------------------------------------------------------------------
(* The tasks of the links *)

LinkWork ==
    \/ \E c \in Conn :
         \/ SenderWork(c) \/ SenderWrite(c)
         \/ ListenerWork(c) \/ ListenerRead(c)
    \/ RouterWork
    \/ \E t \in Transports, c \in Conn, a \in Address : AcceptConn(t, c, a)
    \/ ContactorWork
    \/ \E t \in Opener : Register(t)

ProcessNext ==
    \/ LinkWork /\ UNCHANGED behindVars
    \/ SorterRecv \/ SorterSort \/ SorterReroute \/ SorterDeliver
    \/ HandlerHandles \/ HandlerRecvNone \/ HandlerEncrypt \/ HandlerRespond

ProcessSpec == ProcessInit /\ [][ProcessNext]_processVars

-----------------------------------------------------------------------------
(* Properties *)

\* A packet behind the links is in one place: in the hands of one of the two
\* tasks, or once in message_pipe, and there is one for every message that
\* waits.  No other task can have it, as it is among those the links gave away.
Custody ==
    /\ sorter_up = (sorter # "panicked")
    /\ IF sorter \in {"lock", "reroute", "deliver"} THEN sorted \in held
                                                    ELSE sorted = None
    /\ IF handler \in {"lock", "respond"} THEN answered \in held \ {sorted}
                                          ELSE answered = None
    /\ packets \in Seq(Packet) /\ Len(packets) = Len(message_pipe)
    /\ IsInjective(packets) /\ Range(packets) \subseteq held \ {sorted, answered}

\* The tasks behind the links are the environment of PeerLinks: what they put
\* into packet_router_pipe is a packet they took and have not put there yet,
\* through rerouting, waiting messages and answers, and their panics.
ImplementsLinks == Spec

\* The tasks of the links are the environment of PacketPipeline: however many
\* links they open, lose and reroute from, they touch the shared pipes in no
\* other way than the tasks behind them were checked with.
ImplementsPipeline == Tasks!Spec

\* Panics spread along the pipes and begin at their end: whichever unwrap() of
\* a sender, a listener or the sorter task has failed, the router task had run
\* out of links, or the handler task had met a message or a transfer without
\* code for it.
PanicsBeginAtTheEnds ==
    \/ sorter = "panicked"
    \/ \E c \in Conn : "panicked" \in {sender[c], listener[c]}
    => handler = "panicked" \/ router = "panicked"

=============================================================================
