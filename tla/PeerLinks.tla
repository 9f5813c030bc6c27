----------------------------- MODULE PeerLinks -----------------------------
(***************************************************************************)
(* The connections of one router process (router/src/p2p.rs): how links    *)
(* to other routers are opened, registered, used and torn down by          *)
(* concurrent tokio tasks that share two maps and two bounded pipes.       *)
(*                                                                         *)
(*   connection_accepter_task (one per transport) and                      *)
(*   occasional_gateway_contactor_task open links and register them;       *)
(*   packet_sender_task and packet_listener_task (one each per link) write *)
(*   packets to and read packets from the transport;                       *)
(*   packet_router_task picks a registered link for every packet.          *)
(*                                                                         *)
(* Each action is what one task does between two accesses to state that    *)
(* other tasks can see.  The packet sorter and the message handler are the *)
(* environment here: they take packets from transport_packet_pipe and put  *)
(* packets into packet_router_pipe (module PacketPipeline models them).    *)
(***************************************************************************)
EXTENDS Naturals, Sequences, FiniteSets

CONSTANTS
    Address,        \* transport addresses
    Conn,           \* link identities; each is opened at most once
    Packet,         \* packet identities
    Protocol,       \* protocol names an address can carry
    Transports,     \* protocols of the enabled transports
    Contactor,      \* the gateway contactor task
    Gateways,       \* known_gateways, filled from the seed nodes
    ProtocolOf,     \* TransportAddress.protocol
    ShardOf,        \* shard of the DashMap `writers` an address hashes to
    WriterPipeCap,  \* capacity of a writer pipe (100 in the code)
    RouterPipeCap,  \* capacity of packet_router_pipe (10000 in the code)
    TransportPipeCap, \* capacity of transport_packet_pipe (10000)
    Workers,        \* worker threads of the tokio runtime
    None            \* absence of a value

ASSUME LinkAssumption ==
    /\ Transports \subseteq Protocol
    /\ Contactor \notin Transports
    /\ Gateways \subseteq Address
    /\ ProtocolOf \in [Address -> Protocol]
    /\ DOMAIN ShardOf = Address
    /\ {WriterPipeCap, RouterPipeCap, TransportPipeCap, Workers}
         \subseteq Nat \ {0}
    /\ None \notin Address \cup Conn \cup Packet

VARIABLES
    writers,             \* address -> link whose pipe is registered, or None
    connection_tracker,  \* addresses whose listener task is running
    addr,                \* link -> its address, None before it is opened
    opening,             \* opener task -> link it is about to register
    contacting,          \* address transport.connect is waiting for, or None
    contactor_up,        \* the contactor task has not panicked
    pipe,                \* link -> packets queued in its writer pipe
    sender,              \* link -> control point of its packet_sender_task
    sending,             \* link -> packet its sender task holds, or None
    listener,            \* link -> control point of packet_listener_task
    received,            \* link -> packet its listener task holds, or None
    packet_router_pipe,  \* packets waiting for the router task
    router,              \* control point of packet_router_task
    routing,             \* packet, link and locked address of the router
    transport_packet_pipe, \* packets waiting for the sorter task
    sorter_up,           \* the sorter task has not panicked
    held,                \* packets taken by the sorter and not submitted
    unseen,              \* packets that have not entered the process
    sent_ok              \* <<link, packet>>: writes that returned Ok

openVars     == <<addr, opening, contacting, contactor_up>>
senderVars   == <<pipe, sender, sending, sent_ok>>
listenerVars == <<listener, received, unseen>>
routerVars   == <<router, routing>>
sorterVars   == <<sorter_up, held>>
mapVars      == <<writers, connection_tracker>>
pipeVars     == <<packet_router_pipe, transport_packet_pipe>>
vars == <<openVars, senderVars, listenerVars, routerVars, sorterVars,
          mapVars, pipeVars>>

\* What the steps of one kind of task never change.
exceptOpener   == <<pipe, sending, sent_ok, received, unseen, routerVars,
                    sorterVars, connection_tracker, pipeVars>>
exceptSender   == <<openVars, listenerVars, routerVars, sorterVars,
                    connection_tracker, transport_packet_pipe>>
exceptListener == <<openVars, senderVars, routerVars, sorterVars,
                    packet_router_pipe>>
exceptRouter   == <<openVars, listenerVars, sender, sending, sent_ok,
                    sorterVars, mapVars, transport_packet_pipe>>
exceptSorter   == <<openVars, senderVars, listenerVars, routerVars, mapVars>>

Opener == Transports \cup {Contactor}

SenderStep   == {"unborn", "check", "recv", "write", "reroute", "remove",
                 "done", "panicked"}
ListenerStep == {"unborn", "start", "reading", "forward", "eof",
                 "deregister", "untrack", "done", "panicked"}
RouterStep   == {"idle", "sending", "panicked"}

Nothing == [packet |-> None, to |-> None, via |-> None]

TypeOK ==
    /\ writers \in [Address -> Conn \cup {None}]
    /\ connection_tracker \subseteq Address
    /\ addr \in [Conn -> Address \cup {None}]
    /\ opening \in [Opener -> Conn \cup {None}]
    /\ contacting \in Address \cup {None}
    /\ contactor_up \in BOOLEAN
    /\ pipe \in [Conn -> Seq(Packet)]
    /\ sender \in [Conn -> SenderStep]
    /\ sending \in [Conn -> Packet \cup {None}]
    /\ listener \in [Conn -> ListenerStep]
    /\ received \in [Conn -> Packet \cup {None}]
    /\ packet_router_pipe \in Seq(Packet)
    /\ router \in RouterStep
    /\ routing \in [packet : Packet, to : Conn, via : Address] \cup {Nothing}
    /\ transport_packet_pipe \in Seq(Packet)
    /\ sorter_up \in BOOLEAN
    /\ held \subseteq Packet
    /\ unseen \subseteq Packet
    /\ sent_ok \subseteq Conn \X Packet

Init ==
    /\ writers = [a \in Address |-> None]
    /\ connection_tracker = {}
    /\ addr = [c \in Conn |-> None]
    /\ opening = [t \in Opener |-> None]
    /\ contacting = None
    /\ contactor_up = TRUE
    /\ pipe = [c \in Conn |-> <<>>]
    /\ sender = [c \in Conn |-> "unborn"]
    /\ sending = [c \in Conn |-> None]
    /\ listener = [c \in Conn |-> "unborn"]
    /\ received = [c \in Conn |-> None]
    /\ packet_router_pipe = <<>>
    /\ router = "idle"
    /\ routing = Nothing
    /\ transport_packet_pipe = <<>>
    /\ sorter_up = TRUE
    /\ held = {}
    /\ unseen = Packet
    /\ sent_ok = {}

-----------------------------------------------------------------------------
(***************************************************************************)
(* The lock of the map.  writers.iter().next() in the router task returns  *)
(* a read guard of the entry's shard, and the guard lives until the .await *)
(* of the same statement is over.  insert and remove need the write lock   *)
(* of the shard and block their thread, not only their task, until they    *)
(* get it.                                                                 *)
(***************************************************************************)
CanWrite(a) == router = "sending" => ShardOf[routing.via] # ShardOf[a]

\* Mutant: contains_key waits like a writer.
CanReadAlone(a) == CanWrite(a)

\* contains_key takes the read lock, which it can share with the guard.
CanRead(a) == TRUE

\* Mutant: no remove.
KeepEntry(a) == UNCHANGED writers

\* Mutant: clear() for remove.
ClearEntries(a) == writers' = [b \in Address |-> None]

\* writers.remove(&address), whichever link is registered there.
RemoveEntry(a) == writers' = [writers EXCEPT ![a] = None]

\* Mutant: the packet is looked at and stays in the queue.
Peeked(q) == q

\* recv() takes the first packet out of a queue.
Taken(q) == Tail(q)

\* Tasks that are inside insert or remove, each with a thread of its own: no
\* .await separates these points from the step before them.
InMap ==
    {c \in Conn : sender[c] = "remove"} \X {"sender"}
    \cup {c \in Conn : listener[c] \in {"deregister", "untrack"}}
            \X {"listener"}
    \cup {t \in Opener : opening[t] # None} \X {"opener"}

\* A task that waits at an .await needs a worker thread to go on.
ThreadFree == Cardinality(InMap) < Workers

\* The receiving half of a writer pipe belongs to the link's sender task.
ReceiverAlive(c) == sender[c] \notin {"unborn", "done", "panicked"}

-----------------------------------------------------------------------------
(* Opening links *)

\* transport.accept() returned a link with an address.  The code discards
\* a link without one, and goes on after an Err: no state changes then.
AcceptConn(t, c, a) ==
    /\ ThreadFree
    /\ opening[t] = None /\ addr[c] = None
    /\ ProtocolOf[a] = t
    /\ addr' = [addr EXCEPT ![c] = a]
    /\ opening' = [opening EXCEPT ![t] = c]
    /\ UNCHANGED <<exceptOpener, writers, sender, listener, contacting,
                   contactor_up>>

\* Mutant: the filter with the negation its purpose calls for, and the same
\* unwrap() behind it.
Untracked == Gateways \ connection_tracker

\* The gateways that the contactor's filter lets through.
Candidates == Gateways \cap connection_tracker

\* The contactor picks one of them and looks up the transport: unwrap()
\* panics without one.
ContactorChoose(a) ==
    /\ ThreadFree
    /\ contactor_up /\ contacting = None /\ opening[Contactor] = None
    /\ a \in Candidates
    /\ IF ProtocolOf[a] \in Transports
         THEN contacting' = a /\ UNCHANGED contactor_up
         ELSE contactor_up' = FALSE /\ UNCHANGED contacting
    /\ UNCHANGED <<exceptOpener, writers, sender, listener, addr, opening>>

\* connect() returned a link; or an error, or its one second was over.
ContactorConnect ==
    /\ ThreadFree
    /\ contacting # None
    /\ contacting' = None
    /\ \/ \E c \in Conn :
            /\ addr[c] = None
            /\ addr' = [addr EXCEPT ![c] = contacting]
            /\ opening' = [opening EXCEPT ![Contactor] = c]
       \/ UNCHANGED <<addr, opening>>
    /\ UNCHANGED <<exceptOpener, writers, sender, listener, contactor_up>>

\* writers.insert, then the two spawns, in the accepter and the contactor.
\* A Sender already registered for the address is dropped.
Register(t) ==
    /\ opening[t] # None
    /\ LET c == opening[t] IN
         /\ CanWrite(addr[c])
         /\ writers' = [writers EXCEPT ![addr[c]] = c]
         /\ sender' = [sender EXCEPT ![c] = "check"]
         /\ listener' = [listener EXCEPT ![c] = "start"]
    /\ opening' = [opening EXCEPT ![t] = None]
    /\ UNCHANGED <<exceptOpener, addr, contacting, contactor_up>>

-----------------------------------------------------------------------------
(* packet_sender_task *)

\* A task that ends drops its receiver, with what is queued in it.
SenderEnds(c, step) ==
    /\ sender' = [sender EXCEPT ![c] = step]
    /\ pipe' = [pipe EXCEPT ![c] = <<>>]

\* The loop's head: leave when the address has no registered writer.
SenderCheck(c) ==
    /\ ThreadFree
    /\ sender[c] = "check"
    /\ CanRead(addr[c])
    /\ IF writers[addr[c]] = None
         THEN SenderEnds(c, "done")
         ELSE sender' = [sender EXCEPT ![c] = "recv"] /\ UNCHANGED pipe
    /\ UNCHANGED <<exceptSender, sending, sent_ok, writers, packet_router_pipe>>

\* recv() returns a queued packet; it returns None, and the loop goes round
\* again, when the queue is empty and the only Sender has been dropped.
SenderRecv(c) ==
    /\ ThreadFree
    /\ sender[c] = "recv"
    /\ \/ /\ pipe[c] # <<>>
          /\ sending' = [sending EXCEPT ![c] = Head(pipe[c])]
          /\ pipe' = [pipe EXCEPT ![c] = Taken(@)]
          /\ sender' = [sender EXCEPT ![c] = "write"]
       \/ /\ pipe[c] = <<>> /\ writers[addr[c]] # c
          /\ sender' = [sender EXCEPT ![c] = "check"]
          /\ UNCHANGED <<pipe, sending>>
    /\ UNCHANGED <<exceptSender, sent_ok, writers, packet_router_pipe>>

\* Mutant: the packet was moved into the write.
Moved(c) == [sending EXCEPT ![c] = None]

\* What the task holds after a failed write, which was given a clone.
Kept(c) == sending

\* writer.send(packet.clone()).await: Ok, or Err with the packet kept.
SenderWrite(c) ==
    /\ ThreadFree
    /\ sender[c] = "write"
    /\ \/ /\ sent_ok' = sent_ok \cup {<<c, sending[c]>>}
          /\ sending' = [sending EXCEPT ![c] = None]
          /\ sender' = [sender EXCEPT ![c] = "check"]
       \/ /\ sending' = Kept(c)
          /\ sender' = [sender EXCEPT ![c] = "reroute"]
          /\ UNCHANGED sent_ok
    /\ UNCHANGED <<exceptSender, pipe, writers, packet_router_pipe>>

\* Mutant: the packet goes back without waiting for room.
SenderRerouteUnbounded(c) ==
    /\ ThreadFree
    /\ sender[c] = "reroute"
    /\ IF router = "panicked"
         THEN SenderEnds(c, "panicked") /\ UNCHANGED packet_router_pipe
         ELSE /\ packet_router_pipe' = Append(packet_router_pipe, sending[c])
              /\ sender' = [sender EXCEPT ![c] = "remove"]
              /\ UNCHANGED pipe
    /\ sending' = [sending EXCEPT ![c] = None]
    /\ UNCHANGED <<exceptSender, sent_ok, writers>>

\* After a failed write the packet goes back to the router, waiting for
\* room; unwrap() panics when the router task is gone.
SenderReroute(c) ==
    /\ ThreadFree
    /\ sender[c] = "reroute"
    /\ IF router = "panicked"
         THEN SenderEnds(c, "panicked") /\ UNCHANGED packet_router_pipe
         ELSE /\ Len(packet_router_pipe) < RouterPipeCap
              /\ packet_router_pipe' = Append(packet_router_pipe, sending[c])
              /\ sender' = [sender EXCEPT ![c] = "remove"]
              /\ UNCHANGED pipe
    /\ sending' = [sending EXCEPT ![c] = None]
    /\ UNCHANGED <<exceptSender, sent_ok, writers>>

\* The link is removed from the map, then break.
SenderRemove(c) ==
    /\ sender[c] = "remove"
    /\ CanWrite(addr[c])
    /\ RemoveEntry(addr[c])
    /\ SenderEnds(c, "done")
    /\ UNCHANGED <<exceptSender, sending, sent_ok, packet_router_pipe>>

-----------------------------------------------------------------------------
(* packet_listener_task *)

ListenerStart(c) ==
    /\ ThreadFree
    /\ listener[c] = "start"
    /\ connection_tracker' = connection_tracker \cup {addr[c]}
    /\ listener' = [listener EXCEPT ![c] = "reading"]
    /\ UNCHANGED <<exceptListener, received, unseen, writers,
                   transport_packet_pipe>>

\* reader.next() returned: Some(Ok(packet)); Some(Err(_)), which ends the
\* loop; or None, the end of the stream, and the loop polls the ended
\* stream again and again and never leaves.
ListenerRead(c) ==
    /\ ThreadFree
    /\ listener[c] = "reading"
    /\ \/ \E p \in unseen :
            /\ unseen' = unseen \ {p}
            /\ received' = [received EXCEPT ![c] = p]
            /\ listener' = [listener EXCEPT ![c] = "forward"]
       \/ /\ \E step \in {"deregister", "eof"} :
               listener' = [listener EXCEPT ![c] = step]
          /\ UNCHANGED <<received, unseen>>
    /\ UNCHANGED <<exceptListener, mapVars, transport_packet_pipe>>

\* Mutant: try_send, which does not wait for room, with its result ignored.
ListenerForwardTries(c) ==
    /\ ThreadFree
    /\ listener[c] = "forward"
    /\ transport_packet_pipe' =
         IF sorter_up /\ Len(transport_packet_pipe) < TransportPipeCap
           THEN Append(transport_packet_pipe, received[c])
           ELSE transport_packet_pipe
    /\ listener' = [listener EXCEPT ![c] = "reading"]
    /\ received' = [received EXCEPT ![c] = None]
    /\ UNCHANGED <<exceptListener, unseen, mapVars>>

\* transport_packet_pipe.send(packet).await.unwrap(): waits for room,
\* panics when the sorter task is gone.
ListenerForward(c) ==
    /\ ThreadFree
    /\ listener[c] = "forward"
    /\ IF sorter_up
         THEN /\ Len(transport_packet_pipe) < TransportPipeCap
              /\ transport_packet_pipe' =
                   Append(transport_packet_pipe, received[c])
              /\ listener' = [listener EXCEPT ![c] = "reading"]
         ELSE /\ listener' = [listener EXCEPT ![c] = "panicked"]
              /\ UNCHANGED transport_packet_pipe
    /\ received' = [received EXCEPT ![c] = None]
    /\ UNCHANGED <<exceptListener, unseen, mapVars>>

\* After a read error the link is removed from the map.
ListenerDeregister(c) ==
    /\ listener[c] = "deregister"
    /\ CanWrite(addr[c])
    /\ RemoveEntry(addr[c])
    /\ listener' = [listener EXCEPT ![c] = "untrack"]
    /\ UNCHANGED <<exceptListener, received, unseen, connection_tracker,
                   transport_packet_pipe>>

ListenerUntrack(c) ==
    /\ listener[c] = "untrack"
    /\ connection_tracker' = connection_tracker \ {addr[c]}
    /\ listener' = [listener EXCEPT ![c] = "done"]
    /\ UNCHANGED <<exceptListener, received, unseen, writers,
                   transport_packet_pipe>>

-----------------------------------------------------------------------------
(* packet_router_task *)

\* The task ends in a panic: its packet and the queue are dropped.
RouterPanics ==
    /\ router' = "panicked"
    /\ routing' = Nothing
    /\ packet_router_pipe' = <<>>

\* recv(), then writers.iter().next().unwrap(): any registered link, with
\* the read guard of its shard; a panic when no link is registered.
RouterTake ==
    /\ ThreadFree
    /\ router = "idle"
    /\ packet_router_pipe # <<>>
    /\ \/ \E a \in Address :
            /\ writers[a] # None
            /\ router' = "sending"
            /\ routing' = [packet |-> Head(packet_router_pipe),
                           to |-> writers[a], via |-> a]
            /\ packet_router_pipe' = Taken(packet_router_pipe)
       \/ (\A a \in Address : writers[a] = None) /\ RouterPanics
    /\ UNCHANGED <<exceptRouter, pipe>>

\* send(packet).await.unwrap(): waits for room in the writer pipe, panics
\* when the link's sender task is gone.  The guard is released.
RouterSend ==
    /\ ThreadFree
    /\ router = "sending"
    /\ IF ReceiverAlive(routing.to)
         THEN /\ Len(pipe[routing.to]) < WriterPipeCap
              /\ pipe' = [pipe EXCEPT
                            ![routing.to] = Append(@, routing.packet)]
              /\ router' = "idle" /\ routing' = Nothing
              /\ UNCHANGED packet_router_pipe
         ELSE RouterPanics /\ UNCHANGED pipe
    /\ UNCHANGED exceptRouter

-----------------------------------------------------------------------------
(* The environment: packet_sorter_task and message_handler_task *)

SorterTake ==
    /\ ThreadFree
    /\ sorter_up
    /\ transport_packet_pipe # <<>>
    /\ held' = held \cup {Head(transport_packet_pipe)}
    /\ transport_packet_pipe' = Taken(transport_packet_pipe)
    /\ UNCHANGED <<exceptSorter, sorter_up, packet_router_pipe>>

\* A held packet, or the answer to it, is sent into packet_router_pipe.
Submit(p) ==
    /\ ThreadFree
    /\ p \in held
    /\ router # "panicked"
    /\ Len(packet_router_pipe) < RouterPipeCap
    /\ packet_router_pipe' = Append(packet_router_pipe, p)
    /\ held' = held \ {p}
    /\ UNCHANGED <<exceptSorter, sorter_up, transport_packet_pipe>>

\* The sorter task panics: the queue of its pipe is dropped.
SorterStops ==
    /\ ThreadFree
    /\ sorter_up
    /\ sorter_up' = FALSE
    /\ transport_packet_pipe' = <<>>
    /\ UNCHANGED <<exceptSorter, held, packet_router_pipe>>

-----------------------------------------------------------------------------
SenderWork(c)   == SenderCheck(c) \/ SenderRecv(c) \/ SenderReroute(c)
                     \/ SenderRemove(c)
ListenerWork(c) == ListenerStart(c) \/ ListenerForward(c)
                     \/ ListenerDeregister(c) \/ ListenerUntrack(c)
RouterWork      == RouterTake \/ RouterSend
ContactorWork   == (\E a \in Address : ContactorChoose(a))
                     \/ ContactorConnect

Next ==
    \/ \E c \in Conn :
         \/ SenderWork(c) \/ SenderWrite(c)
         \/ ListenerWork(c) \/ ListenerRead(c)
    \/ RouterWork
    \/ \E t \in Transports, c \in Conn, a \in Address : AcceptConn(t, c, a)
    \/ ContactorWork
    \/ \E t \in Opener : Register(t)
    \/ SorterTake \/ SorterStops
    \/ \E p \in Packet : Submit(p)

Spec == Init /\ [][Next]_vars

(***************************************************************************)
(* Fairness: the runtime polls every task that is ready, and a thread      *)
(* waiting for a shard gets it if it stays free.  What the peers do is not *)
(* fair: no packet, error or connection has to come, and a write may stay  *)
(* unfinished for ever (it has no timeout).  Nor is the sorter: it may     *)
(* stall for reasons of its own.                                           *)
(***************************************************************************)
Fairness ==
    /\ WF_vars(RouterWork)
    /\ WF_vars(ContactorWork)
    /\ \A c \in Conn : /\ WF_vars(SenderCheck(c) \/ SenderRecv(c))
                       /\ WF_vars(SenderReroute(c) \/ SenderRemove(c))
                       /\ WF_vars(ListenerWork(c))
    /\ \A t \in Opener : WF_vars(Register(t))

FairSpec == Spec /\ Fairness

-----------------------------------------------------------------------------
(* Properties *)

\* The router task's send(packet).await.unwrap() never fails while the task
\* runs: the pipe of a registered link, and the pipe a send is waiting on,
\* has its receiving sender task alive.  The sender removes the address
\* before it breaks, and the shard guard keeps the entry during the send.
SendReachesReceiver ==
    router # "panicked" =>
        /\ \A a \in Address : writers[a] # None => ReceiverAlive(writers[a])
        /\ router = "sending" => ReceiverAlive(routing.to)

\* A registered link's listener task has not left its loop: packets are not
\* routed to a link whose read side is known to have failed, even when
\* links with the same address replace and remove each other's entries.
RegistrationHasReader ==
    \A a \in Address : writers[a] # None =>
        listener[writers[a]] \notin {"unborn", "untrack", "done"}

\* The contactor task's transports.get(..).unwrap() never fails, although
\* known_gateways may name protocols with no enabled transport: an address
\* that passes the filter is the address of a link some transport opened.
ContactorFindsTransport == contactor_up

\* Registration follows the link: a link whose address no other link ever
\* had is registered as long as neither of its tasks has met an error.  So
\* a healthy link can only lose its pipe to a link with the same address.
LoneLinkIsRegistered ==
    \A c \in Conn :
        /\ addr[c] # None
        /\ \A d \in Conn \ {c} : addr[d] # addr[c]
        /\ sender[c] \in {"check", "recv", "write", "reroute"}
        /\ listener[c] \in {"start", "reading", "forward", "eof", "panicked"}
        => writers[addr[c]] = c

\* The places of the process that hold packet p.
Places(p) ==
    {<<"received", c>> : c \in {c \in Conn : received[c] = p}}
    \cup {<<"sending", c>> : c \in {c \in Conn : sending[c] = p}}
    \cup {<<"pipe", at[1], at[2]>> : at \in
            {ci \in UNION {{c} \X DOMAIN pipe[c] : c \in Conn} :
                pipe[ci[1]][ci[2]] = p}}
    \cup {<<"packet_router_pipe", i>> : i \in
            {i \in DOMAIN packet_router_pipe : packet_router_pipe[i] = p}}
    \cup {<<"transport_packet_pipe", i>> : i \in
            {i \in DOMAIN transport_packet_pipe :
                transport_packet_pipe[i] = p}}
    \cup {<<"routing">> : x \in {r \in {routing} : r.packet = p}}
    \cup {<<"held">> : x \in held \cap {p}}

\* No packet is multiplied: whatever links fail while it waits, is rerouted
\* or is being written, a packet is in one place only, and once a write of
\* it has returned Ok it is in none, so that no other link sends it again.
OneFate ==
    \A p \in Packet :
        /\ Cardinality(Places(p)) <= 1
        /\ \A c \in Conn : <<c, p>> \in sent_ok =>
              /\ Places(p) = {}
              /\ \A d \in Conn : <<d, p>> \in sent_ok => d = c

\* What the links promise the rest of the process: module PacketFate.
fate ==
    [p \in Packet |->
        IF p \in unseen THEN "outside"
        ELSE IF Places(p) # {} THEN "inside"
        ELSE IF \E c \in Conn : <<c, p>> \in sent_ok THEN "sent"
        ELSE "lost"]

fault ==
    \/ router = "panicked"
    \/ ~sorter_up
    \/ \E c \in Conn :
         \/ sender[c] \in {"reroute", "remove", "done", "panicked"}
         \/ listener[c] \in {"deregister", "untrack", "done", "panicked"}

Fate == INSTANCE PacketFate

\* A packet that came in stays until some link has sent it, and no packet is
\* lost in a process where no link and no task has failed; a packet that was
\* lost or sent never comes back.
ImplementsPacketFate == Fate!Spec

\* Packets that the links took to write them: with the router task, with
\* sender tasks, and in the places of writer pipes.
Queued == UNION {{c} \X DOMAIN pipe[c] : c \in Conn}

Leaving == Cardinality({routing.packet} \ {None})
             + Cardinality({c \in Conn : sending[c] # None})
             + Cardinality(Queued)

Exchange == INSTANCE PacketExchange WITH
    coming    <- Len(transport_packet_pipe),
    behind    <- Cardinality(held),
    going     <- Len(packet_router_pipe),
    leaving   <- Leaving,
    router_up <- router # "panicked"

\* The links are what PacketPipeline takes its environment to be: whatever
\* the tasks of the links do, fail and drop, they put back no more packets
\* than they took, fill no pipe beyond its capacity, and put nothing where
\* the receiver has stopped.
ImplementsPacketExchange == Exchange!Spec

\* While the router task waits for room in a link's pipe, the only hold-up is
\* that link's own write or leaving: otherwise its sender task has a packet to
\* take, or finds its address registered and goes on to take one.  Neither the
\* guard the router holds nor the clean-up of other links keeps it from that.
RouterWaitsOnItsLink ==
    \A c \in Conn :
        router = "sending" /\ routing.to = c /\ ~(Len(pipe[c]) < WriterPipeCap)
          => \/ sender[c] \in {"write", "reroute", "remove"}
             \/ sender[c] = "recv" /\ pipe[c] # <<>>
             \/ sender[c] = "check" /\ CanRead(addr[c]) /\ writers[addr[c]] = c

-----------------------------------------------------------------------------
(* What comments and assertions of the code say and the code does not do *)

\* p2p.rs:158-164: the unwrap() calls of packet_router_task assert that there
\* is a registered link to take the packet, whenever a packet comes.
RouterFindsWriter == router # "panicked"

\* p2p.rs:265 "Go talk to someone": a gateway among the seed nodes whose
\* transport is enabled is contacted.
GatewayIsContacted ==
    (\E a \in Gateways : ProtocolOf[a] \in Transports)
        => <>(contacting # None)

\* p2p.rs:189 "sending for rerouting": after a failed write the packet is
\* handed to the router and the link is taken down.
FailedLinkIsLeft ==
    \A c \in Conn :
        sender[c] = "reroute" ~> sender[c] \in {"done", "panicked"}

=============================================================================
