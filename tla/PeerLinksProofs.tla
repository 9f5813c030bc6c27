--------------------------- MODULE PeerLinksProofs ---------------------------
(***************************************************************************)
(* Proofs about PeerLinks, for every set of addresses, links and packets,  *)
(* every capacity and every number of worker threads.                      *)
(*                                                                         *)
(* First typing, with what a task holds at each of its control points;     *)
(* then the agreement of `writers` with the tasks, on which the properties *)
(* of registered links rest.                                               *)
(***************************************************************************)
EXTENDS PeerLinks, SequenceTheorems, TLAPS

\* What a task holds where the code passes it on.
TasksHold ==
    /\ \A c \in Conn : sender[c] \in {"write", "reroute"}
                         => sending[c] \in Packet
    /\ \A c \in Conn : listener[c] = "forward" => received[c] \in Packet
    /\ \A c \in Conn : sender[c] # "unborn" \/ listener[c] # "unborn"
                         => addr[c] \in Address
    /\ \A t \in Opener : opening[t] # None => addr[opening[t]] \in Address
    /\ router = "sending"
         => routing \in [packet : Packet, to : Conn, via : Address]

Typed == TypeOK /\ TasksHold

THEOREM TypedInit == Init => Typed
  BY LinkAssumption DEF Init, Typed, TypeOK, TasksHold, Nothing, SenderStep,
     ListenerStep, RouterStep, Opener

Queues ==
    /\ pipe \in [Conn -> Seq(Packet)]
    /\ packet_router_pipe \in Seq(Packet)
    /\ transport_packet_pipe \in Seq(Packet)

\* What the queue operations of the tasks return.
LEMMA QueueSteps ==
    /\ <<>> \in Seq(Packet)
    /\ \A q \in Seq(Packet), p \in Packet : Append(q, p) \in Seq(Packet)
    /\ \A q \in Seq(Packet) :
         q # <<>> => Head(q) \in Packet /\ Tail(q) \in Seq(Packet)
  BY EmptySeq, AppendProperties, HeadTailProperties

\* Steps that open links keep the types.
LEMMA TypedOpening ==
    ASSUME Typed,
           \/ \E t \in Transports, c \in Conn, a \in Address : AcceptConn(t, c, a)
           \/ ContactorWork
           \/ \E t \in Opener : Register(t)
    PROVE  Typed'
<1> USE LinkAssumption DEF Taken, Kept, RemoveEntry, SenderEnds,
        exceptOpener, exceptSender, exceptListener, exceptRouter,
        exceptSorter,
        Typed, TypeOK, TasksHold, SenderStep, ListenerStep,
        RouterStep, Opener, openVars, senderVars, listenerVars, routerVars,
        sorterVars, mapVars, pipeVars
<1>1. ASSUME NEW t \in Transports, NEW c \in Conn, NEW a \in Address,
             AcceptConn(t, c, a)
      PROVE  Typed'
  BY <1>1 DEF AcceptConn
<1>2. ASSUME NEW a \in Address, ContactorChoose(a) PROVE Typed'
  BY <1>2 DEF ContactorChoose
<1>3. CASE ContactorConnect
  <2>1. CASE UNCHANGED <<addr, opening>>
    BY <1>3, <2>1 DEF ContactorConnect
  <2>2. ASSUME NEW c \in Conn,
               addr' = [addr EXCEPT ![c] = contacting],
               opening' = [opening EXCEPT ![Contactor] = c]
        PROVE  Typed'
    <3>1. /\ contacting \in Address /\ contacting' = None
          /\ UNCHANGED <<exceptOpener, writers, sender, listener, contactor_up>>
      BY <1>3 DEF ContactorConnect
    <3> QED BY <2>2, <3>1
  <2> QED BY <1>3, <2>1, <2>2 DEF ContactorConnect
<1>4. ASSUME NEW t \in Opener, Register(t) PROVE Typed'
  BY <1>4 DEF Register
<1> QED BY <1>1, <1>2, <1>3, <1>4 DEF ContactorWork

\* Steps of a sender task keep the types.
LEMMA TypedSender ==
    ASSUME Typed, NEW c \in Conn, SenderWork(c) \/ SenderWrite(c)
    PROVE  Typed'
<1> USE LinkAssumption DEF Taken, Kept, RemoveEntry, SenderEnds,
        exceptOpener, exceptSender, exceptListener, exceptRouter,
        exceptSorter,
        SenderStep, openVars, listenerVars, routerVars,
        sorterVars, mapVars, pipeVars
<1> USE DEF Queues
<1>q. Queues
  BY DEF Typed, TypeOK
<1>0. [pipe EXCEPT ![c] = <<>>] \in [Conn -> Seq(Packet)]
  BY <1>q, QueueSteps
<1>1. CASE SenderCheck(c)
  <2>1. pipe' \in [Conn -> Seq(Packet)]
    BY <1>0, <1>1, <1>q DEF SenderCheck
  <2>2. /\ \E step \in {"done", "recv"} : sender' = [sender EXCEPT ![c] = step]
        /\ sender[c] = "check"
        /\ UNCHANGED <<openVars, sending, sent_ok, listenerVars, routerVars,
                       sorterVars, mapVars, pipeVars>>
    BY <1>1 DEF SenderCheck
  <2> QED BY <2>1, <2>2 DEF Typed, TypeOK, TasksHold
<1>2. CASE SenderRecv(c)
  <2>1. pipe[c] # <<>> => /\ Head(pipe[c]) \in Packet
                          /\ Tail(pipe[c]) \in Seq(Packet)
    BY <1>q, QueueSteps
  <2>2. \/ /\ pipe[c] # <<>>
           /\ pipe' = [pipe EXCEPT ![c] = Tail(pipe[c])]
           /\ sending' = [sending EXCEPT ![c] = Head(pipe[c])]
           /\ sender' = [sender EXCEPT ![c] = "write"]
        \/ /\ UNCHANGED <<pipe, sending>>
           /\ sender' = [sender EXCEPT ![c] = "check"]
    BY <1>q, <1>2 DEF SenderRecv
  <2>3. /\ pipe' \in [Conn -> Seq(Packet)]
        /\ \/ \E p \in Packet : /\ sending' = [sending EXCEPT ![c] = p]
                               /\ sender' = [sender EXCEPT ![c] = "write"]
           \/ sender' = [sender EXCEPT ![c] = "check"] /\ UNCHANGED sending
    BY <1>q, <2>1, <2>2
  <2>4. /\ sender[c] = "recv"
        /\ UNCHANGED <<openVars, sent_ok, listenerVars, routerVars,
                       sorterVars, mapVars, pipeVars>>
    BY <1>2 DEF SenderRecv
  <2>5. CASE UNCHANGED sending /\ sender' = [sender EXCEPT ![c] = "check"]
    BY <2>3, <2>4, <2>5 DEF Typed, TypeOK, TasksHold
  <2>6. ASSUME NEW p \in Packet, sending' = [sending EXCEPT ![c] = p],
               sender' = [sender EXCEPT ![c] = "write"]
        PROVE  Typed'
    BY <2>3, <2>4, <2>6 DEF Typed, TypeOK, TasksHold
  <2> QED BY <2>3, <2>5, <2>6
<1>3. CASE SenderWrite(c)
  <2>1. sending[c] \in Packet
    BY <1>3 DEF SenderWrite, Typed, TasksHold
  <2>2. /\ sent_ok' \subseteq Conn \X Packet
        /\ \/ /\ sending' = [sending EXCEPT ![c] = None]
              /\ sender' = [sender EXCEPT ![c] = "check"]
           \/ /\ sender' = [sender EXCEPT ![c] = "reroute"]
              /\ UNCHANGED sending
    BY <1>3, <2>1 DEF SenderWrite, Typed, TypeOK
  <2>3. /\ sender[c] = "write"
        /\ UNCHANGED <<openVars, pipe, listenerVars, routerVars, sorterVars,
                       mapVars, pipeVars>>
    BY <1>3 DEF SenderWrite
  <2>4. CASE /\ sending' = [sending EXCEPT ![c] = None]
             /\ sender' = [sender EXCEPT ![c] = "check"]
    BY <2>2, <2>3, <2>4 DEF Typed, TypeOK, TasksHold
  <2>5. CASE /\ sender' = [sender EXCEPT ![c] = "reroute"]
             /\ UNCHANGED sending
    BY <2>1, <2>2, <2>3, <2>5 DEF Typed, TypeOK, TasksHold
  <2> QED BY <2>2, <2>4, <2>5
<1>4. CASE SenderReroute(c)
  <2>1. sending[c] \in Packet
    BY <1>4 DEF SenderReroute, Typed, TasksHold
  <2>2. packet_router_pipe' \in Seq(Packet)
    <3>1. Append(packet_router_pipe, sending[c]) \in Seq(Packet)
      BY <1>q, <2>1, AppendProperties
    <3> QED BY <1>q, <1>4, <3>1 DEF SenderReroute
  <2>3. pipe' \in [Conn -> Seq(Packet)]
    BY <1>0, <1>q, <1>4 DEF SenderReroute
  <2>4. /\ \E step \in {"panicked", "remove"} :
             sender' = [sender EXCEPT ![c] = step]
        /\ sender[c] = "reroute"
        /\ sending' = [sending EXCEPT ![c] = None]
        /\ UNCHANGED <<openVars, sent_ok, listenerVars, routerVars,
                       sorterVars, mapVars, transport_packet_pipe>>
    BY <1>4 DEF SenderReroute
  <2> QED BY <2>2, <2>3, <2>4 DEF Typed, TypeOK, TasksHold
<1>5. CASE SenderRemove(c)
  <2>1. pipe' \in [Conn -> Seq(Packet)]
    BY <1>0, <1>5 DEF SenderRemove
  <2>2. /\ writers' = [writers EXCEPT ![addr[c]] = None]
        /\ sender' = [sender EXCEPT ![c] = "done"]
        /\ sender[c] = "remove"
        /\ UNCHANGED <<openVars, sending, sent_ok, listenerVars, routerVars,
                       sorterVars, connection_tracker, pipeVars>>
    BY <1>5 DEF SenderRemove
  <2> QED BY <2>1, <2>2 DEF Typed, TypeOK, TasksHold
<1> QED BY <1>1, <1>2, <1>3, <1>4, <1>5 DEF SenderWork

\* Steps of a listener task keep the types.
LEMMA TypedListener ==
    ASSUME Typed, NEW c \in Conn,
           ListenerWork(c) \/ ListenerRead(c)
    PROVE  Typed'
<1> USE LinkAssumption DEF Taken, Kept, RemoveEntry, SenderEnds,
        exceptOpener, exceptSender, exceptListener, exceptRouter,
        exceptSorter,
        ListenerStep, openVars, senderVars, routerVars,
        sorterVars, mapVars, pipeVars, Queues
<1>q. Queues
  BY DEF Typed, TypeOK
<1>1. CASE ListenerStart(c)      BY <1>1 DEF ListenerStart, Typed, TypeOK, TasksHold
<1>2. CASE ListenerForward(c)
  <2>1. received[c] \in Packet
    BY <1>2 DEF ListenerForward, Typed, TasksHold
  <2>2. transport_packet_pipe' \in Seq(Packet)
    <3>1. Append(transport_packet_pipe, received[c]) \in Seq(Packet)
      BY <1>q, <2>1, AppendProperties
    <3> QED BY <1>q, <1>2, <3>1 DEF ListenerForward
  <2>3. /\ \E step \in {"reading", "panicked"} :
             listener' = [listener EXCEPT ![c] = step]
        /\ listener[c] = "forward"
        /\ received' = [received EXCEPT ![c] = None]
        /\ UNCHANGED <<openVars, senderVars, unseen, routerVars, sorterVars,
                       mapVars, packet_router_pipe>>
    BY <1>2 DEF ListenerForward
  <2> QED BY <2>2, <2>3 DEF Typed, TypeOK, TasksHold
<1>3. CASE ListenerDeregister(c) BY <1>3 DEF ListenerDeregister, Typed, TypeOK, TasksHold
<1>4. CASE ListenerUntrack(c)    BY <1>4 DEF ListenerUntrack, Typed, TypeOK, TasksHold
<1>5. CASE ListenerRead(c)
  <2>1. /\ listener[c] = "reading"
        /\ UNCHANGED <<openVars, senderVars, routerVars, sorterVars, mapVars,
                       pipeVars>>
    BY <1>5 DEF ListenerRead
  <2>2. ASSUME NEW p \in unseen,
               unseen' = unseen \ {p},
               received' = [received EXCEPT ![c] = p],
               listener' = [listener EXCEPT ![c] = "forward"]
        PROVE  Typed'
    BY <2>1, <2>2 DEF Typed, TypeOK, TasksHold
  <2>3. ASSUME NEW step \in {"deregister", "eof"},
               listener' = [listener EXCEPT ![c] = step],
               UNCHANGED <<received, unseen>>
        PROVE  Typed'
    BY <2>1, <2>3 DEF Typed, TypeOK, TasksHold
  <2> QED BY <1>5, <2>2, <2>3 DEF ListenerRead
<1> QED BY <1>1, <1>2, <1>3, <1>4, <1>5 DEF ListenerWork

\* Steps of the router task and of the environment keep the types.
LEMMA TypedRouter ==
    ASSUME Typed,
           \/ RouterWork \/ SorterTake \/ SorterStops
           \/ \E p \in Packet : Submit(p)
    PROVE  Typed'
<1> USE LinkAssumption DEF Taken, Kept, RemoveEntry, SenderEnds,
        exceptOpener, exceptSender, exceptListener, exceptRouter,
        exceptSorter,
        RouterStep, openVars, senderVars, listenerVars,
        routerVars, sorterVars, mapVars, pipeVars, Queues
<1>q. Queues
  BY DEF Typed, TypeOK
<1>1. CASE RouterTake
  <2>1. packet_router_pipe' \in Seq(Packet)
    BY <1>1, QueueSteps, <1>q DEF RouterTake, RouterPanics
  <2>2. Head(packet_router_pipe) \in Packet
    BY <1>1, QueueSteps, <1>q DEF RouterTake
  <2>3. /\ \/ /\ router' = "sending"
              /\ routing' \in [packet : Packet, to : Conn, via : Address]
           \/ router' = "panicked" /\ routing' = Nothing
        /\ UNCHANGED <<openVars, senderVars, listenerVars, sorterVars, mapVars,
                       transport_packet_pipe>>
    BY <1>1, <2>2 DEF RouterTake, RouterPanics, Typed, TypeOK
  <2> QED BY <2>1, <2>3 DEF Typed, TypeOK, TasksHold
<1>2. CASE RouterSend
  <2>1. routing \in [packet : Packet, to : Conn, via : Address]
    BY <1>2 DEF RouterSend, Typed, TasksHold
  <2>2. /\ pipe' \in [Conn -> Seq(Packet)]
        /\ packet_router_pipe' \in Seq(Packet)
    <3>1. Append(pipe[routing.to], routing.packet) \in Seq(Packet)
      BY <1>q, <2>1, AppendProperties
    <3>2. [pipe EXCEPT ![routing.to] =
             Append(pipe[routing.to], routing.packet)] \in [Conn -> Seq(Packet)]
      BY <1>q, <2>1, <3>1
    <3> QED BY <1>q, <1>2, <3>2, QueueSteps DEF RouterSend, RouterPanics
  <2>3. /\ router' \in {"idle", "panicked"} /\ routing' = Nothing
        /\ UNCHANGED <<openVars, sender, sending, sent_ok, listenerVars,
                       sorterVars, mapVars, transport_packet_pipe>>
    BY <1>2 DEF RouterSend, RouterPanics
  <2> QED BY <2>2, <2>3 DEF Typed, TypeOK, TasksHold
<1>3. CASE SorterTake
  <2>1. transport_packet_pipe' \in Seq(Packet)
    BY <1>3, QueueSteps, <1>q DEF SorterTake
  <2>2. Head(transport_packet_pipe) \in Packet
    BY <1>3, QueueSteps, <1>q DEF SorterTake
  <2>3. /\ \E p \in Packet : held' = held \cup {p}
        /\ UNCHANGED <<openVars, senderVars, listenerVars, routerVars,
                       sorter_up, mapVars, packet_router_pipe>>
    BY <1>3, <2>2 DEF SorterTake
  <2> QED BY <2>1, <2>3 DEF Typed, TypeOK, TasksHold
<1>4. CASE SorterStops
  BY <1>4, QueueSteps DEF SorterStops, Typed, TypeOK, TasksHold
<1>5. ASSUME NEW p \in Packet, Submit(p) PROVE Typed'
  <2>1. packet_router_pipe' \in Seq(Packet)
    BY <1>5, QueueSteps, <1>q DEF Submit
  <2>2. /\ held' = held \ {p}
        /\ UNCHANGED <<openVars, senderVars, listenerVars, routerVars,
                       sorter_up, mapVars, transport_packet_pipe>>
    BY <1>5 DEF Submit
  <2> QED BY <2>1, <2>2 DEF Typed, TypeOK, TasksHold
<1> QED BY <1>1, <1>2, <1>3, <1>4, <1>5 DEF RouterWork

LEMMA TypedNext == Typed /\ [Next]_vars => Typed'
<1> SUFFICES ASSUME Typed, [Next]_vars PROVE Typed'
  OBVIOUS
<1>1. CASE UNCHANGED vars
  BY <1>1 DEF vars, Typed, TypeOK, TasksHold, openVars, senderVars,
     listenerVars, routerVars, sorterVars, mapVars, pipeVars
<1>2. CASE Next
  BY <1>2, TypedOpening, TypedSender, TypedListener, TypedRouter DEF Next
<1> QED BY <1>1, <1>2

\* Every reachable state is well typed: the variables hold what their names
\* say, whatever tasks have failed, panicked or been replaced.
THEOREM TypeCorrect == Spec => []TypeOK
<1>1. Typed => TypeOK
  BY DEF Typed
<1> QED BY <1>1, TypedInit, TypedNext, PTL DEF Spec

-----------------------------------------------------------------------------
(***************************************************************************)
(* `writers` and the tasks agree.  An entry leads to a link with that      *)
(* address whose sender task is running; a sender that panicked is         *)
(* possible only after the router did; the entry whose guard the router    *)
(* holds stays; and no link is in the hands of an opener once its tasks    *)
(* run, so that no entry appears for a link that has ended.                *)
(***************************************************************************)
RegistrationInv ==
    /\ \A a \in Address : writers[a] # None =>
         /\ addr[writers[a]] = a
         /\ sender[writers[a]] \notin {"unborn", "done"}
    /\ \A c \in Conn : sender[c] = "panicked" => router = "panicked"
    /\ \A c \in Conn : sender[c] = "unborn" <=> listener[c] = "unborn"
    /\ router = "sending" => writers[routing.via] = routing.to
    /\ \A t \in Opener : opening[t] # None => sender[opening[t]] = "unborn"
    /\ \A t, u \in Opener :
         opening[t] # None /\ opening[t] = opening[u] => t = u
    /\ RegistrationHasReader

Inv == Typed /\ RegistrationInv

LEMMA RegistrationInit == Init => RegistrationInv
  BY DEF Init, RegistrationInv, RegistrationHasReader, Opener

\* Opening and registering a link.
LEMMA RegistrationOpening ==
    ASSUME Inv, Typed',
           \/ \E t \in Transports, c \in Conn, a \in Address : AcceptConn(t, c, a)
           \/ ContactorWork
           \/ \E t \in Opener : Register(t)
    PROVE  RegistrationInv'
<1> USE LinkAssumption DEF exceptOpener, exceptSender, exceptListener,
        exceptRouter, exceptSorter, Inv, RegistrationInv, RegistrationHasReader, openVars,
        senderVars, listenerVars, routerVars, mapVars
<1>1. ASSUME NEW t \in Opener, NEW c \in Conn, NEW a \in Address,
             addr[c] = None,
             addr' = [addr EXCEPT ![c] = a],
             opening' = [opening EXCEPT ![t] = c],
             UNCHANGED <<writers, sender, listener, router, routing>>
      PROVE  RegistrationInv'
  <2>1. /\ sender[c] = "unborn"
        /\ \A u \in Opener : opening[u] # c
        /\ \A b \in Address : writers[b] # c
    BY <1>1 DEF Typed, TypeOK, TasksHold
  <2> QED BY <1>1, <2>1 DEF Typed, TypeOK
<1>2. ASSUME NEW t \in Transports, NEW c \in Conn, NEW a \in Address,
             AcceptConn(t, c, a)
      PROVE  RegistrationInv'
  BY <1>1, <1>2 DEF AcceptConn, Opener
<1>3. ASSUME NEW a \in Address, ContactorChoose(a) PROVE RegistrationInv'
  BY <1>3 DEF ContactorChoose
<1>4. CASE ContactorConnect
  <2>1. CASE UNCHANGED <<addr, opening>>
    BY <1>4, <2>1 DEF ContactorConnect
  <2>2. ASSUME NEW c \in Conn, addr[c] = None,
               addr' = [addr EXCEPT ![c] = contacting],
               opening' = [opening EXCEPT ![Contactor] = c]
        PROVE  RegistrationInv'
    BY <1>1, <1>4, <2>2 DEF ContactorConnect, Opener, Typed, TypeOK
  <2> QED BY <1>4, <2>1, <2>2 DEF ContactorConnect
<1>5. ASSUME NEW t \in Opener, Register(t) PROVE RegistrationInv'
  <2> DEFINE c == opening[t]
  <2>1. /\ c \in Conn /\ addr[c] \in Address
        /\ sender[c] = "unborn"
        /\ \A b \in Address : writers[b] # c
        /\ \A u \in Opener : u # t => opening[u] # c
    BY <1>5 DEF Register, Typed, TypeOK, TasksHold
  <2>2. /\ writers' = [writers EXCEPT ![addr[c]] = c]
        /\ sender' = [sender EXCEPT ![c] = "check"]
        /\ listener' = [listener EXCEPT ![c] = "start"]
        /\ opening' = [opening EXCEPT ![t] = None]
        /\ UNCHANGED <<addr, router, routing>>
    BY <1>5 DEF Register
  <2>3. router = "sending" => routing.via # addr[c] /\ routing.via \in Address
    BY <1>5 DEF Register, CanWrite, Typed, TasksHold
  <2> HIDE DEF c
  <2> QED BY <2>1, <2>2, <2>3 DEF Typed, TypeOK
<1> QED BY <1>2, <1>3, <1>4, <1>5 DEF ContactorWork

\* A step that removes the entry of an address keeps the guarded entry.
LEMMA RemovalSparesGuard ==
    ASSUME Inv, NEW a \in Address, CanWrite(a),
           writers' = [writers EXCEPT ![a] = None], UNCHANGED routerVars
    PROVE  router' = "sending" => writers'[routing'.via] = routing'.to
  BY DEF Inv, Typed, TypeOK, TasksHold, RegistrationInv, CanWrite, routerVars

\* Steps of a sender task.
LEMMA RegistrationSender ==
    ASSUME Inv, NEW c \in Conn, SenderWork(c) \/ SenderWrite(c)
    PROVE  RegistrationInv'
<1> USE DEF Kept, RemoveEntry, SenderEnds,
        exceptOpener, exceptSender, exceptListener, exceptRouter,
        exceptSorter,
        Inv, RegistrationInv, RegistrationHasReader,
        openVars, listenerVars,
        routerVars, mapVars
<1>0. sender[c] # "unborn" => addr[c] \in Address
  BY DEF Typed, TasksHold
<1>1. CASE SenderCheck(c)
  <2>1. CASE writers[addr[c]] = None /\ sender' = [sender EXCEPT ![c] = "done"]
    <3>1. \A a \in Address : writers[a] # c
      BY <2>1, LinkAssumption
    <3>2. sender[c] = "check" /\ UNCHANGED <<writers, addr, opening, listener,
                                              router, routing>>
      BY <1>1 DEF SenderCheck
    <3> QED BY <2>1, <3>1, <3>2 DEF Typed, TypeOK
  <2>2. CASE sender' = [sender EXCEPT ![c] = "recv"]
    <3>1. sender[c] = "check" /\ UNCHANGED <<writers, addr, opening, listener,
                                              router, routing>>
      BY <1>1 DEF SenderCheck
    <3> QED BY <2>2, <3>1 DEF Typed, TypeOK
  <2> QED BY <1>1, <2>1, <2>2 DEF SenderCheck
<1>2. ASSUME SenderRecv(c) \/ SenderWrite(c) \/ SenderReroute(c)
      PROVE  RegistrationInv'
  <2>1. /\ sender[c] \in {"recv", "write", "reroute"}
        /\ \E step \in {"check", "write", "reroute", "remove", "panicked"} :
             /\ sender' = [sender EXCEPT ![c] = step]
             /\ step = "panicked" => router = "panicked"
        /\ UNCHANGED <<writers, addr, opening, listener, router, routing>>
    BY <1>2 DEF SenderRecv, SenderWrite, SenderReroute
  <2> QED BY <2>1 DEF Typed, TypeOK
<1>3. CASE SenderRemove(c)
  <2>1. addr[c] \in Address /\ CanWrite(addr[c])
    BY <1>0, <1>3 DEF SenderRemove
  <2>2. /\ writers' = [writers EXCEPT ![addr[c]] = None]
        /\ sender' = [sender EXCEPT ![c] = "done"]
        /\ sender[c] = "remove"
        /\ UNCHANGED <<addr, opening, listener, router, routing>>
    BY <1>3 DEF SenderRemove
  <2>3. router' = "sending" => writers'[routing'.via] = routing'.to
    BY <2>1, <2>2, RemovalSparesGuard
  <2>4. \A a \in Address : writers'[a] # None
                            => writers'[a] = writers[a] /\ writers[a] # c
    BY <2>1, <2>2 DEF Typed, TypeOK
  <2> QED BY <2>2, <2>3, <2>4, LinkAssumption DEF Typed, TypeOK
<1> QED BY <1>1, <1>2, <1>3 DEF SenderWork

\* Steps of a listener task.
LEMMA RegistrationListener ==
    ASSUME Inv, NEW c \in Conn,
           ListenerWork(c) \/ ListenerRead(c)
    PROVE  RegistrationInv'
<1> USE DEF Kept, RemoveEntry, SenderEnds,
        exceptOpener, exceptSender, exceptListener, exceptRouter,
        exceptSorter,
        Inv, RegistrationInv, RegistrationHasReader,
        openVars, senderVars,
        routerVars, mapVars
<1>1. ASSUME ListenerStart(c) \/ ListenerForward(c) \/ ListenerRead(c)
      PROVE  RegistrationInv'
  <2>1. /\ listener[c] \in {"start", "reading", "forward"}
        /\ \E step \in {"reading", "forward", "eof", "deregister",
                         "panicked"} : listener' = [listener EXCEPT ![c] = step]
        /\ UNCHANGED <<writers, addr, opening, sender, router, routing>>
    BY <1>1 DEF ListenerStart, ListenerForward, ListenerRead
  <2> QED BY <2>1 DEF Typed, TypeOK
<1>2. CASE ListenerDeregister(c)
  <2>1. addr[c] \in Address /\ CanWrite(addr[c])
    BY <1>2 DEF ListenerDeregister, Typed, TasksHold
  <2>2. /\ writers' = [writers EXCEPT ![addr[c]] = None]
        /\ listener' = [listener EXCEPT ![c] = "untrack"]
        /\ listener[c] = "deregister"
        /\ UNCHANGED <<addr, opening, sender, router, routing>>
    BY <1>2 DEF ListenerDeregister
  <2>3. router' = "sending" => writers'[routing'.via] = routing'.to
    BY <2>1, <2>2, RemovalSparesGuard
  <2>4. \A a \in Address : writers'[a] # None
                            => writers'[a] = writers[a] /\ writers[a] # c
    BY <2>1, <2>2 DEF Typed, TypeOK
  <2> QED BY <2>2, <2>3, <2>4, LinkAssumption DEF Typed, TypeOK
<1>3. CASE ListenerUntrack(c)
  BY <1>3 DEF ListenerUntrack, Typed, TypeOK
<1> QED BY <1>1, <1>2, <1>3 DEF ListenerWork

\* Steps of the router task and of the environment.
LEMMA RegistrationRouter ==
    ASSUME Inv,
           \/ RouterWork \/ SorterTake \/ SorterStops
           \/ \E p \in Packet : Submit(p)
    PROVE  RegistrationInv'
<1> USE DEF Kept, RemoveEntry, SenderEnds,
        exceptOpener, exceptSender, exceptListener, exceptRouter,
        exceptSorter,
        Inv, RegistrationInv, RegistrationHasReader,
        openVars, senderVars,
        listenerVars, routerVars, mapVars
<1>1. ASSUME UNCHANGED <<writers, addr, opening, sender, listener>>,
             \/ router' = "panicked"
             \/ UNCHANGED <<router, routing>>
             \/ router' = "sending" /\ writers[routing'.via] = routing'.to
                  /\ router # "panicked"
             \/ router' = "idle" /\ router # "panicked"
      PROVE  RegistrationInv'
  BY <1>1
<1>2. CASE RouterTake
  BY <1>1, <1>2 DEF RouterTake, RouterPanics
<1>3. CASE RouterSend
  BY <1>1, <1>3 DEF RouterSend, RouterPanics
<1>4. CASE SorterTake
  BY <1>1, <1>4 DEF SorterTake
<1>5. CASE SorterStops
  BY <1>1, <1>5 DEF SorterStops
<1>6. ASSUME NEW p \in Packet, Submit(p) PROVE RegistrationInv'
  BY <1>1, <1>6 DEF Submit
<1> QED BY <1>2, <1>3, <1>4, <1>5, <1>6 DEF RouterWork

LEMMA InvNext == Inv /\ [Next]_vars => Inv'
<1> SUFFICES ASSUME Inv, [Next]_vars PROVE Inv'
  OBVIOUS
<1>1. Typed'
  BY TypedNext DEF Inv
<1>2. CASE UNCHANGED vars
  BY <1>1, <1>2 DEF Inv, RegistrationInv, RegistrationHasReader, vars, openVars,
     senderVars, listenerVars, routerVars, mapVars
<1>3. CASE Next
  BY <1>1, <1>3, RegistrationOpening, RegistrationSender, RegistrationListener,
     RegistrationRouter DEF Next, Inv
<1> QED BY <1>2, <1>3

THEOREM Invariance == Spec => []Inv
<1>1. Init => Inv
  BY TypedInit, RegistrationInit DEF Inv
<1> QED BY <1>1, InvNext, PTL DEF Spec

\* send(packet).await.unwrap() of the router task cannot fail: however links
\* fail, are replaced and are removed, a registered pipe is being emptied.
THEOREM RouterSendSafe == Spec => []SendReachesReceiver
<1>1. Inv => SendReachesReceiver
  BY LinkAssumption DEF Inv, Typed, TypeOK, TasksHold, RegistrationInv,
     SendReachesReceiver, ReceiverAlive
<1> QED BY <1>1, Invariance, PTL

\* The router task waits for room in a full pipe only while the link's own write
\* or leaving goes on, whatever other links with the same address do.
THEOREM RouterWaitsOnLink == Spec => []RouterWaitsOnItsLink
<1>1. ASSUME Inv, NEW c \in Conn, router = "sending", routing.to = c,
             ~(Len(pipe[c]) < WriterPipeCap)
      PROVE  \/ sender[c] \in {"write", "reroute", "remove"}
             \/ sender[c] = "recv" /\ pipe[c] # <<>>
             \/ sender[c] = "check" /\ CanRead(addr[c]) /\ writers[addr[c]] = c
  <2>1. routing.via \in Address /\ writers[routing.via] = c /\ c # None
    BY <1>1, LinkAssumption DEF Inv, Typed, TypeOK, TasksHold, RegistrationInv
  <2>2. addr[c] = routing.via /\ sender[c] \notin {"unborn", "done", "panicked"}
    BY <1>1, <2>1 DEF Inv, RegistrationInv
  <2>3. pipe[c] # <<>>
    <3>1. Len(<<>>) = 0 /\ WriterPipeCap \in Nat \ {0}
      BY LinkAssumption
    <3> QED
      BY <1>1, <3>1
  <2>4. sender[c] \in SenderStep
    BY <1>1 DEF Inv, Typed, TypeOK
  <2> QED
    BY <2>1, <2>2, <2>3, <2>4 DEF SenderStep, CanRead
<1>2. Inv => RouterWaitsOnItsLink
  BY <1>1 DEF RouterWaitsOnItsLink
<1> QED BY <1>2, Invariance, PTL

\* No registered link has a listener task that has left its loop.
THEOREM RegisteredIsRead == Spec => []RegistrationHasReader
<1>1. Inv => RegistrationHasReader
  BY DEF Inv, RegistrationInv
<1> QED BY <1>1, Invariance, PTL

-----------------------------------------------------------------------------
(***************************************************************************)
(* The contactor task: only links that a transport opened are tracked, so  *)
(* what passes the filter has a transport.                                 *)
(***************************************************************************)
TransportInv ==
    /\ \A c \in Conn : addr[c] # None => ProtocolOf[addr[c]] \in Transports
    /\ \A a \in connection_tracker : ProtocolOf[a] \in Transports
    /\ contacting # None => ProtocolOf[contacting] \in Transports
    /\ ContactorFindsTransport

LEMMA TransportInit == Init => TransportInv
  BY DEF Init, TransportInv, ContactorFindsTransport

LEMMA TransportNext == Typed /\ TransportInv /\ [Next]_vars => TransportInv'
<1> SUFFICES ASSUME Typed, TransportInv, [Next]_vars PROVE TransportInv'
  OBVIOUS
<1> USE LinkAssumption DEF Taken, Kept, RemoveEntry, SenderEnds,
        exceptOpener, exceptSender, exceptListener, exceptRouter,
        exceptSorter,
        TransportInv, ContactorFindsTransport, openVars,
        mapVars
\* Only five actions touch the variables of TransportInv.
<1>1. CASE UNCHANGED <<openVars, connection_tracker>>
  BY <1>1
<1>2. ASSUME NEW t \in Transports, NEW c \in Conn, NEW a \in Address,
             AcceptConn(t, c, a)
      PROVE  TransportInv'
  BY <1>2 DEF AcceptConn, Typed, TypeOK
<1>3. CASE ContactorWork
  <2>1. ASSUME NEW a \in Address, ContactorChoose(a) PROVE TransportInv'
    BY <2>1 DEF ContactorChoose, Candidates, Typed, TypeOK
  <2>2. CASE ContactorConnect /\ UNCHANGED addr
    BY <2>2 DEF ContactorConnect, Typed, TypeOK
  <2>3. ASSUME NEW c \in Conn, ContactorConnect,
               addr' = [addr EXCEPT ![c] = contacting]
        PROVE  TransportInv'
    <3>1. /\ contacting \in Address /\ contacting' = None
          /\ UNCHANGED <<contactor_up, connection_tracker>>
      BY <2>3 DEF ContactorConnect, Typed, TypeOK
    <3> QED BY <2>3, <3>1 DEF Typed, TypeOK
  <2> QED BY <1>3, <2>1, <2>2, <2>3 DEF ContactorWork, ContactorConnect
<1>4. ASSUME NEW t \in Opener, Register(t) PROVE TransportInv'
  BY <1>4 DEF Register
<1>5. ASSUME NEW c \in Conn, SenderWork(c) \/ SenderWrite(c)
      PROVE  UNCHANGED <<openVars, connection_tracker>>
  BY <1>5 DEF SenderWork, SenderCheck, SenderRecv, SenderReroute, SenderRemove,
     SenderWrite
<1>6. ASSUME NEW c \in Conn, ListenerStart(c) PROVE TransportInv'
  BY <1>6 DEF ListenerStart, Typed, TasksHold
<1>7. ASSUME NEW c \in Conn, ListenerUntrack(c) PROVE TransportInv'
  BY <1>7 DEF ListenerUntrack
<1>8. ASSUME NEW c \in Conn,
             ListenerForward(c) \/ ListenerDeregister(c) \/ ListenerRead(c)
      PROVE  UNCHANGED <<openVars, connection_tracker>>
  BY <1>8 DEF ListenerForward, ListenerDeregister, ListenerRead
<1>9. ASSUME RouterWork \/ SorterTake \/ SorterStops
               \/ \E p \in Packet : Submit(p)
      PROVE  UNCHANGED <<openVars, connection_tracker>>
  BY <1>9 DEF RouterWork, RouterTake, RouterSend, SorterTake, SorterStops, Submit
<1>10. CASE UNCHANGED vars
  BY <1>1, <1>10 DEF vars
<1> QED
  BY <1>1, <1>2, <1>3, <1>4, <1>5, <1>6, <1>7, <1>8, <1>9, <1>10
  DEF Next, ListenerWork

\* transports.get(..).unwrap() of the contactor task cannot fail, whatever
\* protocols the gateways' addresses name.
THEOREM ContactorSafe == Spec => []ContactorFindsTransport
<1>1. Init => Typed /\ TransportInv
  BY TypedInit, TransportInit
<1>2. Typed /\ TransportInv /\ [Next]_vars => (Typed /\ TransportInv)'
  BY TypedNext, TransportNext
<1>3. TransportInv => ContactorFindsTransport
  BY DEF TransportInv
<1> QED BY <1>1, <1>2, <1>3, PTL DEF Spec

-----------------------------------------------------------------------------
(***************************************************************************)
(* Links with an address of their own.                                     *)
(***************************************************************************)
\* A step that changes no entry and begins no task: every link it leaves
\* healthy was healthy before.
Quiet ==
    /\ UNCHANGED <<addr, writers>>
    /\ \A c \in Conn :
         /\ sender'[c] \in {"check", "recv", "write", "reroute"}
              => sender[c] \in {"check", "recv", "write", "reroute"}
         /\ listener'[c] \in {"start", "reading", "forward", "eof", "panicked"}
              => listener[c] \in {"start", "reading", "forward", "eof",
                                  "panicked"}

LEMMA LoneQuiet == LoneLinkIsRegistered /\ Quiet => LoneLinkIsRegistered'
  BY DEF LoneLinkIsRegistered, Quiet

\* A step that takes link d out of use and removes the entry of its address.
LEMMA LoneRemoval ==
    ASSUME Typed, LoneLinkIsRegistered, NEW d \in Conn,
           addr[d] \in Address,
           writers' = [writers EXCEPT ![addr[d]] = None], UNCHANGED addr,
           \/ /\ sender' = [sender EXCEPT ![d] = "done"]
              /\ UNCHANGED listener
           \/ /\ listener' = [listener EXCEPT ![d] = "untrack"]
              /\ UNCHANGED sender
    PROVE  LoneLinkIsRegistered'
<1> SUFFICES ASSUME NEW c \in Conn,
                    addr[c] # None,
                    \A e \in Conn \ {c} : addr[e] # addr[c],
                    sender'[c] \in {"check", "recv", "write", "reroute"},
                    listener'[c] \in {"start", "reading", "forward", "eof",
                                      "panicked"}
             PROVE  writers'[addr[c]] = c
  BY DEF LoneLinkIsRegistered
<1>1. c # d
  BY DEF Typed, TypeOK
<1>2. /\ sender[c] = sender'[c] /\ listener[c] = listener'[c]
      /\ addr[d] # addr[c]
  BY <1>1 DEF Typed, TypeOK
<1>3. writers[addr[c]] = c
  BY <1>2 DEF LoneLinkIsRegistered
<1> QED BY <1>2, <1>3 DEF Typed, TypeOK

LEMMA LoneNext ==
    Inv /\ LoneLinkIsRegistered /\ [Next]_vars => LoneLinkIsRegistered'
<1> SUFFICES ASSUME Inv, LoneLinkIsRegistered, [Next]_vars
             PROVE  LoneLinkIsRegistered'
  OBVIOUS
<1> USE LinkAssumption DEF Kept, RemoveEntry, SenderEnds,
        exceptOpener, exceptSender, exceptListener, exceptRouter,
        exceptSorter,
        Inv, openVars, senderVars, listenerVars, routerVars,
        mapVars
<1>1. ASSUME NEW c \in Conn, NEW a \in Address, addr[c] = None,
             addr' = [addr EXCEPT ![c] = a],
             UNCHANGED <<writers, sender, listener>>
      PROVE  LoneLinkIsRegistered'
  <2>1. sender[c] = "unborn"
    BY <1>1 DEF Typed, TasksHold
  <2>2. SUFFICES ASSUME NEW d \in Conn, d # c, addr[d] # None,
                        \A e \in Conn \ {d} : addr'[e] # addr'[d],
                        sender[d] \in {"check", "recv", "write", "reroute"},
                        listener[d] \in {"start", "reading", "forward", "eof",
                                         "panicked"}
                 PROVE  writers[addr[d]] = d
    BY <1>1, <2>1 DEF LoneLinkIsRegistered, Typed, TypeOK
  <2>3. \A e \in Conn \ {d} : addr[e] # addr[d]
    BY <1>1, <2>2 DEF Typed, TypeOK
  <2> QED BY <2>2, <2>3 DEF LoneLinkIsRegistered
<1>2. ASSUME NEW t \in Transports, NEW c \in Conn, NEW a \in Address,
             AcceptConn(t, c, a)
      PROVE  LoneLinkIsRegistered'
  BY <1>1, <1>2 DEF AcceptConn
<1>3. CASE ContactorWork
  <2>1. ASSUME NEW a \in Address, ContactorChoose(a) PROVE Quiet
    BY <2>1 DEF ContactorChoose, Quiet
  <2>2. ASSUME NEW c \in Conn, ContactorConnect, addr[c] = None,
               addr' = [addr EXCEPT ![c] = contacting]
        PROVE  LoneLinkIsRegistered'
    BY <1>1, <2>2 DEF ContactorConnect, Typed, TypeOK
  <2>3. ASSUME ContactorConnect, UNCHANGED addr PROVE Quiet
    BY <2>3 DEF ContactorConnect, Quiet
  <2> QED BY <1>3, <2>1, <2>2, <2>3, LoneQuiet DEF ContactorWork, ContactorConnect
<1>4. ASSUME NEW t \in Opener, Register(t) PROVE LoneLinkIsRegistered'
  <2> DEFINE c == opening[t]
  <2>1. /\ c \in Conn /\ addr[c] \in Address
        /\ writers' = [writers EXCEPT ![addr[c]] = c]
        /\ sender' = [sender EXCEPT ![c] = "check"]
        /\ listener' = [listener EXCEPT ![c] = "start"]
        /\ UNCHANGED addr
    BY <1>4 DEF Register, Typed, TypeOK, TasksHold
  <2> HIDE DEF c
  <2>2. ASSUME NEW d \in Conn, d # c, addr[d] # addr[c], addr[d] # None
        PROVE  /\ writers'[addr[d]] = writers[addr[d]]
               /\ sender'[d] = sender[d] /\ listener'[d] = listener[d]
    BY <2>1, <2>2 DEF Typed, TypeOK
  <2>3. writers'[addr[c]] = c
    BY <2>1 DEF Typed, TypeOK
  <2> QED BY <2>1, <2>2, <2>3 DEF LoneLinkIsRegistered
<1>5. ASSUME NEW c \in Conn, SenderWork(c) \/ SenderWrite(c)
      PROVE  LoneLinkIsRegistered'
  <2>1. CASE SenderRemove(c)
    <3>1. addr[c] \in Address
      BY <2>1 DEF SenderRemove, Typed, TasksHold
    <3> QED BY <2>1, <3>1, LoneRemoval DEF SenderRemove
  <2>2. ASSUME SenderCheck(c) \/ SenderRecv(c) \/ SenderWrite(c)
                 \/ SenderReroute(c)
        PROVE  Quiet
    <3>1. /\ sender[c] \in {"check", "recv", "write", "reroute"}
          /\ \E step \in SenderStep : sender' = [sender EXCEPT ![c] = step]
          /\ UNCHANGED <<addr, writers, listener>>
      BY <2>2 DEF SenderCheck, SenderRecv, SenderWrite, SenderReroute, SenderStep
    <3> QED BY <3>1 DEF Quiet, Typed, TypeOK
  <2> QED BY <1>5, <2>1, <2>2, LoneQuiet DEF SenderWork
<1>6. ASSUME NEW c \in Conn,
             ListenerWork(c) \/ ListenerRead(c)
      PROVE  LoneLinkIsRegistered'
  <2>1. CASE ListenerDeregister(c)
    <3>1. addr[c] \in Address
      BY <2>1 DEF ListenerDeregister, Typed, TasksHold
    <3> QED BY <2>1, <3>1, LoneRemoval DEF ListenerDeregister
  <2>2. CASE ListenerUntrack(c)
    BY <2>2, LoneQuiet DEF ListenerUntrack, Quiet, Typed, TypeOK
  <2>3. ASSUME ListenerStart(c) \/ ListenerForward(c) \/ ListenerRead(c)
        PROVE  Quiet
    <3>1. /\ listener[c] \in {"start", "reading", "forward"}
          /\ \E step \in ListenerStep : listener' = [listener EXCEPT ![c] = step]
          /\ UNCHANGED <<addr, writers, sender>>
      BY <2>3 DEF ListenerStart, ListenerForward, ListenerRead, ListenerStep
    <3> QED BY <3>1 DEF Quiet, Typed, TypeOK
  <2> QED BY <1>6, <2>1, <2>2, <2>3, LoneQuiet DEF ListenerWork
<1>7. ASSUME RouterWork \/ SorterTake \/ SorterStops
               \/ \E p \in Packet : Submit(p)
      PROVE  Quiet
  BY <1>7 DEF RouterWork, RouterTake, RouterSend, SorterTake, SorterStops,
     Submit, Quiet
<1>8. CASE UNCHANGED vars
  BY <1>8, LoneQuiet DEF vars, Quiet
<1> QED
  BY <1>2, <1>3, <1>4, <1>5, <1>6, <1>7, <1>8, LoneQuiet DEF Next

\* A link that never shared its address is registered until it fails.
THEOREM LoneLinkStays == Spec => []LoneLinkIsRegistered
<1>1. Init => Inv /\ LoneLinkIsRegistered
  BY TypedInit, RegistrationInit DEF Inv, Init, LoneLinkIsRegistered
<1>2. Inv /\ LoneLinkIsRegistered /\ [Next]_vars => (Inv /\ LoneLinkIsRegistered)'
  BY InvNext, LoneNext
<1> QED BY <1>1, <1>2, PTL DEF Spec

=============================================================================
