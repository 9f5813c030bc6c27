------------------------ MODULE TransportLinkProofs ------------------------
(***************************************************************************)
(* Proofs about TransportLink, for every number of processes, every set of *)
(* transports, and every start, stop and restart of the processes: who     *)
(* serves the sockets, which tasks survive the addresses they meet, and    *)
(* that the promise of FramedStream is not broken by the life of the       *)
(* processes at its ends.                                                  *)
(***************************************************************************)
EXTENDS TransportLink, FramedStreamProofs, FiniteSetTheorems

-----------------------------------------------------------------------------
(* The stream *)

\* What the processes do is, for the stream, a step of it or none.
LEMMA LinkStepOfStream ==
    ASSUME [LinkNext]_linkVars
    PROVE  [StreamNext]_streamVars
  BY DEF LinkNext, linkVars, SetUp, OtherLink, Open, OpenUnnamed, Transfer,
     ProcessEnds, StreamNext, WriterNext

LEMMA LinkHasStream == LinkSpec => StreamSpec
<1>1. LinkInit => StreamInit
  BY DEF LinkInit
<1>2. [LinkNext]_linkVars => [StreamNext]_streamVars
  BY LinkStepOfStream
<1> QED
  BY <1>1, <1>2, PTL DEF LinkSpec, StreamSpec

\* Whenever processes start, stop and start again, the packets on a link come
\* out as they were sent.
THEOREM LinkKeepsPromise == LinkSpec => ImplementsPacketStream
  BY LinkHasStream, LinkIsPacketStream

\* And whatever the processes at its ends do, its decoder stays in bounds, its
\* errors tell the truth, and nothing that arrived is left in its buffer.
THEOREM LinkKeepsStream ==
    LinkSpec => [](/\ StreamTypeOK /\ AdvanceInBounds
                   /\ TornIsInterrupted /\ ArrivedIsDelivered)
  BY LinkHasStream, StreamTyped, NeverBeyondBuffer, TornTellsOfOne,
     NoneLeftInBuffer, PTL

-----------------------------------------------------------------------------
(* The start of a process *)

LEMMA OrderOfStart ==
    /\ Len(Order) = 9
    /\ Order[1] = "config" /\ Order[2] = "tcp" /\ Order[3] = "bluetooth"
    /\ Order[4] = "unix_remove" /\ Order[5] = "unix_bind"
    /\ Order[6] = "spawn" /\ Order[7] = "router_remove"
    /\ Order[8] = "router_bind" /\ Order[9] = "serve"
  BY DEF Order

LEMMA PlanOfStart ==
    ASSUME NEW transports
    PROVE  /\ \A i \in Planned(transports) : i \in 1..9
           /\ 1 \in Planned(transports) /\ 6 \in Planned(transports)
           /\ 7 \in Planned(transports) /\ 9 \in Planned(transports)
           /\ "tcp" \in transports => 2 \in Planned(transports)
  BY OrderOfStart DEF Planned

LEMMA PlaceInOrder ==
    ASSUME NEW p \in Process
    PROVE  /\ At(p, "config") => step[p] = 1
           /\ At(p, "tcp") => step[p] = 2
           /\ At(p, "bluetooth") => step[p] = 3
           /\ At(p, "unix_remove") => step[p] = 4
           /\ At(p, "unix_bind") => step[p] = 5
           /\ At(p, "spawn") => step[p] = 6
           /\ At(p, "router_remove") => step[p] = 7
           /\ At(p, "router_bind") => step[p] = 8
           /\ Past(p, "unix_bind") => step[p] > 5
           /\ Past(p, "spawn") => step[p] > 6
           /\ Past(p, "router_bind") => step[p] > 8
<1>1. ASSUME NEW i \in 1..9
      PROVE  /\ Order[i] = "config" => i = 1
             /\ Order[i] = "tcp" => i = 2
             /\ Order[i] = "bluetooth" => i = 3
             /\ Order[i] = "unix_remove" => i = 4
             /\ Order[i] = "unix_bind" => i = 5
             /\ Order[i] = "spawn" => i = 6
             /\ Order[i] = "router_remove" => i = 7
             /\ Order[i] = "router_bind" => i = 8
  <2>1. i \in {1, 2, 3, 4, 5, 6, 7, 8, 9}
    OBVIOUS
  <2> QED
    BY <2>1, OrderOfStart
<1> QED
  BY <1>1, PlanOfStart DEF At, Past

\* Where a step of the start leads.
LEMMA NextInOrder ==
    ASSUME NEW p \in Process, NEW transports, Advance(p, transports),
           step \in [Process -> 0..9]
    PROVE  \E i \in Planned(transports) :
             /\ i \in 1..9 /\ i > step[p]
             /\ step' = [step EXCEPT ![p] = i]
             /\ step[p] = 0 => i = 1
             /\ step[p] = 1 /\ "tcp" \in transports => i = 2
             /\ step[p] < 6 => i <= 6
<1>1. PICK i \in Planned(transports) :
        /\ i > step[p]
        /\ \A j \in Planned(transports) : j > step[p] => i <= j
        /\ step' = [step EXCEPT ![p] = i]
  BY DEF Advance
<1>2. i \in 1..9 /\ step[p] \in 0..9
  BY PlanOfStart
<1>3. /\ 1 > step[p] => i <= 1
      /\ 2 > step[p] /\ "tcp" \in transports => i <= 2
      /\ 6 > step[p] => i <= 6
  BY <1>1, PlanOfStart
<1>4. /\ step[p] = 0 => i = 1
      /\ step[p] = 1 /\ "tcp" \in transports => i = 2
      /\ step[p] < 6 => i <= 6
  BY <1>1, <1>2, <1>3
<1> QED
  BY <1>1, <1>2, <1>4

\* What a step does to the places of the processes in the start.
HostStep ==
    \/ UNCHANGED <<step, enabled>>
    \/ \E p \in Process :
         /\ step' = [step EXCEPT ![p] = 0]
         /\ enabled' = [enabled EXCEPT ![p] = {}]
    \/ \E p \in Process, transports \in Configured :
         /\ step[p] = 1 /\ Advance(p, transports)
         /\ enabled' = [enabled EXCEPT ![p] = transports]
    \/ \E p \in Process :
         /\ step[p] \notin {1, 2} /\ Advance(p, enabled[p])
         /\ UNCHANGED enabled
    \/ \E p \in Process : BindTcp(p)

LEMMA LinkStepOfHost ==
    ASSUME [LinkNext]_linkVars, watched = None \/ watched \in Process
    PROVE  HostStep
<1>1. CASE SetUp
  <2>1. ASSUME NEW p \in Process, Start(p) PROVE HostStep
    BY <2>1 DEF Start, exceptStep, HostStep
  <2>2. ASSUME NEW p \in Process, NEW transports \in Configured,
               NEW text \in SeedText, ReadConfig(p, transports, text)
        PROVE  HostStep
    BY <2>2, PlaceInOrder DEF ReadConfig, Exits, HostStep
  <2>3. ASSUME NEW p \in Process, BindBluetooth(p) PROVE HostStep
    BY <2>3, PlaceInOrder DEF BindBluetooth, Exits, exceptStep, HostStep
  <2>4. ASSUME NEW p \in Process, SpawnTasks(p) PROVE HostStep
    BY <2>4, PlaceInOrder DEF SpawnTasks, HostStep
  <2>5. ASSUME NEW p \in Process, Stop(p) PROVE HostStep
    BY <2>5 DEF Stop, Exits, HostStep
  <2>6. ASSUME NEW p \in Process, NEW path \in SocketPath,
               RemoveSocket(p, path) \/ BindSocket(p, path)
        PROVE  HostStep
    BY <2>6, PlaceInOrder DEF RemoveSocket, BindSocket, BindStep, Exits, HostStep
  <2> QED
    BY <1>1, <2>1, <2>2, <2>3, <2>4, <2>5, <2>6 DEF SetUp, HostStep
<1>2. CASE OtherLink \/ Open \/ OpenUnnamed
  BY <1>2 DEF OtherLink, Open, OpenUnnamed, Accept, AcceptPanics, Dial,
     AcceptUnnamed, UnnamedDropped, vars, exceptStep, HostStep
<1>3. CASE Transfer \/ UNCHANGED linkVars
  BY <1>3 DEF Transfer, linkVars, vars, exceptStep, HostStep
<1>4. CASE ProcessEnds
  BY <1>4 DEF ProcessEnds, Stop, Exits, HostStep
<1> QED
  BY <1>1, <1>2, <1>3, <1>4 DEF LinkNext

-----------------------------------------------------------------------------
(* The tcp port *)

PortInv ==
    /\ enabled \in [Process -> SUBSET Transport]
    /\ step \in [Process -> 0..9]
    /\ \A p, q \in Process :
         /\ "tcp" \in enabled[p] /\ "tcp" \in enabled[q]
         /\ step[p] > 2 /\ step[q] > 2
         => p = q

LEMMA PortInvInit == LinkInit => PortInv
  BY DEF LinkInit, Init, PortInv

LEMMA PortInvStep ==
    ASSUME PortInv, HostStep
    PROVE  PortInv'
<1> USE DEF PortInv
<1>1. CASE UNCHANGED <<step, enabled>>
  BY <1>1
<1>2. ASSUME NEW p \in Process, step' = [step EXCEPT ![p] = 0],
             enabled' = [enabled EXCEPT ![p] = {}]
      PROVE  PortInv'
  BY <1>2
<1>3. ASSUME NEW p \in Process, NEW transports \in Configured,
             step[p] = 1, Advance(p, transports),
             enabled' = [enabled EXCEPT ![p] = transports]
      PROVE  PortInv'
  <2>1. PICK i \in 1..9 :
          /\ step' = [step EXCEPT ![p] = i]
          /\ "tcp" \in transports => i = 2
    BY <1>3, NextInOrder
  <2>2. transports \in SUBSET Transport
    BY TransportAssumption
  <2> QED
    BY <1>3, <2>1, <2>2
<1>4. ASSUME NEW p \in Process, step[p] \notin {1, 2}, Advance(p, enabled[p]),
             UNCHANGED enabled
      PROVE  PortInv'
  <2>1. PICK i \in 1..9 :
          /\ step' = [step EXCEPT ![p] = i] /\ (step[p] = 0 => i = 1)
    BY <1>4, NextInOrder
  <2> QED
    BY <1>4, <2>1
<1>5. ASSUME NEW p \in Process, BindTcp(p) PROVE PortInv'
  <2>1. CASE Exits(p)
    BY <1>2, <2>1 DEF Exits
  <2>2. CASE /\ \A q \in Process \ {p} : ~Past(q, "tcp")
             /\ Advance(p, enabled[p]) /\ UNCHANGED enabled
    <3>1. PICK i \in 1..9 : step' = [step EXCEPT ![p] = i]
      BY <2>2, NextInOrder
    <3>2. \A q \in Process \ {p} : "tcp" \in enabled[q] => ~(step[q] > 2)
      BY <2>2, PlanOfStart, OrderOfStart DEF Past
    <3> QED
      BY <2>2, <3>1, <3>2
  <2> QED
    BY <1>5, <2>1, <2>2 DEF BindTcp, exceptStep
<1> QED
  BY <1>1, <1>2, <1>3, <1>4, <1>5 DEF HostStep

-----------------------------------------------------------------------------
(* The addresses that tasks meet *)

Watching == watched \in Process \cup {None}

\* Every address that is tracked was given by a transport of the process.
Known(p, a) == \E t \in enabled[p] : a \in Names(t) /\ NameFits(a)

\* Why the accepter task of transport t of process p may have ended.
Refusal(p, t) ==
    \E name \in refused[p] :
        /\ name.protocol = t
        /\ \/ t = "bluetooth"
           \/ t = "unix" /\ PathChars[name.data] > 128

\* Before the configuration is read no transport is enabled.
TaskInv ==
    /\ TypeOK /\ Watching
    /\ refused \in [Process -> SUBSET UNION {Names(t) : t \in Transport}]
    /\ \A p \in Process : step[p] <= 1 => enabled[p] = {}
    /\ \A p \in Process : \A a \in tracked[p] : Known(p, a)
    /\ \A p \in Process : contactor[p] # "panicked"
    /\ \A p \in Process :
         step[p] > 6 => \A t \in enabled[p] \ accepters[p] : Refusal(p, t)

\* A name that fits is an address, and one that connect takes.
LEMMA KnownAddress ==
    ASSUME NEW p \in Process, enabled[p] \subseteq Transport, NEW a, Known(p, a)
    PROVE  /\ a \in TransportAddress /\ a.protocol # "bluetooth"
           /\ CanConnect(p, a)
<1>1. PICK t \in enabled[p] : a \in Names(t) /\ NameFits(a)
  BY DEF Known
<1>2. t \in {"tcp", "bluetooth", "unix"}
  BY <1>1 DEF Transport
<1>3. \A part \in Part : <<part>> \in Seq(Part) /\ <<part>>[1] = part
  OBVIOUS
<1>4. CASE t = "tcp"
  <2>1. PICK ip \in Ip, port \in RemotePort :
          a = [address_type |-> "ip", data |-> <<ip>>, protocol |-> "tcp",
               port |-> port]
    BY <1>1, <1>4 DEF Names, TcpNames, BluetoothNames, UnixNames
  <2> QED
    BY <1>1, <1>3, <1>4, <2>1, TransportAssumption
       DEF TransportAddress, CanConnect, TcpConnects, BluetoothConnects,
          UnixConnects, NameFits
<1>5. CASE t = "bluetooth"
  BY <1>1, <1>5, TransportAssumption DEF Names, BluetoothNames, NameFits
<1>6. CASE t = "unix"
  <2>1. PICK path \in SocketName :
          a = [address_type |-> "unix", data |-> path, protocol |-> "unix",
               port |-> None]
    BY <1>1, <1>6 DEF Names, TcpNames, BluetoothNames, UnixNames
  <2> QED
    BY <1>1, <1>6, <2>1, TransportAssumption
       DEF TransportAddress, CanConnect, TcpConnects, BluetoothConnects,
          UnixConnects, NameFits
<1> QED
  BY <1>2, <1>4, <1>5, <1>6

\* Names of tcp fit; those of unix do if the path is not too long.
LEMMA NamesTooLong ==
    ASSUME NEW t \in Transport, NEW name \in Names(t), ~NameFits(name)
    PROVE  /\ name.protocol = t
           /\ \/ t = "bluetooth"
              \/ t = "unix" /\ PathChars[name.data] > 128
<1>1. CASE t = "tcp"
  <2>1. /\ name.address_type = "ip" /\ name.protocol = "tcp"
        /\ \E ip \in Ip : name.data = <<ip>>
    BY <1>1 DEF Names, TcpNames
  <2>2. name.protocol # "unix" /\ name.data[1] \in Ip
    BY <2>1
  <2> QED
    BY <2>1, <2>2, TransportAssumption DEF NameFits, DataFits
<1>2. CASE t = "bluetooth"
  BY <1>2 DEF Names, BluetoothNames
<1>3. CASE t = "unix"
  <2>1. /\ name.address_type = "unix" /\ name.protocol = "unix"
        /\ name.data \in SocketName
    BY <1>3 DEF Names, UnixNames
  <2>2. ~(PathChars[name.data] <= 128) /\ PathChars[name.data] \in Nat
    BY <2>1, TransportAssumption DEF NameFits, DataFits
  <2> QED
    BY <1>3, <2>1, <2>2
<1> QED
  BY <1>1, <1>2, <1>3 DEF Transport

\* What a configuration gives is an address.
LEMMA ParsedAddress ==
    ASSUME NEW text \in SeedText, text # None, from_str(text) # None
    PROVE  from_str(text) \in TransportAddress
<1>1. text \in Seq(Part) /\ Len(text) \in Nat
  BY TransportAssumption, LenProperties
<1>2. /\ Len(text) >= 4
      /\ Fits(text[2], 8) /\ Fits(text[3], 128) /\ Fits(text[4], 8)
      /\ from_str(text) =
           [address_type |-> text[2], data |-> <<text[3]>>,
            protocol |-> text[4],
            port |-> IF Len(text) > 4 THEN PortOf[text[5]] ELSE None]
  BY <1>1 DEF from_str
<1>3. text[2] \in Part /\ text[3] \in Part /\ text[4] \in Part
  BY <1>1, <1>2, ElementOfSeq
<1>4. Len(text) > 4 => text[5] \in Part /\ PortOf[text[5]] \in Port \cup {None}
  BY <1>1, ElementOfSeq, AddressAssumption
<1>5. <<text[3]>> \in Seq(Part)
  BY <1>3
<1> QED
  BY <1>1, <1>2, <1>3, <1>4, <1>5 DEF TransportAddress

LEMMA TaskInvInit == LinkInit => TaskInv
<1>1. Cardinality({}) = 0
  BY FS_EmptySet
<1>2. Len(Order) = 9
  BY OrderOfStart
<1> QED
  BY <1>1, <1>2
     DEF LinkInit, Init, TaskInv, TypeOK, Watching, SocketPath

\* Where the processes are, after a step of p to one of its next places.
LEMMA PlacesTyped ==
    ASSUME TypeOK, NEW p \in Process, NEW transports \in SUBSET Transport,
           Advance(p, transports), enabled' = [enabled EXCEPT ![p] = transports]
    PROVE  /\ enabled' \in [Process -> SUBSET Transport]
           /\ step' \in [Process -> 0..Len(Order)]
           /\ \A q \in Process : step'[q] \in Planned(enabled'[q]) \cup {0}
           /\ \A q \in Process \ {p} : step'[q] = step[q] /\ enabled'[q] = enabled[q]
           /\ step'[p] > step[p]
           /\ step[p] < 6 => step'[p] <= 6
<1>1. step \in [Process -> 0..9] /\ Len(Order) = 9
  BY OrderOfStart DEF TypeOK
<1>2. PICK i \in Planned(transports) :
        /\ i \in 1..9 /\ i > step[p] /\ step' = [step EXCEPT ![p] = i]
        /\ step[p] < 6 => i <= 6
  BY <1>1, NextInOrder
<1> QED
  BY <1>1, <1>2 DEF TypeOK

LEMMA ExitKeeps ==
    ASSUME TaskInv, Watching', NEW p \in Process, Exits(p), UNCHANGED socket
    PROVE  TaskInv'
<1>1. Cardinality({}) = 0 /\ Len(Order) = 9
  BY FS_EmptySet, OrderOfStart
<1>2. /\ TypeOK'
      /\ refused' \in [Process -> SUBSET UNION {Names(t) : t \in Transport}]
  BY <1>1 DEF TaskInv, TypeOK, Exits
<1>3. /\ step'[p] = 0 /\ enabled'[p] = {} /\ tracked'[p] = {}
      /\ contactor'[p] = "none"
      /\ \A q \in Process \ {p} :
           /\ step'[q] = step[q] /\ enabled'[q] = enabled[q]
           /\ tracked'[q] = tracked[q] /\ contactor'[q] = contactor[q]
           /\ accepters'[q] = accepters[q] /\ refused'[q] = refused[q]
  BY DEF TaskInv, TypeOK, Exits
<1> QED
  BY <1>2, <1>3 DEF TaskInv, Known, Refusal

\* A step of the start that leaves the accepters alone.
LEMMA AdvanceKeeps ==
    ASSUME TaskInv, Watching', NEW p \in Process,
           NEW transports \in SUBSET Transport, Advance(p, transports),
           enabled' = [enabled EXCEPT ![p] = transports],
           step[p] # 6, transports = enabled[p] \/ step[p] = 1,
           step[p] = 0 => transports = {},
           socket' \in [SocketPath -> Process \cup {None}],
           known_gateways' \in [Process -> SUBSET TransportAddress],
           \A q \in Process : Cardinality(known_gateways'[q]) <= 1,
           UNCHANGED <<accepters, contactor, tracked, refused>>
    PROVE  TaskInv'
<1>1. /\ enabled' \in [Process -> SUBSET Transport]
      /\ step' \in [Process -> 0..Len(Order)]
      /\ \A q \in Process : step'[q] \in Planned(enabled'[q]) \cup {0}
      /\ \A q \in Process \ {p} : step'[q] = step[q] /\ enabled'[q] = enabled[q]
      /\ step'[p] > step[p]
      /\ step[p] < 6 => step'[p] <= 6
  BY PlacesTyped DEF TaskInv
<1>2. /\ step \in [Process -> 0..9] /\ step' \in [Process -> 0..9]
      /\ enabled'[p] = transports
  BY <1>1, OrderOfStart DEF TaskInv, TypeOK
<1>3. step[p] = 1 => enabled[p] = {} /\ tracked[p] = {} /\ accepters[p] = {}
  <2>1. step[p] = 1 => enabled[p] = {}
    BY DEF TaskInv
  <2>2. accepters[p] \subseteq enabled[p]
    BY DEF TaskInv, TypeOK
  <2>3. \A a \in tracked[p] : Known(p, a)
    BY DEF TaskInv
  <2>4. enabled[p] = {} => \A a : ~Known(p, a)
    BY DEF Known
  <2> QED
    BY <2>1, <2>2, <2>3, <2>4
<1>4. TypeOK'
  BY <1>1, <1>2, <1>3 DEF TaskInv, TypeOK
<1>5. \A q \in Process : step'[q] <= 1 => enabled'[q] = {}
  <2>1. step[p] \in 0..9 /\ step'[p] \in 0..9
    BY <1>2
  <2>2. step'[p] <= 1 => transports = {}
    BY <1>1, <2>1
  <2>3. \A q \in Process \ {p} : step'[q] <= 1 => enabled'[q] = {}
    BY <1>1 DEF TaskInv
  <2> QED
    BY <1>2, <2>2, <2>3
<1>6. \A q \in Process : \A a \in tracked'[q] : Known(q, a)'
  BY <1>1, <1>2, <1>3 DEF TaskInv, Known
<1>7. \A q \in Process :
        step'[q] > 6 => \A t \in enabled'[q] \ accepters'[q] : Refusal(q, t)'
  <2>1. step'[p] > 6 => step[p] > 6 /\ transports = enabled[p]
    <3>1. step[p] \in 0..9 /\ step'[p] \in 0..9
      BY <1>2
    <3> QED
      BY <1>1, <3>1
  <2> QED
    BY <1>1, <1>2, <2>1 DEF TaskInv, Refusal
<1> QED
  BY <1>4, <1>5, <1>6, <1>7 DEF TaskInv

LEMMA TaskSetUp ==
    ASSUME TaskInv, SetUp
    PROVE  TaskInv'
<1>1. Watching'
  BY DEF SetUp, TaskInv, Watching
<1>2. \A p \in Process :
        /\ enabled[p] \in SUBSET Transport
        /\ enabled = [enabled EXCEPT ![p] = enabled[p]]
  BY DEF TaskInv, TypeOK
<1>3. ASSUME NEW p \in Process, Advance(p, enabled[p]), UNCHANGED exceptStep,
             step[p] \notin {1, 6}
      PROVE  TaskInv'
  <2>1. step[p] = 0 => enabled[p] = {}
    BY DEF TaskInv
  <2> QED
    BY <1>1, <1>2, <1>3, <2>1, AdvanceKeeps
       DEF exceptStep, taskVars, TaskInv, TypeOK
<1>4. ASSUME NEW p \in Process, Start(p) PROVE TaskInv'
  BY <1>3, <1>4 DEF Start
<1>5. ASSUME NEW p \in Process, NEW transports \in Configured,
             NEW text \in SeedText, ReadConfig(p, transports, text)
      PROVE  TaskInv'
  <2>1. step[p] = 1 /\ transports \in SUBSET Transport
    BY <1>5, PlaceInOrder, TransportAssumption DEF ReadConfig
  <2>2. CASE Exits(p) /\ UNCHANGED socket
    BY <1>1, <2>2, ExitKeeps
  <2>3. CASE /\ text = None \/ from_str(text) # None
             /\ enabled' = [enabled EXCEPT ![p] = transports]
             /\ known_gateways' = [known_gateways EXCEPT
                                     ![p] = {from_str(text) : x \in {text} \ {None}}]
             /\ Advance(p, transports)
             /\ UNCHANGED <<socket, accepters, contactor, tracked, refused>>
    <3> DEFINE G == {from_str(text) : x \in {text} \ {None}}
    <3>1. G \in SUBSET TransportAddress /\ Cardinality(G) <= 1
      <4>1. CASE text = None
        BY <4>1, FS_EmptySet
      <4>2. CASE text # None
        <5>1. G = {from_str(text)}
          BY <4>2
        <5>2. Cardinality({from_str(text)}) = 1
          BY FS_Singleton
        <5>3. from_str(text) \in TransportAddress
          BY <2>3, <4>2, ParsedAddress
        <5> QED
          BY <5>1, <5>2, <5>3
      <4> QED
        BY <4>1, <4>2
    <3> HIDE DEF G
    <3>2. known_gateways' = [known_gateways EXCEPT ![p] = G]
      BY <2>3 DEF G
    <3>3. /\ known_gateways' \in [Process -> SUBSET TransportAddress]
          /\ \A q \in Process : Cardinality(known_gateways'[q]) <= 1
      BY <3>1, <3>2 DEF TaskInv, TypeOK
    <3>4. socket' \in [SocketPath -> Process \cup {None}]
      BY <2>3 DEF TaskInv, TypeOK
    <3>5. step[p] # 6 /\ step[p] # 0
      BY <2>1
    <3> QED
      BY <1>1, <2>1, <2>3, <3>3, <3>4, <3>5, AdvanceKeeps
  <2> QED
    BY <1>5, <2>2, <2>3 DEF ReadConfig
<1>6. ASSUME NEW p \in Process, BindTcp(p) \/ BindBluetooth(p)
      PROVE  TaskInv'
  <2>1. step[p] \notin {1, 6}
    BY <1>6, PlaceInOrder DEF BindTcp, BindBluetooth
  <2> QED
    BY <1>1, <1>3, <1>6, <2>1, ExitKeeps DEF BindTcp, BindBluetooth
<1>7. ASSUME NEW p \in Process, NEW path \in SocketPath,
             RemoveSocket(p, path) \/ BindSocket(p, path)
      PROVE  TaskInv'
  <2>1. step[p] \notin {0, 1, 6}
    BY <1>7, PlaceInOrder DEF RemoveSocket, BindSocket, BindStep
  <2>2. CASE Exits(p) /\ UNCHANGED socket
    BY <1>1, <2>2, ExitKeeps
  <2>3. CASE /\ Advance(p, enabled[p])
             /\ socket' \in {socket, [socket EXCEPT ![path] = None],
                             [socket EXCEPT ![path] = p]}
             /\ UNCHANGED <<enabled, taskVars>>
    <3>1. socket' \in [SocketPath -> Process \cup {None}]
      BY <2>3 DEF TaskInv, TypeOK
    <3> QED
      BY <1>1, <1>2, <2>1, <2>3, <3>1, AdvanceKeeps
         DEF taskVars, TaskInv, TypeOK
  <2> QED
    BY <1>7, <2>2, <2>3 DEF RemoveSocket, BindSocket
<1>8. ASSUME NEW p \in Process, SpawnTasks(p) PROVE TaskInv'
  <2>1. /\ step[p] = 6 /\ Advance(p, enabled[p])
        /\ accepters' = [accepters EXCEPT ![p] = enabled[p]]
        /\ contactor' = [contactor EXCEPT ![p] = "up"]
        /\ UNCHANGED <<enabled, socket, known_gateways, tracked, refused>>
    BY <1>8, PlaceInOrder DEF SpawnTasks
  <2>2. /\ step' \in [Process -> 0..Len(Order)]
        /\ \A q \in Process : step'[q] \in Planned(enabled'[q]) \cup {0}
        /\ \A q \in Process \ {p} : step'[q] = step[q]
        /\ step'[p] > step[p]
    BY <1>2, <2>1, PlacesTyped DEF TaskInv
  <2>3. TypeOK'
    BY <2>1, <2>2 DEF TaskInv, TypeOK
  <2>4. step'[p] > 6 /\ enabled[p] \ accepters'[p] = {}
    BY <2>1, <2>2 DEF TaskInv, TypeOK
  <2>5. \A q \in Process \ {p} : accepters'[q] = accepters[q]
    BY <2>1 DEF TaskInv, TypeOK
  <2> QED
    BY <1>1, <2>1, <2>2, <2>3, <2>4, <2>5 DEF TaskInv, TypeOK, Known, Refusal
<1>9. ASSUME NEW p \in Process, Stop(p) PROVE TaskInv'
  BY <1>1, <1>9, ExitKeeps DEF Stop
<1> QED
  BY <1>4, <1>5, <1>6, <1>7, <1>8, <1>9 DEF SetUp

LEMMA AcceptKeeps ==
    ASSUME TaskInv, Watching',
           NEW p \in Process, NEW t \in accepters[p], NEW name \in Names(t),
           Accept(p, t, name)
    PROVE  TaskInv'
<1>1. Known(p, name) /\ name \in TransportAddress
  BY KnownAddress DEF Accept, Known, TaskInv, TypeOK
<1>2. /\ tracked' = [tracked EXCEPT ![p] = @ \cup {name}]
      /\ UNCHANGED <<step, enabled, socket, known_gateways, accepters,
                     contactor, refused>>
  BY DEF Accept
<1>3. /\ tracked' \in [Process -> SUBSET TransportAddress]
      /\ \A q \in Process : \A a \in tracked'[q] :
           \/ a \in tracked[q]
           \/ q = p /\ a = name
  BY <1>1, <1>2 DEF TaskInv, TypeOK
<1>4. \A q \in Process : \A a \in tracked'[q] : Known(q, a)'
  BY <1>1, <1>2, <1>3 DEF TaskInv, Known
<1>5. TypeOK'
  BY <1>2, <1>3 DEF TaskInv, TypeOK
<1>6. \A q \in Process, u \in Transport : Refusal(q, u) = Refusal(q, u)'
  BY <1>2 DEF Refusal
<1> QED
  BY <1>2, <1>4, <1>5, <1>6 DEF TaskInv, TypeOK

LEMMA AcceptPanicsKeeps ==
    ASSUME TaskInv, Watching',
           NEW p \in Process, NEW t \in accepters[p], NEW name \in Names(t),
           AcceptPanics(p, t, name)
    PROVE  TaskInv'
<1>1. t \in Transport
  BY DEF TaskInv, TypeOK
<1>2. /\ name.protocol = t
      /\ \/ t = "bluetooth"
         \/ t = "unix" /\ PathChars[name.data] > 128
  BY <1>1, NamesTooLong DEF AcceptPanics
<1>3. /\ accepters' = [accepters EXCEPT ![p] = @ \ {t}]
      /\ refused' = [refused EXCEPT ![p] = @ \cup {name}]
      /\ UNCHANGED <<step, enabled, socket, known_gateways, contactor, tracked>>
  BY DEF AcceptPanics
<1>4. name \in UNION {Names(u) : u \in Transport}
  BY <1>1
<1>5. /\ refused' \in [Process -> SUBSET UNION {Names(u) : u \in Transport}]
      /\ refused'[p] = refused[p] \cup {name}
      /\ \A q \in Process \ {p} : refused'[q] = refused[q]
  BY <1>3, <1>4 DEF TaskInv
<1>6. /\ accepters' \in [Process -> SUBSET Transport]
      /\ accepters'[p] = accepters[p] \ {t}
      /\ \A q \in Process \ {p} : accepters'[q] = accepters[q]
  BY <1>3 DEF TaskInv, TypeOK
<1>7. TypeOK'
  BY <1>3, <1>6 DEF TaskInv, TypeOK
<1>8. \A q \in Process :
        step'[q] > 6 => \A u \in enabled'[q] \ accepters'[q] : Refusal(q, u)'
  <2>1. Refusal(p, t)'
    BY <1>2, <1>5 DEF Refusal
  <2>2. \A q \in Process, u \in Transport : Refusal(q, u) => Refusal(q, u)'
    BY <1>5 DEF Refusal
  <2> QED
    BY <1>3, <1>6, <2>1, <2>2 DEF TaskInv, TypeOK
<1> QED
  BY <1>3, <1>5, <1>7, <1>8 DEF TaskInv, Known

LEMMA DialKeeps ==
    ASSUME TaskInv, Watching',
           NEW p \in Process, NEW a \in known_gateways[p], Dial(p, a)
    PROVE  TaskInv'
<1>1. a \in tracked[p] /\ CanConnect(p, a)
  BY KnownAddress DEF Dial, Candidates, TaskInv, TypeOK
<1>2. /\ tracked' = [tracked EXCEPT ![p] = @ \cup {a}]
      /\ UNCHANGED <<step, enabled, socket, known_gateways, accepters,
                     contactor, refused>>
  BY <1>1 DEF Dial
<1>3. tracked' = tracked
  BY <1>1, <1>2 DEF TaskInv, TypeOK
<1>4. TypeOK'
  BY <1>2, <1>3 DEF TaskInv, TypeOK
<1>5. \A q \in Process : \A b \in tracked'[q] : Known(q, b)'
  BY <1>2, <1>3 DEF TaskInv, Known
<1>6. \A q \in Process, u \in Transport : Refusal(q, u) = Refusal(q, u)'
  BY <1>2 DEF Refusal
<1> QED
  BY <1>2, <1>4, <1>5, <1>6 DEF TaskInv, TypeOK

LEMMA TaskInvStep ==
    ASSUME TaskInv, [LinkNext]_linkVars
    PROVE  TaskInv'
<1>1. CASE SetUp
  BY <1>1, TaskSetUp
<1>2. ASSUME UNCHANGED vars, Watching' PROVE TaskInv'
  BY <1>2 DEF vars, exceptStep, taskVars, TaskInv, TypeOK, Known, Refusal
<1>3. CASE OtherLink
  <2>1. Watching'
    BY <1>3 DEF OtherLink, Watching, TaskInv
  <2>2. ASSUME NEW p \in Process, AcceptUnnamed(p) PROVE TaskInv'
    BY <1>2, <2>1, <2>2 DEF AcceptUnnamed, UnnamedDropped
  <2> QED
    BY <1>3, <2>1, <2>2, AcceptKeeps, AcceptPanicsKeeps, DialKeeps DEF OtherLink
<1>4. CASE Open
  <2>1. Watching'
    BY <1>4 DEF Open, Watching
  <2> QED
    BY <1>4, <2>1, AcceptKeeps, DialKeeps DEF Open
<1>5. CASE OpenUnnamed
  BY <1>2, <1>5 DEF OpenUnnamed, AcceptUnnamed, UnnamedDropped, Watching
<1>6. CASE Transfer \/ UNCHANGED linkVars
  BY <1>2, <1>6 DEF Transfer, linkVars, TaskInv, Watching
<1>7. CASE ProcessEnds
  BY <1>7, ExitKeeps DEF ProcessEnds, Stop, TaskInv, Watching
<1> QED
  BY <1>1, <1>3, <1>4, <1>5, <1>6, <1>7 DEF LinkNext

LEMMA TaskInvariant == LinkSpec => []TaskInv
<1>1. TaskInv /\ [LinkNext]_linkVars => TaskInv'
  BY TaskInvStep
<1> QED
  BY <1>1, TaskInvInit, PTL DEF LinkSpec

LEMMA PortInvariant == LinkSpec => []PortInv
<1>1. PortInv /\ TaskInv /\ [LinkNext]_linkVars => PortInv'
  BY PortInvStep, LinkStepOfHost DEF TaskInv, Watching
<1> QED
  BY <1>1, PortInvInit, TaskInvariant, PTL DEF LinkSpec

-----------------------------------------------------------------------------
(* The socket files *)

\* Only a process that has passed the step of the tcp port touches a socket.
LEMMA SocketStep ==
    ASSUME TypeOK, Watching, [LinkNext]_linkVars, socket' # socket
    PROVE  \E q \in Process, path \in SocketPath :
             /\ step[q] \in IF path = "unix" THEN {4, 5} ELSE {7, 8}
             /\ step'[q] # step[q]
             /\ \/ socket' = [socket EXCEPT ![path] = None]
                \/ socket' = [socket EXCEPT ![path] = q]
<1>1. PICK q \in Process, path \in SocketPath :
        RemoveSocket(q, path) \/ BindSocket(q, path)
  <2>1. SetUp
    BY DEF LinkNext, linkVars, vars, exceptStep, OtherLink, Open, OpenUnnamed,
       Transfer, ProcessEnds, Accept, AcceptPanics, Dial, AcceptUnnamed,
       UnnamedDropped, Stop, Watching
  <2> QED
    BY <2>1 DEF SetUp, Start, BindTcp, BindBluetooth, SpawnTasks, Stop,
       ReadConfig, exceptStep
<1>2. /\ Advance(q, enabled[q])
      /\ \/ socket' = [socket EXCEPT ![path] = None]
         \/ socket' = [socket EXCEPT ![path] = q]
  BY <1>1 DEF RemoveSocket, BindSocket
<1>3. step[q] \in IF path = "unix" THEN {4, 5} ELSE {7, 8}
  BY <1>1, PlaceInOrder DEF RemoveSocket, BindSocket, BindStep, SocketPath
<1>4. step'[q] # step[q]
  <2>1. step \in [Process -> 0..9]
    BY OrderOfStart DEF TypeOK
  <2> QED
    BY <1>2, <2>1, NextInOrder
<1> QED
  BY <1>2, <1>3, <1>4

-----------------------------------------------------------------------------
(* The texts of addresses *)

\* Short texts, joined part by part.
LEMMA Joined ==
    ASSUME NEW u, NEW v, NEW w, NEW x, NEW y
    PROVE  /\ <<u, v>> \o <<w>> \o <<x>> \o <<>> = <<u, v, w, x>>
           /\ <<u, v>> \o <<w>> \o <<x>> \o <<y>> = <<u, v, w, x, y>>
<1> DEFINE S == {u, v, w, x, y}
<1> u \in S /\ v \in S /\ w \in S /\ x \in S /\ y \in S
  OBVIOUS
<1> HIDE DEF S
<1>1. <<u, v>> \o <<w>> = <<u, v, w>>
  <2>1. <<u, v>> \in Seq(S) /\ <<u, v, w>> \in Seq(S)
    OBVIOUS
  <2>2. <<u, v>> \o <<w>> = Append(<<u, v>>, w)
    BY <2>1, AppendIsConcat
  <2>3. /\ Append(<<u, v>>, w) \in Seq(S)
        /\ Len(Append(<<u, v>>, w)) = 3
        /\ \A i \in 1..3 : Append(<<u, v>>, w)[i] = <<u, v, w>>[i]
    BY <2>1, AppendProperties
  <2> QED
    BY <2>1, <2>2, <2>3, SeqEqual
<1>2. <<u, v, w>> \o <<x>> = <<u, v, w, x>>
  <2>1. <<u, v, w>> \in Seq(S) /\ <<u, v, w, x>> \in Seq(S)
    OBVIOUS
  <2>2. <<u, v, w>> \o <<x>> = Append(<<u, v, w>>, x)
    BY <2>1, AppendIsConcat
  <2>3. /\ Append(<<u, v, w>>, x) \in Seq(S)
        /\ Len(Append(<<u, v, w>>, x)) = 4
        /\ \A i \in 1..4 : Append(<<u, v, w>>, x)[i] = <<u, v, w, x>>[i]
    BY <2>1, AppendProperties
  <2> QED
    BY <2>1, <2>2, <2>3, SeqEqual
<1>3. <<u, v, w, x>> \o <<y>> = <<u, v, w, x, y>>
  <2>1. <<u, v, w, x>> \in Seq(S) /\ <<u, v, w, x, y>> \in Seq(S)
    OBVIOUS
  <2>2. <<u, v, w, x>> \o <<y>> = Append(<<u, v, w, x>>, y)
    BY <2>1, AppendIsConcat
  <2>3. /\ Append(<<u, v, w, x>>, y) \in Seq(S)
        /\ Len(Append(<<u, v, w, x>>, y)) = 5
        /\ \A i \in 1..5 : Append(<<u, v, w, x>>, y)[i] = <<u, v, w, x, y>>[i]
    BY <2>1, AppendProperties
  <2> QED
    BY <2>1, <2>2, <2>3, SeqEqual
<1>4. <<u, v, w, x>> \o <<>> = <<u, v, w, x>>
  <2>1. <<u, v, w, x>> \in Seq(S)
    OBVIOUS
  <2> QED
    BY <2>1, ConcatEmptySeq
<1> QED
  BY <1>1, <1>2, <1>3, <1>4

\* Data of one part.
LEMMA OnePart ==
    ASSUME NEW a \in TransportAddress, Len(a.data) = 1
    PROVE  a.data[1] \in Part /\ a.data = <<a.data[1]>>
<1>1. a.data \in Seq(Part)
  BY DEF TransportAddress
<1>2. a.data[1] \in Part
  BY <1>1, ElementOfSeq
<1>3. /\ <<a.data[1]>> \in Seq(Part) /\ Len(<<a.data[1]>>) = 1
      /\ <<a.data[1]>>[1] = a.data[1]
  BY <1>2
<1>4. \A i \in 1..Len(a.data) : a.data[i] = <<a.data[1]>>[i]
  BY <1>3
<1> QED
  BY <1>1, <1>2, <1>3, <1>4, SeqEqual

\* The parts of the text of an address; from_str does not look at the first.
LEMMA DisplayedParts ==
    ASSUME NEW a \in TransportAddress, Len(a.data) = 1
    PROVE  \E first :
             Display(a) =
               IF a.port = None
                 THEN <<first, a.address_type, a.data[1], a.protocol>>
                 ELSE <<first, a.address_type, a.data[1], a.protocol,
                        Decimal[a.port]>>
<1>1. PICK first : first = ""
  OBVIOUS
<1> DEFINE Front == <<first, a.address_type>> \o <<a.data[1]>> \o <<a.protocol>>
<1>2. Display(a) =
        Front \o (IF a.port = None THEN <<>> ELSE <<Decimal[a.port]>>)
  BY <1>1, OnePart, Zenon DEF Display
<1>3. CASE a.port = None
  <2>1. Front \o <<>> = <<first, a.address_type, a.data[1], a.protocol>>
    BY Joined
  <2> QED
    BY <1>2, <1>3, <2>1
<1>4. CASE a.port # None
  <2>1. Front \o <<Decimal[a.port]>> =
          <<first, a.address_type, a.data[1], a.protocol, Decimal[a.port]>>
    BY Joined
  <2> QED
    BY <1>2, <1>4, <2>1
<1> QED
  BY <1>3, <1>4

\* A text that parses has one part for the data.
LEMMA ParsedData ==
    ASSUME NEW text, from_str(text) # None
    PROVE  Len(from_str(text).data) = 1
  BY DEF from_str

\* An address reads back from its text if its data is one part that fits, and
\* no address of several parts, or of none, does.
LEMMA ReadBack ==
    ASSUME NEW a \in TransportAddress, Len(a.data) = 1 => Fits(a.data[1], 128)
    PROVE  from_str(Display(a)) = a <=> Len(a.data) = 1
<1>1. ASSUME from_str(Display(a)) = a PROVE Len(a.data) = 1
  BY <1>1, NoAddressAssumption, ParsedData
<1>2. ASSUME Len(a.data) = 1 PROVE from_str(Display(a)) = a
  <2> DEFINE text == Display(a)
  <2>1. /\ Len(text) = IF a.port = None THEN 4 ELSE 5
        /\ text[2] = a.address_type /\ text[3] = a.data[1]
        /\ text[4] = a.protocol
        /\ a.port # None => text[5] = Decimal[a.port]
    <3>1. CASE a.port = None
      BY <1>2, <3>1, DisplayedParts
    <3>2. CASE a.port # None
      BY <1>2, <3>2, DisplayedParts
    <3> QED
      BY <3>1, <3>2
  <2>2. /\ Fits(a.address_type, 8) /\ Fits(a.protocol, 8) /\ a.data \in Seq(Part)
        /\ a = [address_type |-> a.address_type, data |-> a.data,
                protocol |-> a.protocol, port |-> a.port]
    BY DEF TransportAddress
  <2>3. a.port # None => PortOf[Decimal[a.port]] = a.port
    BY AddressAssumption DEF TransportAddress
  <2>4. a.data = <<a.data[1]>>
    <3>1. a.data[1] \in Part
      BY <1>2, <2>2, ElementOfSeq
    <3> QED
      BY <1>2, <2>2, <3>1, SeqEqual
  <2> HIDE DEF text
  <2>5. from_str(text) =
          [address_type |-> a.address_type, data |-> <<a.data[1]>>,
           protocol |-> a.protocol, port |-> a.port]
    BY <1>2, <2>1, <2>2, <2>3 DEF from_str
  <2> QED
    BY <2>2, <2>4, <2>5 DEF text
<1> QED
  BY <1>1, <1>2

\* The text of a name that fits has no part that is too long.
LEMMA KnownFits ==
    ASSUME NEW p \in Process, enabled[p] \subseteq Transport,
           NEW a, Known(p, a), Len(a.data) = 1
    PROVE  Fits(a.data[1], 128)
<1>1. PICK t \in enabled[p] : a \in Names(t) /\ NameFits(a)
  BY DEF Known
<1>2. t \in {"tcp", "bluetooth", "unix"}
  BY <1>1 DEF Transport
<1>3. CASE t = "tcp"
  BY <1>1, <1>3, TransportAssumption DEF Names, TcpNames
<1>4. CASE t = "bluetooth"
  BY <1>1, <1>4, TransportAssumption DEF Names, BluetoothNames
<1>5. CASE t = "unix"
  <2>1. /\ a.data \in SocketName /\ 1 \in 1..Len(a.data)
        /\ PathChars[a.data] <= 128
    BY <1>1, <1>5 DEF Names, UnixNames, NameFits, DataFits
  <2>2. /\ Chars[a.data[1]] <= PathChars[a.data]
        /\ PathChars[a.data] \in Nat /\ a.data \in Seq(Part)
    BY <2>1, TransportAssumption
  <2>3. Chars[a.data[1]] \in Nat
    BY <2>1, <2>2, ElementOfSeq, AddressAssumption
  <2> QED
    BY <2>1, <2>2, <2>3 DEF Fits
<1> QED
  BY <1>2, <1>3, <1>4, <1>5

-----------------------------------------------------------------------------
(* The gateways *)

\* A gateway was read from a text: its data is one part, and fits.
GatewayInv ==
    \A p \in Process : \A a \in known_gateways[p] :
        Len(a.data) = 1 /\ Fits(a.data[1], 128)

\* What a step does to the gateways.
GatewayStep ==
    \/ UNCHANGED known_gateways
    \/ \E p \in Process : known_gateways' = [known_gateways EXCEPT ![p] = {}]
    \/ \E p \in Process, text \in SeedText :
         /\ from_str(text) # None
         /\ known_gateways' = [known_gateways EXCEPT ![p] = {from_str(text)}]

LEMMA LinkStepOfGateways ==
    ASSUME [LinkNext]_linkVars, Watching
    PROVE  GatewayStep
<1> USE DEF GatewayStep, Exits, exceptStep, taskVars
<1>1. CASE SetUp
  <2>1. ASSUME NEW p \in Process,
               \/ Start(p) \/ BindTcp(p) \/ BindBluetooth(p) \/ SpawnTasks(p)
               \/ Stop(p)
               \/ \E transports \in Configured, text \in SeedText :
                    ReadConfig(p, transports, text)
               \/ \E path \in SocketPath :
                    RemoveSocket(p, path) \/ BindSocket(p, path)
        PROVE  GatewayStep
    <3>1. ASSUME NEW transports \in Configured, NEW text \in SeedText,
                 ReadConfig(p, transports, text)
          PROVE  GatewayStep
      <4>1. CASE text = None
        BY <3>1, <4>1 DEF ReadConfig
      <4>2. CASE text # None
        <5>1. {from_str(text) : x \in {text} \ {None}} = {from_str(text)}
          BY <4>2
        <5> QED
          BY <3>1, <4>2, <5>1 DEF ReadConfig
      <4> QED
        BY <4>1, <4>2
    <3> QED
      BY <2>1, <3>1 DEF Start, BindTcp, BindBluetooth, SpawnTasks, Stop,
         RemoveSocket, BindSocket
  <2> QED
    BY <1>1, <2>1 DEF SetUp
<1>2. CASE OtherLink \/ Open \/ OpenUnnamed
  BY <1>2 DEF OtherLink, Open, OpenUnnamed, Accept, AcceptPanics, Dial,
     AcceptUnnamed, UnnamedDropped, vars
<1>3. CASE Transfer \/ UNCHANGED linkVars
  BY <1>3 DEF Transfer, linkVars, vars
<1>4. CASE ProcessEnds
  BY <1>4 DEF ProcessEnds, Stop, Watching
<1> QED
  BY <1>1, <1>2, <1>3, <1>4 DEF LinkNext

LEMMA GatewayInvStep ==
    ASSUME GatewayInv, TypeOK, GatewayStep
    PROVE  GatewayInv'
<1>1. ASSUME NEW p \in Process, NEW text \in SeedText, from_str(text) # None,
             known_gateways' = [known_gateways EXCEPT ![p] = {from_str(text)}]
      PROVE  GatewayInv'
  <2>1. Len(from_str(text).data) = 1 /\ Fits(from_str(text).data[1], 128)
    BY <1>1 DEF from_str
  <2> QED
    BY <1>1, <2>1 DEF GatewayInv, TypeOK
<1>2. CASE UNCHANGED known_gateways
  BY <1>2 DEF GatewayInv
<1>3. ASSUME NEW p \in Process,
             known_gateways' = [known_gateways EXCEPT ![p] = {}]
      PROVE  GatewayInv'
  BY <1>3 DEF GatewayInv, TypeOK
<1> QED
  BY <1>1, <1>2, <1>3 DEF GatewayStep

LEMMA GatewayInvariant == LinkSpec => []GatewayInv
<1>1. LinkInit => GatewayInv
  BY DEF LinkInit, Init, GatewayInv
<1>2. GatewayInv /\ TaskInv /\ [LinkNext]_linkVars => GatewayInv'
  BY GatewayInvStep, LinkStepOfGateways DEF TaskInv
<1> QED
  BY <1>1, <1>2, TaskInvariant, PTL DEF LinkSpec

-----------------------------------------------------------------------------
(* The properties *)

\* The state of the router processes keeps its types.
THEOREM HostTyped == LinkSpec => []TypeOK
<1>1. TaskInv => TypeOK
  BY DEF TaskInv
<1> QED
  BY <1>1, TaskInvariant, PTL

\* No gateway in any configuration ends the contactor task.
THEOREM NoPanicOfContactor == LinkSpec => []ContactorSurvives
<1>1. TaskInv => ContactorSurvives
  BY DEF TaskInv, ContactorSurvives
<1> QED
  BY <1>1, TaskInvariant, PTL

\* No remote ends an accepter task of tcp, and one of unix only by a path that
\* is too long; no link of bluetooth is ever made.
THEOREM NoOtherPanicOfAccepters == LinkSpec => []AcceptersFallByNames
<1>1. ASSUME TaskInv, NEW p \in Process
      PROVE  /\ Past(p, "spawn") =>
                  \A t \in enabled[p] \ accepters[p] : Refusal(p, t)
             /\ \A a \in tracked[p] : a.protocol # "bluetooth"
  <2>1. enabled[p] \subseteq Transport
    BY <1>1 DEF TaskInv, TypeOK
  <2> QED
    BY <1>1, <2>1, PlaceInOrder, KnownAddress DEF TaskInv
<1>2. TaskInv => AcceptersFallByNames
  BY <1>1 DEF AcceptersFallByNames, Refusal
<1> QED
  BY <1>2, TaskInvariant, PTL

\* A process that listens on the tcp port keeps its socket files, and the way to
\* them, from all processes that also want the port, however many are started
\* and stopped; whoever takes them was configured without tcp.
THEOREM PortKeepsSockets == LinkSpec => TcpKeepsSockets
<1> DEFINE Kept ==
      \A p \in Process, path \in SocketPath :
        /\ Claims(p, path) /\ "tcp" \in enabled[p]
        /\ socket'[path] \notin {socket[path], p}
        => \E q \in Process \ {p} : "tcp" \notin enabled[q] /\ step'[q] # step[q]
<1>1. ASSUME TaskInv, PortInv, [LinkNext]_linkVars,
             NEW p \in Process, NEW path \in SocketPath,
             Claims(p, path), "tcp" \in enabled[p],
             socket'[path] \notin {socket[path], p}
      PROVE  \E q \in Process \ {p} :
               "tcp" \notin enabled[q] /\ step'[q] # step[q]
  <2>1. PICK q \in Process, changed \in SocketPath :
          /\ step[q] \in IF changed = "unix" THEN {4, 5} ELSE {7, 8}
          /\ step'[q] # step[q]
          /\ \/ socket' = [socket EXCEPT ![changed] = None]
             \/ socket' = [socket EXCEPT ![changed] = q]
    BY <1>1, SocketStep DEF TaskInv
  <2>2. socket \in [SocketPath -> Process \cup {None}]
    BY <1>1 DEF TaskInv, TypeOK
  <2>3. changed = path /\ socket'[path] \in {None, q}
    BY <1>1, <2>1, <2>2
  <2>4. step[p] \in 0..9 /\ step[q] \in 0..9
    BY <1>1 DEF PortInv
  <2>5. CASE At(p, BindStep(path)) /\ socket[path] = None
    <3>1. q # p
      BY <1>1, <2>3, <2>5
    <3>2. step[p] > 2
      BY <2>5, <2>4, PlaceInOrder DEF BindStep
    <3> QED
      BY <1>1, <2>1, <2>4, <3>1, <3>2 DEF PortInv
  <2>6. CASE Past(p, BindStep(path)) /\ socket[path] = p
    <3>1. step[p] > IF path = "unix" THEN 5 ELSE 8
      BY <2>6, PlaceInOrder DEF BindStep
    <3>2. q # p
      BY <2>1, <2>3, <2>4, <3>1
    <3> QED
      BY <1>1, <2>1, <2>4, <3>1, <3>2 DEF PortInv
  <2> QED
    BY <1>1, <2>5, <2>6 DEF Claims
<1>2. TaskInv /\ PortInv /\ [LinkNext]_linkVars => [Kept]_vars
  BY <1>1
<1> QED
  BY <1>2, TaskInvariant, PortInvariant, PTL DEF LinkSpec, TcpKeepsSockets

\* The address of a gateway always reads back from its text as itself, and so
\* does the name of every link that a transport accepts, unless it is a path.
THEOREM TextReadsBack == LinkSpec => []TextNamesAddress
<1>1. ASSUME TaskInv, GatewayInv, NEW p \in Process,
             NEW a \in known_gateways[p] \cup tracked[p]
      PROVE  from_str(Display(a)) = a <=> Len(a.data) = 1
  <2>1. a \in TransportAddress
    BY <1>1 DEF TaskInv, TypeOK
  <2>2. Len(a.data) = 1 => Fits(a.data[1], 128)
    BY <1>1, KnownFits DEF TaskInv, TypeOK, GatewayInv
  <2> QED
    BY <2>1, <2>2, ReadBack
<1>2. TaskInv /\ GatewayInv => TextNamesAddress
  BY <1>1 DEF TextNamesAddress
<1> QED
  BY <1>2, TaskInvariant, GatewayInvariant, PTL

=============================================================================
