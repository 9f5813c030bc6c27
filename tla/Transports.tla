----------------------------- MODULE Transports -----------------------------
(***************************************************************************)
(* The router program on one host, from its configuration to its links:    *)
(* main.rs, P2PCommunicatorBuilder::build, and what the three transports   *)
(* make of their sockets, of the addresses of the remotes they accept and  *)
(* of the addresses they are told to connect to.  Several processes of the *)
(* program may be started, stop at any point and be started again.         *)
(*                                                                         *)
(* A panic in the start ends the process, a panic in a task only the task. *)
(***************************************************************************)
EXTENDS TransportAddress, FiniteSets

CONSTANTS
    Process,
    Configured,     \* values a configuration may give to enabled_transports
    SeedText,       \* texts a configuration may give as seed_node, or None
    Ip,             \* parts that parse as an IpAddr
    RemotePort,     \* ports the kernel shows for an accepted tcp peer
    BluetoothName,  \* addresses of bluetooth devices
    SocketName,     \* paths that a connecting unix socket is bound to
    PathChars       \* length of the text that to_string_lossy makes of a path

Transport == {"tcp", "bluetooth", "unix"}

ASSUME TransportAssumption ==
    /\ Configured \subseteq SUBSET Transport
    /\ {"ip", "tcp", "bluetooth", "unix"} \cup Ip \cup BluetoothName \subseteq Part
    /\ RemotePort \subseteq Port
    /\ SocketName \subseteq Seq(Part)
    /\ SeedText \ {None} \subseteq Seq(Part)
    /\ \A s \in {"ip", "tcp", "unix"} : Fits(s, 8)
    /\ ~Fits("bluetooth", 8)
    \* 128 bytes are enough for the text of an IpAddr or of a bluetooth device.
    \* They are not for every path: a sun_path has 108 bytes, but each that is
    \* not UTF-8 becomes three.
    /\ \A s \in Ip \cup BluetoothName : Fits(s, 128)
    /\ PathChars \in [SocketName -> Nat]
    /\ \A path \in SocketName : \A i \in 1..Len(path) :
            Chars[path[i]] <= PathChars[path]
    /\ None \notin Process

VARIABLES
    step,           \* process -> its place in Order, 0 when it does not run
    enabled,        \* process -> enabled_transports of its configuration
    socket,         \* path of a socket file -> process that bound it, or None
    known_gateways, \* process -> its gateways
    accepters,      \* process -> transports whose accepter task runs
    contactor,      \* process -> state of the gateway contactor task
    tracked,        \* process -> addresses it has had a link with
    refused         \* history: process -> names that did not fit an address

taskVars == <<known_gateways, accepters, contactor, tracked, refused>>
exceptStep == <<enabled, socket, taskVars>>
vars == <<step, exceptStep>>

SocketPath == {"unix", "router"}

-----------------------------------------------------------------------------
(* The order of a start *)

\* Mutant: the unix socket is made before the tcp port is taken.
OrderUnixFirst ==
    <<"config", "unix_remove", "unix_bind", "tcp", "bluetooth", "spawn",
      "router_remove", "router_bind", "serve">>

\* The configuration is read; the transports are made in the order in which
\* main adds them; the tasks are spawned; and after a sleep main makes the
\* socket of the router itself.
Order ==
    <<"config", "tcp", "bluetooth", "unix_remove", "unix_bind", "spawn",
      "router_remove", "router_bind", "serve">>

\* The steps of the transports that are not enabled are left out.
Planned(transports) ==
    {i \in 1..Len(Order) :
        /\ Order[i] \in {"tcp", "bluetooth"} => Order[i] \in transports
        /\ Order[i] \in {"unix_remove", "unix_bind"} => "unix" \in transports}

At(p, s) == \E i \in Planned(enabled[p]) : step[p] = i /\ Order[i] = s

Past(p, s) == \E i \in Planned(enabled[p]) : i < step[p] /\ Order[i] = s

\* To the next of the steps that these transports need.
Advance(p, transports) ==
    \E i \in Planned(transports) :
        /\ i > step[p] /\ \A j \in Planned(transports) : j > step[p] => i <= j
        /\ step' = [step EXCEPT ![p] = i]

\* The process ends: its ports are free, its socket files stay.
Exits(p) ==
    /\ step' = [step EXCEPT ![p] = 0]
    /\ enabled' = [enabled EXCEPT ![p] = {}]
    /\ known_gateways' = [known_gateways EXCEPT ![p] = {}]
    /\ accepters' = [accepters EXCEPT ![p] = {}]
    /\ contactor' = [contactor EXCEPT ![p] = "none"]
    /\ tracked' = [tracked EXCEPT ![p] = {}]
    /\ refused' = [refused EXCEPT ![p] = {}]

TypeOK ==
    /\ enabled \in [Process -> SUBSET Transport]
    /\ step \in [Process -> 0..Len(Order)]
    /\ \A p \in Process : step[p] \in Planned(enabled[p]) \cup {0}
    /\ socket \in [SocketPath -> Process \cup {None}]
    /\ known_gateways \in [Process -> SUBSET TransportAddress]
    /\ \A p \in Process : Cardinality(known_gateways[p]) <= 1
    /\ tracked \in [Process -> SUBSET TransportAddress]
    /\ accepters \in [Process -> SUBSET Transport]
    /\ \A p \in Process : accepters[p] \subseteq enabled[p]
    /\ contactor \in [Process -> {"none", "up", "panicked"}]

Init ==
    /\ step = [p \in Process |-> 0]
    /\ enabled = [p \in Process |-> {}]
    /\ socket = [path \in SocketPath |-> None]
    /\ known_gateways = [p \in Process |-> {}]
    /\ accepters = [p \in Process |-> {}]
    /\ contactor = [p \in Process |-> "none"]
    /\ tracked = [p \in Process |-> {}]
    /\ refused = [p \in Process |-> {}]

-----------------------------------------------------------------------------
(* The start *)

Start(p) ==
    /\ step[p] = 0
    /\ Advance(p, enabled[p])
    /\ UNCHANGED exceptStep

\* Each process reads the file that its --config-path names.  A seed node that
\* does not parse is an error of the whole configuration.
ReadConfig(p, transports, text) ==
    /\ At(p, "config")
    /\ IF text # None /\ from_str(text) = None
         THEN Exits(p) /\ UNCHANGED socket
         ELSE /\ enabled' = [enabled EXCEPT ![p] = transports]
              /\ known_gateways' = [known_gateways EXCEPT
                                      ![p] = {from_str(text) : x \in {text} \ {None}}]
              /\ Advance(p, transports)
              /\ UNCHANGED <<socket, accepters, contactor, tracked, refused>>

\* One process can listen on the port of the host, and none while links of
\* a process that stopped linger.
BindTcp(p) ==
    /\ At(p, "tcp")
    /\ \/ /\ \A q \in Process \ {p} : ~Past(q, "tcp")
          /\ Advance(p, enabled[p]) /\ UNCHANGED exceptStep
       \/ Exits(p) /\ UNCHANGED socket

\* There may be no adapter.
BindBluetooth(p) ==
    /\ At(p, "bluetooth")
    /\ \/ Advance(p, enabled[p]) /\ UNCHANGED exceptStep
       \/ Exits(p) /\ UNCHANGED socket

\* remove_file(..).await with its result ignored, for the unix transport and
\* for the router's own socket: it may have failed, and left the file.
RemoveSocket(p, path) ==
    /\ At(p, IF path = "unix" THEN "unix_remove" ELSE "router_remove")
    /\ socket' \in {socket, [socket EXCEPT ![path] = None]}
    /\ Advance(p, enabled[p])
    /\ UNCHANGED <<enabled, taskVars>>

BindStep(path) == IF path = "unix" THEN "unix_bind" ELSE "router_bind"

\* bind(..).unwrap(), which fails where there is a file.
BindSocket(p, path) ==
    /\ At(p, BindStep(path))
    /\ IF socket[path] # None
         THEN Exits(p) /\ UNCHANGED socket
         ELSE /\ socket' = [socket EXCEPT ![path] = p]
              /\ Advance(p, enabled[p])
              /\ UNCHANGED <<enabled, taskVars>>

SpawnTasks(p) ==
    /\ At(p, "spawn")
    /\ accepters' = [accepters EXCEPT ![p] = enabled[p]]
    /\ contactor' = [contactor EXCEPT ![p] = "up"]
    /\ Advance(p, enabled[p])
    /\ UNCHANGED <<enabled, socket, known_gateways, tracked, refused>>

Stop(p) == step[p] # 0 /\ Exits(p) /\ UNCHANGED socket

-----------------------------------------------------------------------------
(* Accepting and connecting *)

\* What accept of each transport makes of the remote's socket address.
TcpNames ==
    [address_type : {"ip"}, data : {<<ip>> : ip \in Ip}, protocol : {"tcp"},
     port : RemotePort]

BluetoothNames ==
    [address_type : {"bluetooth"}, data : {<<b>> : b \in BluetoothName},
     protocol : {"bluetooth"}, port : RemotePort]

UnixNames ==
    [address_type : {"unix"}, data : SocketName, protocol : {"unix"},
     port : {None}]

Names(t) == CASE t = "tcp" -> TcpNames
              [] t = "bluetooth" -> BluetoothNames
              [] t = "unix" -> UnixNames

DataFits(name) ==
    IF name.protocol = "unix" THEN PathChars[name.data] <= 128
                              ELSE Fits(name.data[1], 128)

\* try_into().unwrap() to the three fields of the address.
NameFits(name) ==
    Fits(name.address_type, 8) /\ Fits(name.protocol, 8) /\ DataFits(name)

\* accept returned a link with this name, which is tracked from then on.
Accept(p, t, name) ==
    /\ t \in accepters[p] /\ name \in Names(t)
    /\ NameFits(name)
    /\ tracked' = [tracked EXCEPT ![p] = @ \cup {name}]
    /\ UNCHANGED <<step, enabled, socket, known_gateways, accepters, contactor,
                   refused>>

AcceptPanics(p, t, name) ==
    /\ t \in accepters[p] /\ name \in Names(t)
    /\ ~NameFits(name)
    /\ accepters' = [accepters EXCEPT ![p] = @ \ {t}]
    /\ refused' = [refused EXCEPT ![p] = @ \cup {name}]
    /\ UNCHANGED <<step, enabled, socket, known_gateways, contactor, tracked>>

\* Mutant: the name of a unix socket is unwrapped.
UnnamedUnwrapped(p) ==
    /\ accepters' = [accepters EXCEPT ![p] = @ \ {"unix"}]
    /\ UNCHANGED <<step, enabled, socket, known_gateways, contactor, tracked,
                   refused>>

\* accept returned a link without a name, which is dropped: a unix socket
\* has a name only if it was bound before it connected.
UnnamedDropped(p) == UNCHANGED vars

AcceptUnnamed(p) == "unix" \in accepters[p] /\ UnnamedDropped(p)

\* Mutant: the contactor's filter negated.
CandidatesUntracked(p) == known_gateways[p] \ tracked[p]

\* The gateways the contactor's filter lets through.
Candidates(p) == known_gateways[p] \cap tracked[p]

\* No unwrap() of the transport's connect fails; any text is a path.
TcpConnects(a) == a.data[1] \in Ip
BluetoothConnects(a) == a.data[1] \in BluetoothName /\ a.port # None
UnixConnects(a) == TRUE

\* Nor does that of the contactor, which looks the transport up.
CanConnect(p, a) ==
    /\ a.protocol \in enabled[p]
    /\ CASE a.protocol = "tcp" -> TcpConnects(a)
         [] a.protocol = "bluetooth" -> BluetoothConnects(a)
         [] a.protocol = "unix" -> UnixConnects(a)

\* The contactor connects; the address is tracked already.
Dial(p, a) ==
    /\ contactor[p] = "up" /\ a \in Candidates(p)
    /\ IF CanConnect(p, a)
         THEN /\ tracked' = [tracked EXCEPT ![p] = @ \cup {a}]
              /\ UNCHANGED contactor
         ELSE /\ contactor' = [contactor EXCEPT ![p] = "panicked"]
              /\ UNCHANGED tracked
    /\ UNCHANGED <<step, enabled, socket, known_gateways, accepters, refused>>

-----------------------------------------------------------------------------
(* Properties *)

\* No gateway in the configuration ends the contactor task, although connect
\* unwraps what it parses: only addresses that a transport itself has named
\* get that far.
ContactorSurvives == \A p \in Process : contactor[p] # "panicked"

\* What ends an accepter task is a name that does not fit an address, and that
\* only: never one of tcp; of unix a path of more than 128 characters, never
\* the lack of a name; of bluetooth every name, so no bluetooth link is made.
AcceptersFallByNames ==
    \A p \in Process :
        /\ Past(p, "spawn") =>
             \A t \in enabled[p] \ accepters[p] : \E name \in refused[p] :
                 /\ name.protocol = t
                 /\ \/ t = "bluetooth"
                    \/ t = "unix" /\ PathChars[name.data] > 128
        /\ \A a \in tracked[p] : a.protocol # "bluetooth"

\* The process has removed what was at the path, or has bound it since.
Claims(p, path) ==
    \/ At(p, BindStep(path)) /\ socket[path] = None
    \/ Past(p, BindStep(path)) /\ socket[path] = p

\* The tcp port, bound first, keeps other processes from the socket files: one
\* that listens on the port finds a path free until it binds it, and its own
\* until it stops, unless a process that was configured without tcp starts.
TcpKeepsSockets ==
    [][\A p \in Process, path \in SocketPath :
         /\ Claims(p, path) /\ "tcp" \in enabled[p]
         /\ socket'[path] \notin {socket[path], p}
         => \E q \in Process \ {p} :
              "tcp" \notin enabled[q] /\ step'[q] # step[q]]_vars

\* An address in use reads back from its text as the same address, if and
\* only if its data has no slash: what a configuration gives always does, the
\* name of a unix socket only if it is a relative path of one part.
TextNamesAddress ==
    \A p \in Process : \A a \in known_gateways[p] \cup tracked[p] :
        from_str(Display(a)) = a <=> Len(a.data) = 1

=============================================================================
