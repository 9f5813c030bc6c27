--------------------------- MODULE TransportLink ---------------------------
(***************************************************************************)
(* The life of one link, from the start of the router process to the end   *)
(* of its byte stream: Transports composed with FramedStream.  One link of *)
(* a process is watched, in the direction in which that process writes:    *)
(* the first it accepts, or any that its contactor opens.  From then on    *)
(* nothing but this link and the end of the process matters.               *)
(***************************************************************************)
EXTENDS Transports, FramedStream

CONSTANT Watch  \* bound: processes that get links

VARIABLE watched  \* process whose link is watched, or None

linkVars == <<vars, streamVars, watched>>

LinkInit == Init /\ StreamInit /\ watched = None

\* Steps of the processes before any link is open.
SetUp ==
    /\ watched = None
    /\ \E p \in Process :
         \/ Start(p) \/ BindTcp(p) \/ BindBluetooth(p) \/ SpawnTasks(p) \/ Stop(p)
         \/ \E transports \in Configured, text \in SeedText :
              ReadConfig(p, transports, text)
         \/ \E path \in SocketPath : RemoveSocket(p, path) \/ BindSocket(p, path)
    /\ UNCHANGED <<streamVars, watched>>

\* Links that are not watched matter for the names that are tracked.
OtherLink ==
    /\ watched = None
    /\ \E p \in Process \cap Watch :
         \/ \E t \in accepters[p] : \E name \in Names(t) :
              Accept(p, t, name) \/ AcceptPanics(p, t, name)
         \/ \E a \in known_gateways[p] : Dial(p, a)
         \/ AcceptUnnamed(p)
    /\ UNCHANGED <<streamVars, watched>>

\* Bound: a link is watched once the start of a process with tcp is over, which
\* has its sockets and accepters, and while no other process runs on the host.
Watchable(p) ==
    /\ watched = None /\ p \in Watch
    /\ At(p, "serve") /\ "tcp" \in enabled[p] /\ accepters[p] = enabled[p]
    /\ \A path \in SocketPath : Past(p, BindStep(path)) => socket[path] = p
    /\ \A q \in Process \ {p} : step[q] = 0

\* into_split: both directions get their frames.
Open ==
    /\ \E p \in Process :
         /\ Watchable(p)
         /\ \/ /\ tracked[p] = {}
               /\ \E t \in accepters[p] : \E name \in Names(t) : Accept(p, t, name)
            \/ \E a \in known_gateways[p] : Dial(p, a) /\ contactor' = contactor
         /\ watched' = p
    /\ UNCHANGED streamVars

\* The link is dropped as soon as it is accepted, and the remote sees the end
\* of a stream on which nothing was sent.
OpenUnnamed ==
    /\ \E p \in Process :
         /\ Watchable(p) /\ tracked[p] = {}
         /\ AcceptUnnamed(p)
         /\ watched' = p
    /\ WriterEnds

Transfer == watched # None /\ StreamNext /\ UNCHANGED <<vars, watched>>

\* The kernel closes the sockets of a process that ends.
ProcessEnds ==
    /\ watched # None
    /\ Stop(watched)
    /\ WriterEnds
    /\ UNCHANGED watched

LinkNext == SetUp \/ OtherLink \/ Open \/ OpenUnnamed \/ Transfer \/ ProcessEnds

LinkSpec == LinkInit /\ [][LinkNext]_linkVars

(***************************************************************************)
(* Fairness: what has been flushed reaches the other end unless the        *)
(* transport fails, and the runtime polls the listener task there.  Nobody *)
(* has to send, to flush, to make room for a packet or to end.             *)
(***************************************************************************)
LinkFairSpec ==
    LinkSpec /\ WF_linkVars(watched # None /\ ReaderWork /\ UNCHANGED <<vars, watched>>)

=============================================================================
