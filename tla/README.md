# Specifications of Route Weaver

TLA+ specifications of the router of Route Weaver (`src/router`), its packet
codec and addresses (`src/common`) and its transports (`src/transports`), with
TLC configurations that model-check them on small instances and TLAPS proofs of
theorems about them. File names without a directory (`p2p.rs`, `noise.rs`,
`message.rs`, `transport.rs`) are those of `src/router/src` and
`src/common/src`; `tcp-transport` and the like are `src/transports/*/src/lib.rs`.

    tlc -workers 2 -config MCPeerLinksSafety.cfg MCPeerLinks
    tlapm PeerLinksProofs.tla

## 1. The system

A router process accepts and opens *links* to other routers over *transports*
(tcp, unix sockets, bluetooth), reads *packets* from the links, and for each
packet either passes it on over another link or, if it is the destination,
decrypts it in the *noise tunnel* of its source and handles the *message* in it.

| component | state | operations | talks to |
|---|---|---|---|
| openers: `connection_accepter_task` (one per transport), `occasional_gateway_contactor_task` (p2p.rs:226-308) | `known_gateways`, `transports` | accept a link; pick a gateway and connect to it, with a timeout of 1 s, every 30 s; register the link and spawn its two tasks | the map `writers`, the set `connection_tracker` |
| `packet_sender_task`, one per link (p2p.rs:169-197) | its writer pipe (100 packets) | take a packet, write it; after an error give it back to the router task and remove the link | `writers`, `packet_router_pipe` |
| `packet_listener_task`, one per link (p2p.rs:199-224) | the reader | track the address, read packets, forward them; after an error remove the link | `writers`, `connection_tracker`, `transport_packet_pipe` |
| `packet_router_task` (p2p.rs:151-167) | `packet_router_pipe` (10000) | take a packet, send it into the pipe of some registered link | `writers` and its shard locks |
| `packet_sorter_task` (p2p.rs:395-441) | `transport_packet_pipe` (10000) | lock `noise`; drop, reroute or decrypt a packet | `noise`, `message_pipe`, `packet_router_pipe` |
| `message_handler_task` (p2p.rs:310-393) | `message_pipe` (10000), an LRU cache of 100 transfers | handle a message; answer a damaged transfer | `noise`, `packet_router_pipe` |
| `Noise` (noise.rs) | an LRU cache of 1000 sessions | `try_encrypt`, `try_decrypt`, `reset` | the snow crate |
| packet codec and framing (message.rs:98-153, transport.rs) | the buffers of the two ends of a link | decode, encode; `next`, `send` | the transports |
| addresses (address.rs) | none | parse, display | the openers, the configuration |
| transports tcp, unix, bluetooth (`src/transports`) | a listening socket | `arced_new`, accept, connect | the network, the host's socket files |
| router program (main.rs, p2p.rs:52-137) | the configuration | start: make the transports, spawn the tasks, make the router's own socket | all of the above |
| keys, identifiers, errors (`noise.rs`, `router.rs`, `error.rs` of `src/common/src`) | none | data types | |
| sockets for applications (message_socket.rs, p2p.rs:139-149) | two pipes | all `todo!()` | |
| services (`src/services`) | none | stubs | |

How they interact: tasks of one process share `writers` (a sharded concurrent
map), `connection_tracker` and the lock of `noise`, and send into each other's
bounded pipes. A task that panics drops the receiver of its pipe, and the next
`send(..).await.unwrap()` into it panics too. Routers interact by packets that
may be lost, repeated, delayed and reordered.

What is hard about it:

- two links may have the same address; the map has one entry per address, and
  each link's clean-up removes whatever is registered under it;
- the router task holds the guard of a shard of `writers` across an `.await`,
  and `insert` and `remove` block a whole thread until they get the shard;
- five kinds of tasks send into bounded pipes that form circles;
- the sorter task holds the lock of `noise` across an `.await`, and the task
  that empties the pipe it waits for needs that lock;
- `unwrap()` and `todo!()` end tasks that are never started again;
- a handshake has three messages, is kept in memory only, and both sides, a
  restart or an old packet may get it out of step;
- both caches evict what has not been used for longest, also while it is in use;
- a stream may be cut anywhere by reads, writes, errors and the end of a process,
  and the decoder advances by the size of a packet encoded anew, not by the
  bytes it has read;
- several processes on a host share a port and socket files, which a process that
  stops leaves behind;
- the transports unwrap the names of remotes, and the contactor what it parses
  from a configured address.

`hazards` in `PROJECT.json` lists them with the lines where they bite.

## 2. Modules

| module | models | depends on |
|---|---|---|
| `PeerLinks` | openers, sender, listener and router tasks | |
| `PacketFate` | what the links promise about a packet (abstract) | |
| `PacketExchange` | how the links and the tasks behind them exchange packets (abstract) | |
| `PacketPipeline` | sorter and handler task | `LruCache` |
| `RouterProcess` | all tasks of a process on the pipes they share | `PeerLinks`, `PacketPipeline` |
| `NoiseTunnel` | the sessions of several routers and the network | `LruCache` |
| `LruCache` | hashlink's `LruCache` as the code uses it, with lemmas | |
| `FramedStream` | one direction of a link: encoder, byte stream, decoder | |
| `PacketStream` | what such a direction promises (abstract) | |
| `PacketCodec` | the layout of a packet in bytes, for the instance | |
| `TransportAddress` | `from_str` and `Display` of addresses | |
| `Transports` | processes of a host: start, sockets, accept, connect | `TransportAddress` |
| `TransportLink` | a link in the life of its process | `Transports`, `FramedStream` |
| `PeerLinksProofs`, `PacketFateProofs`, `PacketPipelineProofs`, `RouterProcessProofs`, `NoiseTunnelProofs`, `FramedStreamProofs`, `TransportLinkProofs`; lemmas in `LruCache` | theorems and proofs | the modules they extend |
| `MCPeerLinks`, `MCPacketPipeline`, `MCRouterProcess`, `MCNoiseTunnel`, `MCTransportLink` | small instances | |

`PeerLinks` and `PacketPipeline` are the two halves of one process. Each has the
other half as its environment, and `PacketExchange` is what each may rely on:
both are shown to implement it, and every step the one lets its environment take
is a step of `PacketExchange` that the other may take. `RouterProcess` puts them
together, and is shown to implement both. `FramedStream` refines
what `PeerLinks` calls a write and a read: `SenderWrite` that returns Ok is
`SendReturns`, one that fails is `WriterEnds`, `ListenerRead` is `DecodePacket`,
`"deregister"` is reached from `"torn"` or `"failed"`, and `"eof"` is `"ended"`.

### PeerLinks

One action is what a task does between two accesses to state that other tasks
see; `.await` points and blocking map operations separate actions. `sender[c]`
and `listener[c]` are the control points of the tasks of link `c`, `sending`
and `received` the packet each holds, `pipe[c]` the writer pipe, `writers` the
map and `addr` the links' addresses. A link identity is used once, so a link
that comes back is another `c` with the same address.

- `CanWrite`: the router task at `"sending"` holds the read guard of the shard
  of `routing.via`; `insert` and `remove` in that shard wait. `contains_key`
  shares the guard (`CanRead`).
- `ThreadFree`: a task inside `insert` or `remove` occupies one of `Workers`
  threads, and a task at an `.await` needs a free one to go on. Points inside
  the map (`InMap`) are reached without an `.await` in between.
- `AcceptConn`, `ContactorChoose`, `ContactorConnect`, `Register`: the openers.
  The filter of the contactor (p2p.rs:270) is `Candidates`.
- `SenderCheck`, `SenderRecv`, `SenderWrite`, `SenderReroute`, `SenderRemove`:
  the loop of the sender task. A write returns Ok, returns an error, or never
  returns. `recv` returns `None` when the pipe is empty and its only `Sender`
  has been replaced or removed.
- `ListenerStart` to `ListenerUntrack`: the listener task. `ListenerRead` has
  the end of the stream as an outcome of its own (`"eof"`): the code then polls
  the stream for ever and neither removes the link nor untracks it.
- `RouterTake` holds a guard that `RouterSend` releases. `iter().next()` is any
  registered link. Both `unwrap()`s are modelled; a panic drops the queue.
- `SorterTake`, `Submit`, `SorterStops` are the environment; `Submit` stands
  for a rerouted packet or an answer.

The packets of `PeerLinks` are identities that enter once, so that one can ask
what became of each. `PacketFate` is the abstract promise: a packet is outside,
inside, sent once, or lost, and it is lost only in a step that records a fault.
The refinement mapping computes `fate` from the places a packet is in and
`fault` from the control points of the tasks.

`PacketExchange` counts packets only: in each of the two pipes, behind the links,
and with the links to be written (`Leaving`): in the router task, in sender tasks, and in
the places of writer pipes (`Queued`).

### PacketPipeline

`SorterRecv`, `SorterSort`, `SorterReroute` and `SorterDeliver` are the sorter
task, `Handle...` the handler task by kinds of messages, `HandlerEncrypt` and
`HandlerRespond` its answer to a damaged transfer. `NoiseLocked` holds while the
sorter sends, because p2p.rs:415 keeps the guard to the end of the iteration;
the handler task (p2p.rs:364-369) releases it before it sends. Waiting packets
are counted and waiting messages are kept in order. The state of a transfer is
the set of chunk indexes in it; whether its hash matches is left open, since the
remote chooses the hash. `Arrive`, `RouterTakes`, `PutBack`, `Leave` and
`RouterStops` are the links: `leaving` counts the packets they have taken, which
they write, lose, or put back after a failed write; a pipe that is dropped takes
the packets in it along (`Leave`). `MaxLeaving` bounds `leaving`, unless it is `None`. A matching hash leads to `listeners.get_mut(..).unwrap()`
on a map nothing is ever put into, which is a panic, as are the kinds with
`todo!()`. Peers that run this very code cannot send the messages of a transfer
(see `Decoded` below); the module takes them from any peer that can.

### RouterProcess

The state is that of `PeerLinks` and of `PacketPipeline` on one
`transport_packet_pipe` and one `packet_router_pipe`. `Tasks` is `PacketPipeline`
with its counters computed from the state of the links and without a bound on
`leaving`. Of the environments only the peers are left, who may write or read
anything at any time. A step of the sorter or the handler task is the action of
`Tasks` and what it does to the links' state: the packet it takes (`SorterRecv`),
the packet that goes into `packet_router_pipe` again (`GoesOut`), its panic
(`SorterFalls`), and the free thread it needs. `sorted`, `packets` and `answered`
record which packet the sorter task has in hand, the messages in `message_pipe`
came in, and the handler task is answering; an answer stands for the packet that
it answers. Like the links, the tasks behind them go on only at an `.await` with a
free thread.

### NoiseTunnel

Routers are named by their configured public keys; `StaticOf` says which key
their private key really belongs to. `net` holds every packet ever sent, and
each may be delivered any number of times, in any order, or never. A handshake
message is its transcript (`log`), which stands for the handshake hash: reading
succeeds if the message's transcript goes on from the reader's own. The finished
transcript names the pair of transport keys. `TryEncrypt`, `TryEncryptRefused`
and `TryDecrypt` are whole calls, with the cache operations in the code's order:
`is_transport_capable` uses the key, `is_my_turn` goes through `entry`, which may
evict, and `verify_remote_public_key` looks up the router's own key
(noise.rs:99), under which nothing is stored. `Decoded` has two facts of the
payload: more than 30 bytes are compressed, and the compressed payload is cut by
the four bytes of its size prefix (noise.rs:164), so it never decodes, after the
session has been read on. `RetriedAsResponder` is the second attempt at
noise.rs:297-326, which calls `write_message`. `Restart` empties the cache.

### FramedStream, PacketStream, PacketCodec

`stream` is everything that was ever put into one direction of a link; `flushed`,
`arrived` and `consumed` are positions in it. `Send`, `Flush` and `SendReturns`
are `writer.send(packet).await` (transport.rs:89-98 over tokio_util's
`FramedWrite`), cut where the transport takes a part of the buffer; `WriterEnds`
drops the writer with what it had not flushed. `ReadBytes`, `ReadEof`,
`ReadFails`, `DecodePacket` and `DecodeNothing` are `next()` (transport.rs:133 over
`FramedRead`). `DecodePacket` advances by the size of a new encoding
(message.rs:121), whatever the bytes were; `Skipped` is the `advance` of
message.rs:127, which throws away as much as the largest packet, and nothing
below that. `Noise` puts in bytes this encoder did not write.

The codec is a constant: `wire_encode` and the byte strings that decode to each
packet (`Forms`). `PacketCodec` gives it values for the instance, with the layout
postcard gives a packet over small bytes: varints with and without leading zeros,
so that a packet may come in more bytes than it is encoded to.

### Transports, TransportAddress, TransportLink

`step[p]` is the place of process `p` in `Order`: reading the configuration, the
transports in the order in which main adds them, spawning the tasks, and the
router's own socket (main.rs:90-97). Each process reads a configuration of its own
(`--config-path`): `ReadConfig` takes the transports it enables from `Configured`
and keeps them in `enabled[p]`, and the steps of the others are left out
(`Planned`). `remove_file` and `bind` are two steps; the first may fail, which the
code ignores, and the second then panics at the file. A panic in the start ends the
process (`Exits`), a panic in a task only the task. `Stop` may happen anywhere and
leaves the socket files.
A text is the sequence of the parts between its slashes; `from_str` and `Display`
are address.rs:21-75, with the capacities of the fields. `Names` is what accept of
each transport makes of a remote: `Accept`, `AcceptPanics` and `AcceptUnnamed`
follow its unwrap() calls. `NameFits` measures all three fields: `PathChars` is the
length of the text `to_string_lossy` makes of a path, in which each byte that is
not UTF-8 has become three. `refused` is a history variable: the names that did not
fit. `Dial` is the contactor with the transport's connect and
its unwrap() calls (`CanConnect`).

`TransportLink` watches one link of a process and runs `FramedStream` on it from
`Open` to `ProcessEnds`; what happened before decides whether there is a link and
what name it has.

## 3. Runs

| run | kind | shows |
|---|---|---|
| `PeerLinksSafety` | pass | `TypeOK`, `SendReachesReceiver`, `RegistrationHasReader`, `ContactorFindsTransport`, `LoneLinkIsRegistered`, `RouterWaitsOnItsLink`, `OneFate`, `ImplementsPacketFate`, `ImplementsPacketExchange` |
| `PacketPipeline` | pass | `ProblemIsTruth`, `SorterIsNotFirst`, `SorterStallsBehindHandler`, `ImplementsPacketExchange` |
| `RouterProcess` | pass | `Custody`, `PanicsBeginAtTheEnds`, `ImplementsLinks`, `ImplementsPipeline` |
| `TransportLink` | pass | of the processes of a host `TcpKeepsSockets`, `ContactorSurvives`, `AcceptersFallByNames`, `TextNamesAddress`; of a link `AdvanceInBounds`, `TornIsInterrupted`, `ArrivedIsDelivered`, `ImplementsPacketStream`, and under fairness `FlushedIsDelivered` |
| `NoiseTunnel` | pass | `NonceUnique`, `TransportIsStable`, `EncryptedIsNeverRead` with two routers, a restart and unlimited replays |
| `NoiseCache` | pass | `TransportAuthenticated`, `TransportIsStable` with three routers, one with a wrong private key, and room for one session |
| `PeerLinksNoRoute` | violation | the router task panics when no link is registered (p2p.rs:161) |
| `PeerLinksGateway` | violation | no gateway is ever contacted (p2p.rs:270) |
| `PeerLinksReroute` | violation | a sender task waits for ever after a failed write (p2p.rs:191) |
| `NoiseFinished` | violation | the initiator never reaches transport mode (noise.rs:253) |
| `NoiseOnlyHandshakes` | violation | application messages travel in handshakes (noise.rs:112) |
| `NoiseRetry` | violation | a router that restarted cannot be answered (noise.rs:305) |

Bounds, and why they are enough:

- Links: two links, three addresses. The confusions of `writers` need an older
  and a newer link with one address; a third address, of a protocol without a
  transport, is a gateway the contactor must never choose. Two shards: the
  entries of two links may share the guard or not.
- Pipes have one place and there are two packets (three for the process and for
  `PeerLinksReroute`): every pipe can be full while a further packet waits for it.
- Four workers never run out with two links.
- Links and packets are symmetric where no liveness is checked.
- Pipeline: pipes of one place, two transfers, indexes 0 and 1, room for the
  state of one transfer, so that each `Start` evicts the other. The state space
  is finite without a bound on the number of packets that pass; `MaxLeaving` = 1
  bounds those the links hold at a time, and one is enough to be put back when
  the pipe is full.
- Process: one link, three packets, one transfer with one chunk, pipes of one
  place: the router task waits for room in a link's pipe while the sender task of
  that link writes, any pipe is full for a task with a packet in hand, and panics
  begin at both ends. Two threads, so that both tasks of the link can occupy all of
  them. Two links, and more transfers and chunks, are in the instances of the
  halves, and in the proofs.
- Noise: `MaxEphemeral` bounds the ephemeral keys, that is, handshakes begun and
  answered; four allow a finished handshake next to a second one. `MaxNonce`
  bounds the packets of a session, `MaxRestarts` the restarts. Two peers suffice
  for crossing handshakes; the third brings eviction and foreign packets.
- Host: two processes, one of which stops at any point while the other starts, and
  two configurations, all transports or unix alone, so that a process without the
  tcp port meets one that has it. Only `p1` gets links (`Watch`): what links change
  is read by their own process only. `Watchable` lets a link be watched only after
  the start of a process with tcp that has its sockets and accepters, and with no
  other process running, because nothing but its own process affects a link.
  Remotes on unix sockets have a path that fits, one of a single part, and one
  whose text is too long.
  The seed texts are a gateway that a peer may come from, one that parses and
  cannot be connected to, two that do not parse, and none.
- Stream: two packets of different sizes, the second with a varint that comes in
  one byte or two (`Base` = 2 for 128); `SERIALIZED_PACKET_SIZE_MAX` = 6 is the
  size of the larger packet at its longest, and the stream gets longer than that;
  `MaxSent` = 2 lets packets run into each other, `MaxNoise` = 1 puts a byte of
  any value before, between or behind them.

`CHECK_DEADLOCK FALSE` is in the runs of `PeerLinks`, `PacketPipeline`,
`RouterProcess` and `TransportLink`: a process may really come to rest, when its packets are used up,
its tasks have panicked or wait for each other, or its link has ended. The stall properties say which waits are possible.
In `NoiseTunnel` a refused call is always possible.

Fairness. `PeerLinks!Fairness` gives weak fairness to what the runtime and a
blocked thread do by themselves: tokio polls a ready task, and a thread waiting
for a free shard gets it. There is none for `SenderWrite` (a write has no
timeout), for `ListenerRead`, `AcceptConn` and the sorter. Only the findings about
the links use it: the passing runs of the links and of the process check safety. In
`PacketPipeline` the lock of `noise` gets strong fairness for the handler task,
because tokio's `RwLock` serves requests in their order; neither links nor the
router task have to act. `TransportLink` gives weak fairness to the reader's end
only: what was flushed arrives unless the transport fails, and the listener task
is polled. Nobody has to send, to flush or to make room for a packet.

### What the checks found

- The router task and a sender task can wait for each other for ever: the
  router keeps the guard of the failed link's entry while it waits for room in
  that link's pipe, and the sender task, the only one that empties the pipe, is
  in `writers.remove` (`PeerLinksReroute`). `RouterWaitsOnItsLink` says that
  nothing in the map but that link's own write or leaving holds the router up:
  not the guard it holds, and not the clean-up of another link with the same
  address or in the same shard. It does not say that a free thread is there for
  the sender task.
- A packet handed back after a failed write may be routed to the failed link
  again, as the link is removed only afterwards; it is then dropped with the
  pipe. `PacketFate` records it as a loss with a fault.
- Sorter and handler task can wait for each other for ever: the sorter holds
  the lock of `noise` and waits for room in `message_pipe`, the handler waits
  for the lock. This is the first disjunct of `SorterStallsBehindHandler`, and
  the instance reaches it.
- A tunnel does not come up between two routers that both run this code: the
  responder reaches transport mode and the initiator does not. Since the
  initiator compares the remote key only when it reads the last message, it also
  keeps a finished session with a wrong key. What a responder encrypts in transport
  mode is never read, with any number of handshakes (`EncryptedIsNeverRead`).

Each of these is a `finding` where a comment or an assertion of the code says
otherwise. The model also shows, without a comment that denies it:

- A bluetooth accepter ends at its first link: the nine characters of "bluetooth"
  are unwrapped into a field of eight (bluetooth-transport:86). A unix accepter may
  end too, at a remote whose path has so many bytes that are not UTF-8 that its text
  exceeds 128 (unix-transport:96). `AcceptersFallByNames` names both as the only cases.
- The tcp port keeps a second process from the socket files only if both have tcp
  in their configurations: one without it removes those of the running process and
  binds its own (`TcpKeepsSockets`). Where `remove_file` fails, the `bind` after it
  panics.
- A unix remote that has not bound its socket has no name, and its link is dropped;
  one that has bound it has a path, whose text reads back as another address or
  as none (`TextNamesAddress`).
- Bytes that do not decode hold up all packets behind them until they exceed the
  largest packet, and what is skipped then may end inside a packet. So the promises
  of `PacketStream` are those of the packets before any such byte.

## 4. Proofs

The theorems hold for every value of the constants that satisfies the named
assumption of the module (`LinkAssumption`, `PipelineAssumption`,
`ProcessAssumption`, `TunnelAssumption`, `CodecAssumption`, `AddressAssumption`,
`TransportAssumption`). No proof depends on a bound: where a bound is a guard of
the specification, its value is arbitrary. The assumptions say what the code gives:
capacities are positive, `None` is none of the identities, known gateways are
addresses, and of postcard that a packet decodes from its own encoding, that no
decodable byte string is a prefix of another, and that a packet's encoding is the
shortest of its forms. `NoAddressAssumption` keeps the absence of an address apart
from addresses. `TransportAssumption` says that the texts of an IP address and of a
bluetooth address fit the 128 bytes of an address's data, and that a path is at least
as long as each of its parts; of paths it does not say that they fit.

`PeerLinksProofs`:

- `TypeCorrect`. `TypeOK` is not inductive: a forwarded packet is a packet only
  because of the control point it is held at. `Typed` adds `TasksHold`, what
  each task holds where the code passes it on.
- `RouterSendSafe` (`SendReachesReceiver`), `RouterWaitsOnLink`
  (`RouterWaitsOnItsLink`) and `RegisteredIsRead` (`RegistrationHasReader`), from `RegistrationInv`: an entry leads to a link
  with that address whose sender has not left; a sender panics only after the
  router; the entry under the router's guard stays; a link in the hands of an
  opener has no tasks yet and no second opener. The guard conjunct is needed for
  the send that is waiting, the opener's for entries that would come too late.
- `LoneLinkStays` (`LoneLinkIsRegistered`): steps are quiet (no entry changes
  and no task begins), register a link, or remove a link with its own entry.
- `ContactorSafe` (`ContactorFindsTransport`), from `TransportInv`: all tracked
  addresses are addresses of links that a transport opened.

`PacketFateProofs`:

- `NoPacketTwice` (`OneFate`) and `LinksKeepPackets` (`ImplementsPacketFate`). A
  packet is at a *site*: with a task, in a queue, held behind the links, sent, or
  outside. Every step moves one packet from one site to another, or drops packets
  and records a fault, or leaves all sites alone (`SiteStep`). `SiteInv` says that
  every packet is at one site at most (`OnePlace`), no queue has it twice, and a
  task that is not about to pass a packet on holds none (`EmptyHanded`), which
  is what keeps a task from overwriting a packet it still has. `RegistrationInv`
  is needed too: a link is registered before its tasks have done anything, so a
  fault that a task recorded stays recorded.

`RouterProcessProofs` begins with `LinksExchange` (`ImplementsPacketExchange` of the links).
A step of the links may change the number of packets in several places at once, and
`Leaving` counts positions in pipes, so each step is shown to add or take one place
of `Queued`, or to drop the places of one pipe. Two invariants carry it: `SiteInv`, so
that a packet sent on was in the task's hands and nowhere else, and `FiniteInv`, that
the sets counted are finite although `Conn` and `Packet` need not be.

It goes on with the whole process. Each half was proved with an environment; here
it is shown that the other half is that environment, so that its theorems hold
without one. `ProcessInv` is the invariant of the links (`CountInv`), the types of
the tasks behind them, and `Custody`.

- `PacketsInCustody` (`Custody`): a packet behind the links is with one of the two
  tasks or once in `message_pipe`, and is one the links gave away. `PeerLinks` lets
  its environment put back only such a packet.
- `ProcessIsLinks` (`ImplementsLinks`) from `Custody`: a packet that goes out is held,
  and a packet that comes in was held by nobody.
- `ProcessIsPipeline` (`ImplementsPipeline`) from the exchange of the links: every step
  of `PacketExchange` the links may take is one the environment of `PacketPipeline`
  takes (`LinksAreEnvironment`). `TaskProofs` are the theorems of
  `PacketPipelineProofs` for the instance, `SameTasks` that it is the same one.
- `PanicsSpread` (`PanicsBeginAtTheEnds`): a sender that panicked has the router task
  before it, a listener the sorter task (`ListenersFallBehind`), and that one, by
  `SorterIsNotFirst`, the router or the handler task. No half can say this alone.
- `ProcessKeepsPromises`: `OneFate`, `ImplementsPacketFate` and `ProblemIsTruth`
  for the process.

`LruCache` has lemmas on each operation: it keeps the order of use and the map
coherent (`CacheOf`), and changes the map only at the key and at one evicted key.

`PacketPipelineProofs`:

- `PipelineTyped` (`TypeOK`).
- `SorterFallsSecond` (`SorterIsNotFirst`) is inductive as it stands.
- `PipelineIsExchange` (`ImplementsPacketExchange`), step by step, from
  `ExchangeInv`: types, and an empty pipe behind a router task that stopped.
- `ReportIsTrue` (`ProblemIsTruth`), from `TruthInv`: what the cache holds for a
  transfer is what came since its last Start. The lemmas on the cache say that
  eviction loses whole transfers only.

`NoiseTunnelProofs`:

- `TunnelTyped` (`TypeOK`); `SessionsOK` adds how many messages a session has in
  its transcript and whose turn it is.
- `NonceNeverReused` (`NonceUnique`), from `NonceInv`: an ephemeral key belongs to
  one session at most, and the packets encrypted under it have nonces the session
  has counted past. It survives eviction and restarts because a session that is
  gone takes its key with it.
- `TunnelLeadsToItsRouter` (`TransportAuthenticated`), from `AuthInv`: the last
  handshake message carries its writer's static key, and transport mode is reached
  only by reading it.
- `TunnelLasts` (`TransportIsStable`), an action property, from the types.
- `TunnelIsDeaf` (`EncryptedIsNeverRead`), from `RespondersEncrypt`: a session in
  transport mode read the last message of its handshake, so it is the responder's,
  and so is the last key of every encrypted packet; the session that could read it
  would be the initiator's.

`FramedStreamProofs`: `StreamTyped`, `NeverBeyondBuffer` (`AdvanceInBounds`),
`TornTellsOfOne` (`TornIsInterrupted`) and `LinkIsPacketStream`
(`ImplementsPacketStream`), from `StreamInv`: where in the stream each packet
before any noise lies (`Written`); that the decoder stands at the first byte of
the next of them (`InOrder`); what the ends know when they stop (`Sending`,
`Endings`). That no decodable string is a prefix of another makes the packet at
the head of the buffer unique however much of the stream has come.
`NoneLeftInBuffer` (`ArrivedIsDelivered`), from `NothingWaits`: when the listener task
waits, `decode` has been called on all that arrived, and the next packet was not in it.

`TransportLinkProofs`: `LinkKeepsPromise` carries the last theorem over to a link
in the life of its process. `PortKeepsSockets` (`TcpKeepsSockets`), from `PortInv`:
of the processes with tcp, one at most is beyond the step that takes the port. Only a
process at `unix_remove`, `unix_bind`, `router_remove` or `router_bind` touches a
path (`SocketStep`), so one that touches another's either has the port too or was
configured without tcp. `HostTyped`, `NoPanicOfContactor` (`ContactorSurvives`) and
`NoOtherPanicOfAccepters` (`AcceptersFallByNames`), from `TaskInv`: every tracked
address was named by a transport that runs and fitted, and every accepter that is
gone has left a name that did not fit. `TextReadsBack`
(`TextNamesAddress`), from `GatewayInv`: gateways are what a text parsed to, and
tracked names what accept of a transport makes. Its lemmas say what `from_str` and
`Display` do to a text: a text whose data is one part, known to fit, is read back
part by part; a path begins with a slash and so has an empty part that is no data.
`LinkKeepsStream` carries the invariants of the stream over to a link.

Only model-checked: the properties under fairness (`SorterStallsBehindHandler`,
`FlushedIsDelivered`), which the prover does not handle, and the findings. Every invariant, action property and refinement of the
passing runs is stated by a theorem.

## 5. What is not modelled

- Cryptography and bytes: see `NoiseTunnel`. A write that fails after its bytes
  have reached the peer and is rerouted would duplicate a packet on the network;
  `OneFate` speaks of writes that returned Ok.
- The hash of application data, and the order of chunks it depends on.
- Sockets are external: accept, connect, partial reads and writes, and errors are
  nondeterministic. tcp's connect dials the port of the program whatever the
  address says (tcp-transport:59), which no other definition depends on. `without_port` (address.rs) and `split_connection` (transport.rs) are
  called nowhere.
- Time: the contactor's 30 s and its timeout are nondeterministic choices.
- Sockets for applications: every function is `todo!()`.
- Services and logging: fs is an empty main; that of ipv6 only sleeps, and its one
  function, `ip_from_public_key`, has no caller.
- Data types (keys, identifiers, errors) are model values. `PreEncryptionTransformation`
  is what `Decoded` says of it.

## 6. Plan

In this order; what is done is marked.

1. `PeerLinks`, `PacketFate`, their runs and `PeerLinksProofs` (done).
2. `NoiseTunnel` and its runs (done).
3. `PacketPipeline`, its run and `PacketPipelineProofs` (done).
4. Composition: `PacketExchange`, implemented by `PeerLinks` and by
   `PacketPipeline`, each of which has the other as its environment (done).
5. `FramedStream` with `PacketCodec` over all ways a stream is cut into reads, its
   refinement of `PacketStream`, and `FramedStreamProofs` (done).
6. `TransportAddress`, `Transports`, `TransportLink`, their run and
   `TransportLinkProofs` (done).
7. Proofs of `OneFate`, `ImplementsPacketFate`, and of the safety properties of
   `NoiseTunnel` (done).
8. Proofs of the exchange of `PeerLinks`, of `TextNamesAddress`, and of two
   invariants added since, `ArrivedIsDelivered` and `EncryptedIsNeverRead` (done).
9. `RouterProcess`, its run, and `RouterProcessProofs` (done).
10. Left: what the tasks of a whole process may wait for under fairness, with several
    links and too few threads; a chain
    of two routers in which `NoiseTunnel` runs over lossy `PacketStream`s; the
    order of chunks in a transfer, once the repository has a sender that fixes it.
