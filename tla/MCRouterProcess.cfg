SPECIFICATION ProcessSpec
CONSTANTS
    a1 = a1
    tcp = tcp
    Address = {a1}
    Conn = {c1}
    Packet = {p1, p2, p3}
    Protocol = {tcp}
    Transports = {tcp}
    Contactor = Contactor
    Gateways = {a1}
    ProtocolOf <- MCProtocolOf
    ShardOf <- MCShardOf
    WriterPipeCap = 1
    RouterPipeCap = 1
    TransportPipeCap = 1
    Workers = 2
    None = None
    Key = {k1}
    Last = 0
    RecvStateCap = 1
    MessagePipeCap = 1
CHECK_DEADLOCK FALSE
INVARIANT Custody
INVARIANT PanicsBeginAtTheEnds
PROPERTY ImplementsLinks
PROPERTY ImplementsPipeline
