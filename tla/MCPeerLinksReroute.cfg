SPECIFICATION FairSpec
CONSTANTS
    a1 = a1
    a2 = a2
    a3 = a3
    tcp = tcp
    unix = unix
    Address = {a1, a2, a3}
    Conn = {c1}
    Packet = {p1, p2, p3}
    Protocol = {tcp, unix}
    Transports = {tcp}
    Contactor = Contactor
    Gateways = {a1}
    ProtocolOf <- MCProtocolOf
    ShardOf <- MCTwoShards
    WriterPipeCap = 1
    RouterPipeCap = 1
    TransportPipeCap = 1
    Workers = 4
    None = None
CHECK_DEADLOCK FALSE
PROPERTY FailedLinkIsLeft
