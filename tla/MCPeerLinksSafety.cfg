SPECIFICATION Spec
CONSTANTS
    a1 = a1
    a2 = a2
    a3 = a3
    tcp = tcp
    unix = unix
    Address = {a1, a2, a3}
    Conn = {c1, c2}
    Packet = {p1, p2}
    Protocol = {tcp, unix}
    Transports = {tcp}
    Contactor = Contactor
    Gateways = {a1, a3}
    ProtocolOf <- MCProtocolOf
    ShardOf <- MCTwoShards
    WriterPipeCap = 1
    RouterPipeCap = 1
    TransportPipeCap = 1
    Workers = 4
    None = None
SYMMETRY MCSymmetry
CHECK_DEADLOCK FALSE
INVARIANT TypeOK
INVARIANT SendReachesReceiver
INVARIANT RegistrationHasReader
INVARIANT ContactorFindsTransport
INVARIANT LoneLinkIsRegistered
INVARIANT RouterWaitsOnItsLink
INVARIANT OneFate
PROPERTY ImplementsPacketFate
PROPERTY ImplementsPacketExchange
