SPECIFICATION LinkFairSpec
CONSTANTS
    None = None
    Process = {p1, p2}
    Watch = {p1}
    Configured <- MCConfigured
    Part <- MCPart
    Chars <- MCChars
    PortOf <- MCPortOf
    Decimal <- MCDecimal
    SeedText <- MCSeedText
    Ip <- MCIp
    RemotePort = {4000}
    BluetoothName <- MCBluetoothName
    SocketName <- MCSocketName
    PathChars <- MCPathChars
    Base = 2
    Byte = {0, 1, 2, 3}
    Packet <- MCPacket
    wire_encode <- MCEncode
    Forms <- MCForms
    SERIALIZED_PACKET_SIZE_MAX = 6
    MaxSent = 2
    MaxNoise = 1
CHECK_DEADLOCK FALSE
INVARIANT TypeOK
INVARIANT StreamTypeOK
INVARIANT ContactorSurvives
INVARIANT AcceptersFallByNames
INVARIANT TextNamesAddress
INVARIANT AdvanceInBounds
INVARIANT TornIsInterrupted
INVARIANT ArrivedIsDelivered
PROPERTY TcpKeepsSockets
PROPERTY ImplementsPacketStream
PROPERTY FlushedIsDelivered
