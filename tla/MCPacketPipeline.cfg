SPECIFICATION FairSpec
CONSTANTS
    Key = {k1, k2}
    Last = 1
    RecvStateCap = 1
    TransportPipeCap = 1
    MessagePipeCap = 1
    RouterPipeCap = 1
    MaxLeaving = 1
    None = None
CHECK_DEADLOCK FALSE
INVARIANT TypeOK
INVARIANT ProblemIsTruth
INVARIANT SorterIsNotFirst
PROPERTY SorterStallsBehindHandler
PROPERTY ImplementsPacketExchange
