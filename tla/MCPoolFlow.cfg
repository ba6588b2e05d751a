SPECIFICATION Spec
CONSTANTS
    MaxConn = 3
    TcpFlow = {"f"}
    TcpKind = {"syn", "data", "fin"}
    Datagram = {}
    Cap = 1
    MaxPacket = 3
CHECK_DEADLOCK FALSE
INVARIANTS
    TypeOK
    OneServingLane
    NeverTwice
PROPERTIES
    FlowPinned
    ImplementsDelivery
