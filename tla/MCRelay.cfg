SPECIFICATION FairSpec
CONSTANTS
    Conn = {"a", "b1", "b2"}
    Device = {"A", "B"}
    DeviceOf <- OneToTwo
    TcpFlow = {"f"}
    Datagram = {"u"}
    Target <- ToB
    Carries <- FromA
    TcpKind = {"syn", "data", "fin"}
    Cap = 1
    MaxPacket = 2
    None = None
CHECK_DEADLOCK FALSE
INVARIANTS
    TypeOK
    RegistryExact
    OneServingLane
    NeverTwice
PROPERTIES
    FlowMovesFromClosed
    ImplementsDelivery
    ClosedLeaves
