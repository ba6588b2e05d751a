SPECIFICATION Spec
CONSTANTS
    MaxConn = 2
    TcpFlow = {"f"}
    TcpKind = {"syn", "data"}
    Datagram = {}
    Cap = 1
    MaxPacket = 3
CHECK_DEADLOCK FALSE
INVARIANTS
    FlowInOrder
