SPECIFICATION FairSpec
CONSTANTS
    MaxConn = 2
    TcpFlow = {"f"}
    TcpKind = {"syn", "data"}
    Datagram = {"udp", "icmp"}
    Cap = 1
    MaxPacket = 1
CHECK_DEADLOCK FALSE
PROPERTIES
    ReaderProgress
    UdpNeverWaits
