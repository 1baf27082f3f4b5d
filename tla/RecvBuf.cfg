SPECIFICATION Spec
CONSTANTS
    TcpRecvBufInitSize = 4
    TcpRecvBufMaxSize = 10
    StackBuf = 6
    MsgLens = {3, 6, 11}
    SockCap = 7
    Ids = 8
INVARIANTS
    TypeOK
    Stream
    Converted
    ClosedRightly
    NeverStuck
