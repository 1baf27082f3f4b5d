SPECIFICATION Spec
CONSTANTS
    Names = {"a", "b", "c"}
    MaxTcpConnsPerGrp = 2
    MaxNewConnections = 2
INVARIANTS
    TypeOK
    LiveFirst
    OneConnPerName
PROPERTIES
    AcceptFree
    Released
