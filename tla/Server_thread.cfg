SPECIFICATION Spec
CONSTANTS
    Names = {"a"}
    MaxTcpConnsPerGrp = 1
    MaxNewConnections = 1
INVARIANTS
    OneThread
