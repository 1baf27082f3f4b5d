SPECIFICATION Spec
CONSTANTS
    BLK_CNT = 4
    UserSizes = {0, 1, 9}
    HalfSeq = 5
    AckLead = 0
    MaxMsgs = 3
INVARIANTS
    TypeOK
    IndexOrder
    WindowIntact
PROPERTIES
    ImplementsSendWindow
