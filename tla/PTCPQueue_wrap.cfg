SPECIFICATION DeathSpec
CONSTANTS
    BLK_CNT = 2
    UserSizes = {0, 1}
    HalfSeq = 3
    AckLead = 2
    MaxMsgs = 7
INVARIANTS
    FirstSeq
    SanityCheckSound
PROPERTIES
    ImplementsSendWindow
