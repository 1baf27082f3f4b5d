SPECIFICATION CrashSpec
CONSTANTS
    BLK_CNT = 3
    UserSizes = {0, 1}
    HalfSeq = 4
    AckLead = 0
    MaxMsgs = 3
INVARIANTS
    RecoveredSeqs
