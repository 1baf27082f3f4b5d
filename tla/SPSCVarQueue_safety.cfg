SPECIFICATION CrashSpec
CONSTANTS
    BLK_CNT = 8
    UserSizes = {121, 249}
    HalfSeq = 16
    Ids = 9
INVARIANTS
    TypeOK
    InHand
