SPECIFICATION Spec
CONSTANTS
    BLK_CNT = 4
    UserSizes = {0, 57}
    HalfSeq = 6
    Ids = 5
PROPERTIES
    EmptyAlloc
    Progress
