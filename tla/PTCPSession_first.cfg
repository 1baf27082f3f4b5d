SPECIFICATION Spec
CONSTANTS
    Established = FALSE
    SeqStart = 0
    HalfSeq = 3
    QCap = 2
    ChanCap = 2
    MaxMsgs = 2
    MaxFaults = 2
INVARIANTS
    Retained
