SPECIFICATION Spec
CONSTANTS
    Established = TRUE
    SeqStart = 5
    HalfSeq = 3
    QCap = 2
    ChanCap = 2
    MaxMsgs = 3
    MaxFaults = 2
INVARIANTS
    TypeOK
    ExactlyOnce
    Framing
    AckSafe
    NoSeqMismatch
    Retained
PROPERTIES
    Recovers
