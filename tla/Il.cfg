SPECIFICATION FairSpec
CONSTANTS
    Cstart = 11
    Sstart <- TwoStarts
    OldC = 1
    OldS = 4
    Window = 2
    MaxRexmit = 1
    FastTries = 0
    Nqt = 1
    NetMax = 2
    Plans <- Loads
CHECK_DEADLOCK FALSE
INVARIANTS
    AckedDelivered
    Agreed
PROPERTIES
    ReliableStream
    Settles
