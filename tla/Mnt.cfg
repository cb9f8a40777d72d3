SPECIFICATION FairSpec
CONSTANTS
    Proc = {a, b}
    Notable = {a}
    NTag = 4
    MaxFree = 1
    MaxFlush = 2
    Nil = Nil
INVARIANTS
    OwnReply
    NoneStranded
PROPERTIES
    RpcReturns
