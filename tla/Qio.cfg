SPECIFICATION FairSpec
CONSTANTS
    Writers = {w1}
    Readers = {r1, r2}
    Notable = {w1, r1}
    Kinds <- AllKinds
    Sizes = {2}
    Wants = {1, 3}
    Empties = {"input"}
    Inilim = 4
    Limits = {2}
    MaxLen = 3
    K = 8
    Nil = Nil
INVARIANTS
    ReaderKept
    WriterKept
    OutputKept
    InOrder
PROPERTIES
    WriterResumes
