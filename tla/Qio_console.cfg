SPECIFICATION Spec
CONSTANTS
    Writers = {w1}
    Readers = {}
    Notable = {w1}
    Kinds <- ConsoleKinds
    Sizes = {2}
    Wants = {1, 2}
    Empties = {}
    Inilim = 4
    Limits = {2}
    MaxLen = 4
    K = 8
    Nil = Nil
INVARIANTS
    WriterKept
