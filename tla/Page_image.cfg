SPECIFICATION Spec
CONSTANTS
    Procs = {p1, p2}
    Files = {f, g}
    Pages = {g1, g2}
    Images = {i1}
    Segs = {1, 2, 3, 4}
    Rfmem = {FALSE}
    MaxFree = 0
    StopAt = {"page", "map"}
    Nil = Nil
SYMMETRY Symmetry
INVARIANTS
    OwnMemory
