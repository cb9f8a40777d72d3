SPECIFICATION Spec
CONSTANTS
    Procs = {p1, p2, p3}
    Files = {f}
    Pages = {g1, g2}
    Images = {i1}
    Segs = {1, 2, 3, 4}
    Rfmem = {TRUE, FALSE}
    MaxFree = 0
    StopAt = {"image", "page", "map"}
    Nil = Nil
SYMMETRY Symmetry
INVARIANTS
    OwnMemory
