SPECIFICATION ProcessSpec
CONSTANTS
    Slots = {s1, s2, s3}
    Boot = s1
    Posters = {n1}
    RforkNowait = {FALSE}
    MaxWait = 2
    NBroken = 1
    MaxPid = 4
    Procs = {p1, p2, p3}
    Third = p3
    Files = {f, g}
    Pages = {g1, g2}
    Images = {i1, i2}
    Segs = {1, 2, 3, 4}
    Rfmem = {TRUE, FALSE}
    MaxFree = 0
    StopAt = {"image", "page", "map", "share"}
    Nil = Nil
SYMMETRY ProcessSymmetry
INVARIANTS
    ChildrenKept
    NeverWaitsInVain
    PagesCounted
    ImagesCounted
    OwnMemory
