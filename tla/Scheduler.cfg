SPECIFICATION MCSpec
CONSTANTS
    Procs = {p1, p2, p3}
    Cpus = {c1, c2}
    Cpu0 = c1
    Scheds = {s1, s2}
    Pris = {0, 1}
    Nil = Nil
    MaxWired = 1
SYMMETRY Symmetry
INVARIANTS
    OneProcessor
    QueuesOK
    Servable
CHECK_DEADLOCK FALSE
