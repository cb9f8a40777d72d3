SPECIFICATION LocksSpec
CONSTANTS
    Procs = {p1, p2, p3, p4}
    Nil = Nil
INVARIANTS
    Exclusion
    NoneStranded
PROPERTIES
    FifoSpec
    Served
