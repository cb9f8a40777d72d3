SPECIFICATION Spec
CONSTANTS
    Cpus = {c1, c2}
    NLocks = 2
    Ilocks = {2}
    NEntries = 2
    Nil = Nil
SYMMETRY Symmetry
INVARIANTS
    Mutex
    EntriesOK
    HandedOn
