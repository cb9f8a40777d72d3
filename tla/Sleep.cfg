SPECIFICATION SleepsSpec
CONSTANTS
    Procs = {p1, p2}
    Rendezes = {r1}
    Wakers = {w1, w2}
    Noters = {n1}
    Tsleepers = {p1}
    Trendezes = {r1, r2}
    Cpus = {c1, c2}
    Delays = {1, 3}
    Period = 2
    MaxLate = 1
    Never = 9
    Nil = Nil
INVARIANTS
    OneStack
    NoLostWakeup
    NoLostNote
    ListsOK
    Armed
PROPERTIES
    SleepsEnd
