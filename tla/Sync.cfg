SPECIFICATION SyncSpec
CONSTANTS
    Acquirers = {p1, p2}
    Releasers = {p3}
    Deltas = {1, 2}
    MaxValue = 2
    Timeouts = {0, 1}
    IntMax = 1
    Procs = {p1, p2, p3}
    Tags = {t1}
    Noters = {n1}
    Ones = Ones
    Nil = Nil
INVARIANTS
    Conservation
    SemaAlive
    NoMissedMeeting
    Exchange
    SingleStack
PROPERTIES
    SleeperServed
    MeetingCompletes
