\* two threads, two tokens, expiry after 2 seconds, crashes and failing writes
CONSTANTS
    Token = {t1, t2}
    Proc = {p1, p2}
    Absent = Absent
    None = None
    MAX_AGE = 2
    MAX_AHEAD = 1
    MaxTime = 2
    InitialTimes = {0, 2}
    MaxCrashes = 1
    MaxFaults = 1
    MaxReadFaults = 0
SPECIFICATION Spec
SYMMETRY Symmetry
INVARIANTS NoLostUpdate
PROPERTIES OnlyRemovedOrExpired Implements
CHECK_DEADLOCK FALSE
