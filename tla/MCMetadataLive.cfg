\* one token, two threads: deaths, failing writes, failing reads
CONSTANTS
    Token = {t1}
    Proc = {p1, p2}
    Absent = Absent
    None = None
    MAX_AGE = 2
    MAX_AHEAD = 1
    MaxTime = 1
    InitialTimes = {0}
    MaxCrashes = 1
    MaxFaults = 1
    MaxReadFaults = 1
SPECIFICATION FairSpec
INVARIANTS NeverTorn
PROPERTIES LockReleased
CHECK_DEADLOCK FALSE
