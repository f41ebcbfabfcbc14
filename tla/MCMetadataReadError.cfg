\* a read of the file that fails for a moment
CONSTANTS
    Token = {t1, t2}
    Proc = {p1, p2}
    Absent = Absent
    None = None
    MAX_AGE = 2
    MAX_AHEAD = 1
    MaxTime = 2
    InitialTimes = {0, 2}
    MaxCrashes = 0
    MaxFaults = 0
    MaxReadFaults = 1
SPECIFICATION Spec
SYMMETRY Symmetry
PROPERTIES AddKeepsOthers
CHECK_DEADLOCK FALSE
