\* a run without --remove
CONSTANTS
    Msg = {m1, m2}
    Proc = {p1, p2}
    None = None
    DAY = 2
    MAILS_AFTER = 2
    LARGE_AFTER = 1
    LARGE = 1
    TARGET = 1
    Start = 5
    MaxTime = 6
    Sizes = {1, 2}
    Ages = {0, 2}
    MaxEvents = 0
    MaxRuns = 1
    Dry = {TRUE}
SPECIFICATION Spec
SYMMETRY Symmetry
PROPERTIES DryRunKeeps
CHECK_DEADLOCK FALSE
