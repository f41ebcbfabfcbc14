\* two runs at once, devices that rename and remove, deliveries
CONSTANTS
    Msg = {m1, m2}
    Proc = {p1, p2}
    None = None
    DAY = 2
    MAILS_AFTER = 2
    LARGE_AFTER = 1
    LARGE = 1
    TARGET = 1
    Start = 5
    MaxTime = 6
    Sizes = {1, 2}
    Ages = {0, 2}
    MaxEvents = 2
    MaxRuns = 2
    Dry = {FALSE}
SPECIFICATION Spec
SYMMETRY Symmetry
INVARIANTS TypeOK SizeOnRecord TargetReached
PROPERTIES RemovedForReason
CHECK_DEADLOCK FALSE
