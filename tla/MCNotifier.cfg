\* two notifications, a crash (with loss of content) and a raising thread; two lanes
\* (delays 0 and 2; a third would be 4 > 3)
CONSTANTS
    Item = {i1, i2}
    None = None
    Addr = {a1}
    Token = {t1, t2}
    Conn = {c1}
    w0 = w0 v0 = v0 w1 = w1
    Worker = {w0, v0, w1}
    retry_num <- TwoLanes
    BASE_DELAY = 2
    DROP_DEADLINE = 3
    LastArrival = 1
    MaxTime = 4
    MaxCrashes = 1
    MaxFaults = 1
    PowerLoss = TRUE
SPECIFICATION Spec
SYMMETRY Symmetry
INVARIANTS NothingForgotten InOnePlace BackedByFile BackoffRespected ScheduledInTime
PROPERTIES NoSilentLoss UnregisteredBeforeForgotten
CHECK_DEADLOCK FALSE
