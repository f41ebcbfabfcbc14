\* two notifications from one connection, one thread per lane, one crash; no
\* thread dies
CONSTANTS
    Item = {i1, i2}
    None = None
    Addr = {a1}
    Token = {t1}
    Conn = {c1}
    w0 = w0 v0 = v0 w1 = w1
    Worker = {w0, w1}
    retry_num <- OneEach
    BASE_DELAY = 2
    DROP_DEADLINE = 3
    LastArrival = 0
    MaxTime = 4
    MaxCrashes = 1
    MaxFaults = 0
    PowerLoss = FALSE
SPECIFICATION FairSpec
PROPERTIES EventuallyResolved
CHECK_DEADLOCK FALSE
