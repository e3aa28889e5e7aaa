\* One thread and one process kill: the LSN reset of truncate against the
\* LSN filter of replay.
CONSTANTS
    t1 = t1
    d1 = d1
    d2 = d2
    Threads = {t1}
    Data = {d1, d2}
    Control = {}
    Interval = 1
    Batch = 2
    MaxLsn = 3
    MaxFaults = 1
    MaxRequests = 0
    NoThread = NoThread
    NoOp = NoOp
SPECIFICATION Spec
INVARIANT AckedSurvivesKill
CHECK_DEADLOCK FALSE
