\* Two threads that append and checkpoint, a control record, two faults.
CONSTANTS
    t1 = t1
    t2 = t2
    d1 = d1
    d2 = d2
    c1 = c1
    Threads = {t1, t2}
    Data = {d1, d2}
    Control = {c1}
    Interval = 2
    Batch = 2
    MaxLsn = 3
    MaxFaults = 2
    MaxRequests = 1
    NoThread = NoThread
    NoOp = NoOp
SYMMETRY Symmetry
SPECIFICATION Spec
INVARIANT TypeOK
INVARIANT SyncBound
INVARIANT LsnDistinct
INVARIANT OnlyKnownLosses
CHECK_DEADLOCK FALSE
