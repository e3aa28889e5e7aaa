\* Three threads on two rows, under a fair scheduler.
CONSTANTS
    t1 = t1
    t2 = t2
    t3 = t3
    r1 = r1
    r2 = r2
    Threads = {t1, t2, t3}
    Rows = {r1, r2}
    MaxLocks = 3
    MaxOps = 3
    NoThread = NoThread
SPECIFICATION FairLockSpec
INVARIANT LockTypeOK
INVARIANT NoLostUpdate
INVARIANT HeldByHandle
PROPERTY EveryVisitEnds
CHECK_DEADLOCK FALSE
