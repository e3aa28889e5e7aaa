\* Two sessions that interleave, automatic checkpoints, failing writes and a restart.
CONSTANTS
    s1 = s1
    s2 = s2
    Sessions = {s1, s2}
    Interval = 6
    MaxWrites = 2
    MaxTxns = 3
    MaxStmts = 3
    MaxRestarts = 1
SYMMETRY Symmetry
SPECIFICATION Spec
INVARIANT TypeOK
INVARIANT CrashAtomicity
INVARIANT RollbackRestores
PROPERTY OnlyCommitChangesRecovery
CHECK_DEADLOCK FALSE
