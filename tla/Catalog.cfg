\* Two tables and two sessions, automatic checkpoints and a restart.
CONSTANTS
    t1 = t1
    t2 = t2
    a = a
    b = b
    Tables = {t1, t2}
    Sessions = {a, b}
    Interval = 3
    MaxStmts = 4
    MaxRestarts = 1
SPECIFICATION Spec
SYMMETRY Symmetry
INVARIANT TypeOK
INVARIANT MetaCurrent
INVARIANT RowsBelong
INVARIANT IndexesMatch
INVARIANT Reopens
CHECK_DEADLOCK FALSE
