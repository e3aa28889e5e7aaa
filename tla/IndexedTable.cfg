\* Two sessions, a primary key and a plain index made later.
CONSTANTS
    s1 = s1
    s2 = s2
    k1 = k1
    k2 = k2
    Sessions = {s1, s2}
    Unique = {"pkey"}
    Plain = {"idx"}
    Late = {"idx"}
    Keys = {k1, k2}
    MaxRows = 2
    MaxStmts = 4
    MaxRestarts = 1
SYMMETRY Symmetry
SPECIFICATION Spec
INVARIANT TypeOK
INVARIANT IndexAgrees
INVARIANT UniqueRows
CHECK_DEADLOCK FALSE
