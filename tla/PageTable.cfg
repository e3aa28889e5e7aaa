\* Three pages of two rows, a cache of two of them, an import of two rows.
CONSTANTS
    v1 = v1
    v2 = v2
    Vals = {v1, v2}
    RowsPerPage = 2
    MaxPages = 2
    LegacyRows = {1, 3}
    LegacyVal = v1
    MaxId = 5
    MaxOps = 4
    MaxKills = 2
SPECIFICATION Spec
INVARIANT TypeOK
INVARIANT CacheBounded
PROPERTY ImplementsRowMap
CHECK_DEADLOCK FALSE
