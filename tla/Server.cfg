\* Three clients for two slots, so that the limit is reached and waited for.
CONSTANTS
    c1 = c1
    c2 = c2
    c3 = c3
    Clients = {c1, c2, c3}
    MaxConnections = 2
    MaxSignals = 2
    MaxConnects = 5
    MaxQueries = 3
SPECIFICATION FairSpec
INVARIANT TypeOK
INVARIANT SlotsExact
INVARIANT CheckpointIsLast
PROPERTY ShutdownEnds
CHECK_DEADLOCK FALSE
