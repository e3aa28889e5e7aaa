\* Two sessions, explicit and implicit transactions, two faults, two backups.
CONSTANTS
    s1 = s1
    s2 = s2
    Sessions = {s1, s2}
    MaxStmts = 4
    MaxFaults = 2
    MaxBackups = 2
SPECIFICATION FairSpec
INVARIANT TypeOK
INVARIANT CountExact
INVARIANT ArchiveIsAtomic
PROPERTY BackupEndsUnlessBlocked
CHECK_DEADLOCK FALSE
