CONSTANTS
    Base = 4
    Keys <- MCKeys
    FirstKey <- MCFirstKey
    Owner <- MCOwner
    Databases <- MCDatabases
    PageSizes = {1, 2, 3}
SPECIFICATION FairSpec
CHECK_DEADLOCK FALSE
INVARIANTS TypeOK ScanComplete
PROPERTIES ScanAdvances ScanEnds
