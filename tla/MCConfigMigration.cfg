CONSTANTS
    Carried <- MCCarried
    Filled <- MCFilled
    Packaged <- MCPackaged
    Levels = {0, 1, 5, 6}
    Heights = {0, 10}
    POS_INIT_ROUNDS = 3
    NUMBER_ACTIVE_VALIDATORS = 4
    NUMBER_STANDBY_VALIDATORS = 1
SPECIFICATION Spec
CHECK_DEADLOCK FALSE
INVARIANTS TypeOK OperatorsSettings WrittenValidAndBackedUp NoLogLost CertifyAtRoundStart
