CONSTANTS
    RoundLength = 2
    ActiveSlots = 1
    LegacyReserve = 2
    Snapshots <- MCSnapshots
SPECIFICATION Spec
CHECK_DEADLOCK FALSE
INVARIANT NoBannedValidator
