CONSTANTS
    MaxRuns = 2
    MaxHeight = 3
    RoundLength = 2
    FlagSets <- EveryFlags
    NodeInfos <- EveryNodes
    ExecCodes = {1, 127}
    ProbeMayFail = FALSE
    CommandsFileWritable = FALSE
SPECIFICATION FairSpec
CHECK_DEADLOCK FALSE
INVARIANTS TypeOK SingleActiveNode RecoverableOnceMoved NothingListedTwice
PROPERTIES V4UsesOwnConfig DataMovedOnlyWhenStopped V4StartsFromOwnGenesis AssetsFromFinalSnapshot RunEnds HandoverKept
