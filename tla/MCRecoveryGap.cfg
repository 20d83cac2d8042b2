CONSTANTS
    MaxRuns = 1
    MaxHeight = 3
    RoundLength = 2
    FlagSets <- StartFlags
    NodeInfos <- GoodNodes
    ExecCodes = {1}
    ProbeMayFail = FALSE
    CommandsFileWritable = TRUE
SPECIFICATION Spec
CHECK_DEADLOCK FALSE
INVARIANT RecoveryCoversPending
