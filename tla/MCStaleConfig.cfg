CONSTANTS
    MaxRuns = 2
    MaxHeight = 3
    RoundLength = 2
    FlagSets <- MigrateFlags
    NodeInfos <- GoodNodes
    ExecCodes = {1}
    ProbeMayFail = FALSE
    CommandsFileWritable = TRUE
SPECIFICATION Spec
CHECK_DEADLOCK FALSE
PROPERTY V4UsesConfirmedConfig
