CONSTANTS
    MaxHeight = 3
    Observed = 2
    Polls = {p1, p2}
    Handlers = {h1, h2}
SPECIFICATION FairSpec
CHECK_DEADLOCK FALSE
INVARIANTS TypeOK ResolvesOnlyFinal
PROPERTIES PollingStops WatchEnds WaitKept
