SPECIFICATION FairSpec
CONSTANTS
    Msgs = {m1}
    Rcpts = {r1, r2}
    Goroutines = {g1, g2}
    NullSender = {}
    HasBounce = TRUE
    MaxTries = 2
    MaxParallelism = 1
    IOFaults = {"header", "create", "copy", "meta", "sync", "update", "dsn"}
    TargetPanics = TRUE
    MaxFaults = 2
    MaxCloses = 1
    MaxPurges = 1
    MaxEvents = 2
INVARIANTS OneOwner AnswerKept RetriesBounded
PROPERTIES Drains
CHECK_DEADLOCK FALSE
