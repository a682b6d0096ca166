SPECIFICATION Spec
CONSTANTS
    Msgs = {m1}
    Rcpts = {r1}
    Goroutines = {g1, g2}
    NullSender = {}
    HasBounce = TRUE
    MaxTries = 2
    MaxParallelism = 1
    IOFaults = {}
    TargetPanics = FALSE
    MaxFaults = 0
    MaxCloses = 1
    MaxPurges = 0
    MaxEvents = 1
INVARIANT OnlyPanickedSetAside
CHECK_DEADLOCK FALSE
