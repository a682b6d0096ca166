SPECIFICATION FairSpec
CONSTANTS
    Values = {v1, v2}
    NoValue = NoValue
    MaxTime = 2
    MaxCloses = 2
INVARIANTS WakeupPending DispatchedOnce
PROPERTIES ImplementsSchedule WheelProgress
CHECK_DEADLOCK FALSE
