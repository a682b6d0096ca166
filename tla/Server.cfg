CONSTANTS
  Configs <- MCConfigs
  MaxFaults = 1
  MaxSignals = 2
  MaxEdits = 2
  MaxClock = 3
  MaxConns = 1
SPECIFICATION Spec
INVARIANTS  HotReloadWhole RequiredWritten
PROPERTIES StopCompletes EditApplied
CHECK_DEADLOCK FALSE
