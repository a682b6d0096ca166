SPECIFICATION Spec
CONSTANTS
    Users = {u1}
    LocalUsers = {u1}
    Passwords = {w1, w2}
    Procs = {p1, p2}
    None = None
    ConfigDefault = 3
    Limits = {4}
    HeaderLen = 1
    BodyLen = 2
    MaxAttempts = 2
    MaxOps = 3
    MaxParallel = 2
    MaxFaults = 1
    MaxStored = 3
SYMMETRY Symmetry
CHECK_DEADLOCK FALSE
INVARIANTS  AccountTracked 
 
