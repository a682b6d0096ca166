CONSTANTS
    m1 = m1
    m2 = m2
    a1 = a1
    b1 = b1
    Msgs = {m1, m2}
    Rcpts = {a1, b1}
    Domains <- MCDomains
    To <- MCTo
    DomainOf <- MCDomainOf
    Mode <- MCMode
    Override = {}
    ReqTLS = {m2}
    Dane = {"db"}
    Signed = {}
    Converts = {b1}
    MinTLS = 1
    MinMX = 0
    ReuseLimit = 1
    MaxConnsPerKey = 1
    MaxKeys = 1
    Lifetime = 0
    StaleLifetime = 1
    MaxDest = 1
    MaxMx = 1
    MaxConns = 3
    MaxFaults = 1
SPECIFICATION Spec
INVARIANTS
    StatusHonest
    PooledClean
    
CHECK_DEADLOCK FALSE
