SPECIFICATION Spec
CONSTANTS
    Focuses = {"auth", "dnsbl", "milter", "rspamd", "command", "authorize", "rdns", "tls", "mx", "pgp", "modify"}
    SpfResults = {"pass", "fail", "temperror"}
    Score <- MCScore
    Records <- MCRecords
    QuarThreshold = 1
    RejThreshold = 2
CHECK_DEADLOCK FALSE
INVARIANTS
    
    NoVerdictLost
    DeferralIsSound

    
