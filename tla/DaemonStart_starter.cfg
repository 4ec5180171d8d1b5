SPECIFICATION Spec
CONSTANTS
    Shims = {s1, s2, s3}
    Daemons = {d1, d2, d3}
    Stoppers = {}
    Manual = {}
    MaxAttempts = 3
    MaxKills = 1
    None = None
PROPERTY
    LiveLockKept
CHECK_DEADLOCK FALSE
