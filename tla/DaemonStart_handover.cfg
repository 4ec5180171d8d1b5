SPECIFICATION FairSpec
CONSTANTS
    Shims = {s1, s2}
    Daemons = {d1, d2}
    Stoppers = {t1}
    Manual = {d2}
    MaxAttempts = 2
    MaxKills = 1
    None = None
INVARIANTS
    CleanHandover
PROPERTY
    StaleLockRecovered
CHECK_DEADLOCK FALSE
