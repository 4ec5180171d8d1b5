SPECIFICATION FairSpec
CONSTANTS
    Files = {b}
    Contents = {0, 1}
    Dir = d
    Nested = {b}
    Ignorable = {b}
    QueueCapacity = 1
    PendingLimit = 2
    MaxWorkRetries = 1
    StartupTries = 2
    MaxRemovalFailures = 2
    MaxEdits = 2
    MaxFaults = 2
    MaxPasses = 1
    None = None
INVARIANTS
    TypeOK
    NoLostEdit
PROPERTIES
    Converges
