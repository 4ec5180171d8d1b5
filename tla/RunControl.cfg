SPECIFICATION FairSpec
CONSTANTS
    r1 = r1
    r2 = r2
    c1 = c1
    k1 = k1
    Controls = {k1}
    Runs = {r1, r2}
    Conns = {c1}
    Callbacks <- MCCallbacks
    Of <- MCOf
    Reasons = {"ClientCancelled", "DeadlineExceeded"}
    NoReason = NoReason
    Other = Other
INVARIANTS
    TypeOK
    CancelledRunsTerminated
    TerminationReportedAsStop
    CallbacksOwned
PROPERTIES
    CancellationStopsWork
