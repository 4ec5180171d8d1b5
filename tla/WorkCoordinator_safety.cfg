CONSTANTS
    Calls = {c1, c2}
    Controls = {k1, k2}
    Flights = {k2}
    Projects = {p1, p2}
    NoProject = NoProject
    NoWork = NoWork
    NoReason = NoReason
    Classes = {"Analysis"}
    Reasons = {"ClientCancelled", "Shutdown"}
    RequestLimit = 1
    RequestsPerProject = 1
    Lane <- MCTightLane
SPECIFICATION Spec
SYMMETRY Symmetry
INVARIANTS
    TypeOK
    AccountingExact
    LimitsRespected
    NoLostWakeup
    ShutdownReachesAll
    NoLeakedCallback
PROPERTIES
    CancelledNeverAdmitted
    ImplementsAdmission
