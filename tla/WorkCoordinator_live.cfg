CONSTANTS
    Calls = {c1, c2}
    Controls = {k1, k2}
    Flights = {k1, k2}
    Projects = {p1, p2}
    NoProject = NoProject
    NoWork = NoWork
    NoReason = NoReason
    Classes = {"Analysis"}
    Reasons = {"Shutdown"}
    RequestLimit = 1
    RequestsPerProject = 1
    Lane <- MCNarrowLane
SPECIFICATION FairSpec
PROPERTIES
    EveryCallReturns
    ShutdownDrains
