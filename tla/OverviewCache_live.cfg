SPECIFICATION FairSpec
CONSTANTS
    Projects = {p1}
    Requests = {q1, q2}
    Flights = {f1}
    Sizes = {1}
    MaxProjects = 1
    MaxPayload = 1
    MaxGen = 1
    None = None
PROPERTIES
    EveryGetReturns
INVARIANTS
    WaitersCounted
