SPECIFICATION Spec
CONSTANTS
    Projects = {p1, p2, p3}
    Requests = {q1, q2}
    Flights = {f1, f2}
    Sizes = {2}
    MaxProjects = 2
    MaxPayload = 3
    MaxGen = 1
    None = None
SYMMETRY Symmetry
CONSTRAINT OneOrMany
INVARIANTS
    TypeOK
    HeldEntryStays
    PayloadAccounting
    RetiredAccounting
PROPERTIES
    RankingNeverOlder
