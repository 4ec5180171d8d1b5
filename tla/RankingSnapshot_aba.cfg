SPECIFICATION Spec
CONSTANTS
    Requests = {q1}
    Files = {fa, fb}
    MaxCommits = 1
    MaxSwaps = 3
    MaxEpoch = 0
    None = None
SYMMETRY FileSymmetry
INVARIANTS
    PublishedRankingFaithful
