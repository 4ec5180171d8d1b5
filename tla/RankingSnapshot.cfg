SPECIFICATION Spec
CONSTANTS
    Requests = {q1, q2}
    Files = {fa, fb}
    MaxCommits = 2
    MaxSwaps = 3
    MaxEpoch = 3
    None = None
SYMMETRY Symmetry
CONSTRAINT PathsOrRequests
INVARIANTS
    RankingMatchesSnapshot
    PublishedFaithfulUnlessFlicker
