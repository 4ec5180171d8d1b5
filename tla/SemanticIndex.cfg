SPECIFICATION MCSpec
CONSTANTS
    Files = {f1, f2}
    Contents = {c1, c2}
    Setups = {a, b}
    Dialects = {C, Cpp}
    Augmented = {Cpp}
    BatchSize = 1
    MaxEvents = 3
    None = None
INVARIANTS
    AttestedRowsUniform
    PassCovers
    HeadersCurrent
PROPERTY
    TableRecovers
