SPECIFICATION Spec
CONSTANTS
    Players = {a, b, c}
    None = None
    MaxEntries = 3
SYMMETRY Symmetry
INVARIANTS
    TypeOK
    FollowerListed
    NoLoop
