SPECIFICATION ArenaSpec
SYMMETRY Symmetry
CONSTANTS
    Capacity = 5
    WordSize = 8
    AllocIds = {a, b, c}
    RequestBytes = {1, 2, 5}
    Alignments = {1, 2, 4}
    Movabilities = {"MOVABLE"}
    MaxGeneration = 2
    MaxPins = 1
INVARIANTS
    TypeOK
    Tiling
    Coalesced
    FreeIndexExact
    AllocIndexExact
    ExactAccounting
    Aligned
    SummaryFresh
    NoFalseOOM
PROPERTY
    ImplementsLedger
