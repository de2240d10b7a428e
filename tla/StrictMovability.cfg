SPECIFICATION PinsSpec
CONSTANTS
    Capacity = 6
    WordSize = 8
    AllocIds <- ThreeIds
    RequestBytes = {1, 2}
    Alignments = {1}
    Movabilities = {"MOVABLE", "PINNED", "NONMOVABLE"}
    MaxGeneration = 2
    MaxPins = 2
    Low = 30
    High = 70
    Critical = 95
    Requests <- ExplicitPins
    WorkerBoots = {0}
    SourceBoots = {0}
    RelocationBytes = {}
    MaxPinnedBytes = 8
INVARIANT
    StrictNeverPlanned
