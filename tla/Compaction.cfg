SPECIFICATION CompactionSpec
CONSTANTS
    Capacity = 4
    WordSize = 8
    AllocIds <- ThreeIds
    RequestBytes = {1, 2}
    Alignments = {1}
    Movabilities = {"MOVABLE", "PINNED", "NONMOVABLE"}
    MaxGeneration = 2
    MaxPins = 2
    Low = 30
    High = 70
    Critical = 95
    Requests <- Buffers
    WorkerBoots = {0}
    SourceBoots = {0}
    RelocationBytes = {}
    MaxPinnedBytes = 2
    Quiet = TRUE
INVARIANTS
    ContentsKept
    PinsCounted
PROPERTIES
    PromisedGain
    EvictsReclaimable
    HeldInPlace
