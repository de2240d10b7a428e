SPECIFICATION PinsSpec
CONSTANTS
    Capacity = 4
    WordSize = 8
    AllocIds <- TwoIds
    RequestBytes = {1, 2}
    Alignments = {1}
    Movabilities = {"MOVABLE", "PINNED", "NONMOVABLE"}
    MaxGeneration = 2
    MaxPins = 2
    Low = 30
    High = 70
    Critical = 95
    Requests <- RequestedPins
    WorkerBoots = {0}
    SourceBoots = {0}
    RelocationBytes = {}
    MaxPinnedBytes = 8
PROPERTY
    HeldInPlace
