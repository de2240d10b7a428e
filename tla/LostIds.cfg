SPECIFICATION PersistenceSpec
CONSTANTS
    Capacity = 4
    WordSize = 8
    AllocIds <- TwoIds
    RequestBytes = {1, 2}
    Alignments = {1, 2}
    Movabilities = {"MOVABLE"}
    MaxGeneration = 2
    MaxPins = 1
    Low = 30
    High = 70
    Critical = 95
    Requests <- PlainRequests
    WorkerBoots = {0}
    SourceBoots = {0}
    RelocationBytes = {}
    MaxPinnedBytes = 0
    MaxRecords = 2
    CutPoints = {7}
INVARIANT
    LostNeverHeld
