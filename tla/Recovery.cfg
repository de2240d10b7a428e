SPECIFICATION PersistenceSpec
CONSTANTS
    Capacity = 3
    WordSize = 8
    AllocIds <- TwoIds
    RequestBytes = {1, 2}
    Alignments = {1, 2}
    Movabilities = {"MOVABLE"}
    MaxGeneration = 2
    MaxPins = 1
    Low = 90
    High = 95
    Critical = 100
    Requests <- SavedRequests
    WorkerBoots = {0}
    SourceBoots = {0}
    RelocationBytes = {1}
    MaxPinnedBytes = 2
    MaxRecords = 1
    CutPoints = {0}
INVARIANTS
    RoundTrip
    DamageRefused
    KnownNeverHeld
    RecordsMirrorArena
