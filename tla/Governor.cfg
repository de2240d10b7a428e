SPECIFICATION Spec
CONSTANTS
    Capacity = 5
    WordSize = 8
    AllocIds <- MCIds
    RequestBytes = {1, 2}
    Alignments = {1, 2}
    Movabilities = {"MOVABLE", "PINNED", "NONMOVABLE"}
    MaxGeneration = 2
    MaxPins = 1
    Low = 30
    High = 70
    Critical = 95
    Requests <- MixedRequests
    WorkerBoots = {0, 7, 8}
    SourceBoots = {0}
    RelocationBytes = {}
    MaxPinnedBytes = 4
INVARIANTS
    ReclaimSafe
    PlanApplies
    GovernorTypeOK
    RecordsMirrorArena
    IdsFresh
    CommittedExact
PROPERTIES
    RetiredForever
    HandlesKeepLedger
    Hysteresis
