SPECIFICATION CoordinatorSpec
CHECK_DEADLOCK FALSE
CONSTANTS
    w1 = w1
    w2 = w2
    c1 = c1
    c2 = c2
    Workers <- TwoWorkers
    Controllers <- OneController
    Ids <- TwoIds
    Gens <- TwoGens
    ReuseIds = FALSE
    Nobody = Nobody
INVARIANTS
    CoordinatorTypeOK
    Lockstep
    NoOrphans
    StaleBootRefused
PROPERTIES
    CompletionsCurrent
    Answered
    WorkersAccepted
