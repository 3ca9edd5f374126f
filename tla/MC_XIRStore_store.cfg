SPECIFICATION MCSpec
CONSTANTS
    Txns = {t1}
    Workers = {w1, w2}
    Kinds = {"confirmations", "finalized"}
    Confirmations = 2
    Depth = 1
    Overlap = 1
    MaxPages = 2
    PageSize = 1
    MaxBlocks = 4
    MaxVersions = 2
    MaxCrashes = 1
    Assignments <- Uniform
    Processes = {w1, w2}
    Profiles <- SmallProfiles
    Stages = 1
    TTL = 2
    Horizon = 1
    MaxWindows = 1
    MaxTime = 2
SYMMETRY Symmetry
INVARIANTS
    FinalityHolds
    CheckpointComplete
    AdmissionHolds
PROPERTY NoResurrection
CHECK_DEADLOCK FALSE
