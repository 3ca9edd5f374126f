SPECIFICATION MCSpec
CONSTANTS
    Runtimes = {r1, r2}
    MaxSupervisors = 2
    MaxBoots = 1
    MaxCrashes = 1
    N = 2
    MaxFaults = 1
    MaxOthers = 1
    MaxStops = 2
    Plan <- SmokeAndPair
SYMMETRY Symmetry
INVARIANTS
    LeaseHolds
    VolumesHold
    CampaignHolds
PROPERTIES
    ClosedLeaseHolds
    FrozenStays
CHECK_DEADLOCK FALSE
