SPECIFICATION MCSpec
CONSTANTS
    Route <- Routes
    MaxSetbacks = 1
INVARIANTS
    DeploymentIsWired
    VerdictsAreTrue
    PlacementHolds
PROPERTY FaultsValidate
CHECK_DEADLOCK FALSE
