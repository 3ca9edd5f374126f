SPECIFICATION MCSpec
CONSTANTS
    Attempts = {a1, a2}
    Stages = {s1, s2}
    Chains = {"A"}
    Batches = {1, 2}
    ChainOf <- OneChain
    BatchOf <- OneBatch
    Worst <- PlannedOne
    Nonces = {7, 8}
    Amounts = {0, 1}
    Balances = {2, 9}
    MaxTransaction <- Ones
    MaxBatch <- Threes
    MaxRun <- Threes
    Floor <- Zeros
    Engines = {"e1", "e2"}
    Consecutive = 2
    Window = 3
    RateFailures = 2
    TimeoutCount = 2
    MaxOutcomes = 3
    MaxControls = 1
    MaxChecks = 1
    Scopes = {{"b", "x"}}
    MaxFaults = 1
    MaxPasses = 3
    MaxLate = 1
SYMMETRY Symmetry
INVARIANT ReservationHeld
CHECK_DEADLOCK FALSE
