SPECIFICATION MCSpec
CONSTANTS
    Attempts = 2
    Stages = 2
    Accounts = {"runner"}
    AccountOf <- OneAccount
    Prices = {"low", "high"}
    MayRevert = {2}
    FaultPoints = {"stage", "reserve", "freeze", "check", "send", "await", "verify", "drop"}
    MaxFaults = 1
    MaxCrashes = 1
    MaxDisturbances = 2
INVARIANTS
    BroadcastIsDurable
    NonceSpentOnce
    OutcomesHold
    RootNonceAgrees
PROPERTIES
    RunSettles
    VolumesSettle
    CampaignPublishes
CHECK_DEADLOCK FALSE
