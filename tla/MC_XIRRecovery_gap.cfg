SPECIFICATION LedgerSpec
CONSTANTS
    Attempts = 2
    Stages = 1
    Accounts = {"runner"}
    AccountOf <- OneAccount
    Prices = {"low"}
    MayRevert = {}
    FaultPoints = {"freeze"}
    MaxFaults = 1
    MaxCrashes = 0
    MaxDisturbances = 1
PROPERTIES
    AttemptsSettle
