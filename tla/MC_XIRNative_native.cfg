SPECIFICATION FairSpec
CONSTANTS
    Batches <- PairOrSwitch
    Kinds = {"multihop", "native"}
    Concurrency = 2
    MayRevert = {"dispatch"}
    Budget <- OneOrTwo
INVARIANTS
    SpentOnce
    DeliveryHolds
PROPERTY CompletesOrStalls
CHECK_DEADLOCK FALSE
