SPECIFICATION MCSpec
CONSTANTS
    Txns = {t1, t2}
    Workers = {w1, w2}
    IsSource = FALSE
    MaxReplacements = 1
    Lapses = {"approval"}
    ForeignNonce = FALSE
    MaxDisturbances = 2
    Approvals <- Three
    Revocations <- Two
    Callers = {c1, c2}
    Configs = {"c"}
    Profiles = {"p", "q"}
    Shown <- ShownAlike
    Begin <- Prepared
    MaxEdits = 2
SYMMETRY Symmetry
INVARIANTS
    BroadcastIsRecorded
    LateSendsBounded
    AuthorityHolds
PROPERTY NoRegress
CHECK_DEADLOCK FALSE
