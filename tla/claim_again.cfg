SPECIFICATION FairSpec
CONSTANTS
    i1 = i1
    Issues = {i1}
    NoIssue = NoIssue
    NumLanes = 1
    EscLane = 0
    SelfClaimOk = TRUE
    HandKinds = {}
    MaxHands = 0
    FaultKinds = {}
    MaxFaults = 0
    MaxAttempts = 3
    InfraMax = 2
    Outcomes = {"pr"}
    Pruned = {"Failed","Completed"}
    MaxInProgress = 0
    ProbeModel = FALSE
    RecoveryMax = 4
PROPERTIES
    ClaimsDrain
