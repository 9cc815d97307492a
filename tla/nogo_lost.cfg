SPECIFICATION Spec
CONSTANTS
    i1 = i1
    Issues = {i1}
    NoIssue = NoIssue
    NumLanes = 2
    EscLane = 2
    SelfClaimOk = FALSE
    HandKinds = {}
    MaxHands = 0
    FaultKinds = {"call"}
    MaxFaults = 1
    MaxAttempts = 3
    InfraMax = 2
    Outcomes = {"nogo"}
    Pruned = {"Failed","Completed"}
    MaxInProgress = 0
    ProbeModel = FALSE
    RecoveryMax = 4
PROPERTIES
    FailedParkKeepsTombstone
