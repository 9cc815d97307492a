SPECIFICATION Spec
CONSTANTS
    i1 = i1
    Issues = {i1}
    NoIssue = NoIssue
    NumLanes = 2
    EscLane = 2
    SelfClaimOk = FALSE
    HandKinds = {"close"}
    MaxHands = 1
    FaultKinds = {}
    MaxFaults = 0
    MaxAttempts = 3
    InfraMax = 2
    Outcomes = {"rejected"}
    Pruned = {"Failed","Completed"}
    MaxInProgress = 0
    ProbeModel = FALSE
    RecoveryMax = 4
PROPERTIES
    GoneClaimEscalates
