SPECIFICATION Spec
CONSTANTS
    i1 = i1
    Issues = {i1}
    NoIssue = NoIssue
    NumLanes = 2
    EscLane = 2
    SelfClaimOk = FALSE
    HandKinds = {}
    MaxHands = 0
    FaultKinds = {}
    MaxFaults = 0
    MaxAttempts = 3
    InfraMax = 2
    Outcomes = {"infra"}
    Pruned = {"Failed","Completed"}
    MaxInProgress = 0
    ProbeModel = FALSE
    RecoveryMax = 4
INVARIANTS
    InfraParkAnnounced
