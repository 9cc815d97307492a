SPECIFICATION Spec
CONSTANTS
    i1 = i1
    i2 = i2
    Issues = {i1,i2}
    NoIssue = NoIssue
    NumLanes = 2
    EscLane = 2
    SelfClaimOk = FALSE
    HandKinds = {"rival"}
    MaxHands = 1
    FaultKinds = {"call","resend","stamp","crash"}
    MaxFaults = 1
    MaxAttempts = 2
    InfraMax = 1
    Outcomes = {"rejected","nogo","declared","infra","pr","gonopr"}
    Pruned = {"Failed","Completed"}
    MaxInProgress = 1
    ProbeModel = FALSE
    RecoveryMax = 4
SYMMETRY Symmetry
INVARIANTS
    AnnouncedOnce
PROPERTIES
    NoRunOnParked
    ReviewStands
    NoRunOnRival
    CapRespected
