SPECIFICATION Spec
CONSTANTS
    i1 = i1
    Issues = {i1}
    NoIssue = NoIssue
    NumLanes = 2
    EscLane = 2
    SelfClaimOk = FALSE
    HandKinds = {"close","closePr","regroom","reclassify","remove","rival"}
    MaxHands = 1
    FaultKinds = {"call","lost","read","wedge","crash"}
    MaxFaults = 2
    MaxAttempts = 3
    InfraMax = 2
    Outcomes = {"rejected","nogo","declared","infra","pr","stopped"}
    Pruned = {"Failed","Completed"}
    MaxInProgress = 1
    ProbeModel = FALSE
    RecoveryMax = 4
INVARIANTS
    TypeOK
    BudgetOK
    RunsCharged
    LaneKept
PROPERTIES
    RunsBudgeted
