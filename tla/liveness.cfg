SPECIFICATION FairSpec
CONSTANTS
    i1 = i1
    Issues = {i1}
    NoIssue = NoIssue
    NumLanes = 2
    EscLane = 2
    SelfClaimOk = FALSE
    HandKinds = {"remove","reopen"}
    MaxHands = 1
    FaultKinds = {"call","lost","resend","repeat","read","stamp","wedge","crash"}
    MaxFaults = 1
    MaxAttempts = 2
    InfraMax = 1
    Outcomes = {"rejected","nogo","declared","demoted","infra","pr","resolved","refused","gonopr"}
    Pruned = {"Completed"}
    MaxInProgress = 0
    ProbeModel = TRUE
    RecoveryMax = 3
INVARIANTS
    MarkerMeansParked
    HandedOverOnce
PROPERTIES
    NoStranding
    StuckClaimsReleased
    FailuresSettle
    MarkedSettles
    DeclaredParkLabelled
    ClaimPassEnds
    TerminalCollected
    RetireHandsOver
    RunsBudgeted
