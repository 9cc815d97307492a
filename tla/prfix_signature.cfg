SPECIFICATION Spec
CONSTANTS
    p1 = p1
    PRs = {p1}
    NoPr = NoPr
    c1 = c1
    c2 = c2
    Coders = {c1,c2}
    NormalCoder = c1
    EscalatedCoder = c2
    Slots = 1
    OtherLoad = 0
    FixAttempts = 2
    FixProgress = 2
    Surfaces = {"lint"}
    Merges = {"dirty","unknown","clean","blocked"}
    Checks = {"passed","failed","pending"}
    FixHands = {}
    MaxFixHands = 0
    FaultKinds = {}
    MaxFaults = 0
INVARIANTS
    SameWallCharged
