SPECIFICATION FairSpec
CONSTANTS
    NoAgent = "none"
    DefaultAgent = "coder"
    DefaultLanes <- MCLanes
    ClaimableLanes <- MCLanes
    Agents = {"coder", "big"}
    Jobs <- MCJobs
    Job <- MCJob
    Roles <- MCRoles
    Deployments <- AllDeployments
    MaxRuns = 2
    FaultKinds = {"call", "lost", "read", "crash"}
    MaxFaults = 1
INVARIANTS
    TypeOK
    GatedWithinSlots
    ClaimsWithinSlots
PROPERTIES
    FixFirstUncontended
    EveryJobStarts
