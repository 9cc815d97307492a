SPECIFICATION Spec
CONSTANTS
    NoAgent = "none"
    DefaultAgent = "coder"
    DefaultLanes <- MCLanes
    ClaimableLanes <- MCLanes
    Agents = {"coder", "big"}
    Jobs <- MCJobs
    Job <- MCJob
    Roles <- MCRoles
    Deployments <- OneDeployment
    MaxRuns = 2
    FaultKinds = {}
    MaxFaults = 0
INVARIANTS
    SlotsRespected
