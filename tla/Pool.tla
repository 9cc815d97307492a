-------------------------------- MODULE Pool --------------------------------
(***************************************************************************)
(* The coder pool across the passes of a tick: which coder Agent each      *)
(* Workload is given and how the passes account for the slots they take.   *)
(* load is run_tick's coder_load, which the retry, recovery and PR-fix     *)
(* reconcile passes draw on in place; the claim pass (run_once) and the    *)
(* PR-fix drain each draw on a copy of their own.                          *)
(***************************************************************************)
EXTENDS Faults, Routing, FiniteSets

CONSTANTS
    Agents,
    Jobs,          \* the issues and the PR-fix items
    Job,           \* their attributes: kind, lane, repo, language, number
    Roles,         \* lane -> role, as dispatch publishes it
    Deployments,   \* the configurations considered
    MaxRuns        \* runs of a job before it is given up, and before its model holds

Maps == {"slots", "fixFirst", "lanes", "repos", "bases", "fix", "polled"}

\* What the value of a map may be: an Agent's name, or a list of them.
IsName(v)  == \E a \in Agents : v = Name(a)
IsValue(v) == IsName(v) \/ (v.agents \in Seq(Agents) /\ v = List(v.agents))

ASSUME PoolAssumption ==
    /\ DefaultAgent \in Agents /\ NoAgent \notin Agents /\ MaxRuns \in Nat \ {0}
    /\ IsFiniteSet(Jobs)
    /\ \A j \in Jobs : Job[j].kind \in {"issue", "fix"} /\ Job[j].number \in Nat

ASSUME DeploymentAssumption ==
    /\ DefaultLanes \in Seq(STRING) /\ ClaimableLanes \in Seq(STRING)
    /\ \A d \in Deployments :
        /\ DOMAIN d = Maps /\ d.polled \in Seq(STRING)
        /\ \A a \in DOMAIN d.slots : d.slots[a] \in Int
        /\ \A m \in {d.lanes, d.repos, d.bases} : \A key \in DOMAIN m : IsValue(m[key])
        /\ \A key \in DOMAIN d.fix : IsName(d.fix[key])

VARIABLES
    conf,      \* the deployment, fixed
    work,      \* each job: yet to come, waiting (ready or QUEUED), its coder or its
               \* reviewer at work, its Workload failed, parked on its model, or over
    coder,     \* the coder its Workload names
    claimed,   \* history: is that coder at work on account of a claim?
    runs,      \* the Workloads it has had, until it is over
    pc, known, \* known: has this tick the lane topology?
    load, own, \* coder_load and the claim pass's or the drain's copy of it
    laneAt, todo

jobVars == <<work, coder, claimed, runs>>
vars    == <<conf, jobVars, pc, known, load, own, laneAt, todo, faults>>

Issues == {j \in Jobs : Job[j].kind = "issue"}
Fixes  == {j \in Jobs : Job[j].kind = "fix"}

Works  == {"absent", "waiting", "coding", "review", "failed", "parked", "over"}
Passes == {"idle", "started", "counted", "retry", "recover", "claim", "fixes", "drain"}

NoLoad == [a \in Agents |-> 0]

TypeOK ==
    /\ conf \in Deployments
    /\ work \in [Jobs -> Works] /\ coder \in [Jobs -> Agents \cup {NoAgent}]
    /\ claimed \in [Jobs -> BOOLEAN] /\ runs \in [Jobs -> 0 .. MaxRuns]
    /\ pc \in Passes /\ known \in BOOLEAN
    /\ load \in [Agents -> Nat] /\ own \in [Agents -> Nat]
    /\ laneAt \in Nat /\ todo \subseteq Jobs

Init ==
    /\ conf \in Deployments
    /\ work = [j \in Jobs |-> IF j \in Fixes THEN "waiting" ELSE "absent"]
    /\ coder = [j \in Jobs |-> NoAgent]
    /\ claimed = [j \in Jobs |-> FALSE] /\ runs = [j \in Jobs |-> 0]
    /\ pc = "idle" /\ known = FALSE /\ load = NoLoad /\ own = NoLoad
    /\ laneAt = 0 /\ todo = {} /\ faults = 0

topology == IF known THEN Roles ELSE <<>>

-----------------------------------------------------------------------------
(* The start of the tick.                                                  *)

StartTick ==
    /\ pc = "idle" /\ pc' = "started"
    /\ \/ known' = TRUE /\ NoFault
       \/ known' = FALSE /\ Fault("read")
    /\ UNCHANGED <<conf, jobVars, load, own, laneAt, todo>>

\* Mutant: the Workloads whose coder has failed are counted too.
BusyFailed(j, blind) == work[j] \in {"coding", "failed"} \/ (blind /\ work[j] = "review")

\* _coder_still_busy: the coder's own tasks decide, and an unreadable task list is busy.
Busy(j, blind) == work[j] = "coding" \/ (blind /\ work[j] = "review")

\* load_by_coder_agent, when there are slots to compare it with.
CountLoad ==
    /\ pc = "started" /\ pc' = "counted"
    /\ \E blind \in BOOLEAN :
        /\ IF blind THEN Fault("read") ELSE NoFault
        /\ load' = IF Rationed(conf)
                   THEN [a \in Agents |-> Cardinality({j \in Jobs : Busy(j, blind) /\ coder[j] = a})]
                   ELSE NoLoad
    /\ UNCHANGED <<conf, jobVars, known, own, laneAt, todo>>

-----------------------------------------------------------------------------
(* What the passes share.                                                  *)

InPass(p, j) == pc = p /\ j \in todo

Handled(j) == todo' = todo \ {j}

Full(c, held) == Rationed(conf) /\ FreeSlots(conf, c, held) <= 0

Started(j, c, byClaim) ==
    /\ work' = [work EXCEPT ![j] = "coding"]
    /\ coder' = [coder EXCEPT ![j] = c]
    /\ claimed' = [claimed EXCEPT ![j] = byClaim]
    /\ runs' = [runs EXCEPT ![j] = @ + 1]

Plus(held, c) == [held EXCEPT ![c] = @ + 1]

\* Mutant: the gated passes forget what they took.
LaunchUncounted(j, c) == Started(j, c, FALSE) /\ NoFault /\ load' = load

\* A create that raises is not counted, whether it took effect or not.
Launch(j, c) ==
    \/ Started(j, c, FALSE) /\ NoFault /\ load' = Plus(load, c)
    \/ UNCHANGED jobVars /\ Fault("call") /\ load' = load
    \/ Started(j, c, FALSE) /\ Fault("lost") /\ load' = load

Deferred == UNCHANGED jobVars /\ NoFault /\ load' = load

\* Mutant: one run too many.
SpentLate(j) == runs[j] > MaxRuns

Spent(j) == runs[j] >= MaxRuns

\* A job that is over has no Workload, nor has one parked on its model.
Leaves(j, w) ==
    /\ work' = [work EXCEPT ![j] = w]
    /\ coder' = [coder EXCEPT ![j] = NoAgent]
    /\ claimed' = [claimed EXCEPT ![j] = FALSE]
    /\ runs' = IF w = "over" THEN [runs EXCEPT ![j] = 0] ELSE runs

GivenUp(j) == Spent(j) /\ Leaves(j, "over") /\ NoFault /\ load' = load

\* Neither the load nor the slots nor the fix-first agents reach these passes' choice.
Oblivious == [conf EXCEPT !.slots = <<>>, !.fixFirst = {}]

PlainCoder(j) == CoderAgentFor(Oblivious, topology, Job[j], NoLoad)

-----------------------------------------------------------------------------
(* reconcile_failures and redrive_infra.                                   *)

StartRetry ==
    /\ pc = "counted" /\ pc' = "retry"
    /\ todo' = {j \in Issues : work[j] = "failed"}
    /\ NoFault
    /\ UNCHANGED <<conf, jobVars, known, load, own, laneAt>>

RetryJob(j) ==
    /\ InPass("retry", j) /\ Handled(j)
    /\ \/ GivenUp(j)
       \/ ~Spent(j) /\ Full(PlainCoder(j), load) /\ Deferred
       \/ ~Spent(j) /\ ~Full(PlainCoder(j), load) /\ Launch(j, PlainCoder(j))
    /\ UNCHANGED <<conf, pc, known, own, laneAt>>

StartRecover ==
    /\ pc = "retry" /\ todo = {} /\ pc' = "recover"
    /\ todo' = {j \in Issues : work[j] = "parked"}
    /\ NoFault
    /\ UNCHANGED <<conf, jobVars, known, load, own, laneAt>>

\* The model may still be down.
RedriveJob(j) ==
    /\ InPass("recover", j) /\ Handled(j)
    /\ \/ Deferred
       \/ ~Full(PlainCoder(j), load) /\ Launch(j, PlainCoder(j))
    /\ UNCHANGED <<conf, pc, known, own, laneAt>>

-----------------------------------------------------------------------------
(* run_once; CODER_AGENT_SLOTS alone limits it, MAX_IN_PROGRESS being 0.   *)

StartClaim ==
    /\ pc = "recover" /\ todo = {} /\ pc' = "claim"
    /\ own' = load /\ laneAt' = 1
    /\ NoFault
    /\ UNCHANGED <<conf, jobVars, known, load, todo>>

polled == PolledLanes(conf, known)

Claiming == pc = "claim" /\ laneAt <= Len(polled)

\* Mutant: the pass looks at the load the tick began with.
SaturatedStale == CodersSaturated(conf, CoderCandidates(conf, polled[laneAt], load), load)

Saturated == CodersSaturated(conf, CoderCandidates(conf, polled[laneAt], own), own)

\* The tick's snapshot of the queues is module Claim's matter: an issue that arrives
\* during the tick counts as having arrived before it.
Claimable == {j \in Issues : work[j] = "waiting" /\ Job[j].lane = polled[laneAt]}

NextLane ==
    /\ Claiming /\ (Saturated \/ Claimable = {})
    /\ laneAt' = laneAt + 1
    /\ NoFault
    /\ UNCHANGED <<conf, jobVars, pc, known, load, own, todo>>

\* A create that raises leaves run_tick, see CrashTick.
ClaimJob(j) ==
    /\ Claiming /\ ~Saturated /\ j \in Claimable
    /\ LET c == CoderAgentFor(conf, topology, Job[j], own)
       IN Started(j, c, TRUE) /\ own' = Plus(own, c)
    /\ NoFault
    /\ UNCHANGED <<conf, pc, known, load, laneAt, todo>>

-----------------------------------------------------------------------------
(* reconcile_pr_fixes and drain_pr_fixes.                                  *)

StartFixes ==
    /\ pc = "claim" /\ laneAt > Len(polled) /\ pc' = "fixes"
    /\ own' = NoLoad /\ laneAt' = 0
    /\ todo' = {j \in Fixes : work[j] = "failed"}
    /\ NoFault
    /\ UNCHANGED <<conf, jobVars, known, load>>

\* The same tier again, or the next one.
RetryFix(j) ==
    /\ InPass("fixes", j) /\ Handled(j)
    /\ \/ GivenUp(j)
       \/ /\ ~Spent(j)
          /\ \E c \in {coder[j], PrFixCoderFor(conf, "ESCALATED")} :
                IF Full(c, load) THEN Deferred ELSE Launch(j, c)
    /\ UNCHANGED <<conf, pc, known, own, laneAt>>

StartDrain ==
    /\ pc = "fixes" /\ todo = {} /\ pc' = "drain"
    /\ own' = load
    /\ todo' = {j \in Fixes : work[j] = "waiting"}
    /\ NoFault
    /\ UNCHANGED <<conf, jobVars, known, load, laneAt>>

DrainFix(j) ==
    /\ InPass("drain", j) /\ Handled(j)
    /\ LET c == PrFixCoderFor(conf, Job[j].lane) IN
        \/ Full(c, own) /\ own' = own /\ UNCHANGED jobVars /\ NoFault
        \/ ~Full(c, own) /\ Started(j, c, FALSE) /\ own' = Plus(own, c) /\ NoFault
        \/ ~Full(c, own) /\ UNCHANGED jobVars /\ own' = own /\ Fault("call")
        \/ ~Full(c, own) /\ Started(j, c, FALSE) /\ own' = own /\ Fault("lost")
    /\ UNCHANGED <<conf, pc, known, load, laneAt>>

EndTick ==
    /\ pc' = "idle" /\ known' = FALSE /\ load' = NoLoad /\ own' = NoLoad
    /\ laneAt' = 0 /\ todo' = {}
    /\ UNCHANGED <<conf, jobVars>>

FinishTick == pc = "drain" /\ todo = {} /\ EndTick /\ NoFault

CrashTick == pc # "idle" /\ EndTick /\ Fault("crash")

-----------------------------------------------------------------------------
(* Dispatch and the controller.                                            *)

outside == <<conf, pc, known, load, own, laneAt, todo>>

Becomes(j, w) ==
    /\ work' = [work EXCEPT ![j] = w]
    /\ claimed' = [claimed EXCEPT ![j] = FALSE]
    /\ UNCHANGED <<coder, runs>>

\* Dispatch grooms an issue to ready or queues a PR.
Arrive(j) ==
    /\ work[j] = "absent" /\ Becomes(j, "waiting")
    /\ NoFault /\ UNCHANGED outside

\* The coder's tasks end: under review, rejected, or its model gone.
CoderEnds(j) ==
    /\ work[j] = "coding"
    /\ \/ Becomes(j, "review")
       \/ Becomes(j, "failed")
       \/ j \in Issues /\ ~Spent(j) /\ Leaves(j, "parked")
    /\ NoFault /\ UNCHANGED outside

ReviewEnds(j) ==
    /\ work[j] = "review"
    /\ Leaves(j, "over") \/ Becomes(j, "failed")
    /\ NoFault /\ UNCHANGED outside

-----------------------------------------------------------------------------

TickStep ==
    \/ StartTick \/ CountLoad \/ StartRetry \/ StartRecover \/ StartClaim \/ NextLane
    \/ StartFixes \/ StartDrain \/ FinishTick
    \/ \E j \in Jobs :
        RetryJob(j) \/ RedriveJob(j) \/ ClaimJob(j) \/ RetryFix(j) \/ DrainFix(j)

Next == TickStep \/ CrashTick \/ \E j \in Jobs : Arrive(j) \/ CoderEnds(j) \/ ReviewEnds(j)

Spec == Init /\ [][Next]_vars

\* The CronJob keeps running, coders and reviewers finish.
FairSpec ==
    /\ Spec /\ WF_vars(TickStep)
    /\ \A j \in Jobs : WF_vars(CoderEnds(j)) /\ WF_vars(ReviewEnds(j))

-----------------------------------------------------------------------------
(* Properties.                                                             *)

Coding(a)  == {j \in Jobs : work[j] = "coding" /\ coder[j] = a}
Holding(a) == Cardinality(Coding(a))

\* The deployments whose lanes the claim pass can judge before it claims, whether the
\* topology is known or not: each polled lane names its coders itself or, if its role
\* names none, through "*", in a list with a member that is not fix-first.
Judgeable ==
    {d \in Deployments :
        \A seen \in BOOLEAN : \A l \in Among(PolledLanes(d, seen)) :
            LET v == CandidateValue(d, l)
            IN /\ v.list /\ ~(Among(v.agents) \subseteq d.fixFirst)
               /\ l \in DOMAIN d.lanes \/ ~(seen /\ RoleIn(d.lanes, Roles, l))}

Visible == conf \in Judgeable

\* The passes that ask for a free slot of the coder they use never take more of them
\* than there are, whatever ends, fails or is deferred meanwhile; only a create whose
\* reply was lost may be one more.
GatedWithinSlots ==
    Rationed(conf) =>
        \A a \in Agents :
            Cardinality({j \in Coding(a) : ~claimed[j]}) <= SlotsFor(conf, a) + faults

\* Nor does the claim pass, where it can see the coders of its lanes.
ClaimsWithinSlots ==
    Rationed(conf) /\ Visible =>
        \A a \in Agents :
            Cardinality({j \in Coding(a) : claimed[j]}) <= SlotsFor(conf, a)

\* An issue is claimed for a fix-first agent only while the agent codes nothing at
\* all: fixes keep their slot uncontended.  Only with CODER_AGENT_SLOTS: without them
\* the tick counts no load, and every agent looks idle.
FixFirstUncontended ==
    [][\A j \in Issues :
         Rationed(conf) /\ Visible /\ pc = "claim" /\ work[j] = "waiting" /\ work'[j] = "coding"
         /\ coder'[j] \in conf.fixFirst
         => Holding(coder'[j]) <= faults]_vars

\* Every issue and every fix gets its coder: a slot freed is noticed, and no pass
\* starves another.
EveryJobStarts == \A j \in Jobs : work[j] = "waiting" ~> work[j] # "waiting"

\* The passes draw from one pool: no coder is given more than its slots.
SlotsRespected ==
    Rationed(conf) => \A a \in Agents : Holding(a) <= SlotsFor(conf, a) + faults

\* No issue is claimed for a coder that the pass itself counts as full.
ClaimFindsSlot ==
    [][\A j \in Issues :
         Rationed(conf) /\ pc = "claim" /\ work[j] = "waiting" /\ work'[j] = "coding"
         => FreeSlots(conf, coder'[j], own) > 0]_vars

=============================================================================
