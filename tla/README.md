# Formal model of foreman-dispatch-bridge

The bridge is a CronJob. Each run (a *tick*, `run_tick` in `bridge/main.py`) moves
work between two services that do not know each other: **dispatch**, which keeps
GitHub issues with a status label, an agent label (the claim) and a lane, and
**Foreman**, a Kubernetes controller that runs a coder for each `Workload` object.
The bridge keeps no state of its own between ticks: everything it knows is read
back from the two services, through requests that may fail, from other actors who
change them while it runs. That is where it is hard, and what these modules model.

## 1. The system

| Component | State | Operations | Correct when |
|---|---|---|---|
| failure reconciliation (`retry.py`) | none; reads the counters on the Workload | park (declared, demoted, repeated NO-GO, exhausted), infra give-up, escalate, retry, skip | counters stay in budget, nothing is lost, a parked issue is not rerun |
| infra recovery (`retry.reconcile_infra_parked`) | external: the `blocked/infra` labels | probe, redrive, hand over, count | every marked issue is redriven or handed over, and only a parked one is redriven |
| claim pass (`main.run_once`, `claim.claim_one`) | the tick's queue snapshot, its tally against the cap, its copy of the coder load | claim a candidate, create its Workload | the cap holds, the pass ends, nothing else is claimed over |
| coder pool (`workload.py`, `lanes.py`) | `coder_load`, counted once and drawn on by five passes | choose a coder, ask for a free slot, draw it | no coder has more work than slots, every job gets one in the end |
| PR-fix loop (`prfix.py`) | external: queue item, fix Workload with attempt, progress, tier, signature | settle, retry, escalate, block, drain | runs are bounded, FIXED is true, a person is asked last, nothing is left behind |
| review transition (`review_transition.py`) | none | in-review, done + close, blocked, park a GO without PR | a person's decision and a review under way survive it |
| reapers (`reconcile.py`) | one listing of Workload names | send stranded issues to ready, release claims stuck at ready | they repair what crashes leave, and never hit work in flight |
| pruning (`prune.py`) | the terminal-since stamp on the Workload | stamp, delete past the TTL, reset the issue of a Failed one | every terminal Workload goes, no parked or reviewed issue is disturbed |
| dispatch client (`claim.py`) | external: status, owner, lane, markers | claim, unclaim, set_lane, escalate, update_status, labels, comments, reads | replies mean what the caller takes them for |
| Kubernetes access (`main.py`) | external: phase, counters, lane, tasks | create, foreground delete with polling, list, patch | at most one Workload per issue |
| tick orchestration (`main.run_tick`) | program counter, snapshots | the passes in order | a tick that ends anywhere leaves something the next one repairs |
| naming and manifests, configuration, logging | | | not modelled: section 9 |

A tick takes one snapshot of the lane queues, then runs: failures, infra
recovery, claim, PR-fix (reconcile, then drain), review, stranded, stuck, prune. The
passes communicate through the two services, through three snapshots (the queues
for retry and claim, the Failed listing for retry, the Workload names for both
reapers) and through one piece of shared memory, `coder_load`.
Ticks are assumed not to overlap: the
manifest of the CronJob is kept elsewhere, and no pass is written for a second one.

What a test hardly reaches: the tick killed, or ended by an exception no pass
catches, between two requests; a request that fails, one that took effect and whose
reply is lost, one that `retry_request` sends twice; a deletion whose finalizers
outlive the polling, so that the object is listed again next tick, its tasks
perhaps already gone; snapshots grown stale within the tick; people and other
agents acting meanwhile; two retry counters driven through one chain of branches.
`PROJECT.json` lists these hazards at the line where each one bites, with the
properties aimed at it.

## 2. Modules

```
Faults <- Dispatch <- Cluster <- Bridge <- Retry, Recover, Claim, Review, Reconcile, Prune
                                              <- Tick (INSTANCE RunBudget) <- MCTick
                 TickProofs <- BoardProofs <- ParkProofs <- RunProofs      <- TickProofs
                                                         <- MarkProofs
       <- PrFix <- MCPrFix
                <- PrFixProofs
       <- Pool (EXTENDS Routing <- RoutingProofs) <- MCPool
                                                  <- PoolProofs
```

| Module | Stands for |
|---|---|
| `Faults` | the failures a tick meets, drawn from one budget: `call`, `lost`, `resend`, `repeat`, `read`, `stamp`, `wedge`, `crash` |
| `Dispatch` | the issues and every request `DispatchClient` sends (operators ending in `Call`), with effect, reply and faults; and what people and other agents do (`...ByHand`, `Regroom`, `Reclassify`, `RivalClaims`) |
| `Cluster` | the issue Workloads, the requests on them, and the controller: `FinishRun`, `FinalizeRun`, `AgeRun` |
| `Bridge` | the tick's local state (`pc`, `todo`, the item in hand, the snapshots) and the helpers that move it |
| `Retry`, `Recover`, `Claim`, `Review`, `Reconcile`, `Prune` | one pass each |
| `Tick` | the snapshot, the end of a tick, a crash; `Next`, fairness, the properties of the issue passes, the refinement mapping |
| `RunBudget` | the abstract specification: what an issue's coder runs may cost |
| `PrFix` | the two PR-fix passes with GitHub's answers, the queue and the fix Workloads |
| `Routing` | the choice of a coder: pure operators on a deployment's maps |
| `Pool` | all five passes that start coders, reduced to the coder each one starts and the slots it counts |
| `MCTick`, `MCPrFix`, `MCPool` | the checked instances: symmetry sets, deployments, jobs |
| `TickProofs`, `PrFixProofs`, `PoolProofs` | the theorems that hold whatever fails |
| `BoardProofs` | what each request does to an issue, and the theorem those of `ParkProofs` and `RunProofs` rest on |
| `ParkProofs`, `RunProofs`, `MarkProofs` | reviews, parks and announcements; runs that must not start; the infra marker |
| `RoutingProofs` | lemmas about the choice of a coder |

**Three views of one tick.** `Tick` has every request of the issue passes and no
coders; `PrFix` every request of the PR-fix passes, the rest of the pool being an
arbitrary load; `Pool` has all the passes and the coders, and of the requests only
those that start one. They overlap where the code shares state: the coder slots, the
attempts that bound a job.

**One action per request.** The tick can end, and the board can change, between any
two requests, so a pass is a small program: `cur` is the item in hand, `step` the
request it makes next, `path` the reason, `view` the verdict as its tasks were read.
`todo` is what is left of the pass's listing, taken in any order. Guards and
early returns appear as the choice of the next `step`.

**Replies.** `Call(Effect, reply)`: answered (`ok`), `refused` (`_http_post` turns a
409 into `None`), or `raise`, with (`lost`) or without (`call`) the effect. A `resend`
is the second answer to a request that had taken effect already: a 409 for a granted
claim, a 400 for an accepted unclaim. A comment sent again is posted twice (`repeat`).

**Correspondence.** `status`, `owner`, `lane`, `human` are an issue's labels; `open`
and `hasPr` its GitHub side; `phase`, `attempt`, `infra`, `wlane` the Workload's
phase and annotations; `result` what its tasks report; `going` a deletion accepted
with finalizers pending; `age` fresh / stamped / past its TTL. `said` and `runs` are
history: needs-human comments since the last claim or hand-back, and coder runs
since the last claim. `marker` and `tries` are the infra labels: the marker with or
without a model label beside it, and the set of attempt counts, since `replace_labels`
removes and adds them one request at a time and may leave none or several. In
`PrFix`, `item`, `ilane`, `surface` are the queue item, `pr` what GitHub would answer,
`fix` the Workload with its annotations, `listed`, `sigs`, `queued` the three listings,
`moved` whether the PR changed since it was probed. In `Pool`, `work` is where a job
is, `load` the shared `coder_load` and `own` the copy of the claim pass or of the
drain. `map` in `PROJECT.json` gives the lines of every definition.

Left out because no property tells it apart: prompts, feedback text, branch
evidence, log lines, the order of a listing.

Simplifications worth knowing:

- Issue ids are present (every Workload of a current bridge carries one), and what
  dispatch serves is its current state.
- Workload names are taken for an injective function of the issue or PR.
- In `Tick` `CODER_AGENT_SLOTS` is empty: deferring for a busy coder is `Pool`'s. In
  `Pool` `MAX_IN_PROGRESS` is 0: the cap is `Tick`'s. A failed run goes to
  retry, to its parking or out by a free choice in `Pool`, and an issue that arrives
  during a tick counts as having arrived before it.
- `Recover` probes each model by itself (a healthy one is any answer), and a parked
  issue is blocked on a model of its own.
- In `PrFix` a wedged deletion is one that fails and takes effect later (`lost`), the
  prune of a fix Workload may come at any time (`LoseFix`), the merge states GitHub
  has beyond those named (`unstable`, `behind`, ...) are classed with the one
  `check_pr_mergeable` treats alike, and a coder may leave its PR in any state.
- In `Pool` Foreman using a coder a second time, to revise after a review, is left
  out: the bridge does not see it.
- Stamps and ages are read when an item's turn comes, where the code stamps in the
  listing loop; the close comment and the close are one request; `UnlabelCall` in
  `InfraLabels` stands for the label requests of `replace_labels`.
- An outcome called BUDGET-EXHAUSTED by the coder is a `rejected` or a `nogo`.
- Leaving `in-progress` may or may not take the agent label with it: dispatch's
  source is not here, so both are considered. Likewise `SelfClaimOk`.

## 3. Runs that pass

Those of `MCTick` have one issue and two lanes, the second being the escalation lane,
`RETRY_MAX_ATTEMPTS` 3, `INFRA_MAX_ATTEMPTS` 2, unless stated. The initial lane is
either one.

| Run | Faults | Hands | Shows |
|---|---|---|---|
| `budgets` | 2 of call, lost, read, wedge, crash | 1 of any kind but reopen | `TypeOK`; `BudgetOK`: no counter passes its limit; `RunsCharged`: the counters, of the Workload and of the listing a retry is created from, account for exactly the runs since the issue was granted; `LaneKept`: no retry loses its lane; `RunsBudgeted`: `Tick` implements `RunBudget`. Cap 1; six of the ten outcomes, the others being parked or reviewed as these are and met in `liveness` |
| `claims` | 1 of call, resend, stamp, crash | a rival agent | Two issues and a cap of one. `NoRunOnParked`, `NoRunOnRival`: no coder starts on an issue in backlog or held by another agent; `ReviewStands`: the bridge never takes an issue with an open PR out of review; `AnnouncedOnce`: one comment per claim; `CapRespected`: claiming never takes the running Workloads past `MAX_IN_PROGRESS`. Two attempts, one infra attempt, six outcomes, symmetry |
| `liveness` | 1 of any kind | a removed Workload or a reopened issue | `NoStranding`, `StuckClaimsReleased`: the reapers repair; `FailuresSettle`: a Failed Workload is retried, escalated, parked or pruned; `MarkedSettles`: an infra marker goes, redriven or handed over; `MarkerMeansParked`, `HandedOverOnce`: without faults a marker means a park, and the hand-over says so once; `DeclaredParkLabelled`: a failed label is repaired; `ClaimPassEnds`: claiming ends where a repeated claim is refused; `TerminalCollected`; `RetireHandsOver`: giving up deletes the tombstone only once the issue is in backlog, or unclaimed in the escalation lane, a repeated NO-GO after a failed request apart; `RunsBudgeted` again, for redriven runs. Infra recovery on, `INFRA_RECOVERY_MAX_FAILURES` 3, two attempts and one infra attempt. Failed Workloads have TTL 0 (never pruned), so `FailuresSettle` cannot hold by pruning, and `TerminalCollected` is about the Completed ones |
| `prfix` | 1 of call, lost, read, crash | 1 of merge, close, review, base, queue, lose | `TypeOK`; `FixRunsBounded`: runs stay within attempt, tier and progress; `OverRunsBounded`: an ended PR costs no further runs; `FixedIsTrue`; `BlockedLast`; `RetiredWhenMarked`; `FixSettles`: a QUEUED item gets its outcome; `OverRetired`. One PR, two coders, one slot each, two attempts, two progress retries |
| `pool` | 1 of call, lost, read, crash | none | `TypeOK`; `GatedWithinSlots`: the passes that ask for a slot never take more than there are; `ClaimsWithinSlots`: nor does the claim pass by itself; `FixFirstUncontended`: a fix-first coder takes an issue only when idle; `EveryJobStarts`. Two issues and a fix, two coders, two runs per job, in two deployments: fix-first with slots 2 and 1, and one that uses every tier of the routing |

Why these bounds are enough: the issue passes handle issues one at a time and share
only the cap and the coder pool, hence one issue everywhere except in `claims`, where two
issues and a cap of one leave one to be held back while the run of the other finishes,
fails or is retried, and in `pool`, where three jobs compete for two coders. Two lanes are what escalation
distinguishes, two coders what a choice of coder and a tier do. Three attempts let a
repeated NO-GO, a retry and an exhaustion all happen; with two, in `claims` and
`liveness`, the second failed verdict is the last. Two infra attempts let that budget
run out in the middle; a recovery maximum of three leaves a count to lose. The
PR-fix passes handle PRs one at a time and share the slots only; `OtherLoad` 0 with
one slot still defers, through the Workload of the other tier and the load the
reconcile itself draws. `said` stops at 2, which stands for "several". `MaxFaults`,
`MaxHands`, `MaxFixHands` and `MaxRuns` bound the environment; ticks are not bounded.
`MaxRuns` also bounds how often a job of `Pool` fails or is parked on its model before
it goes through, without which one job could keep another from the slot for ever.

Where a run leaves out a kind of fault, the property does not survive it, and the
reason is a weakness of the code (section 5 has those that contradict a comment):

- `NoRunOnParked`: not with `lost` or `read` (a park whose reply is lost, or whose
  declaration is unreadable next time, is taken for an ordinary failure and rerun).
- `ReviewStands`: not with `wedge`: a Completed Workload whose deletion is wedged has
  lost its tasks, which reads as an absent verdict (`review_transition.py:186`), and a
  reviewed issue goes to blocked.
- `NoRunOnRival`: not with `wedge`, nor with `stamp` and `call` together: prune
  resets the issue although the delete failed (`prune.py:189`), a rival claims it, and
  the retry pass, which does not look at the owner, reruns the tombstone.
- `AnnouncedOnce`: not with `read` (an unusable answer counts as not parked), with
  `repeat` (comments are not idempotent), with two faults, or for an issue people
  re-groom while its tombstone exists. `lost` and the other hands are left to the
  theorem, which admits any number of them.
- `RetireHandsOver`: not with two faults, a failed status and a failed or missed
  removal of the label: an issue is then claimed again with needs-human still on it,
  and the next failure is given up as parked already (`retry.py:784`). The repeated
  NO-GO it makes an exception for is `nogo_lost` (section 5).
- `ClaimPassEnds`: not where the service grants a claim to its holder (`claim_again`).
- `MarkerMeansParked`, `HandedOverOnce`: only while no request has failed. One failed
  clear of the marker, and the next tick redrives an issue that is in review by then,
  or hands it over a second time.
- `BlockedLast` speaks of deployments in which the tiers have different coders;
  `RetiredWhenMarked` of PRs nobody has queued again; `FixSettles` lets a PR wait for
  its reviewer.
- `ClaimsWithinSlots`, `FixFirstUncontended`: only where `Visible` holds, that is
  in the deployments whose lanes the claim pass can judge (`Judgeable`, `pool_unseen`).
  A list of nothing but fix-first agents, a single name, a lane left to the repository
  tier, or one that has a role entry beside a `*` one is not judged right: the pass
  finds no candidate, or another one, and claims for a coder that may be full.
- `FixFirstUncontended`: only where `CODER_AGENT_SLOTS` is set (section 5).
- `GatedWithinSlots`: a create whose reply is lost is one run more than was counted.
- `FailuresSettle`: not with `regroom` if the needs-human label survives.

## 4. Fairness

`FairSpec` of `Tick` assumes weak fairness of `TickStep` (the CronJob schedules the
next run, and a run that is not killed goes on: every request has a timeout), of
`FinishRun` (the controller ends every run), of `FinalizeRun` (finalizers complete
eventually) and of `AgeRun` (time passes). `PrFix` assumes the same of its steps, of
`RunEnds` and of `PrSettles` (checks conclude and GitHub works out whether a PR can be
merged); `Pool` of its steps, of `CoderEnds` and `ReviewEnds`. Nobody has to
intervene, no model has to answer, no fault has to happen. Since faults are bounded,
every behaviour is in the end free of them; "eventually" means after the last one.
`Cancelled`, `Timeout` and `Succeeded` runs (outcome `stopped`) are left out of
`liveness`, because nothing collects them (section 5).

## 5. Runs that fail: what the code does against what it says

Each checks one property that a comment, docstring or README line states.

| Run | The text | What TLC finds |
|---|---|---|
| `unclaim_400` | `claim.py:275` "Treats 400 as success" | the test is `if status and ...` on a `requests.Response`, which is false for a 400: it raises, and the escalation of a closed issue is reported as an error, its tombstone kept |
| `infra_silent` | `main.py:949` "Post the same tagged escalation comment" | no fault needed: the parked check runs after the status change that makes it true, so the comment is never posted |
| `nogo_lost` | `retry.py:297` "The tombstone is left in place either way, so a failed park degrades to today's behaviour" | one failed request: a repeated NO-GO deletes its Workload whatever became of the park (`retry.py:996`); the issue stays claimed and in-progress without a trace of its run, and the reapers hand it back to be coded again |
| `claim_again` | `main.py:428` "claiming continues until the lane has no more claimable work", `reconcile.py:102` "Dispatch's own fix makes a self-claim idempotent" | no fault needed, with the default `MAX_IN_PROGRESS` 0: the snapshot still lists the issue just claimed, the service grants it again, the create is a 409 that is swallowed, and so on for ever |
| `prfix_signature` | `prfix.py:456` "A retry against the same wall still ticks attempt++" | no fault needed: the signatures of the tick are taken of raw dicts, in which `failure_signature` finds no attribute (`main.py:1276`). They all read `unknown::no-feedback`, so the first retry of a series is taken for progress |
| `pool_drain` | `main.py:1090` "cannot each independently fill the same single slot" | no fault needed: the claim pass draws on a copy of the load (`main.py:449`), and the drain after it fills the slot again |
| `pool_unseen` | `main.py:436` "the lane does not claim at all this tick" | no fault needed: `coder_candidates` does not look a lane up by its role, as the configuration may (`README.md:39`), so a full coder is not noticed before the claim |

Also seen while modelling, and not checked by a run:

- *Escalation.* If the unclaim fails after the lane has moved, the next tick takes the
  issue for one exhausted in the escalation lane and parks it (`retry.py:1012`), where
  `claim.py:360` says the release is attempted again.
- *Pruning.* A Cancelled or Timeout Workload is never listed (`main.py:1652`), hence
  never pruned; `README.md:52` says it is.
- *Claiming.* The cap is documented per lane (`README.md:50`) and compared with the
  Workloads of all lanes; the retry pass is not gated by it. With a cap, a claim that
  is granted again (`claim_again`) ends at the cap, having used it up.
- *Review.* A Completed Workload rewrites its issue's status, and closes a resolved
  issue that a person has reopened, on every tick until it is pruned.
- *Parks.* The tombstone of a declaration parks its issue again after people re-groom
  it; a label that fails on an exhausted park is never repaired; a tick that ends
  between the delete and the create of a retry restarts both budgets.
- *Infra recovery.* A redrive looks at neither the owner nor the status of its issue.
  The count of failed probes starts from the verdict attempts of the Workload that was
  parked (`retry.py:951`), so fewer probes than `INFRA_RECOVERY_MAX_FAILURES` reach a person. A park whose status
  request took effect and lost its reply is retried by the next tick.
- *PR fixes.* Given what `prfix_signature` shows, after the first retry nothing more
  counts as progress while the item stays listed: the progress budget is hardly
  reachable. A PR with changes requested is retired
  without a charge and drained afresh at attempt 1, as often as reviewers ask. A
  BLOCKED item that people queue again is blocked again by its tombstone. Checks that
  are pending when the last attempt ends count as a failure. The comment at
  `prfix.py:447` says that escalation is not gated by slots; 524 gates it.
- *Fix-first coders.* Without `CODER_AGENT_SLOTS` the tick counts no load
  (`main.py:1093`), so a fix-first coder never looks busy and takes issues beside its
  fixes; `README.md:46` says such agents "only join the issue rotation when their fix
  lane is idle", and `workload.py:176` that one "with no declared slots only needs load
  == 0", which it then always has. The proof of `FixFirstUncontended` found this: it
  asked for a load that covers what runs, and there is none.
- *Coders.* A `*` entry of `LANE_CODER_AGENTS` comes before the repository tier,
  against the docstring of `coder_agent_for`. `README.md:55` says the keys of
  `PR_FIX_LANE_AGENTS` may be role names; the code looks up the PR-fix lane only.
- *Names.* The slug is said to be injective (`workload.py:376`); `uA/x` and `Ua/x`
  both give `uua-x`, and `a-b/c` and `a/b-c` both give `a-b-c`.

## 6. Mutants

Every property of every passing run has a mutant: an operator marked `Mutant:` in
the module, which stands for a plausible slip (an off-by-one in a budget, a lost
fallback, a dropped check, the wrong status in a listing), and under which TLC finds
that property violated. They are not part of the specification.

## 7. Proofs

Checked by TLAPS, for every finite set of issues, PRs or jobs, every number of lanes,
coders and deployments, every budget, cap and set of outcomes, and every number of
faults and interventions. The assumptions are those of the modules:
`FaultsAssumption`, `DispatchAssumption`, `ClusterAssumption`, `BridgeAssumption`,
`PrFixAssumption`, `PoolAssumption`, `DeploymentAssumption` (a deployment's maps give
coders or lists of coders). Every invariant and every action property of the passing
runs is a theorem, under the hypotheses named here where it needs any.

| Module | Theorem | Statement |
|---|---|---|
| `TickProofs` | `Inductive` | `Spec => []IInv` |
| | `TypeCorrect` | `Spec => []TypeOK` |
| | `BudgetsRespected` | `Spec => []BudgetOK` |
| | `ChargesExact` | `Spec => []RunsCharged` |
| | `LanesKept` | `Spec => []LaneKept` |
| | `CapHolds` | `Spec => CapRespected` |
| | `Refines` | `Spec => RunsBudgeted`, that is `Promise!Spec` |
| `PrFixProofs` | `FixInductive` | `Spec => []FInv` |
| | `FixTypeCorrect` | `Spec => []TypeOK` |
| | `FixBudgets` | `Spec => []FixRunsBounded` |
| | `FixedOnEvidence` | `Spec => FixedIsTrue` |
| | `BlockedAtTheEnd` | `Spec => BlockedLast` |
| | `MarkBeforeRetire` | `Spec => RetiredWhenMarked` |
| | `OverCharged` | `Spec => []OverRunsBounded` |
| `PoolProofs` | `PoolInductive` | `Spec => []PInv` |
| | `SlotsHold` | `Spec => []GatedWithinSlots` |
| | `PoolTyped` | `Spec => []TypeOK` |
| | `ClaimsHold` | `Spec => []ClaimsWithinSlots` |
| | `FixFirstHolds` | `Spec => FixFirstUncontended` |

Those hold whatever fails and whoever intervenes. The following hold for any *number*
of the faults and interventions they admit, and name the kinds they exclude:

| Module | Theorem | Statement | Without the faults | Without the hands | Recovery |
|---|---|---|---|---|---|
| `BoardProofs` | `PassSound` | `Spec => []PassInv` | | | off |
| `ParkProofs` | `ReviewsStand` | `Spec => ReviewStands` | wedge | remove | off |
| | `RetiredHandedOver` | `Spec => FailedParkKeepsTombstone /\ RetireHandsOver` | call, read | regroom, reclassify | off |
| | `AnnouncedAtMostOnce` | `Spec => []AnnouncedOnce` | call, repeat, read, wedge | regroom | off |
| `RunProofs` | `ParkedNotRun` | `Spec => NoRunOnParked` | lost, read, wedge | remove | off |
| | `RivalNotRun` | `Spec => NoRunOnRival` | read, wedge; call, where Failed Workloads are pruned | regroom | off |
| `MarkProofs` | `MarkerMeansPark` | `Spec => []MarkerMeansParked` | | regroom | either |
| | `HandedOverAtMostOnce` | `Spec => []HandedOverOnce` | | | either |

No hypothesis on faults and hands is there for the proof's sake. With any single one
dropped, TLC finds the property violated, in an instance like that of `claims` or
`liveness` with one issue and the kind added; the `wedge` of `AnnouncedAtMostOnce` takes
four attempts and three wedges.
`MarkerMeansParked` and `HandedOverOnce` carry their own condition, that nothing has
failed yet. "Recovery off" (`~ProbeModel`, `INFRA_PROBE_ENABLED=false`) is what the
run `claims` has too: recovery redrives whatever carries the marker
without a look at the issue (section 5).

These go beyond the runs: `claims` and `liveness` allow one fault, and the theorems any
number of the kinds left. A run may admit a kind its theorem does not, as `claims` has
`call`: that one of them does no harm to `AnnouncedOnce` is a fact about the instance,
since several do. `RetiredHandedOver` proves the text that `nogo_lost` refutes, for
deployments in which no request fails.

**The issue passes.** `IInv == TypeOK /\ ControlInv /\ DataInv`.

- `TypeOK` is not inductive: moving an issue's lane to `EscLane` needs that there is
  one (`EscalationOn`), a create in the claim pass that a lane is being drained
  (`ClaimedInLane`), the review's status write that its path is a status
  (`ReviewPath`). Hence the parts of `ControlInv`.
- `BudgetOK` is not inductive either: a retry is created from the counters of the
  listing, taken before several requests, when the Workload itself is gone.
  `RetryInBudget` says the retry under way has room by those counters; `ShotSound`
  says they stay those of the issue's runs while it is listed (`JobListed`), whatever
  hands and faults do. The same two give `RunsCharged` and `LaneKept`.
- `CapHolds` uses a second invariant, `CapInv`: while claiming, the tally is at least
  the number of running Workloads, because runs can only end meanwhile, and a claim
  just granted was granted below the cap.

The proof has a lemma per pass and kind of fact (`RetryType`, `ClaimType`, ...;
`RetryControl`, ...; `RetryData`, ...), each with a step per action.
`Moves`, `Asks`, `Works` and `Waits` name what an action may do to the job, the
issues and the Workloads, so that each action is opened once.

**The refinement.** `LastRun` maps the phase of a Workload to the state of its issue's
last run, except that a retry between its delete and its create still owes an answer
to the failure it has deleted: otherwise its create would be a fresh grant with a used
budget. The budget of a grant is `MaxAttempts + InfraMax - 1`. Every action is then a
`Fresh`, `Again`, `End`, `Forget` of some issues, or a stutter. The step to `Again`
uses `RetryInBudget` and `RunsCharged`; `Forget` takes a set because a crash gives up
every failure the pass has listed.

**The board.** `BoardProofs` says once what the requests, the hands and the cluster
may do to a single issue, each with the point of the pass it is done at (`ParkMove`,
`ReadyMove`, `CommentMove`, ..., `CreateMove`, `FinishMove`, `GoneMove`), and that
every step is such a move of each issue (`StepMoves`). `PassInv` then relates the
passes' listings to the board: an issue with a run at work or failed is ready, in
progress or in backlog (`AtWork`), and what a pass has listed is in a status the pass
may act on (`RetryLive`, `ClaimHeld`, `ReviewOver`, `StrandedLive`, `PruneLive`). It
needs no hypothesis but that recovery is off, and the theorems on
reviews, parks and runs each add what is peculiar to them.

**Reviews.** `ReviewInv`: what is in review has no Workload, or the Completed one that
put it there, and the verdict in hand is still the one the tasks carry. That is where
a wedged deletion, which takes the tasks first, comes in.

**Giving up.** `ParkedInv` and `EscalatedJob` follow a park and an escalation request
by request up to the deletion: the status first, the lane before the claim, and an
issue once parked stays so although the reply was lost or the tick goes on.

**Announcing.** `SaidInv`: an issue that was announced and is no longer parked has no
run that could be parked again. The retry pass never reaches the comment of its infra
park (`~At("retry", "infraComment")`), which is what `infra_silent` reports.

**Runs on parked and on rival issues.** For the first, whatever Failed Workload rests
in backlog is one the retry pass is done with by its own counters (`Resting`), and the
pass's verdict and counters are those of the Workload (`RestInv`). For the second, an
issue the bridge has let go of (`Loose`) has no run, nor a failure it would retry;
the listings of the pruning pass and the reapers hold until their turn comes
(`RivalInv`).

**The marker.** `MarkInv`: a marked issue rests in backlog without a Workload, except
while the retry pass is about to delete the tombstone (`Retiring`) or recovery is
putting it back to work (`Settling`); and of the issues a pass has listed, which are
marked. `OnceInv` adds that an issue announced to a person is parked for good.
Both are conditional invariants (`Calm`, `Still`), since one fault ends them.

**The PR-fix loop.** `FInv == TypeOK /\ FixRunsBounded /\ ListedBounded /\ Control`.
A run is created from the listing (`ListedBounded`) on a path that was chosen several
requests earlier and has room in the budget it will be charged to (`PathInBudget`):
that makes `FixRunsBounded` inductive. `ViewTrue` says that what the probe answered is
still so unless the PR has moved, `GaveUp` that giving up has its reason in the
counters, `MarkedFirst` that a retirement has its mark: the three action properties
follow from them. The rest (`DrainQueued`, `MarkPath`, `PathLater`, `HandFree`) ties
the program counter to the job in hand.

**Ended PRs.** `OverRunsBounded` is kept by an account (`PaidFor`): of an ended PR,
the runs it has cost plus the one it may still cost (`Owes`) are paid for by the
faults and interventions so far. Ending the PR is the intervention that pays for the
run owed at that moment, either by the reconcile, from a view read before
(`Loose`), or by the drain; a new debt takes a failed read, a failed mark or a lost
Workload, each of which pays.

**The slots.** `PInv == Shape /\ Covered /\ GatedWithinSlots`. A pass takes a slot by
what its load says, so the bound needs that the load covers what runs (`Covered`, of
the drain's copy while it drains). `CountLoad` establishes it, every launch adds to
both sides or was lost, and everything else makes runs fewer. Nothing is assumed of
the coder a pass asks for: the routing plays no part in this proof.

**The claim pass's slots.** Here it does. The pass checks the candidates of a lane,
then claims, then asks `CoderAgentFor`; `ClaimPick` says that in a judgeable deployment
a lane that is not saturated gives a coder with a free slot, idle if it is fix-first.
It rests on what `PickCoder` gives of a list (`ListPick` of `RoutingProofs`): a member
in rotation with no more load than any other. `ClaimInv` carries the load up to the
claim pass (`AllKnown`): it knows of every job at work but for lost replies, and of
every claimed one without exception, since a create that raises in the claim pass ends
the tick, and with it the load the pass drew on. `CourseInv` is the life of a job: it waits for its first
run, has a coder while it has a Workload, and is as a pass has listed it.

**Induction.** `ListPick` needs the best of a list and the member of a set of numbers
with n below it (`Nth`). Both are by induction over the naturals, whose library theorem
the provers cannot instantiate; the lemmas use the least counterexample instead, which
exists because `<` is well founded (`LeastNatural`).

**What the proofs changed in the models.** `PickCoder` is by positions of a list where
it was by `SelectSeq`, whose definition is recursive; and the candidates of a lane are a
set. `Pool.TypeOK` had bounded the load by the number of jobs: an attempt to prove it
gave a job that is counted and started again in one tick. `Visible` had followed the
topology of the tick and overlooked a lane with a role entry beside a wildcard, for
which `ClaimsWithinSlots` is false. `FixFirstUncontended` had no condition on
`CODER_AGENT_SLOTS`. None of these shows in the two deployments of the run `pool`.

TLC checked each invariant on an instance before it was proved.

## 8. What is only model-checked

Liveness and `ENABLED` are out of the prover's reach: `NoStranding`,
`StuckClaimsReleased`, `FailuresSettle`, `MarkedSettles`, `DeclaredParkLabelled`,
`ClaimPassEnds`, `TerminalCollected`, `FixSettles`, `OverRetired` and `EveryJobStarts`
are claims about an instance. So is what the runs say of the kinds of fault a theorem
excludes (one `call` in `claims`, say). What a recursive definition computes is out of
reach of the proofs too; no module uses one.

## 9. Not modelled, and what is left

- *Naming and manifests.* The slug works letter by letter; a model of it would be the
  code again, and its collision (section 5) shows by hand. Manifest contents beyond
  lane, coder, counters and signature are told apart by no property.
- *The HTTP retry loop* (`http_retry.py`): its outcomes are the fault kinds; the
  delays between attempts are time.
- *Configuration and logging* (`env.py`, `logging_setup.py`): start-up validation and
  formatting, with no state for a property to be about.
- *One tick, all views at once.* `Tick`, `PrFix` and `Pool` are checked apart; a
  composition of the three is out of TLC's reach at the bounds that make each of them
  interesting. What they share is the load, which `PrFix` takes as arbitrary up to
  `OtherLoad` and `Pool` models in full.

Left: an abstract specification of an issue's life (offered, working, in review,
parked, closed) beside `RunBudget`, with `Tick` shown to implement it under the
hypotheses of section 7; a bound on all the coders' work together (claims and gated
passes draw apart, so twice the slots and the faults); parks and rivals with recovery
on, for the issues that do not carry the marker.
