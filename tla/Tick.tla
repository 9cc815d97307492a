-------------------------------- MODULE Tick --------------------------------
(***************************************************************************)
(* The bridge: a CronJob whose every tick runs the passes of run_tick      *)
(* (bridge/main.py) in order, over issues and Workloads that other actors  *)
(* change while it runs.  Ticks do not overlap.                            *)
(***************************************************************************)
EXTENDS Retry, Recover, Claim, Review, Reconcile, Prune

Init == DispatchInit /\ ClusterInit /\ BridgeInit

-----------------------------------------------------------------------------

\* One snapshot of the lane queues for the whole tick; a lane whose GET fails
\* reads as empty.
SnapshotQueues ==
    /\ pc = "idle" /\ pc' = "snap"
    /\ \E dark \in SUBSET Lanes :
        /\ IF dark = {} THEN NoFault ELSE Fault("read")
        /\ queueLane' = [i \in Issues |->
                           IF Listed(i) /\ lane[i] \notin dark THEN lane[i] ELSE NoLane]
        /\ queueReady' = {i \in Issues : Listed(i) /\ lane[i] \notin dark
                                                    /\ status[i] = "ready"}
    /\ UNCHANGED <<issueVars, workVars, todo, jobVars, shotVars, claimVars, names, hands>>

FinishTick ==
    /\ Drained("prune")
    /\ EndTick /\ NoFault
    /\ UNCHANGED <<issueVars, workVars, hands>>

\* The pod is killed, or an exception nobody catches ends run_tick.
Crash ==
    /\ pc # "idle"
    /\ EndTick /\ Fault("crash")
    /\ UNCHANGED <<issueVars, workVars, hands>>

TickStep ==
    \/ SnapshotQueues \/ FinishTick
    \/ RetryPass \/ RecoverPass \/ ClaimPass \/ ReviewPass \/ ReconcilePass \/ PrunePass

\* The cluster by itself.
ClusterStep(i) == (FinishRun(i) \/ FinalizeRun(i) \/ AgeRun(i)) /\ UNCHANGED bridgeVars

\* People and other agents.
HandStep(i) ==
    /\ \/ CloseByHand(i) \/ ReopenByHand(i) \/ ClosePrByHand(i) \/ Regroom(i)
       \/ Reclassify(i) \/ RivalClaims(i)
    /\ UNCHANGED <<workVars, bridgeVars>>

RemoveStep(i) == RemoveByHand(i) /\ UNCHANGED bridgeVars

Next ==
    \/ TickStep
    \/ Crash
    \/ \E i \in Issues : ClusterStep(i) \/ HandStep(i) \/ RemoveStep(i)

Spec == Init /\ [][Next]_vars

\* The CronJob keeps running; runs finish, finalizers complete and TTLs pass.
\* Nobody is obliged to intervene, and no fault is obliged to happen.
Fairness ==
    /\ WF_vars(TickStep)
    /\ \A i \in Issues :
        /\ WF_vars(FinishRun(i) /\ UNCHANGED bridgeVars)
        /\ WF_vars(FinalizeRun(i) /\ UNCHANGED bridgeVars)
        /\ WF_vars(AgeRun(i) /\ UNCHANGED bridgeVars)

FairSpec == Spec /\ Fairness

-----------------------------------------------------------------------------
(* Properties.                                                             *)

\* Every variable has its type.
TypeOK == DispatchTypeOK /\ ClusterTypeOK /\ BridgeTypeOK

\* A Workload's two retry counters stay within RETRY_MAX_ATTEMPTS and
\* INFRA_MAX_ATTEMPTS, whatever mix of verdicts, faults and restarts led there.
BudgetOK ==
    \A i \in Issues : attempt[i] <= MaxAttempts /\ infra[i] <= InfraMax

\* The two counters account for exactly the coder runs since the issue was last
\* granted: those of its Workload, and, for a Failed one the retry pass has still to
\* deal with or has already deleted, those of the listing the next run is created
\* from.  (A tick that ends between that delete and the create forgets both: the claim
\* that follows starts the budgets, and this account, afresh.)
RunsCharged ==
    \A i \in Issues :
        /\ phase[i] # "none" => runs[i] + 1 = attempt[i] + infra[i]
        /\ pc = "retry" /\ i \in todo => runs[i] + 1 = shotAttempt[i] + shotInfra[i]

\* Every Workload carries a lane its coder can be routed by: a queue snapshot
\* with holes in it never blanks the lane of a retry.
LaneKept == \A i \in Issues : phase[i] # "none" => wlane[i] \in Lanes

\* One claim of an issue announces its park once: ticks that find the tombstone
\* again repair the label without another comment.
AnnouncedOnce == \A i \in Issues : said[i] <= 1

\* No pass of the bridge starts a coder on an issue resting in status/backlog, except
\* that infra recovery restarts what carries its marker.
NoRunOnParked ==
    [][\A i \in Issues :
         phase[i] = "none" /\ phase'[i] = "Active" /\ status[i] = "backlog"
         => ProbeModel /\ marker[i] # "none"]_vars

\* Recovery redrives whatever carries the marker, without a look at the issue: it is
\* sound because, as long as every request succeeds, a marker never outlives the park
\* it was written for.
MarkerMeansParked ==
    faults = 0 => \A i \in Issues :
        marker[i] # "none" => status[i] = "backlog" \/ (pc = "recover" /\ cur = i)

\* Handing an issue to a person after too many probes says so once, as long as every
\* request succeeds and no Workload is deleted under the pass that reads it.
HandedOverOnce == faults = 0 /\ hands = 0 => \A i \in Issues : said[i] <= 1

\* A marked issue is redriven or handed to a person, although the count of its probes
\* is rewritten by two requests and may be lost between them.
MarkedSettles == \A i \in Issues : marker[i] # "none" /\ open[i] ~> marker[i] = "none" \/ ~open[i]

\* The bridge never takes an issue under review, with its PR open, out of
\* status/in-review.
ReviewStands ==
    [][\A i \in Issues :
         status[i] = "in-review" /\ hasPr[i] /\ hasPr'[i] => status'[i] = "in-review"]_vars

\* Claiming never takes the number of running Workloads past MAX_IN_PROGRESS,
\* although runs finish and fail while the pass counts on its own tally.
CapRespected ==
    [][\A i \in Issues :
         MaxInProgress > 0 /\ pc = "claim" /\ phase[i] # "Active" /\ phase'[i] = "Active"
         => Cardinality(InPhase("Active"))' <= MaxInProgress]_vars

\* No coder is started on an issue that another agent holds.
NoRunOnRival ==
    [][\A i \in Issues :
         phase[i] = "none" /\ phase'[i] = "Active" => owner[i] # "other"]_vars

HandedOver(i) == status[i] = "backlog" \/ (lane[i] = EscLane /\ owner[i] # "bridge")

\* The step that gives an issue up by deleting its Failed Workload.
GivesUp(i) ==
    At("retry", "retire") /\ i = cur /\ phase[i] = "Failed" /\ phase'[i] = "none"

\* Giving up deletes the last trace of a Failed run only when the issue has been
\* handed over: parked in backlog, or released into the escalation lane.  A repeated
\* NO-GO is the one give-up that goes without, and only after a request has failed.
RetireHandsOver ==
    [][\A i \in Issues : GivesUp(i) => HandedOver(i) \/ (path = "nogo" /\ faults > 0)]_vars

\* A park that failed leaves the tombstone in place: no give-up deletes it from an
\* issue that is not handed over.
FailedParkKeepsTombstone == [][\A i \in Issues : GivesUp(i) => HandedOver(i)]_vars

\* Escalating an issue whose claim is already gone succeeds: the 400 of the unclaim
\* stands for a claim released, and the tombstone is retired.
GoneClaimEscalates ==
    [][At("retry", "unclaim") /\ ~Held(cur) /\ step' # "unclaim" /\ faults' = faults
       => step' = "retire"]_vars

\* An exhausted infrastructure failure is announced by the time its tombstone is
\* given up.
InfraParkAnnounced ==
    At("retry", "retire") /\ path \in {"infra", "infraLoud"} => said[cur] >= 1

\* An issue claimed by the bridge does not stay in-progress for ever without a
\* Workload or a PR.
Stranded(i) ==
    open[i] /\ owner[i] = "bridge" /\ status[i] = "in-progress" /\ phase[i] = "none" /\ ~hasPr[i]

NoStranding == \A i \in Issues : Stranded(i) ~> ~Stranded(i)

\* Nor does it stay at ready with the claim still on it, which no agent could
\* claim.
StuckAtReady(i) ==
    open[i] /\ owner[i] = "bridge" /\ status[i] = "ready" /\ phase[i] = "none" /\ ~hasPr[i]

StuckClaimsReleased == \A i \in Issues : StuckAtReady(i) ~> ~StuckAtReady(i)

\* A Failed Workload of an open issue is retried, escalated, parked or pruned.
FailuresSettle ==
    \A i \in Issues :
        phase[i] = "Failed" /\ open[i]
        ~> phase[i] # "Failed" \/ ~open[i] \/ status[i] = "backlog"

\* A declared park whose label failed gets its needs-human label as long as the
\* tombstone is there to repair it from.
DeclaredParkLabelled ==
    \A i \in Issues :
        (phase[i] = "Failed" /\ result[i] = "declared" /\ status[i] = "backlog" /\ open[i])
        ~> (human[i] \/ status[i] # "backlog" \/ ~open[i] \/ phase[i] # "Failed")

\* Claiming continues until the lanes have no more claimable work or the cap is
\* reached, and so comes to an end.
ClaimsDrain == pc = "claim" ~> pc # "claim"

\* It does where a claim the bridge already holds is refused: a candidate that was
\* refused is not offered again, and one that was granted is refused the next time.
ClaimPassEnds == ~SelfClaimOk => ClaimsDrain

\* A Completed or Failed Workload is collected, unless the TTL of its phase is 0, or
\* the retry pass replaces it.
TerminalCollected == \A i \in Issues : phase[i] \in Pruned ~> phase[i] \in {"none", "Active"}

-----------------------------------------------------------------------------
(* The bridge keeps the promise of RunBudget.                              *)

\* The last run of an issue.  A retry in progress still owes an answer to the
\* failure it has deleted.
LastRun(i) ==
    CASE phase[i] = "Active" -> "running"
      [] phase[i] = "Failed" -> "failed"
      [] phase[i] \in {"Completed", "Stopped"} -> "ended"
      [] phase[i] = "none" -> IF pc = "retry" /\ i \in todo THEN "failed" ELSE "idle"

Promise == INSTANCE RunBudget WITH
    Budget <- MaxAttempts + InfraMax - 1,
    state  <- [i \in Issues |-> LastRun(i)],
    used   <- runs

\* Whatever the passes, the cluster, other people and the faults do, an issue costs
\* one run at a time, no more of them than its budgets admit, and a run is repeated
\* only after a failure.
RunsBudgeted == Promise!Spec

=============================================================================
