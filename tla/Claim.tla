-------------------------------- MODULE Claim --------------------------------
(***************************************************************************)
(* run_once (bridge/main.py) over claim_one (bridge/claim.py): drain each  *)
(* lane of the tick's queue snapshot up to the in-progress cap, creating a *)
(* Workload per claim.  CODER_AGENT_SLOTS is empty here.                   *)
(***************************************************************************)
EXTENDS Bridge

\* count_active_workloads, or zero when there is no cap to compare it with.
StartClaim ==
    /\ IF ProbeModel THEN Drained("recover") ELSE Drained("retry")
    /\ pc' = "claim"
    /\ inflight' = IF MaxInProgress = 0 THEN 0 ELSE Cardinality(InPhase("Active"))
    /\ laneAt' = 1 /\ tried' = {}
    /\ shotAttempt' = Zero /\ shotInfra' = Zero /\ shotLane' = Zero
    /\ NoFault
    /\ UNCHANGED <<issueVars, workVars, todo, jobVars, queueVars, names, hands>>

\* Mutant: one claim too many.
CappedLate == MaxInProgress > 0 /\ inflight > MaxInProgress

Capped == MaxInProgress > 0 /\ inflight >= MaxInProgress

\* Mutant: a refused candidate is offered again.
CandidatesAll(l) == {i \in queueReady : queueLane[i] = l}

\* select_candidates over the snapshot, less those this claim_one was refused.
Candidates(l) == {i \in queueReady : queueLane[i] = l} \ tried

\* Mutant: one lane too many.
DrainingPast == Picking("claim") /\ laneAt <= NumLanes + 1

Draining == Picking("claim") /\ laneAt <= NumLanes

\* The lane is capped, or claim_one found nothing: on to the next lane.
NextLane ==
    /\ Draining /\ (Capped \/ Candidates(laneAt) = {})
    /\ laneAt' = laneAt + 1 /\ tried' = {} /\ inflight' = inflight
    /\ NoFault
    /\ UNCHANGED <<issueVars, workVars, passVars, jobVars, shotVars, queueVars, names, hands>>

ClaimCandidate(i) ==
    /\ Draining /\ ~Capped /\ i \in Candidates(laneAt)
    /\ \/ ClaimCall(i, "ok") /\ Take(i, "claimed", "claim", "none") /\ tried' = tried
       \/ /\ \E reply \in Failures : ClaimCall(i, reply)
          /\ tried' = tried \cup {i} /\ UNCHANGED <<jobVars, todo>>
    /\ UNCHANGED <<workVars, pc, shotVars, queueVars, laneAt, inflight, names, hands>>

\* A create that raises leaves run_tick: that is the tick ending early.
MaterializeWorkload ==
    /\ At("claim", "claimed")
    /\ \/ /\ CreateCall(cur, laneAt, 1, 1, 1, TRUE)
          /\ inflight' = IF MaxInProgress = 0 THEN 0 ELSE inflight + 1
          /\ tried' = {} /\ Done
          /\ UNCHANGED <<pc, shotVars, queueVars, laneAt, names>>
       \/ /\ CreateCall(cur, laneAt, 1, 1, 1, FALSE)
          /\ EndTick
    /\ UNCHANGED <<issueVars, hands>>

ClaimPass ==
    \/ StartClaim \/ NextLane \/ MaterializeWorkload
    \/ \E i \in Issues : ClaimCandidate(i)

=============================================================================
