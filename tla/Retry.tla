------------------------------- MODULE Retry -------------------------------
(***************************************************************************)
(* reconcile_failures (bridge/retry.py) with the callbacks run_tick hands  *)
(* it: every Failed Workload is parked for a human, escalated, given up or *)
(* recreated.  One action per request, because the tick may end, and the   *)
(* board may change, between any two of them.                              *)
(***************************************************************************)
EXTENDS Bridge

\* Mutant: Workloads with a spent infra budget are left out.
StartRetrySpentSkipped ==
    /\ pc = "snap" /\ pc' = "retry"
    /\ todo' = {i \in InPhase("Failed") : infra[i] < InfraMax}
    /\ shotAttempt' = attempt /\ shotInfra' = infra /\ shotLane' = wlane
    /\ NoFault
    /\ UNCHANGED <<issueVars, workVars, jobVars, queueVars, claimVars, names, hands>>

\* Mutant: Workloads that completed are listed as well.
StartRetryTerminal ==
    /\ pc = "snap" /\ pc' = "retry"
    /\ todo' = InPhase("Failed") \cup InPhase("Completed")
    /\ shotAttempt' = attempt /\ shotInfra' = infra /\ shotLane' = wlane
    /\ NoFault
    /\ UNCHANGED <<issueVars, workVars, jobVars, queueVars, claimVars, names, hands>>

\* list_failed: the counters below are those of this listing.
StartRetry ==
    /\ pc = "snap" /\ pc' = "retry"
    /\ todo' = InPhase("Failed")
    /\ shotAttempt' = attempt /\ shotInfra' = infra /\ shotLane' = wlane
    /\ NoFault
    /\ UNCHANGED <<issueVars, workVars, jobVars, queueVars, claimVars, names, hands>>

-----------------------------------------------------------------------------
(* The branches.                                                           *)

\* Mutant: no fallback to the lane label.
ItemLaneBlanked(i) == queueLane[i]

\* refresh_lane: dispatch's current lane if the snapshot has one.
ItemLane(i) == IF queueLane[i] # NoLane THEN queueLane[i] ELSE shotLane[i]

\* can_escalate; the issue id is assumed present, as every Workload built since
\* bridge 0.3.0 carries it.
CanEscalate(i) == EscLane # NoLane /\ ItemLane(i) # EscLane

CoderSaidNo(v) == v \in {"nogo", "declared"}

\* Mutant: one attempt too many.
BranchOffByOne(i, v) ==
    IF v = "infra"
    THEN IF shotInfra[i] >= InfraMax THEN "infra" ELSE "retry"
    ELSE IF shotAttempt[i] >= 2 /\ CoderSaidNo(v) THEN "nogo"
    ELSE IF shotAttempt[i] <= MaxAttempts THEN "retry"
    ELSE IF CanEscalate(i) THEN "escalate" ELSE "exhausted"

\* What becomes of a Workload that is not, or could not be, parked on its own
\* declaration.
Branch(i, v) ==
    IF v = "infra"
    THEN IF shotInfra[i] >= InfraMax THEN "infra" ELSE "retry"
    ELSE IF shotAttempt[i] >= 2 /\ CoderSaidNo(v) THEN "nogo"
    ELSE IF shotAttempt[i] < MaxAttempts THEN "retry"
    ELSE IF CanEscalate(i) THEN "escalate" ELSE "exhausted"

FirstStep(p) ==
    CASE p = "infra"    -> "infraStatus"
      [] p = "escalate" -> "setLane"
      [] p = "retry"    -> "delete"
      [] OTHER          -> "check"

Enter(i, p, v) == Take(i, FirstStep(p), p, v)

Route(i, v) == Enter(i, IF v \in {"declared", "demoted"} THEN v ELSE Branch(i, v), v)

\* A closed issue is skipped; an unknown state is not.
RetrySkipClosed(i) ==
    /\ Picking("retry") /\ i \in todo /\ ~open[i]
    /\ Skip(i) /\ NoFault
    /\ UNCHANGED <<issueVars, workVars, frame>>

RetryPick(i) ==
    /\ Picking("retry") /\ i \in todo /\ open[i]
    /\ \E v \in TasksOf(i) : Route(i, v)
    /\ NoFault
    /\ UNCHANGED <<issueVars, workVars, frame>>

\* The state lookup, or one or both of the task reads, comes back empty: one read
\* is for the declaration, the other for everything else.
RetryPickBlind(i) ==
    /\ Picking("retry") /\ i \in todo
    /\ \E v \in TasksOf(i) \cup {"unknown"} :
        \/ Route(i, v)
        \/ v = "declared" /\ (Route(i, "nogo") \/ Enter(i, "declared", "unknown"))
    /\ Fault("read")
    /\ UNCHANGED <<issueVars, workVars, frame>>

-----------------------------------------------------------------------------
(* Parking for a human: park_for_human behind needs_human_for.             *)

AnnouncedPath == path \in {"declared", "demoted"}

\* Mutant: a parked declaration is retried like any other failure.
CheckParkedRetried ==
    /\ At("retry", "check") /\ Parked(cur)
    /\ IF AnnouncedPath THEN Enter(cur, Branch(cur, view), view) ELSE Goto("retire")
    /\ NoFault
    /\ UNCHANGED <<issueVars, workVars, frame>>

\* Mutant: a parked declaration is left without the label repair.
CheckParkedNoRepair ==
    /\ At("retry", "check") /\ Parked(cur)
    /\ IF AnnouncedPath THEN Done ELSE Goto("retire")
    /\ NoFault
    /\ UNCHANGED <<issueVars, workVars, frame>>

\* Already parked: repair the label of a declaration, retire the rest.
CheckParked ==
    /\ At("retry", "check") /\ Parked(cur)
    /\ Goto(IF AnnouncedPath THEN "relabel" ELSE "retire")
    /\ NoFault
    /\ UNCHANGED <<issueVars, workVars, frame>>

CheckNotParked ==
    /\ At("retry", "check")
    /\ \/ ~Parked(cur) /\ NoFault
       \/ Parked(cur) /\ Fault("read")
    /\ Goto("status")
    /\ UNCHANGED <<issueVars, workVars, frame>>

\* ensure_human_label keeps the tombstone whatever happens.
Relabel ==
    /\ At("retry", "relabel")
    /\ \E reply \in Replies : LabelCall(cur, reply)
    /\ Done
    /\ UNCHANGED <<workVars, frame>>

\* A declaration that could not be parked falls through to the other branches;
\* a repeated NO-GO is retired regardless; exhaustion keeps its tombstone.
ParkFailed ==
    IF AnnouncedPath THEN Enter(cur, Branch(cur, view), view)
    ELSE IF path = "nogo" THEN Goto("retire") ELSE Done

ParkStatus ==
    /\ At("retry", "status")
    /\ \/ StatusCall(cur, "backlog", "ok") /\ Goto("label")
       \/ (\E reply \in Failures : StatusCall(cur, "backlog", reply)) /\ ParkFailed
    /\ UNCHANGED <<workVars, frame>>

ParkLabel ==
    /\ At("retry", "label")
    /\ \E reply \in Replies : LabelCall(cur, reply)
    /\ Goto("comment")
    /\ UNCHANGED <<workVars, frame>>

ParkComment ==
    /\ At("retry", "comment")
    /\ \E reply \in Replies : CommentCall(cur, reply)
    /\ IF AnnouncedPath THEN Done ELSE Goto("retire")
    /\ UNCHANGED <<workVars, frame>>

\* Best-effort delete of the tombstone.
Retire ==
    /\ At("retry", "retire")
    /\ \E ok \in BOOLEAN : DeleteCall(cur, ok)
    /\ Done
    /\ UNCHANGED <<issueVars, frame>>

-----------------------------------------------------------------------------
(* Escalation: the lane first, the claim second, the tombstone last.       *)

\* A refusal gives the issue up; an exception keeps the tombstone.
EscalateFailed(reply) ==
    \/ reply = "refused" /\ Enter(cur, "exhausted", view)
    \/ reply = "raise" /\ Done

\* Mutant: the claim is not released.
EscalateLaneOnly ==
    /\ At("retry", "setLane")
    /\ \/ LaneCall(cur, EscLane, "ok") /\ Goto("retire")
       \/ \E reply \in Failures : LaneCall(cur, EscLane, reply) /\ EscalateFailed(reply)
    /\ UNCHANGED <<workVars, frame>>

EscalateLane ==
    /\ At("retry", "setLane")
    /\ \/ LaneCall(cur, EscLane, "ok") /\ Goto("unclaim")
       \/ \E reply \in Failures : LaneCall(cur, EscLane, reply) /\ EscalateFailed(reply)
    /\ UNCHANGED <<workVars, frame>>

EscalateUnclaim ==
    /\ At("retry", "unclaim")
    /\ \/ UnclaimCall(cur, "ok") /\ Goto("retire")
       \/ \E reply \in Failures : UnclaimCall(cur, reply) /\ EscalateFailed(reply)
    /\ UNCHANGED <<workVars, frame>>

-----------------------------------------------------------------------------
(* Exhausted infrastructure retries: park_infra.                           *)

InfraStatus ==
    /\ At("retry", "infraStatus")
    /\ \/ StatusCall(cur, "backlog", "ok") /\ Goto("infraCheck")
       \/ (\E reply \in Failures : StatusCall(cur, "backlog", reply)) /\ Done
    /\ UNCHANGED <<workVars, frame>>

\* already_parked decides whether to comment.
InfraCheck ==
    /\ At("retry", "infraCheck")
    /\ \/ Parked(cur) /\ NoFault /\ Goto("infraLabels")
       \/ /\ \/ ~Parked(cur) /\ NoFault
             \/ Parked(cur) /\ Fault("read")
          /\ Take(cur, "infraLabels", "infraLoud", view)
    /\ UNCHANGED <<issueVars, workVars, frame>>

\* replace_labels takes needs-human off and writes the blocked/infra marker, the
\* model and the count, which starts from the verdict attempts of the Workload, not
\* from its infra attempts; a failure of any of it keeps the tombstone.
InfraLabels ==
    /\ At("retry", "infraLabels")
    /\ \/ /\ MarkCall(cur, shotAttempt[cur], TRUE)
          /\ Goto(IF path = "infraLoud" THEN "infraComment" ELSE "retire")
       \/ /\ MarkCall(cur, shotAttempt[cur], FALSE)
          /\ IF path = "infraLoud" THEN Take(cur, "infraComment", "infraKept", view)
                                   ELSE Done
    /\ UNCHANGED <<workVars, frame>>

InfraComment ==
    /\ At("retry", "infraComment")
    /\ \E reply \in Replies : CommentCall(cur, reply)
    /\ IF path = "infraKept" THEN Done ELSE Goto("retire")
    /\ UNCHANGED <<workVars, frame>>

-----------------------------------------------------------------------------
(* Retry: delete, then create the same name again.                         *)

RetryDelete ==
    /\ At("retry", "delete")
    /\ \/ DeleteCall(cur, TRUE) /\ Goto("create")
       \/ DeleteCall(cur, FALSE) /\ Done
    /\ UNCHANGED <<issueVars, frame>>

\* Mutant: a verdict resets the infrastructure counter.
NextInfraReset == IF view = "infra" THEN shotInfra[cur] + 1 ELSE 1

\* An infrastructure failure is charged to its own budget.
NextAttempt == shotAttempt[cur] + (IF view = "infra" THEN 0 ELSE 1)
NextInfra   == shotInfra[cur] + (IF view = "infra" THEN 1 ELSE 0)

RetryCreate ==
    /\ At("retry", "create")
    /\ \E ok \in BOOLEAN :
        CreateCall(cur, ItemLane(cur), NextAttempt, NextInfra, runs[cur] + 1, ok)
    /\ Done
    /\ UNCHANGED <<issueVars, frame>>

RetryPass ==
    \/ StartRetry
    \/ \E i \in Issues : RetrySkipClosed(i) \/ RetryPick(i) \/ RetryPickBlind(i)
    \/ CheckParked \/ CheckNotParked \/ Relabel
    \/ ParkStatus \/ ParkLabel \/ ParkComment \/ Retire
    \/ EscalateLane \/ EscalateUnclaim
    \/ InfraStatus \/ InfraCheck \/ InfraLabels \/ InfraComment
    \/ RetryDelete \/ RetryCreate

=============================================================================
