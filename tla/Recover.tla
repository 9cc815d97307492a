------------------------------- MODULE Recover -------------------------------
(***************************************************************************)
(* reconcile_infra_parked (bridge/retry.py) with the callbacks run_tick    *)
(* hands it: an issue parked on an infrastructure failure is restarted     *)
(* once its model answers, and given to a person after too many probes.    *)
(***************************************************************************)
EXTENDS Bridge

\* list_infra_parked; lane is the currentLane of the records.
StartRecover ==
    /\ ProbeModel /\ Drained("retry") /\ pc' = "recover"
    /\ \/ NoFault /\ todo' = {i \in Issues : open[i] /\ marker[i] # "none"}
       \/ Fault("read") /\ todo' = {}
    /\ shotAttempt' = Zero /\ shotInfra' = Zero /\ shotLane' = lane
    /\ UNCHANGED <<issueVars, workVars, jobVars, queueVars, claimVars, names, hands>>

\* infra_failure_count: the highest of the counts there are.
IsFailureCount(i, n) == n \in tries[i] \cup {0} /\ \A m \in tries[i] : m <= n

\* Each issue is blocked on a model of its own; one that answers is redriven.
RecoverHealthy(i) ==
    /\ Picking("recover") /\ i \in todo /\ marker[i] = "model"
    /\ Take(i, "redrive", "redrive", "none")
    /\ NoFault
    /\ UNCHANGED <<issueVars, workVars, frame>>

\* An unidentified model is never probed.
RecoverUnhealthy(i) ==
    /\ Picking("recover") /\ i \in todo
    /\ \E n \in tries[i] \cup {0} :
        /\ IsFailureCount(i, n)
        /\ shotInfra' = [shotInfra EXCEPT ![i] = n]
        /\ IF n + 1 >= RecoveryMax THEN Take(i, "handStatus", "handover", "none")
                                   ELSE Take(i, "uncount", "recount", "none")
    /\ NoFault
    /\ UNCHANGED <<issueVars, workVars, pc, shotAttempt, shotLane, queueVars, claimVars,
                   names, hands>>

-----------------------------------------------------------------------------
(* redrive_infra: a fresh run, then the status, then the label, and the    *)
(* marker last.  Whatever fails leaves the marker for the next tick.       *)

\* Mutant: the run of a redrive is not charged to an attempt.
RecoverCreateUncharged ==
    /\ At("recover", "redrive")
    /\ \/ CreateCall(cur, shotLane[cur], 0, 1, 1, TRUE) /\ Goto("resume")
       \/ CreateCall(cur, shotLane[cur], 0, 1, 1, FALSE) /\ Done
    /\ UNCHANGED <<issueVars, frame>>

RecoverCreate ==
    /\ At("recover", "redrive")
    /\ \/ CreateCall(cur, shotLane[cur], 1, 1, 1, TRUE) /\ Goto("resume")
       \/ CreateCall(cur, shotLane[cur], 1, 1, 1, FALSE) /\ Done
    /\ UNCHANGED <<issueVars, frame>>

RecoverResume ==
    /\ At("recover", "resume")
    /\ \/ ResumeCall(cur, "ok") /\ Goto("unpark")
       \/ ResumeCall(cur, "refused") /\ Take(cur, "unpark", "redriveKept", "none")
       \/ ResumeCall(cur, "raise") /\ Done
    /\ UNCHANGED <<workVars, frame>>

\* Mutant: a redriven issue keeps its marker.
RecoverUnparkMarked ==
    /\ At("recover", "unpark")
    /\ \E reply \in Replies : UnlabelCall(cur, reply)
    /\ Done
    /\ UNCHANGED <<workVars, frame>>

RecoverUnpark ==
    /\ At("recover", "unpark")
    /\ \E reply \in Replies :
        /\ UnlabelCall(cur, reply)
        /\ IF reply = "ok" /\ path = "redrive" THEN Goto("unmark") ELSE Done
    /\ UNCHANGED <<workVars, frame>>

RecoverUnmark ==
    /\ At("recover", "unmark")
    /\ \E ok \in BOOLEAN : UnmarkCall(cur, ok)
    /\ Done
    /\ UNCHANGED <<workVars, frame>>

-----------------------------------------------------------------------------
(* park_for_human, then the marker goes whatever became of the rest.       *)

HandStatus ==
    /\ At("recover", "handStatus")
    /\ \/ StatusCall(cur, "backlog", "ok") /\ Goto("handLabel")
       \/ (\E reply \in Failures : StatusCall(cur, "backlog", reply)) /\ Done
    /\ UNCHANGED <<workVars, frame>>

HandLabel ==
    /\ At("recover", "handLabel")
    /\ \E reply \in Replies : LabelCall(cur, reply)
    /\ Goto("handComment")
    /\ UNCHANGED <<workVars, frame>>

\* Mutant: an issue handed over keeps its marker.
HandCommentMarked ==
    /\ At("recover", "handComment")
    /\ \E reply \in Replies : CommentCall(cur, reply)
    /\ Done
    /\ UNCHANGED <<workVars, frame>>

HandComment ==
    /\ At("recover", "handComment")
    /\ \E reply \in Replies : CommentCall(cur, reply)
    /\ Goto("unmark")
    /\ UNCHANGED <<workVars, frame>>

-----------------------------------------------------------------------------
(* record_failure: the old counts go, then the new one is added.           *)

RecoverUncount ==
    /\ At("recover", "uncount")
    /\ UncountCall(cur)
    /\ Goto("count")
    /\ UNCHANGED <<workVars, frame>>

\* Mutant: the old count is written back.
RecoverCountStale ==
    /\ At("recover", "count")
    /\ \E reply \in Replies : CountCall(cur, shotInfra[cur], reply)
    /\ Done
    /\ UNCHANGED <<workVars, frame>>

RecoverCount ==
    /\ At("recover", "count")
    /\ \E reply \in Replies : CountCall(cur, shotInfra[cur] + 1, reply)
    /\ Done
    /\ UNCHANGED <<workVars, frame>>

RecoverPass ==
    \/ StartRecover
    \/ \E i \in Issues : RecoverHealthy(i) \/ RecoverUnhealthy(i)
    \/ RecoverCreate \/ RecoverResume \/ RecoverUnpark \/ RecoverUnmark
    \/ HandStatus \/ HandLabel \/ HandComment
    \/ RecoverUncount \/ RecoverCount

=============================================================================
