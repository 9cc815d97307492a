------------------------------- MODULE Review -------------------------------
(***************************************************************************)
(* transition_to_in_review (bridge/review_transition.py): where a Completed*)
(* Workload's issue goes, by what its tasks report.                        *)
(***************************************************************************)
EXTENDS Bridge

StartReview ==
    /\ Picking("claim") /\ laneAt > NumLanes
    /\ pc' = "review" /\ todo' = InPhase("Completed")
    /\ laneAt' = 1 /\ tried' = {} /\ inflight' = 0
    /\ queueLane' = Zero /\ queueReady' = {}
    /\ NoFault
    /\ UNCHANGED <<issueVars, workVars, jobVars, shotVars, names, hands>>

\* Tasks that are gone carry no verdict, which is not a GO.
Destination(v) ==
    CASE v = "pr"       -> "in-review"
      [] v = "resolved" -> "done"
      [] v = "gonopr"   -> "gonopr"
      [] OTHER          -> "blocked"

ReviewPick(i) ==
    /\ Picking("review") /\ i \in todo
    /\ \E v \in TasksOf(i) :
        Take(i, IF v = "gonopr" THEN "reviewCheck" ELSE "reviewStatus", Destination(v), v)
    /\ NoFault
    /\ UNCHANGED <<issueVars, workVars, frame>>

\* update_status is not asked whether it was refused; only an exception stops
\* the close.
ReviewStatus ==
    /\ At("review", "reviewStatus")
    /\ \E reply \in Replies :
        /\ StatusCall(cur, path, reply)
        /\ IF path = "done" /\ reply # "raise" THEN Goto("close") ELSE Done
    /\ UNCHANGED <<workVars, frame>>

\* close_already_resolved_issue: the comment, then the close.
ReviewClose ==
    /\ At("review", "close")
    /\ \E reply \in Replies : CloseCall(cur, reply)
    /\ Done
    /\ UNCHANGED <<workVars, frame>>

\* Mutant: the dedupe on the parked label is dropped.
ReviewCheckNoDedupe ==
    /\ At("review", "reviewCheck")
    /\ Goto("reviewPark") /\ NoFault
    /\ UNCHANGED <<issueVars, workVars, frame>>

\* GO without a PR: park once.
ReviewCheck ==
    /\ At("review", "reviewCheck")
    /\ \/ Parked(cur) /\ NoFault /\ Done
       \/ /\ \/ ~Parked(cur) /\ NoFault
             \/ Parked(cur) /\ Fault("read")
          /\ Goto("reviewPark")
    /\ UNCHANGED <<issueVars, workVars, frame>>

ReviewPark ==
    /\ At("review", "reviewPark")
    /\ \E reply \in Replies :
        /\ StatusCall(cur, "backlog", reply)
        /\ IF reply = "raise" THEN Done ELSE Goto("reviewLabel")
    /\ UNCHANGED <<workVars, frame>>

ReviewLabel ==
    /\ At("review", "reviewLabel")
    /\ \E reply \in Replies : LabelCall(cur, reply)
    /\ Goto("reviewComment")
    /\ UNCHANGED <<workVars, frame>>

ReviewComment ==
    /\ At("review", "reviewComment")
    /\ \E reply \in Replies : CommentCall(cur, reply)
    /\ Done
    /\ UNCHANGED <<workVars, frame>>

ReviewPass ==
    \/ StartReview
    \/ \E i \in Issues : ReviewPick(i)
    \/ ReviewStatus \/ ReviewClose
    \/ ReviewCheck \/ ReviewPark \/ ReviewLabel \/ ReviewComment

=============================================================================
