------------------------------ MODULE ParkProofs ------------------------------
(***************************************************************************)
(* Where an issue is put, and stays, for every board, lane list and budget:*)
(* the reviews that stand, the failures that are handed over before they   *)
(* are given up, and the parks that are announced once.  Each theorem      *)
(* names the faults and the interventions it does without.                 *)
(***************************************************************************)
EXTENDS BoardProofs

USE FaultsAssumption, DispatchAssumption, ClusterAssumption, BridgeAssumption

-----------------------------------------------------------------------------
(* Common ground.                                                          *)

\* No object is under deletion between two steps.
NoneGoing == \A i \in Issues : ~going[i]

LEMMA GoingStep ==
    ASSUME TypeOK, ControlInv, NoneGoing, "wedge" \notin FaultKinds, [Next]_vars
    PROVE  NoneGoing'
<1>1. Moved
  BY StepMoves
<1>2. \A i \in Issues : WorkSame(i) \/ WorkMove(i)
  BY <1>1 DEF Moved, Work
<1>3. ASSUME NEW i \in Issues
      PROVE  ~going'[i]
  BY <1>2 DEF NoneGoing, WorkMove, WorkSame, StampMove, AgeMove, SameRun, FinishMove, GoneMove,
              Vanished, WedgeMove, CreateMove, Fault
<1> QED
  BY <1>3 DEF NoneGoing

LEMMA InitGoing == Init => NoneGoing
BY DEF Init, ClusterInit, NoneGoing

\* A pass other than the one in hand begins with nothing in hand, and the one in hand
\* only takes issues off its listing.
LEMMA ReviewListing ==
    ASSUME TypeOK, PassInv, pc' = "review", [Next]_vars
    PROVE  StartReview \/ (pc = "review" /\ todo' \subseteq todo)
<1>1. CASE UNCHANGED bridgeVars
  BY <1>1 DEF bridgeVars, passVars
<1>2. CASE ReviewPass
  <2> USE DEF At, Picking, frame
  <2>1. ASSUME NEW i \in Issues, ReviewPick(i)
        PROVE  pc = "review" /\ todo' \subseteq todo
    BY <2>1 DEF ReviewPick, Take
  <2>2. CASE ReviewStatus \/ ReviewClose \/ ReviewCheck \/ ReviewPark \/ ReviewLabel
             \/ ReviewComment
    BY <2>2 DEF ReviewStatus, ReviewClose, ReviewCheck, ReviewPark, ReviewLabel, ReviewComment,
                Done, Goto
  <2> QED
    BY <1>2, <2>1, <2>2 DEF ReviewPass
<1> QED
  BY <1>1, <1>2, PassSteps
     DEF Next, TickStep, SnapshotQueues, FinishTick, Crash, EndTick, ClusterStep, HandStep,
         RemoveStep, vars

\* The cluster, people, other agents, or nobody.
Outside == (\E i \in Issues : ClusterStep(i) \/ HandStep(i) \/ RemoveStep(i)) \/ UNCHANGED vars

LEMMA OutsideMoves ==
    ASSUME TypeOK, Outside
    PROVE  WorldMoved /\ UNCHANGED bridgeVars /\ NoFault
<1>1. CASE UNCHANGED vars
  BY <1>1, BoardKept, WorkKept
     DEF vars, NoFault, WorldMoved, Work, Board, BoardSame, Untouched
<1> QED
  BY <1>1, WorldMoves DEF Outside

\* Which pass the bridge is in after a step tells which pass took it.
LEMMA InPass ==
    ASSUME [Next]_vars
    PROVE  /\ pc' = "retry" => RetryPass \/ Outside
           /\ pc' = "recover" => RecoverPass \/ Outside
           /\ pc' = "claim" => ClaimPass \/ Outside
           /\ pc' = "review" => ReviewPass \/ Outside
           /\ pc' \in {"stranded", "stuck"} => ReconcilePass \/ Outside
           /\ pc' = "prune" => PrunePass \/ Outside
BY PassSteps DEF Next, TickStep, SnapshotQueues, FinishTick, Crash, EndTick, Outside

-----------------------------------------------------------------------------
(* Issues under review.                                                    *)

\* An issue is under review because its run opened a PR.
InReviewByPr ==
    \A i \in Issues : status[i] = "in-review"
        => phase[i] = "none" \/ (phase[i] = "Completed" /\ result[i] = "pr")

\* What the review pass has listed stays there until its turn comes.
ReviewListed == pc = "review" => \A i \in todo : phase[i] = "Completed"

\* The verdict in hand is still the one the tasks carry.
ReviewRead ==
    At("review", "reviewStatus") \/ At("review", "reviewCheck") \/ At("review", "reviewPark")
    => /\ view = result[cur] /\ path = Destination(view)
       /\ step # "reviewStatus" => view = "gonopr"

ReviewInv == NoneGoing /\ InReviewByPr /\ ReviewListed /\ ReviewRead

LEMMA InReviewStep ==
    ASSUME TypeOK, ControlInv, PassInv, ReviewInv, [Next]_vars
    PROVE  /\ InReviewByPr'
           /\ \A i \in Issues : status[i] = "in-review" => status'[i] = "in-review"
<1> USE DEF Working, At
<1>1. Moved
  BY StepMoves
<1>2. pc = "review" /\ cur # NoIssue => cur \in todo /\ cur \in Issues /\ phase[cur] = "Completed"
  BY DEF PassInv, JobInTodo, ReviewInv, ReviewListed, TypeOK, BridgeTypeOK
<1>3. pc = "retry" /\ cur # NoIssue => status[cur] \in Live
  BY DEF PassInv, RetryLive, ControlInv, JobListed
<1>4. ASSUME NEW i \in Issues, BoardMove(i)
      PROVE  /\ status[i] = "in-review" => status'[i] = "in-review"
             /\ status'[i] = "in-review"
                  => status[i] = "in-review" \/ (phase[i] = "Completed" /\ result[i] = "pr")
  <2>1. CASE Untouched(i) \/ HumanMove(i) \/ CommentMove(i) \/ MarkMove(i) \/ UnmarkMove(i)
    BY <2>1 DEF Untouched, HumanMove, CommentMove, MarkMove, UnmarkMove
  <2>2. CASE ParkMove(i)
    BY <1>2, <1>3, <2>2
       DEF ParkMove, StatusTo, PassInv, ReviewInv, ReviewRead, InReviewByPr, Live
  <2>3. CASE ReviewMove(i)
    BY <1>2, <2>3 DEF ReviewMove, StatusTo, ReviewInv, ReviewRead, InReviewByPr, Destination
  <2>4. CASE ReadyMove(i)
    BY <2>4 DEF ReadyMove, StatusTo, PassInv, StrandedLive, PruneLive, ResetListed, Live
  <2>5. CASE ReleaseMove(i) \/ ClaimMove(i) \/ ResumeMove(i) \/ EscalateMove(i) \/ HandMove(i)
    BY <2>5 DEF ReleaseMove, Held, ClaimMove, ResumeMove, EscalateMove, HandMove, RegroomMove, RivalMove,
                ReclassifyMove, PassInv
  <2> QED
    BY <1>4, <2>1, <2>2, <2>3, <2>4, <2>5 DEF BoardMove
<1>5. ASSUME NEW i \in Issues, status[i] = "in-review", WorkMove(i)
      PROVE  phase'[i] = "none" \/ (phase'[i] = "Completed" /\ result'[i] = "pr")
  <2>1. phase[i] = "none" \/ (phase[i] = "Completed" /\ result[i] = "pr")
    BY <1>5 DEF ReviewInv, InReviewByPr
  <2>2. ~CreateMove(i)
    BY <1>3, <1>5 DEF CreateMove, PassInv, ClaimHeld, Live
  <2> QED
    BY <1>5, <2>1, <2>2 DEF WorkMove, WorkSame, StampMove, AgeMove, SameRun, FinishMove, GoneMove,
                            Vanished, WedgeMove
<1>6. CASE Work /\ \A i \in Issues : BoardMove(i)
  BY <1>4, <1>6 DEF ReviewInv, InReviewByPr, Work, WorkSame
<1>7. CASE \A i \in Issues : Untouched(i) /\ WorkMove(i)
  BY <1>5, <1>7 DEF InReviewByPr, Untouched
<1> QED
  BY <1>1, <1>6, <1>7 DEF Moved

\* An object listed by the review pass goes only by somebody else's hand.
LEMMA ReviewedStays ==
    ASSUME TypeOK, ControlInv, PassInv, ReviewInv, "remove" \notin HandKinds, pc = "review",
           "wedge" \notin FaultKinds, [Next]_vars
    PROVE  \A i \in todo : phase'[i] = "Completed" /\ result'[i] = result[i]
<1>1. \A i \in todo : i \in Issues /\ phase[i] = "Completed" /\ ~going[i]
  BY DEF ReviewInv, ReviewListed, NoneGoing, TypeOK, BridgeTypeOK
<1>2. \A i \in Issues : WorkSame(i) \/ WorkMove(i)
  BY StepMoves DEF Moved, Work
<1> QED
  BY <1>1, <1>2
     DEF WorkMove, WorkSame, StampMove, AgeMove, SameRun, FinishMove, GoneMove, Working, At,
         WedgeMove, CreateMove, Fault

LEMMA ReviewStep ==
    ASSUME TypeOK, ControlInv, PassInv, ReviewInv, "remove" \notin HandKinds,
           "wedge" \notin FaultKinds, [Next]_vars
    PROVE  ReviewInv'
<1>1. ReviewListed'
  <2>1. CASE StartReview
    BY <2>1 DEF StartReview, ReviewListed, InPhase, workVars
  <2>2. CASE pc = "review" /\ todo' \subseteq todo
    BY <2>2, ReviewedStays DEF ReviewListed
  <2> QED
    BY <2>1, <2>2, ReviewListing DEF ReviewListed
<1>2. ReviewRead'
  <2> SUFFICES ASSUME pc' = "review", cur' # NoIssue
               PROVE  ReviewRead'
    BY DEF ReviewRead, At
  <2>1. pc = "review"
    BY ReviewListing DEF StartReview, Picking, jobVars
  <2>2. \A i \in todo : result'[i] = result[i]
    BY <2>1, ReviewedStays
  <2>3. CASE UNCHANGED bridgeVars
    <3>1. UNCHANGED <<pc, cur, step, path, view>>
      BY <2>3 DEF bridgeVars, passVars, jobVars
    <3>2. cur \in todo
      BY <2>1, <3>1 DEF PassInv, JobInTodo
    <3> QED
      BY <2>1, <2>2, <3>1, <3>2 DEF ReviewRead, ReviewInv, At
  <2>4. ASSUME NEW i \in Issues, ReviewPick(i)
        PROVE  ReviewRead'
    <3>1. i \in todo /\ TasksOf(i) = {result[i]}
      BY <2>1, <2>4 DEF ReviewPick, TasksOf, ReviewInv, ReviewListed, NoneGoing
    <3>2. Take(i, IF result[i] = "gonopr" THEN "reviewCheck" ELSE "reviewStatus",
               Destination(result[i]), result[i])
      BY <2>4, <3>1 DEF ReviewPick
    <3> QED
      BY <2>2, <3>1, <3>2 DEF Take, ReviewRead, At
  <2>5. CASE ReviewCheck
    <3>1. Goto("reviewPark") /\ cur \in todo
      BY <2>1, <2>5 DEF ReviewCheck, Done, At, PassInv, JobInTodo
    <3> QED
      BY <2>2, <2>5, <3>1 DEF ReviewCheck, ReviewInv, ReviewRead, Goto, At
  <2>6. CASE ReviewStatus \/ ReviewClose \/ ReviewPark \/ ReviewLabel \/ ReviewComment
    BY <2>6 DEF ReviewStatus, ReviewClose, ReviewPark, ReviewLabel, ReviewComment, Done, Goto,
                ReviewRead, At
  <2>7. ~StartReview
    BY <2>1 DEF StartReview, Picking
  <2> QED
    BY <2>3, <2>4, <2>5, <2>6, <2>7, PassSteps
       DEF Next, TickStep, SnapshotQueues, FinishTick, Crash, EndTick, ClusterStep, HandStep,
           RemoveStep, vars, ReviewPass
<1> QED
  BY <1>1, <1>2, InReviewStep, GoingStep DEF ReviewInv

\* No pass takes an issue out of review, whatever else fails and whoever else
\* intervenes, as long as a run's object goes at once and only by the bridge's hand.
THEOREM ReviewsStand ==
    ASSUME ~ProbeModel, "wedge" \notin FaultKinds, "remove" \notin HandKinds
    PROVE  Spec => ReviewStands
<1>1. Init => ReviewInv
  BY InitGoing DEF Init, DispatchInit, BridgeInit, ReviewInv, InReviewByPr, ReviewListed, ReviewRead,
                   At
<1>2. IInv /\ PassInv /\ ReviewInv /\ [Next]_vars => ReviewInv'
  BY ReviewStep DEF IInv
<1>3. IInv /\ PassInv /\ ReviewInv /\ [Next]_vars
        => [\A i \in Issues :
              status[i] = "in-review" /\ hasPr[i] /\ hasPr'[i] => status'[i] = "in-review"]_vars
  BY InReviewStep DEF IInv
<1> QED
  BY <1>1, <1>2, <1>3, Inductive, PassSound, PTL DEF Spec, ReviewStands

-----------------------------------------------------------------------------
(* Failures that are handed over.                                          *)

\* Work that may be picked up carries no needs-human label.
HumanIdle == \A i \in Issues : status[i] \in {"ready", "in-progress"} => ~human[i]

\* Once its status is set, an issue that is being parked stays parked; a pruned
\* Workload's issue is reset only when it is not.
ParkedJob ==
    /\ \/ At("retry", "relabel") \/ At("retry", "label") \/ At("retry", "comment")
       \/ At("retry", "infraCheck") \/ At("retry", "infraLabels") \/ At("retry", "infraComment")
       \/ At("review", "reviewLabel") \/ At("review", "reviewComment")
       => status[cur] = "backlog"
    /\ At("prune", "pruneReset") => ~Parked(cur)

ParkedInv == HumanIdle /\ ParkedJob

LEMMA HumanIdleStep ==
    ASSUME TypeOK, ControlInv, PassInv, ParkedInv, [Next]_vars
    PROVE  HumanIdle'
<1> USE DEF Working, HumanIdle, ParkedInv
<1>1. Moved
  BY StepMoves
<1>2. ASSUME NEW i \in Issues, BoardMove(i), status'[i] \in {"ready", "in-progress"}
      PROVE  ~human'[i]
  <2>1. CASE Untouched(i) \/ CommentMove(i) \/ MarkMove(i) \/ UnmarkMove(i)
    BY <1>2, <2>1 DEF Untouched, CommentMove, MarkMove, UnmarkMove
  <2>2. CASE ParkMove(i) \/ ReviewMove(i)
    BY <1>2, <2>2 DEF ParkMove, ReviewMove, StatusTo, ControlInv, ReviewPath
  <2>3. CASE ReadyMove(i)
    BY <2>3 DEF ReadyMove, StatusTo, PassInv, StrandedLive, ParkedJob, Parked
  <2>4. CASE HumanMove(i)
    BY <1>2, <2>4 DEF HumanMove, ParkedJob, At, PassInv
  <2>5. CASE ReleaseMove(i) \/ ClaimMove(i) \/ ResumeMove(i) \/ EscalateMove(i) \/ HandMove(i)
    BY <1>2, <2>5 DEF ReleaseMove, Held, ClaimMove, ResumeMove, EscalateMove, HandMove, RegroomMove, RivalMove,
                      ReclassifyMove, PassInv, At
  <2> QED
    BY <1>2, <2>1, <2>2, <2>3, <2>4, <2>5 DEF BoardMove
<1>3. CASE Work /\ \A i \in Issues : BoardMove(i)
  BY <1>2, <1>3
<1>4. CASE \A i \in Issues : Untouched(i) /\ WorkMove(i)
  BY <1>4 DEF Untouched
<1> QED
  BY <1>1, <1>3, <1>4 DEF Moved

LEMMA ParkedRetry ==
    ASSUME TypeOK, ControlInv, PassInv, ParkedInv, RetryPass
    PROVE  ParkedJob'
<1> USE DEF ParkedJob, At, Done, Goto, Take, Skip, frame
<1>0. pc' = "retry"
  BY PassSteps
<1>1. CASE StartRetry
  BY <1>1 DEF StartRetry, jobVars, ControlInv, HandsEmpty
<1>enter. ASSUME NEW i, NEW p, NEW v, Enter(i, p, v)
          PROVE  step' \in {"infraStatus", "setLane", "delete", "check"}
  BY <1>enter DEF Enter, FirstStep
<1>2. ASSUME NEW i \in Issues, RetrySkipClosed(i) \/ RetryPick(i) \/ RetryPickBlind(i)
      PROVE  ParkedJob'
  BY <1>0, <1>2, <1>enter DEF RetrySkipClosed, RetryPick, RetryPickBlind, Route, Picking, jobVars
<1>3. CASE CheckParked
  <2>1. status[cur] \in Live /\ Parked(cur) /\ cur \in Issues
    BY <1>3 DEF CheckParked, PassInv, RetryLive, ControlInv, JobListed, TypeOK, BridgeTypeOK
  <2>2. status[cur] = "backlog"
    BY <2>1 DEF Live, Parked, ParkedInv, HumanIdle
  <2> QED
    BY <1>0, <1>3, <2>2 DEF CheckParked, issueVars
<1>4. CASE CheckNotParked \/ Relabel \/ EscalateLane \/ EscalateUnclaim \/ Retire \/ RetryDelete
           \/ RetryCreate
  BY <1>0, <1>4, <1>enter DEF CheckNotParked, Relabel, EscalateLane, EscalateUnclaim,
                              EscalateFailed, Retire, RetryDelete, RetryCreate
<1>cur. ASSUME NEW s, pc = "retry" /\ cur # NoIssue /\ step = s
        PROVE  cur \in Issues
  BY <1>cur DEF TypeOK, BridgeTypeOK
<1>5. CASE ParkStatus
  <2>1. cur \in Issues
    BY <1>5, <1>cur DEF ParkStatus
  <2>2. CASE StatusCall(cur, "backlog", "ok") /\ Goto("label")
    BY <1>0, <2>1, <2>2, StatusFacts DEF Failed, Failures, Statuses
  <2>3. CASE ParkFailed
    BY <1>0, <1>enter, <2>3 DEF ParkFailed
  <2> QED
    BY <1>5, <2>2, <2>3 DEF ParkStatus
<1>6. CASE ParkLabel
  <2>1. cur \in Issues /\ status[cur] = "backlog"
    BY <1>6, <1>cur DEF ParkLabel, ParkedInv
  <2>2. status'[cur] = status[cur]
    BY <1>6, <2>1, HumanFacts DEF ParkLabel, LabelCall, Failed, Board, BoardSame
  <2> QED
    BY <1>0, <1>6, <2>1, <2>2 DEF ParkLabel
<1>7. CASE ParkComment \/ InfraComment
  BY <1>0, <1>7 DEF ParkComment, InfraComment
<1>8. CASE InfraStatus
  <2>1. cur \in Issues
    BY <1>8, <1>cur DEF InfraStatus
  <2>2. CASE StatusCall(cur, "backlog", "ok") /\ Goto("infraCheck")
    BY <1>0, <2>1, <2>2, StatusFacts DEF Failed, Failures, Statuses
  <2> QED
    BY <1>0, <1>8, <2>2 DEF InfraStatus
<1>9. CASE InfraCheck
  BY <1>0, <1>9 DEF InfraCheck, issueVars, ParkedInv
<1>10. CASE InfraLabels
  <2>1. cur \in Issues /\ status[cur] = "backlog"
    BY <1>10, <1>cur DEF InfraLabels, ParkedInv
  <2>2. status'[cur] = status[cur]
    BY <1>10, <2>1, MarkFacts DEF InfraLabels
  <2> QED
    BY <1>0, <1>10, <2>1, <2>2 DEF InfraLabels
<1> QED
  BY <1>1, <1>2, <1>3, <1>4, <1>5, <1>6, <1>7, <1>8, <1>9, <1>10 DEF RetryPass

LEMMA ParkedReview ==
    ASSUME TypeOK, ParkedInv, "call" \notin FaultKinds, ReviewPass
    PROVE  ParkedJob'
<1> USE DEF ParkedJob, At, Done, Goto, frame
<1>0. pc' = "review"
  BY PassSteps
<1>1. CASE StartReview
  BY <1>1 DEF StartReview, Picking, jobVars
<1>2. ASSUME NEW i \in Issues, ReviewPick(i)
      PROVE  ParkedJob'
  BY <1>0, <1>2 DEF ReviewPick, Take
<1>3. CASE ReviewStatus \/ ReviewClose \/ ReviewCheck \/ ReviewComment
  BY <1>0, <1>3 DEF ReviewStatus, ReviewClose, ReviewCheck, ReviewComment
<1>4. CASE ReviewPark
  <2>1. cur \in Issues
    BY <1>4 DEF ReviewPark, TypeOK, BridgeTypeOK
  <2>2. PICK reply \in Replies : /\ StatusCall(cur, "backlog", reply)
                                 /\ IF reply = "raise" THEN Done ELSE Goto("reviewLabel")
    BY <1>4 DEF ReviewPark
  <2>3. status'[cur] = "backlog"
    BY <2>1, <2>2, StatusFacts DEF Failed, Fault, Statuses
  <2> QED
    BY <1>0, <2>2, <2>3
<1>5. CASE ReviewLabel
  <2>1. cur \in Issues /\ status[cur] = "backlog"
    BY <1>5 DEF ReviewLabel, TypeOK, BridgeTypeOK, ParkedInv
  <2>2. status'[cur] = status[cur]
    BY <1>5, <2>1, HumanFacts DEF ReviewLabel, LabelCall, Failed, Board, BoardSame
  <2> QED
    BY <1>0, <1>5, <2>1, <2>2 DEF ReviewLabel
<1> QED
  BY <1>1, <1>2, <1>3, <1>4, <1>5 DEF ReviewPass

LEMMA ParkedPrune ==
    ASSUME TypeOK, ParkedInv, "read" \notin FaultKinds, PrunePass
    PROVE  ParkedJob'
<1> USE DEF ParkedJob, At, Done, Goto, frame
<1>0. pc' = "prune"
  BY PassSteps
<1>1. CASE PruneCheck
  BY <1>0, <1>1 DEF PruneCheck, Fault, issueVars, Parked
<1>2. CASE StartPrune \/ PruneDelete \/ PruneReset
  BY <1>0, <1>2 DEF StartPrune, PruneDelete, PruneReset, Drained, Picking, jobVars
<1>3. ASSUME NEW i \in Issues, PrunePick(i) \/ PruneUnstamped(i)
      PROVE  ParkedJob'
  BY <1>0, <1>3 DEF PrunePick, PruneUnstamped, Skip, Take, Picking, jobVars
<1> QED
  BY <1>1, <1>2, <1>3 DEF PrunePass

\* Nobody but the groomer takes an issue out of backlog, and nobody else parks one.
LEMMA ParkedOutside ==
    ASSUME TypeOK, ParkedInv, "regroom" \notin HandKinds, Outside
    PROVE  ParkedJob'
<1>1. UNCHANGED <<pc, cur, step>>
  BY OutsideMoves DEF bridgeVars, passVars, jobVars
<1>2. ASSUME NEW i \in Issues
      PROVE  /\ status[i] = "backlog" => status'[i] = "backlog"
             /\ status'[i] = "backlog" => status[i] = "backlog"
             /\ human'[i] = human[i]
  BY OutsideMoves DEF WorldMoved, Untouched, HandMove, RegroomMove, RivalMove, ReclassifyMove
<1>3. cur # NoIssue => cur \in Issues
  BY DEF TypeOK, BridgeTypeOK
<1> QED
  BY <1>1, <1>2, <1>3 DEF ParkedJob, ParkedInv, At, Parked

LEMMA ParkedStep ==
    ASSUME TypeOK, ControlInv, PassInv, ParkedInv, {"call", "read"} \cap FaultKinds = {},
           "regroom" \notin HandKinds, [Next]_vars
    PROVE  ParkedInv'
<1>1. CASE RetryPass \/ ReviewPass \/ PrunePass \/ Outside
  BY <1>1, ParkedRetry, ParkedReview, ParkedPrune, ParkedOutside, HumanIdleStep DEF ParkedInv
<1>2. CASE ~(RetryPass \/ ReviewPass \/ PrunePass \/ Outside)
  BY <1>2, InPass, HumanIdleStep DEF ParkedInv, ParkedJob, At
<1> QED
  BY <1>1, <1>2

LEMMA InitParked == Init => ParkedInv
BY DEF Init, DispatchInit, BridgeInit, ParkedInv, HumanIdle, ParkedJob, At

\* The lane comes before the claim, and both before the tombstone.
EscalatedJob ==
    /\ At("retry", "unclaim") => lane[cur] = EscLane
    /\ At("retry", "retire") => HandedOver(cur)

LEMMA EscalatedRetry ==
    ASSUME TypeOK, ControlInv, PassInv, ParkedInv, EscalatedJob, "call" \notin FaultKinds,
           RetryPass
    PROVE  EscalatedJob'
<1> USE DEF EscalatedJob, At, Done, Goto, Take, Skip, frame
<1>0. pc' = "retry"
  BY PassSteps
<1>1. CASE StartRetry
  BY <1>1 DEF StartRetry, jobVars, ControlInv, HandsEmpty
<1>enter. ASSUME NEW i, NEW p, NEW v, Enter(i, p, v)
          PROVE  step' \in {"infraStatus", "setLane", "delete", "check"}
  BY <1>enter DEF Enter, FirstStep
<1>2. ASSUME NEW i \in Issues, RetrySkipClosed(i) \/ RetryPick(i) \/ RetryPickBlind(i)
      PROVE  EscalatedJob'
  BY <1>0, <1>2, <1>enter DEF RetrySkipClosed, RetryPick, RetryPickBlind, Route, Picking, jobVars
<1>cur. ASSUME NEW s, pc = "retry" /\ cur # NoIssue /\ step = s
        PROVE  cur \in Issues
  BY <1>cur DEF TypeOK, BridgeTypeOK
<1>3. CASE CheckParked
  <2>1. status[cur] \in Live /\ Parked(cur) /\ cur \in Issues
    BY <1>3 DEF CheckParked, PassInv, RetryLive, ControlInv, JobListed, TypeOK, BridgeTypeOK
  <2>2. status[cur] = "backlog"
    BY <2>1 DEF Live, Parked, ParkedInv, HumanIdle
  <2> QED
    BY <1>0, <1>3, <2>2 DEF CheckParked, issueVars, HandedOver
<1>4. CASE CheckNotParked \/ Relabel \/ ParkLabel \/ InfraStatus \/ Retire \/ RetryDelete
           \/ RetryCreate
  BY <1>0, <1>4, <1>enter DEF CheckNotParked, Relabel, ParkLabel, InfraStatus, Retire, RetryDelete,
                              RetryCreate
<1>5. CASE ParkStatus
  <2>1. cur \in Issues
    BY <1>5, <1>cur DEF ParkStatus
  <2>2. CASE Goto("label")
    BY <1>0, <2>2
  <2>3. ASSUME NEW reply \in Failures, StatusCall(cur, "backlog", reply), ParkFailed
        PROVE  EscalatedJob'
    <3>1. status'[cur] = "backlog"
      BY <2>1, <2>3, StatusFacts DEF Failed, Fault, Statuses
    <3> QED
      BY <1>0, <1>enter, <2>3, <3>1 DEF ParkFailed, HandedOver
  <2> QED
    BY <1>5, <2>2, <2>3 DEF ParkStatus
<1>6. CASE ParkComment \/ InfraComment
  <2>1. cur \in Issues /\ status[cur] = "backlog"
    BY <1>6, <1>cur DEF ParkComment, InfraComment, ParkedInv, ParkedJob
  <2>2. status'[cur] = status[cur]
    BY <1>6, <2>1, CommentFacts DEF ParkComment, InfraComment, Failed, Board, BoardSame
  <2> QED
    BY <1>0, <1>6, <2>1, <2>2 DEF ParkComment, InfraComment, HandedOver
<1>7. CASE EscalateLane
  <2>1. cur \in Issues
    BY <1>7, <1>cur DEF EscalateLane
  <2>2. CASE LaneCall(cur, EscLane, "ok") /\ Goto("unclaim")
    BY <1>0, <2>1, <2>2, LaneFacts DEF Failed, Failures
  <2>3. ASSUME NEW reply, EscalateFailed(reply)
        PROVE  EscalatedJob'
    BY <1>0, <1>enter, <2>3 DEF EscalateFailed
  <2> QED
    BY <1>7, <2>2, <2>3 DEF EscalateLane
<1>8. CASE EscalateUnclaim
  <2>1. cur \in Issues /\ lane[cur] = EscLane
    BY <1>8, <1>cur DEF EscalateUnclaim
  <2>2. CASE UnclaimCall(cur, "ok") /\ Goto("retire")
    BY <1>0, <2>1, <2>2, UnclaimFacts DEF Failures, HandedOver
  <2>3. ASSUME NEW reply, EscalateFailed(reply)
        PROVE  EscalatedJob'
    BY <1>0, <1>enter, <2>3 DEF EscalateFailed
  <2> QED
    BY <1>8, <2>2, <2>3 DEF EscalateUnclaim
<1>9. CASE InfraCheck
  BY <1>0, <1>9 DEF InfraCheck
<1>10. CASE InfraLabels
  <2>1. cur \in Issues /\ status[cur] = "backlog"
    BY <1>10, <1>cur DEF InfraLabels, ParkedInv, ParkedJob
  <2>2. status'[cur] = status[cur]
    BY <1>10, <2>1, MarkFacts DEF InfraLabels
  <2> QED
    BY <1>0, <1>10, <2>1, <2>2 DEF InfraLabels, HandedOver
<1> QED
  BY <1>1, <1>2, <1>3, <1>4, <1>5, <1>6, <1>7, <1>8, <1>9, <1>10 DEF RetryPass

LEMMA EscalatedOutside ==
    ASSUME TypeOK, EscalatedJob, {"regroom", "reclassify"} \cap HandKinds = {}, Outside
    PROVE  EscalatedJob'
<1>1. UNCHANGED <<pc, cur, step>>
  BY OutsideMoves DEF bridgeVars, passVars, jobVars
<1>2. ASSUME NEW i \in Issues
      PROVE  /\ status[i] = "backlog" => status'[i] = "backlog"
             /\ owner'[i] \in {owner[i], "other"}
  BY OutsideMoves DEF WorldMoved, Untouched, HandMove, RegroomMove, RivalMove, ReclassifyMove
<1>3. ASSUME NEW i \in Issues
      PROVE  lane'[i] = lane[i]
  BY OutsideMoves DEF WorldMoved, Untouched, HandMove, RegroomMove, RivalMove, ReclassifyMove
<1>4. cur # NoIssue => cur \in Issues
  BY DEF TypeOK, BridgeTypeOK
<1> QED
  BY <1>1, <1>2, <1>3, <1>4 DEF EscalatedJob, At, HandedOver

\* As long as no request is refused or dropped before it has its effect and the issue's
\* state can be read, no give-up deletes the last trace of a failure, a repeated NO-GO
\* included, unless its issue is parked or released into the escalation lane.
THEOREM RetiredHandedOver ==
    ASSUME ~ProbeModel, {"call", "read"} \cap FaultKinds = {},
           {"regroom", "reclassify"} \cap HandKinds = {}
    PROVE  Spec => FailedParkKeepsTombstone /\ RetireHandsOver
<1>1. Init => EscalatedJob
  BY DEF Init, BridgeInit, EscalatedJob, At
<1>2. IInv /\ PassInv /\ ParkedInv /\ [Next]_vars => ParkedInv'
  BY ParkedStep DEF IInv
<1>3. IInv /\ PassInv /\ ParkedInv /\ EscalatedJob /\ [Next]_vars => EscalatedJob'
  <2> SUFFICES ASSUME IInv, PassInv, ParkedInv, EscalatedJob, [Next]_vars
               PROVE  EscalatedJob'
    OBVIOUS
  <2>1. CASE RetryPass \/ Outside
    BY <2>1, EscalatedRetry, EscalatedOutside DEF IInv
  <2>2. CASE ~(RetryPass \/ Outside)
    BY <2>2, InPass DEF EscalatedJob, At
  <2> QED
    BY <2>1, <2>2
<1>4. EscalatedJob => \A i \in Issues : GivesUp(i) => HandedOver(i)
  BY DEF EscalatedJob, GivesUp
<1>5. EscalatedJob
        => /\ [\A i \in Issues : GivesUp(i) => HandedOver(i)]_vars
           /\ [\A i \in Issues :
                 GivesUp(i) => HandedOver(i) \/ (path = "nogo" /\ faults > 0)]_vars
  BY <1>4
<1> QED
  BY <1>1, <1>2, <1>3, <1>5, InitParked, Inductive, PassSound, PTL
  DEF Spec, FailedParkKeepsTombstone, RetireHandsOver

-----------------------------------------------------------------------------
(* Parks that are announced once.                                          *)

\* An issue that was announced and is not parked has no run that could be parked again.
SaidSettled ==
    \A i \in Issues : said[i] >= 1 /\ ~Parked(i)
        => phase[i] \in {"none", "Stopped"} \/ (phase[i] = "Completed" /\ result[i] # "gonopr")

\* The retry pass announces what it has found unparked and unannounced, and what has
\* spent its infrastructure budget is in backlog before anybody asks whether it is.
SaidJob ==
    /\ At("retry", "status") \/ At("retry", "label") \/ At("retry", "comment") => said[cur] = 0
    /\ At("retry", "infraStatus") \/ At("retry", "infraCheck") \/ At("retry", "infraLabels")
       => path = "infra"
    /\ ~At("retry", "infraComment")

SaidRetry ==
    /\ pc = "retry" => \A i \in todo : said[i] >= 1 => Parked(i)
    /\ SaidJob

SaidReview ==
    /\ At("review", "reviewCheck") => (said[cur] >= 1 => Parked(cur))
    /\ At("review", "reviewPark") \/ At("review", "reviewLabel") \/ At("review", "reviewComment")
       => said[cur] = 0
    /\ At("review", "reviewStatus") => phase[cur] = "none" \/ result[cur] # "gonopr"

SaidClaimed == At("claim", "claimed") => said[cur] = 0

SaidInv == NoneGoing /\ AnnouncedOnce /\ SaidSettled /\ SaidRetry /\ SaidReview /\ SaidClaimed

\* What a step does to the comments and to the parks of an issue that may be parked
\* again.
LEMMA SaidBoard ==
    ASSUME TypeOK, ControlInv, PassInv, ParkedInv, SaidInv, "repeat" \notin FaultKinds,
           "regroom" \notin HandKinds, NEW i \in Issues, BoardMove(i)
    PROVE  /\ said'[i] <= 1
           /\ said[i] >= 1 /\ said'[i] >= 1 /\ Parked(i)
                => Parked(i)' \/ (pc = "review" /\ (phase[i] = "none"
                                                 \/ (phase[i] = "Completed" /\ result[i] # "gonopr")))
           /\ said[i] = 0 /\ said'[i] >= 1 => Parked(i)'
<1> USE DEF Working, SaidInv, PassInv, ParkedInv, Parked
<1>0. said[i] \in 0 .. 2 /\ said[i] <= 1
  BY DEF AnnouncedOnce, TypeOK, DispatchTypeOK
<1>idle. status[i] \in {"ready", "in-progress"} => ~Parked(i)
  BY DEF HumanIdle
<1>1. CASE Untouched(i) \/ UnmarkMove(i) \/ EscalateMove(i)
  BY <1>0, <1>1 DEF Untouched, UnmarkMove, EscalateMove
<1>2. CASE ParkMove(i)
  BY <1>0, <1>2 DEF ParkMove, StatusTo
<1>3. CASE ReviewMove(i)
  <2>1. phase[i] \in {"Completed", "none"} /\ (phase[i] = "none" \/ result[i] # "gonopr")
    BY <1>3 DEF ReviewMove, SaidReview, ReviewOver, JobInTodo, At
  <2> QED
    BY <1>0, <1>3, <2>1 DEF ReviewMove, StatusTo, At
<1>4. CASE ReadyMove(i)
  <2>1. ~Parked(i)
    BY <1>4, <1>idle DEF ReadyMove, StrandedLive, ParkedJob
  <2> QED
    BY <1>0, <1>4, <2>1 DEF ReadyMove, StatusTo
<1>5. CASE HumanMove(i)
  <2>1. human'[i] = FALSE => ~Parked(i)
    BY <1>5, <1>idle DEF HumanMove, StrandedLive, JobInTodo, At
  <2> QED
    BY <1>0, <1>5, <2>1 DEF HumanMove
<1>6. CASE CommentMove(i)
  <2>1. said[i] = 0 /\ status[i] = "backlog"
    BY <1>6 DEF CommentMove, SaidRetry, SaidJob, SaidReview, ParkedJob, At
  <2> QED
    BY <1>0, <1>6, <2>1 DEF CommentMove, Fault
<1>7. CASE MarkMove(i)
  <2>1. status[i] = "backlog"
    BY <1>7 DEF MarkMove, ParkedJob
  <2> QED
    BY <1>0, <1>7, <2>1 DEF MarkMove
<1>8. CASE ReleaseMove(i)
  BY <1>0, <1>8, <1>idle DEF ReleaseMove, Held
<1>9. CASE ClaimMove(i) \/ ResumeMove(i)
  BY <1>0, <1>9 DEF ClaimMove, ResumeMove
<1>10. CASE HandMove(i)
  BY <1>0, <1>10, <1>idle DEF HandMove, RegroomMove, RivalMove, ReclassifyMove
<1> QED
  BY <1>1, <1>2, <1>3, <1>4, <1>5, <1>6, <1>7, <1>8, <1>9, <1>10 DEF BoardMove

LEMMA SaidBoth ==
    ASSUME TypeOK, ControlInv, PassInv, ParkedInv, SaidInv, "repeat" \notin FaultKinds,
           "regroom" \notin HandKinds, [Next]_vars
    PROVE  AnnouncedOnce' /\ SaidSettled'
<1>1. ASSUME NEW i \in Issues, BoardMove(i), WorkSame(i)
      PROVE  /\ said'[i] <= 1
             /\ said'[i] >= 1 /\ ~Parked(i)'
                  => \/ phase'[i] \in {"none", "Stopped"}
                     \/ phase'[i] = "Completed" /\ result'[i] # "gonopr"
  <2>1. said[i] \in 0 .. 2
    BY DEF TypeOK, DispatchTypeOK
  <2>2. said[i] = 0 \/ said[i] >= 1
    BY <2>1
  <2> QED
    BY <1>1, <2>2, SaidBoard DEF WorkSame, SaidInv, SaidSettled
<1>2. ASSUME NEW i \in Issues, Untouched(i), WorkMove(i)
      PROVE  /\ said'[i] <= 1
             /\ said'[i] >= 1 /\ ~Parked(i)'
                  => \/ phase'[i] \in {"none", "Stopped"}
                     \/ phase'[i] = "Completed" /\ result'[i] # "gonopr"
  <2>1. said'[i] = said[i] /\ Parked(i)' = Parked(i) /\ said[i] <= 1
    BY <1>2 DEF Untouched, Parked, SaidInv, AnnouncedOnce
  <2>2. CASE CreateMove(i)
    <3>1. ~(said[i] >= 1 /\ ~Parked(i))
      BY <2>2 DEF CreateMove, Working, SaidInv, SaidRetry, SaidJob, SaidClaimed, ControlInv,
                  JobListed, At,
                  PassInv
    <3> QED
      BY <2>1, <3>1
  <2>3. CASE ~CreateMove(i)
    BY <1>2, <2>1, <2>3
       DEF WorkMove, WorkSame, StampMove, AgeMove, SameRun, FinishMove, GoneMove, Vanished,
           WedgeMove, SaidInv, SaidSettled
  <2> QED
    BY <2>2, <2>3
<1>3. CASE Work /\ \A i \in Issues : BoardMove(i)
  BY <1>1, <1>3 DEF Work, AnnouncedOnce, SaidSettled
<1>4. CASE \A i \in Issues : Untouched(i) /\ WorkMove(i)
  BY <1>2, <1>4 DEF AnnouncedOnce, SaidSettled
<1> QED
  BY <1>3, <1>4, StepMoves DEF Moved

LEMMA SaidOutside ==
    ASSUME TypeOK, PassInv, SaidInv, "regroom" \notin HandKinds, Outside
    PROVE  SaidRetry' /\ SaidReview' /\ SaidClaimed'
<1>1. UNCHANGED <<pc, cur, step, todo, path>>
  BY OutsideMoves DEF bridgeVars, passVars, jobVars
<1>2. ASSUME NEW i \in Issues
      PROVE  said'[i] = said[i] /\ (Parked(i) => Parked(i)')
  BY OutsideMoves
     DEF WorldMoved, Untouched, HandMove, RegroomMove, RivalMove, ReclassifyMove, Parked
<1>3. ASSUME NEW i \in Issues, phase[i] \in {"Completed", "none"}
      PROVE  phase'[i] = "none" \/ (phase'[i] = phase[i] /\ result'[i] = result[i])
  BY <1>3, OutsideMoves
     DEF WorldMoved, Work, WorkSame, AgeMove, SameRun, FinishMove, GoneMove, Vanished
<1>4. cur # NoIssue => cur \in Issues
  BY DEF TypeOK, BridgeTypeOK
<1>5. SaidRetry' /\ SaidClaimed'
  BY <1>1, <1>2, <1>4 DEF SaidInv, SaidRetry, SaidJob, SaidClaimed, At, TypeOK, BridgeTypeOK
<1>6. At("review", "reviewStatus") => phase[cur] \in {"Completed", "none"}
  BY DEF At, PassInv, ReviewOver, JobInTodo
<1>7. SaidReview'
  BY <1>1, <1>2, <1>3, <1>4, <1>6 DEF SaidInv, SaidReview, At
<1> QED
  BY <1>5, <1>7

LEMMA SaidListed ==
    ASSUME TypeOK, ControlInv, PassInv, ParkedInv, SaidInv, "repeat" \notin FaultKinds,
           "regroom" \notin HandKinds, RetryPass
    PROVE  \A i \in todo' : said'[i] >= 1 => Parked(i)'
<1>1. CASE StartRetry
  <2>1. ASSUME NEW i \in todo', said'[i] >= 1
        PROVE  Parked(i)'
    <3>1. i \in Issues /\ phase[i] = "Failed" /\ said[i] >= 1
      BY <1>1, <2>1 DEF StartRetry, InPhase, issueVars
    <3>2. Parked(i)
      BY <3>1 DEF SaidInv, SaidSettled
    <3> QED
      BY <1>1, <3>2 DEF StartRetry, issueVars, Parked
  <2> QED
    BY <2>1
<1>2. CASE ~StartRetry
  <2>1. pc = "retry" /\ todo' \subseteq todo
    BY <1>2, RetryListing
  <2>2. ASSUME NEW i \in todo', said'[i] >= 1
        PROVE  Parked(i)'
    <3>1. i \in Issues /\ i \in todo /\ said[i] \in 0 .. 2
      BY <2>1 DEF TypeOK, BridgeTypeOK, DispatchTypeOK
    <3>2. said[i] >= 1 => Parked(i)
      BY <2>1, <3>1 DEF SaidInv, SaidRetry
    <3>3. said[i] = 0 \/ said[i] >= 1
      BY <3>1
    <3>4. BoardMove(i) \/ Untouched(i)
      BY <3>1, RetryMoves DEF Moved
    <3>5. CASE Untouched(i)
      BY <2>2, <3>2, <3>5 DEF Untouched, Parked
    <3>6. CASE BoardMove(i)
      BY <2>1, <2>2, <3>1, <3>2, <3>3, <3>6, SaidBoard
    <3> QED
      BY <3>4, <3>5, <3>6
  <2> QED
    BY <2>2
<1> QED
  BY <1>1, <1>2

LEMMA SaidRetryStep ==
    ASSUME TypeOK, ControlInv, PassInv, ParkedInv, SaidInv, RetryPass,
           {"call", "repeat", "read"} \cap FaultKinds = {}, "regroom" \notin HandKinds
    PROVE  SaidRetry'
<1> SUFFICES SaidJob'
  BY SaidListed DEF SaidRetry
<1> USE DEF At, Done, Goto, Take, Skip, frame, SaidJob
<1>job. SaidJob
  BY DEF SaidInv, SaidRetry
<1>0. pc' = "retry"
  BY PassSteps
<1>enter. ASSUME NEW i, NEW p, NEW v, Enter(i, p, v)
          PROVE  /\ step' \in {"infraStatus", "setLane", "delete", "check"}
                 /\ step' = "infraStatus" => path' = "infra"
  <2>1. path' = p /\ step' = FirstStep(p)
    BY <1>enter DEF Enter
  <2> QED
    BY <2>1 DEF FirstStep
<1>cur. ASSUME NEW s, pc = "retry" /\ cur # NoIssue /\ step = s
        PROVE  cur \in Issues /\ cur \in todo
  BY <1>cur DEF TypeOK, BridgeTypeOK, ControlInv, JobListed
<1>1. CASE StartRetry
  BY <1>1 DEF StartRetry, jobVars, ControlInv, HandsEmpty
<1>2. ASSUME NEW i \in Issues, RetrySkipClosed(i) \/ RetryPick(i) \/ RetryPickBlind(i)
      PROVE  SaidJob'
  BY <1>0, <1>2, <1>enter DEF RetrySkipClosed, RetryPick, RetryPickBlind, Route, Picking, jobVars
<1>3. CASE CheckNotParked
  <2>1. ~Parked(cur) /\ said' = said /\ step' = "status" /\ cur' = cur
    BY <1>3 DEF CheckNotParked, issueVars, Fault
  <2>2. said[cur] = 0
    BY <1>3, <1>cur, <2>1 DEF CheckNotParked, SaidInv, SaidRetry, TypeOK, DispatchTypeOK
  <2> QED
    BY <2>1, <2>2
<1>4. CASE CheckParked \/ Relabel \/ EscalateLane \/ EscalateUnclaim \/ Retire \/ RetryDelete
           \/ RetryCreate \/ ParkComment \/ InfraComment
  BY <1>0, <1>4, <1>enter DEF CheckParked, Relabel, EscalateLane, EscalateUnclaim, EscalateFailed,
                              Retire, RetryDelete, RetryCreate, ParkComment, InfraComment
<1>5. CASE ParkStatus
  <2>1. cur \in Issues /\ said[cur] = 0
    BY <1>5, <1>cur, <1>job DEF ParkStatus
  <2>2. CASE StatusCall(cur, "backlog", "ok") /\ Goto("label")
    BY <1>0, <2>1, <2>2, StatusFacts DEF Failed, Failures, Statuses
  <2>3. CASE ParkFailed
    BY <1>0, <1>enter, <2>3 DEF ParkFailed
  <2> QED
    BY <1>5, <2>2, <2>3 DEF ParkStatus
<1>6. CASE ParkLabel
  <2>1. cur \in Issues /\ said[cur] = 0
    BY <1>6, <1>cur, <1>job DEF ParkLabel
  <2>2. said'[cur] = said[cur]
    BY <1>6, <2>1, HumanFacts DEF ParkLabel, LabelCall, Failed, Board, BoardSame
  <2> QED
    BY <1>0, <1>6, <2>1, <2>2 DEF ParkLabel
<1>7. CASE InfraStatus
  BY <1>0, <1>7, <1>job DEF InfraStatus
<1>8. CASE InfraCheck
  <2>1. Parked(cur) /\ path = "infra"
    BY <1>8, <1>job DEF InfraCheck, ParkedInv, ParkedJob, Parked
  <2> QED
    BY <1>0, <1>8, <2>1 DEF InfraCheck, Fault
<1>9. CASE InfraLabels
  <2>1. path = "infra"
    BY <1>9, <1>job DEF InfraLabels
  <2> QED
    BY <1>0, <1>9, <2>1 DEF InfraLabels
<1> QED
  BY <1>1, <1>2, <1>3, <1>4, <1>5, <1>6, <1>7, <1>8, <1>9 DEF RetryPass

LEMMA SaidReviewStep ==
    ASSUME TypeOK, ControlInv, PassInv, ParkedInv, SaidInv, ReviewPass, "read" \notin FaultKinds
    PROVE  SaidReview'
<1> USE DEF At, Done, Goto, frame
<1>0. pc' = "review"
  BY PassSteps
<1>cur. ASSUME NEW s, pc = "review" /\ cur # NoIssue /\ step = s
        PROVE  cur \in Issues
  BY <1>cur DEF TypeOK, BridgeTypeOK
<1>1. CASE StartReview
  BY <1>1 DEF StartReview, Picking, jobVars, SaidReview
<1>2. ASSUME NEW i \in Issues, ReviewPick(i)
      PROVE  SaidReview'
  <2>1. PICK v \in TasksOf(i) :
          Take(i, IF v = "gonopr" THEN "reviewCheck" ELSE "reviewStatus", Destination(v), v)
    BY <1>2 DEF ReviewPick
  <2>2. phase[i] \in {"Completed", "none"} /\ ~going[i]
    BY <1>2 DEF ReviewPick, Picking, PassInv, ReviewOver, SaidInv, NoneGoing
  <2>3. phase[i] = "none" \/ (phase[i] = "Completed" /\ v = result[i])
    BY <2>1, <2>2 DEF TasksOf
  <2>4. phase[i] = "none" => v = "unknown"
    BY <2>1 DEF TasksOf
  <2>5. UNCHANGED <<said, human, status, phase, result>>
    BY <1>2 DEF ReviewPick, issueVars, workVars
  <2>6. cur' = i /\ step' = (IF v = "gonopr" THEN "reviewCheck" ELSE "reviewStatus")
    BY <2>1 DEF Take
  <2>7. CASE v = "gonopr"
    <3>1. said[i] >= 1 => Parked(i)
      BY <2>3, <2>4, <2>7 DEF SaidInv, SaidSettled
    <3> QED
      BY <2>5, <2>6, <2>7, <3>1 DEF SaidReview, Parked
  <2>8. CASE v # "gonopr"
    BY <2>3, <2>5, <2>6, <2>8 DEF SaidReview
  <2> QED
    BY <2>7, <2>8
<1>3. CASE ReviewStatus \/ ReviewClose \/ ReviewComment
  BY <1>0, <1>3 DEF ReviewStatus, ReviewClose, ReviewComment, SaidReview
<1>4. CASE ReviewCheck
  <2>1. cur' = NoIssue \/ (cur' = cur /\ step' = "reviewPark" /\ ~Parked(cur))
    BY <1>4 DEF ReviewCheck, Fault
  <2>2. ~Parked(cur) => said[cur] = 0
    BY <1>4, <1>cur DEF ReviewCheck, SaidInv, SaidReview, TypeOK, DispatchTypeOK
  <2>3. said' = said
    BY <1>4 DEF ReviewCheck, issueVars
  <2> QED
    BY <2>1, <2>2, <2>3 DEF SaidReview
<1>5. CASE ReviewPark
  <2>1. cur \in Issues /\ said[cur] = 0
    BY <1>5, <1>cur DEF ReviewPark, SaidInv, SaidReview
  <2>2. \E reply : StatusCall(cur, "backlog", reply)
    BY <1>5 DEF ReviewPark
  <2>3. said'[cur] = said[cur]
    BY <2>1, <2>2, StatusFacts DEF Failed, Board, BoardSame, Statuses
  <2> QED
    BY <1>0, <1>5, <2>1, <2>3 DEF ReviewPark, SaidReview
<1>6. CASE ReviewLabel
  <2>1. cur \in Issues /\ said[cur] = 0
    BY <1>6, <1>cur DEF ReviewLabel, SaidInv, SaidReview
  <2>2. said'[cur] = said[cur]
    BY <1>6, <2>1, HumanFacts DEF ReviewLabel, LabelCall, Failed, Board, BoardSame
  <2> QED
    BY <1>0, <1>6, <2>1, <2>2 DEF ReviewLabel, SaidReview
<1> QED
  BY <1>1, <1>2, <1>3, <1>4, <1>5, <1>6 DEF ReviewPass

LEMMA SaidClaimStep ==
    ASSUME TypeOK, SaidInv, ClaimPass
    PROVE  SaidClaimed'
<1> USE DEF SaidClaimed, At
<1>1. CASE StartClaim \/ NextLane \/ MaterializeWorkload
  BY <1>1 DEF StartClaim, NextLane, Drained, Draining, Picking, jobVars, MaterializeWorkload, Done,
              EndTick
<1>2. ASSUME NEW i \in Issues, ClaimCandidate(i)
      PROVE  SaidClaimed'
  <2>1. CASE UNCHANGED jobVars
    BY <1>2, <2>1 DEF ClaimCandidate, Draining, Picking, jobVars
  <2>2. CASE ClaimCall(i, "ok") /\ Take(i, "claimed", "claim", "none")
    BY <2>2, ClaimFacts DEF Failures, Take
  <2> QED
    BY <1>2, <2>1, <2>2 DEF ClaimCandidate
<1> QED
  BY <1>1, <1>2 DEF ClaimPass

LEMMA SaidStep ==
    ASSUME TypeOK, ControlInv, PassInv, ParkedInv, SaidInv, [Next]_vars,
           {"call", "repeat", "read", "wedge"} \cap FaultKinds = {}, "regroom" \notin HandKinds
    PROVE  SaidInv'
<1>1. NoneGoing' /\ AnnouncedOnce' /\ SaidSettled'
  BY GoingStep, SaidBoth DEF SaidInv
<1>2. SaidRetry'
  BY InPass, SaidRetryStep, SaidOutside DEF SaidRetry, SaidJob, At
<1>3. SaidReview'
  BY InPass, SaidReviewStep, SaidOutside DEF SaidReview, At
<1>4. SaidClaimed'
  BY InPass, SaidClaimStep, SaidOutside DEF SaidClaimed, At
<1> QED
  BY <1>1, <1>2, <1>3, <1>4 DEF SaidInv

\* One claim of an issue announces its park once, unless a comment is sent twice, a
\* request fails without its effect, a read comes back empty, a deletion hangs or the
\* groomer steps in.  Crashes, lost replies, claims and unclaims sent twice and every
\* other intervention change nothing about it.
THEOREM AnnouncedAtMostOnce ==
    ASSUME ~ProbeModel, {"call", "repeat", "read", "wedge"} \cap FaultKinds = {},
           "regroom" \notin HandKinds
    PROVE  Spec => []AnnouncedOnce
<1>1. Init => SaidInv
  BY InitGoing DEF Init, DispatchInit, ClusterInit, BridgeInit, SaidInv, AnnouncedOnce, SaidSettled,
                   SaidRetry, SaidJob, SaidReview, SaidClaimed, At
<1>2. IInv /\ PassInv /\ ParkedInv /\ SaidInv /\ [Next]_vars => ParkedInv' /\ SaidInv'
  BY ParkedStep, SaidStep DEF IInv
<1>3. SaidInv => AnnouncedOnce
  BY DEF SaidInv
<1> QED
  BY <1>1, <1>2, <1>3, InitParked, Inductive, PassSound, PTL DEF Spec

=============================================================================
