------------------------------ MODULE MarkProofs ------------------------------
(***************************************************************************)
(* The blocked/infra marker, for every board, lane list, budget and set of *)
(* models: as long as every request succeeds, it is on an issue the bridge *)
(* has parked, and what is handed to a person is handed over once.         *)
(***************************************************************************)
EXTENDS ParkProofs

USE FaultsAssumption, DispatchAssumption, ClusterAssumption, BridgeAssumption

-----------------------------------------------------------------------------
(* Steps without a fault.                                                  *)

\* A step has at most one fault, and at most one intervention.
Counted == faults' \in {faults, faults + 1} /\ hands' \in {hands, hands + 1}

LEMMA RetryCounted == RetryPass => Counted
<1> USE DEF Counted, NoFault, Fault, frame
<1>1. CASE StartRetry \/ \E i \in Issues : RetrySkipClosed(i) \/ RetryPick(i) \/ RetryPickBlind(i)
  BY <1>1 DEF StartRetry, RetrySkipClosed, RetryPick, RetryPickBlind
<1>2. CASE CheckParked \/ CheckNotParked \/ InfraCheck
  BY <1>2 DEF CheckParked, CheckNotParked, InfraCheck
<1>3. CASE Relabel \/ ParkLabel
  BY <1>3 DEF Relabel, ParkLabel, LabelCall, Call
<1>4. CASE ParkStatus \/ InfraStatus
  BY <1>4 DEF ParkStatus, InfraStatus, StatusCall, Call
<1>5. CASE ParkComment \/ InfraComment
  BY <1>5 DEF ParkComment, InfraComment, CommentCall, Call
<1>6. CASE EscalateLane \/ EscalateUnclaim
  BY <1>6 DEF EscalateLane, EscalateUnclaim, LaneCall, UnclaimCall, Call
<1>7. CASE InfraLabels
  BY <1>7 DEF InfraLabels, MarkCall
<1>8. CASE Retire \/ RetryDelete \/ RetryCreate
  BY <1>8 DEF Retire, RetryDelete, RetryCreate, DeleteCall, CreateCall, WorkCall
<1> QED
  BY <1>1, <1>2, <1>3, <1>4, <1>5, <1>6, <1>7, <1>8 DEF RetryPass

LEMMA RecoverCounted == RecoverPass => Counted
<1> USE DEF Counted, NoFault, Fault, frame
<1>1. CASE StartRecover \/ \E i \in Issues : RecoverHealthy(i) \/ RecoverUnhealthy(i)
  BY <1>1 DEF StartRecover, RecoverHealthy, RecoverUnhealthy
<1>2. CASE RecoverCreate
  BY <1>2 DEF RecoverCreate, CreateCall, WorkCall
<1>3. CASE RecoverResume \/ HandStatus
  BY <1>3 DEF RecoverResume, HandStatus, ResumeCall, StatusCall, Call
<1>4. CASE RecoverUnpark \/ HandLabel \/ HandComment
  BY <1>4 DEF RecoverUnpark, HandLabel, HandComment, UnlabelCall, LabelCall, CommentCall, Call
<1>5. CASE RecoverUnmark \/ RecoverUncount \/ RecoverCount
  BY <1>5 DEF RecoverUnmark, RecoverUncount, RecoverCount, UnmarkCall, UncountCall, CountCall, Call
<1> QED
  BY <1>1, <1>2, <1>3, <1>4, <1>5 DEF RecoverPass

LEMMA RestCounted == ClaimPass \/ ReviewPass \/ ReconcilePass \/ PrunePass => Counted
<1> USE DEF Counted, NoFault, Fault, frame
<1>1. CASE ClaimPass
  BY <1>1 DEF ClaimPass, StartClaim, NextLane, ClaimCandidate, MaterializeWorkload, ClaimCall,
              CreateCall, WorkCall, Call
<1>2. CASE ReviewPass
  BY <1>2 DEF ReviewPass, StartReview, ReviewPick, ReviewStatus, ReviewClose, ReviewCheck, ReviewPark,
              ReviewLabel, ReviewComment, StatusCall, CloseCall, LabelCall, CommentCall, Call
<1>3. CASE ReconcilePass
  BY <1>3 DEF ReconcilePass, ListNames, StrandedSkip, StrandedReset, StrandedUnlabel, StartStuck,
              StuckSkip, StuckRelease, StatusCall, UnlabelCall, UnclaimCall, Call
<1>4. CASE PrunePass
  BY <1>4 DEF PrunePass, StartPrune, PrunePick, PruneUnstamped, PruneDelete, PruneCheck, PruneReset,
              DeleteCall, WorkCall, StatusCall, Call
<1> QED
  BY <1>1, <1>2, <1>3, <1>4

LEMMA StepCounted ==
    ASSUME [Next]_vars
    PROVE  Counted
<1> USE DEF Counted, NoFault, Fault
<1>1. CASE UNCHANGED vars \/ SnapshotQueues \/ FinishTick \/ Crash
  BY <1>1 DEF vars, SnapshotQueues, FinishTick, Crash
<1>2. ASSUME NEW i \in Issues, ClusterStep(i) \/ HandStep(i) \/ RemoveStep(i)
      PROVE  Counted
  BY <1>2 DEF ClusterStep, HandStep, RemoveStep, FinishRun, FinalizeRun, AgeRun, CloseByHand,
              ReopenByHand, ClosePrByHand, Regroom, Reclassify, RivalClaims, RemoveByHand, Hand
<1> QED
  BY <1>1, <1>2, RetryCounted, RecoverCounted, RestCounted DEF Next, TickStep

\* Nothing has failed so far, nor put an issue back that may still be marked.
Calm == faults = 0 /\ ("regroom" \in HandKinds => hands = 0)

LEMMA CalmStep ==
    ASSUME TypeOK, [Next]_vars, Calm'
    PROVE  /\ Calm /\ NoFault
           /\ \A kind : ~Fault(kind)
           /\ ~("regroom" \in HandKinds /\ hands' = hands + 1)
<1>1. faults \in Nat /\ hands \in Nat
  BY DEF TypeOK, DispatchTypeOK
<1> QED
  BY <1>1, StepCounted DEF Calm, Counted, NoFault, Fault

\* With something in hand, a pass goes on.
LEMMA PassGoesOn ==
    ASSUME TypeOK, HandsEmpty, [Next]_vars, cur # NoIssue, \A kind : ~Fault(kind)
    PROVE  pc' = pc
<1> USE DEF Drained, Picking, HandsEmpty
<1>1. CASE RetryPass
  BY <1>1, PassSteps
<1>2. CASE RecoverPass
  <2>1. ~StartRecover
    BY DEF StartRecover
  <2> QED
    BY <1>2, <2>1 DEF RecoverPass, RecoverHealthy, RecoverUnhealthy, RecoverCreate, RecoverResume,
                RecoverUnpark, RecoverUnmark, HandStatus, HandLabel, HandComment, RecoverUncount,
                RecoverCount, frame
<1>3. CASE ClaimPass
  BY <1>3 DEF ClaimPass, StartClaim, NextLane, Draining, ClaimCandidate, MaterializeWorkload,
              CreateCall, WorkCall
<1>4. CASE ReviewPass
  BY <1>4 DEF ReviewPass, StartReview, ReviewPick, ReviewStatus, ReviewClose, ReviewCheck, ReviewPark,
              ReviewLabel, ReviewComment, frame
<1>5. CASE ReconcilePass
  BY <1>5 DEF ReconcilePass, ListNames, StrandedSkip, StrandedReset, StrandedUnlabel, StartStuck,
              StuckSkip, StuckRelease, frame
<1>6. CASE PrunePass
  BY <1>6 DEF PrunePass, StartPrune, PrunePick, PruneUnstamped, PruneDelete, PruneCheck, PruneReset,
              frame
<1>7. CASE UNCHANGED bridgeVars
  BY <1>7 DEF bridgeVars, passVars
<1>8. CASE SnapshotQueues \/ FinishTick \/ Crash
  BY <1>8 DEF SnapshotQueues, FinishTick, Crash
<1> QED
  BY <1>1, <1>2, <1>3, <1>4, <1>5, <1>6, <1>7, <1>8
     DEF Next, TickStep, ClusterStep, HandStep, RemoveStep, vars

-----------------------------------------------------------------------------
(* A marker does not outlive its park.                                     *)

Marked(i) == marker[i] # "none"

\* The retry pass is about to give up the tombstone it has just marked; recovery is
\* putting the issue back to work, and takes the marker off last.
Retiring(i) == cur = i /\ (At("retry", "infraComment") \/ At("retry", "retire"))
Settling(i) == cur = i /\ (At("recover", "resume") \/ At("recover", "unpark") \/ At("recover", "unmark"))

\* A marked issue rests in backlog without a Workload, but for those two.
MarkHome ==
    \A i \in Issues : Marked(i)
        => \/ status[i] = "backlog" /\ (phase[i] = "none" \/ Retiring(i))
           \/ Settling(i)

\* Of the issues on the passes' listings, which are marked.
MarkListed ==
    /\ pc = "retry" => \A i \in todo : Marked(i) => Retiring(i)
    /\ pc \in {"review", "stranded"} => \A i \in todo : ~Marked(i)
    /\ pc = "recover" => \A i \in todo : Marked(i)
    /\ pc \in {"review", "recover"} /\ cur # NoIssue => cur \in todo

MarkJob ==
    /\ At("retry", "infraCheck") \/ At("retry", "infraLabels") => status[cur] = "backlog"
    /\ At("retry", "infraComment") => path # "infraKept"
    /\ At("recover", "redrive") \/ At("recover", "resume") \/ At("recover", "unpark")
       => path = "redrive"
    /\ At("prune", "pruneReset") \/ At("claim", "claimed") => ~Marked(cur)

MarkInv == NoneGoing /\ MarkHome /\ MarkListed /\ MarkJob

LEMMA CalmGoing ==
    ASSUME TypeOK, ControlInv, NoneGoing, [Next]_vars, \A kind : ~Fault(kind)
    PROVE  NoneGoing'
<1>1. \A i \in Issues : WorkSame(i) \/ WorkMove(i)
  BY StepMoves DEF Moved, Work
<1> QED
  BY <1>1 DEF NoneGoing, WorkMove, WorkSame, StampMove, AgeMove, SameRun, FinishMove, GoneMove,
              Vanished, WedgeMove, CreateMove

\* What people, other agents and the cluster do to a parked issue.
LEMMA OutsideRests ==
    ASSUME TypeOK, Outside, ~("regroom" \in HandKinds /\ hands' = hands + 1), NEW i \in Issues
    PROVE  /\ marker'[i] = marker[i]
           /\ status[i] # "ready" => status'[i] = status[i]
           /\ status'[i] = "backlog" => status[i] = "backlog"
           /\ phase[i] = "none" => phase'[i] = "none"
BY OutsideMoves DEF WorldMoved, Work, WorkSame, AgeMove, SameRun, FinishMove, GoneMove, Vanished,
                    Untouched, HandMove, RegroomMove, RivalMove, ReclassifyMove

\* With nothing failing, recovery goes through with what it has taken up.
LEMMA RedriveStep ==
    ASSUME TypeOK, ControlInv, MarkInv, [Next]_vars, Calm', NEW i \in Issues, Marked(i)',
           Settling(i) \/ (At("recover", "redrive") /\ cur = i)
    PROVE  Settling(i)' \/ Outside
<1> USE DEF At, Settling
<1>calm. \A kind : ~Fault(kind)
  BY CalmStep
<1>0. cur # NoIssue /\ cur = i /\ pc' = "recover"
  BY <1>calm, PassGoesOn DEF ControlInv, TypeOK, BridgeTypeOK
<1>2. CASE RecoverCreate
  BY <1>calm, <1>0, <1>2 DEF RecoverCreate, CreateCall, WorkCall, Goto
<1>3. CASE RecoverResume
  BY <1>calm, <1>0, <1>3 DEF RecoverResume, ResumeCall, Call, Failures, Goto
<1>4. CASE RecoverUnpark
  BY <1>calm, <1>0, <1>4 DEF RecoverUnpark, UnlabelCall, Call, Failures, Goto, MarkInv, MarkJob
<1>5. CASE RecoverUnmark
  BY <1>calm, <1>0, <1>5, UnmarkFacts DEF RecoverUnmark, Marked
<1>6. RecoverPass \/ Outside
  BY <1>0, InPass
<1> QED
  BY <1>0, <1>2, <1>3, <1>4, <1>5, <1>6
     DEF RecoverPass, StartRecover, RecoverHealthy, RecoverUnhealthy, HandStatus, HandLabel,
         HandComment, RecoverUncount, RecoverCount, Drained, Picking

LEMMA RestingStays ==
    ASSUME TypeOK, ControlInv, MarkInv, [Next]_vars, Calm', NEW i \in Issues,
           Marked(i), Marked(i)', status[i] = "backlog", phase[i] = "none"
    PROVE  (status'[i] = "backlog" /\ phase'[i] = "none") \/ Settling(i)'
<1> USE DEF Working, At
<1>calm. (\A kind : ~Fault(kind)) /\ ~("regroom" \in HandKinds /\ hands' = hands + 1)
  BY CalmStep
<1>1. CASE Settling(i) \/ (At("recover", "redrive") /\ cur = i)
  BY <1>1, <1>calm, RedriveStep, OutsideRests
<1>2. CASE ~(Settling(i) \/ (At("recover", "redrive") /\ cur = i))
  <2>1. BoardMove(i) => status'[i] = "backlog"
    <3>1. ~ReviewMove(i)
      BY DEF ReviewMove, MarkInv, MarkListed
    <3>2. ~ReadyMove(i)
      BY DEF ReadyMove, MarkInv, MarkListed, MarkJob
    <3>3. ~ResumeMove(i)
      BY <1>2 DEF ResumeMove, Settling
    <3>4. ~HandMove(i) \/ status'[i] = "backlog"
      BY <1>calm DEF HandMove, RegroomMove, RivalMove, ReclassifyMove
    <3> QED
      BY <3>1, <3>2, <3>3, <3>4
         DEF BoardMove, Untouched, ParkMove, StatusTo, HumanMove, CommentMove, MarkMove, UnmarkMove,
             ReleaseMove, Held, ClaimMove, EscalateMove
  <2>2. ~CreateMove(i)
    <3>1. cur = i /\ pc = "retry" => step # "create" \/ cur = NoIssue
      BY DEF MarkInv, MarkListed, Retiring, ControlInv, JobListed
    <3> QED
      BY <1>2, <3>1 DEF CreateMove, MarkInv, MarkJob
  <2>3. WorkSame(i) \/ WorkMove(i) => phase'[i] = "none"
    BY <2>2 DEF WorkSame, WorkMove, StampMove, AgeMove, SameRun, FinishMove, GoneMove, Vanished,
                WedgeMove
  <2>4. BoardMove(i) /\ (WorkSame(i) \/ WorkMove(i))
    BY StepMoves DEF Moved, Work, BoardMove
  <2> QED
    BY <2>1, <2>3, <2>4
<1> QED
  BY <1>1, <1>2

LEMMA RetiringStays ==
    ASSUME TypeOK, ControlInv, MarkInv, [Next]_vars, Calm', NEW i \in Issues,
           Retiring(i), status[i] = "backlog"
    PROVE  status'[i] = "backlog" /\ (phase'[i] = "none" \/ Retiring(i)')
<1> USE DEF At, Retiring
<1>calm. (\A kind : ~Fault(kind)) /\ ~("regroom" \in HandKinds /\ hands' = hands + 1)
  BY CalmStep
<1>0. cur # NoIssue /\ cur = i /\ pc' = "retry" /\ pc = "retry"
  BY <1>calm, PassGoesOn DEF ControlInv
<1>1. CASE Outside
  <2>1. UNCHANGED <<pc, cur, step>>
    BY <1>1, OutsideMoves DEF bridgeVars, passVars, jobVars
  <2> QED
    BY <1>calm, <1>0, <1>1, <2>1, OutsideRests
<1>2. CASE InfraComment
  <2>1. status'[i] = status[i]
    BY <1>calm, <1>0, <1>2, CommentFacts DEF InfraComment, Failed
  <2> QED
    BY <1>0, <1>2, <2>1 DEF InfraComment, Goto, MarkInv, MarkJob
<1>3. CASE Retire
  <2>1. ~going[i] /\ UNCHANGED status
    BY <1>3 DEF MarkInv, NoneGoing, Retire, issueVars
  <2>2. Gone(i)
    BY <1>calm, <1>0, <1>3, <2>1 DEF Retire, DeleteCall, WorkCall
  <2> QED
    BY <2>1, <2>2, GoneFacts DEF Vanished
<1>4. RetryPass \/ Outside
  BY <1>0, InPass
<1> QED
  BY <1>0, <1>1, <1>2, <1>3, <1>4
     DEF RetryPass, StartRetry, RetrySkipClosed, RetryPick, RetryPickBlind, CheckParked, CheckNotParked,
         Relabel, ParkStatus, ParkLabel, ParkComment, EscalateLane, EscalateUnclaim, InfraStatus,
         InfraCheck, InfraLabels, RetryDelete, RetryCreate, Picking

\* A marker is written on an issue that has been parked, just before its tombstone goes.
LEMMA MarkWritten ==
    ASSUME TypeOK, ControlInv, MarkInv, [Next]_vars, Calm', NEW i \in Issues, ~Marked(i), Marked(i)'
    PROVE  status'[i] = "backlog" /\ Retiring(i)' /\ pc = "retry" /\ InfraLabels
<1> USE DEF At
<1>calm. \A kind : ~Fault(kind)
  BY CalmStep
<1>1. MarkMove(i)
  BY StepMoves
     DEF Marked, Moved, BoardMove, Untouched, ParkMove, ReviewMove, ReadyMove, StatusTo, HumanMove,
         CommentMove, UnmarkMove, ReleaseMove, ClaimMove, ResumeMove, EscalateMove, HandMove,
         RegroomMove, RivalMove, ReclassifyMove
<1>2. cur = i /\ cur # NoIssue /\ pc = "retry" /\ step = "infraLabels" /\ status[i] = "backlog"
  BY <1>1 DEF MarkMove, Working, MarkInv, MarkJob
<1>3. status'[i] = "backlog" /\ pc' = "retry"
  BY <1>calm, <1>1, <1>2, PassGoesOn DEF MarkMove, ControlInv
<1>4. ~Outside
  <2>1. Outside => marker' = marker
    BY DEF Outside, ClusterStep, HandStep, RemoveStep, FinishRun, FinalizeRun, AgeRun, CloseByHand,
           ReopenByHand, ClosePrByHand, Regroom, Reclassify, LaneSet, RivalClaims, RemoveByHand,
           issueVars, marks, vars
  <2> QED
    BY <2>1 DEF Marked
<1>5. RetryPass
  BY <1>3, <1>4, InPass
<1>6. InfraLabels
  BY <1>2, <1>5
     DEF RetryPass, StartRetry, RetrySkipClosed, RetryPick, RetryPickBlind, CheckParked, CheckNotParked,
         Relabel, ParkStatus, ParkLabel, ParkComment, EscalateLane, EscalateUnclaim, InfraStatus,
         InfraCheck, InfraComment, Retire, RetryDelete, RetryCreate, Picking
<1>7. Goto("infraComment") \/ Goto("retire")
  BY <1>calm, <1>6 DEF InfraLabels, MarkCall
<1> QED
  BY <1>2, <1>3, <1>6, <1>7 DEF Goto, Retiring

LEMMA MarkHomeStep ==
    ASSUME TypeOK, ControlInv, MarkInv, [Next]_vars, Calm'
    PROVE  MarkHome'
<1>1. ASSUME NEW i \in Issues, Marked(i)'
      PROVE  \/ status'[i] = "backlog" /\ (phase'[i] = "none" \/ Retiring(i)')
             \/ Settling(i)'
  <2>1. CASE ~Marked(i)
    BY <1>1, <2>1, MarkWritten
  <2>2. CASE Marked(i) /\ status[i] = "backlog" /\ phase[i] = "none"
    BY <1>1, <2>2, RestingStays
  <2>3. CASE Marked(i) /\ status[i] = "backlog" /\ Retiring(i)
    BY <2>3, RetiringStays
  <2>4. CASE Settling(i)
    <3>1. Outside => UNCHANGED <<pc, cur, step>>
      BY OutsideMoves DEF bridgeVars, passVars, jobVars
    <3> QED
      BY <1>1, <2>4, <3>1, RedriveStep DEF Settling, At
  <2> QED
    BY <2>1, <2>2, <2>3, <2>4 DEF MarkInv, MarkHome
<1> QED
  BY <1>1 DEF MarkHome

\* Labels are written in two passes only.
LEMMA MarkerKept ==
    ASSUME TypeOK, ControlInv, [Next]_vars, pc \notin {"retry", "recover"}, NEW i \in Issues
    PROVE  marker'[i] = marker[i]
BY StepMoves
   DEF Moved, BoardMove, Untouched, ParkMove, ReviewMove, ReadyMove, StatusTo, HumanMove,
       CommentMove, MarkMove, UnmarkMove, Working, At, ReleaseMove, ClaimMove, ResumeMove,
       EscalateMove, HandMove, RegroomMove, RivalMove, ReclassifyMove

LEMMA MarkListedRetry ==
    ASSUME TypeOK, ControlInv, MarkInv, [Next]_vars, Calm', RetryPass
    PROVE  \A i \in todo' : Marked(i)' => Retiring(i)'
<1> USE DEF At, Retiring
<1>1. ASSUME NEW i \in todo', Marked(i)'
      PROVE  Retiring(i)'
  <2>1. CASE StartRetry
    <3>1. i \in Issues /\ phase[i] = "Failed" /\ Marked(i) /\ pc = "snap"
      BY <1>1, <2>1 DEF StartRetry, InPhase, issueVars, marks, Marked
    <3> QED
      BY <3>1 DEF MarkInv, MarkHome, Settling
  <2>2. CASE ~StartRetry
    <3>1. pc = "retry" /\ i \in todo /\ i \in Issues
      BY <1>1, <2>2, RetryListing DEF TypeOK, BridgeTypeOK
    <3>2. CASE ~Marked(i)
      BY <1>1, <3>1, <3>2, MarkWritten
    <3>3. CASE Marked(i)
      <4>1. cur = i /\ cur # NoIssue /\ (step = "infraComment" \/ step = "retire")
        BY <3>1, <3>3 DEF MarkInv, MarkListed
      <4>2. InfraComment \/ Retire
        BY <2>2, <4>1
           DEF RetryPass, RetrySkipClosed, RetryPick, RetryPickBlind, CheckParked, CheckNotParked,
               Relabel, ParkStatus, ParkLabel, ParkComment, EscalateLane, EscalateUnclaim,
               InfraStatus, InfraCheck, InfraLabels, RetryDelete, RetryCreate, Picking
      <4>3. CASE InfraComment
        BY <4>1, <4>3 DEF InfraComment, Goto, frame, MarkInv, MarkJob
      <4>4. CASE Retire
        BY <1>1, <4>1, <4>4 DEF Retire, Done
      <4> QED
        BY <4>2, <4>3, <4>4
    <3> QED
      BY <3>2, <3>3
  <2> QED
    BY <2>1, <2>2
<1> QED
  BY <1>1

LEMMA MarkListedReview ==
    ASSUME TypeOK, ControlInv, MarkInv, [Next]_vars, ReviewPass
    PROVE  (\A i \in todo' : ~Marked(i)') /\ (cur' # NoIssue => cur' \in todo')
<1> USE DEF At, Picking, Done, Goto, frame
<1>1. CASE StartReview
  <2>1. UNCHANGED <<marker, cur>> /\ cur = NoIssue /\ todo' = InPhase("Completed") /\ pc = "claim"
    BY <1>1 DEF StartReview, issueVars, marks, jobVars
  <2>2. \A i \in todo' : ~Marked(i)
    BY <2>1 DEF MarkInv, MarkHome, Settling, Retiring, InPhase
  <2> QED
    BY <2>1, <2>2 DEF Marked
<1>2. CASE ~StartReview
  <2>1. pc = "review" /\ todo' \subseteq todo
    BY <1>2 DEF ReviewPass, ReviewPick, ReviewStatus, ReviewClose, ReviewCheck, ReviewPark,
                ReviewLabel, ReviewComment, Take
  <2>2. cur' # NoIssue => cur' \in todo'
    BY <1>2, <2>1 DEF ReviewPass, ReviewPick, ReviewStatus, ReviewClose, ReviewCheck, ReviewPark,
                ReviewLabel, ReviewComment, Take, MarkInv, MarkListed
  <2>3. \A i \in todo' : i \in Issues /\ ~Marked(i)
    BY <2>1 DEF MarkInv, MarkListed, TypeOK, BridgeTypeOK
  <2> QED
    BY <2>1, <2>2, <2>3, MarkerKept DEF Marked
<1> QED
  BY <1>1, <1>2

LEMMA MarkListedStranded ==
    ASSUME TypeOK, ControlInv, MarkInv, [Next]_vars, ReconcilePass, pc' = "stranded"
    PROVE  \A i \in todo' : ~Marked(i)'
<1> USE DEF At, Drained, Picking, Done, Skip, Take, frame
<1>1. CASE ListNames
  <2>1. marker' = marker /\ todo' = Claimed("in-progress") /\ pc = "review"
    BY <1>1 DEF ListNames, issueVars, marks
  <2>2. \A i \in todo' : ~Marked(i)
    BY <2>1 DEF MarkInv, MarkHome, Settling, Claimed
  <2> QED
    BY <2>1, <2>2 DEF Marked
<1>2. CASE ~ListNames
  <2>1. pc = "stranded" /\ todo' \subseteq todo
    BY <1>2 DEF ReconcilePass, StartStuck, StrandedSkip, StrandedReset, StrandedUnlabel, StuckSkip,
                StuckRelease
  <2>2. \A i \in todo' : i \in Issues /\ ~Marked(i)
    BY <2>1 DEF MarkInv, MarkListed, TypeOK, BridgeTypeOK
  <2> QED
    BY <2>1, <2>2, MarkerKept DEF Marked
<1> QED
  BY <1>1, <1>2

LEMMA MarkListedRecover ==
    ASSUME TypeOK, ControlInv, MarkInv, [Next]_vars, RecoverPass
    PROVE  (\A i \in todo' : Marked(i)') /\ (cur' # NoIssue => cur' \in todo')
<1> USE DEF At, Drained, Picking, Done, Goto, Take, frame
<1>1. CASE StartRecover
  BY <1>1 DEF StartRecover, issueVars, marks, jobVars, Marked
<1>2. CASE ~StartRecover
  <2>1. pc = "recover" /\ todo' \subseteq todo
    BY <1>2 DEF RecoverPass, RecoverHealthy, RecoverUnhealthy, RecoverCreate, RecoverResume,
                RecoverUnpark, RecoverUnmark, HandStatus, HandLabel, HandComment, RecoverUncount,
                RecoverCount
  <2>2. cur' # NoIssue => cur' \in todo'
    <3>1. cur # NoIssue => cur \in todo
      BY <2>1 DEF MarkInv, MarkListed
    <3>2. CASE \E i \in Issues : RecoverHealthy(i) \/ RecoverUnhealthy(i)
      BY <3>2 DEF RecoverHealthy, RecoverUnhealthy
    <3>3. CASE RecoverCreate \/ RecoverResume \/ RecoverUnpark \/ RecoverUnmark
      <4>1. cur # NoIssue /\ (cur' = NoIssue \/ UNCHANGED <<cur, todo>>)
        BY <3>3 DEF RecoverCreate, RecoverResume, RecoverUnpark, RecoverUnmark
      <4> QED
        BY <3>1, <4>1
    <3>4. CASE HandStatus \/ HandLabel \/ HandComment \/ RecoverUncount \/ RecoverCount
      BY <3>1, <3>4 DEF HandStatus, HandLabel, HandComment, RecoverUncount, RecoverCount
    <3> QED
      BY <1>2, <3>2, <3>3, <3>4 DEF RecoverPass
  <2>3. ASSUME NEW i \in todo'
        PROVE  Marked(i)'
    <3>1. i \in Issues /\ i \in todo /\ Marked(i)
      BY <2>1, <2>3 DEF MarkInv, MarkListed, TypeOK, BridgeTypeOK
    <3>2. CASE RecoverUncount \/ RecoverCount
      <4>1. cur \in Issues /\ (UncountCall(cur) \/ \E n, reply : CountCall(cur, n, reply))
        BY <3>2 DEF RecoverUncount, RecoverCount, TypeOK, BridgeTypeOK
      <4> QED
        BY <3>1, <4>1, CountFacts DEF Board, BoardSame, Marked
    <3>3. CASE RecoverUnmark
      <4>1. i # cur /\ cur \in Issues /\ \E ok \in BOOLEAN : UnmarkCall(cur, ok)
        BY <2>3, <3>3 DEF RecoverUnmark, TypeOK, BridgeTypeOK
      <4> QED
        BY <3>1, <4>1, UnmarkFacts DEF BoardBut, BoardSame, Marked
    <3>4. CASE ~(RecoverUncount \/ RecoverCount \/ RecoverUnmark)
      <4>1. UNCHANGED marker
        BY <1>2, <3>4
           DEF RecoverPass, RecoverHealthy, RecoverUnhealthy, RecoverCreate, RecoverResume,
               RecoverUnpark, HandStatus, HandLabel, HandComment, ResumeCall, StatusCall, LabelCall,
               UnlabelCall, CommentCall, Call, Resumed, StatusSet, HumanSet, Comments, issueVars,
               marks
      <4> QED
        BY <3>1, <4>1 DEF Marked
    <3> QED
      BY <3>2, <3>3, <3>4
  <2> QED
    BY <2>2, <2>3
<1> QED
  BY <1>1, <1>2

LEMMA MarkListedStep ==
    ASSUME TypeOK, ControlInv, MarkInv, [Next]_vars, Calm'
    PROVE  MarkListed'
<1>1. CASE Outside
  <2>1. UNCHANGED <<pc, todo, cur, step>>
    BY <1>1, OutsideMoves DEF bridgeVars, passVars, jobVars
  <2>2. \A i \in Issues : marker'[i] = marker[i]
    BY <1>1, CalmStep, OutsideRests
  <2>3. todo \subseteq Issues
    BY DEF TypeOK, BridgeTypeOK
  <2> QED
    BY <2>1, <2>2, <2>3 DEF MarkInv, MarkListed, Marked, Retiring, At
<1>2. CASE ~Outside
  BY <1>2, InPass, MarkListedRetry, MarkListedReview, MarkListedStranded, MarkListedRecover
     DEF MarkListed
<1> QED
  BY <1>1, <1>2

LEMMA MarkJobRetry ==
    ASSUME TypeOK, ControlInv, MarkInv, [Next]_vars, Calm', RetryPass
    PROVE  MarkJob'
<1> USE DEF MarkJob, At, Done, Goto, Take, Skip, frame
<1>job. MarkJob
  BY DEF MarkInv
<1>calm. \A kind : ~Fault(kind)
  BY CalmStep
<1>0. pc' = "retry"
  BY PassSteps
<1>enter. ASSUME NEW i, NEW p, NEW v, Enter(i, p, v)
          PROVE  step' \in {"infraStatus", "setLane", "delete", "check"}
  BY <1>enter DEF Enter, FirstStep
<1>1. CASE StartRetry
  BY <1>1 DEF StartRetry, jobVars, ControlInv, HandsEmpty
<1>2. ASSUME NEW i \in Issues, RetrySkipClosed(i) \/ RetryPick(i) \/ RetryPickBlind(i)
      PROVE  MarkJob'
  BY <1>0, <1>2, <1>enter DEF RetrySkipClosed, RetryPick, RetryPickBlind, Route, Picking, jobVars
<1>3. CASE CheckParked \/ CheckNotParked \/ Relabel \/ EscalateLane \/ EscalateUnclaim \/ Retire
           \/ RetryDelete \/ RetryCreate
  BY <1>0, <1>3, <1>enter
     DEF CheckParked, CheckNotParked, Relabel, EscalateLane, EscalateUnclaim, EscalateFailed, Retire,
         RetryDelete, RetryCreate
<1>4. CASE ParkStatus \/ ParkLabel \/ ParkComment
  BY <1>0, <1>4, <1>enter DEF ParkStatus, ParkFailed, ParkLabel, ParkComment
<1>5. CASE InfraStatus
  <2>1. cur \in Issues
    BY <1>5 DEF InfraStatus, TypeOK, BridgeTypeOK
  <2>2. CASE StatusCall(cur, "backlog", "ok") /\ Goto("infraCheck")
    BY <1>0, <2>1, <2>2, StatusFacts DEF Failed, Failures, Statuses
  <2> QED
    BY <1>0, <1>5, <2>2 DEF InfraStatus
<1>6. CASE InfraCheck
  BY <1>0, <1>6, <1>job DEF InfraCheck, issueVars
<1>7. CASE InfraLabels
  BY <1>0, <1>7, <1>calm DEF InfraLabels, MarkCall
<1>8. CASE InfraComment
  BY <1>0, <1>8 DEF InfraComment
<1> QED
  BY <1>1, <1>2, <1>3, <1>4, <1>5, <1>6, <1>7, <1>8 DEF RetryPass

LEMMA MarkJobRecover ==
    ASSUME TypeOK, MarkInv, [Next]_vars, Calm', RecoverPass
    PROVE  MarkJob'
<1> USE DEF MarkJob, At, Done, Goto, Take, Drained, Picking, frame
<1>calm. \A kind : ~Fault(kind)
  BY CalmStep
<1>0. pc' = "recover"
  BY PassSteps
<1>1. CASE StartRecover \/ \E i \in Issues : RecoverHealthy(i) \/ RecoverUnhealthy(i)
  BY <1>0, <1>1 DEF StartRecover, RecoverHealthy, RecoverUnhealthy, jobVars
<1>2. CASE RecoverCreate
  BY <1>0, <1>2 DEF RecoverCreate, MarkInv
<1>3. CASE RecoverResume
  BY <1>0, <1>3, <1>calm DEF RecoverResume, ResumeCall, Call, MarkInv
<1>4. CASE RecoverUnpark \/ RecoverUnmark \/ HandStatus \/ HandLabel \/ HandComment
           \/ RecoverUncount \/ RecoverCount
  BY <1>0, <1>4 DEF RecoverUnpark, RecoverUnmark, HandStatus, HandLabel, HandComment,
                    RecoverUncount, RecoverCount
<1> QED
  BY <1>1, <1>2, <1>3, <1>4 DEF RecoverPass

LEMMA MarkJobClaim ==
    ASSUME TypeOK, MarkInv, ClaimPass
    PROVE  MarkJob'
<1> USE DEF MarkJob, At
<1>0. pc' \in {"claim", "idle"}
  BY PassSteps
<1>1. CASE StartClaim \/ NextLane \/ MaterializeWorkload
  BY <1>0, <1>1 DEF StartClaim, NextLane, Drained, Draining, Picking, jobVars, MaterializeWorkload,
                    Done, EndTick
<1>2. ASSUME NEW i \in Issues, ClaimCandidate(i)
      PROVE  MarkJob'
  <2>1. pc = "claim" /\ cur = NoIssue
    BY <1>2 DEF ClaimCandidate, Draining, Picking
  <2>2. CASE UNCHANGED jobVars
    BY <1>0, <2>1, <2>2 DEF jobVars
  <2>3. CASE ClaimCall(i, "ok") /\ Take(i, "claimed", "claim", "none")
    <3>1. status[i] \in {"ready", "in-progress"} /\ marker'[i] = marker[i] /\ cur' = i
      BY <2>3, ClaimFacts DEF Failures, Take
    <3>2. ~Marked(i)
      BY <2>1, <3>1 DEF MarkInv, MarkHome, Settling
    <3> QED
      BY <1>0, <3>1, <3>2 DEF Marked
  <2> QED
    BY <1>2, <2>2, <2>3 DEF ClaimCandidate
<1> QED
  BY <1>1, <1>2 DEF ClaimPass

LEMMA MarkJobPrune ==
    ASSUME TypeOK, MarkInv, [Next]_vars, Calm', PrunePass
    PROVE  MarkJob'
<1> USE DEF MarkJob, At, Done, Goto, Take, Skip, Drained, Picking, frame
<1>calm. \A kind : ~Fault(kind)
  BY CalmStep
<1>0. pc' = "prune"
  BY PassSteps
<1>1. CASE StartPrune \/ PruneDelete \/ PruneReset
           \/ \E i \in Issues : PrunePick(i) \/ PruneUnstamped(i)
  BY <1>0, <1>1 DEF StartPrune, PruneDelete, PruneReset, PrunePick, PruneUnstamped, jobVars
<1>2. CASE PruneCheck
  <2>1. cur \in Issues /\ pc = "prune" /\ UNCHANGED marker
    BY <1>2 DEF PruneCheck, TypeOK, BridgeTypeOK, issueVars, marks
  <2>2. cur' = NoIssue \/ (cur' = cur /\ ~Parked(cur))
    BY <1>2, <1>calm DEF PruneCheck
  <2>3. ~Parked(cur) => ~Marked(cur)
    BY <2>1 DEF Parked, MarkInv, MarkHome, Settling
  <2> QED
    BY <1>0, <2>1, <2>2, <2>3 DEF Marked
<1> QED
  BY <1>1, <1>2 DEF PrunePass

LEMMA MarkJobStep ==
    ASSUME TypeOK, ControlInv, MarkInv, [Next]_vars, Calm'
    PROVE  MarkJob'
<1>1. CASE Outside
  <2>1. UNCHANGED <<pc, todo, cur, step, path>>
    BY <1>1, OutsideMoves DEF bridgeVars, passVars, jobVars
  <2>2. ASSUME NEW i \in Issues
        PROVE  marker'[i] = marker[i] /\ (status[i] = "backlog" => status'[i] = "backlog")
    BY <1>1, CalmStep, OutsideRests
  <2>3. cur # NoIssue => cur \in Issues
    BY DEF TypeOK, BridgeTypeOK
  <2> QED
    BY <2>1, <2>2, <2>3 DEF MarkInv, MarkJob, Marked, At
<1>2. CASE RetryPass \/ RecoverPass \/ ClaimPass \/ PrunePass
  BY <1>2, MarkJobRetry, MarkJobRecover, MarkJobClaim, MarkJobPrune
<1>3. CASE ~(RetryPass \/ RecoverPass \/ ClaimPass \/ PrunePass \/ Outside)
  BY <1>3, InPass DEF MarkJob, At
<1> QED
  BY <1>1, <1>2, <1>3

LEMMA MarkStep ==
    ASSUME TypeOK, ControlInv, Calm => MarkInv, [Next]_vars
    PROVE  (Calm => MarkInv)'
<1> SUFFICES ASSUME Calm'
             PROVE  MarkInv'
  OBVIOUS
<1>1. MarkInv /\ \A kind : ~Fault(kind)
  BY CalmStep
<1> QED
  BY <1>1, CalmGoing, MarkHomeStep, MarkListedStep, MarkJobStep DEF MarkInv

\* As long as nothing fails and no tick is cut short, an issue that carries the marker
\* is parked, or is being put back to work by the recovery pass: whatever recovery finds
\* marked may be restarted without another look at it.  People and other agents may step
\* in at any point of the tick, except that the groomer, who puts an issue back without
\* taking its marker off, is left out.
THEOREM MarkerMeansPark ==
    ASSUME "regroom" \notin HandKinds
    PROVE  Spec => []MarkerMeansParked
<1>1. Init => MarkInv
  BY InitGoing DEF Init, DispatchInit, BridgeInit, MarkInv, MarkHome, MarkListed, MarkJob, Marked, At
<1>2. IInv /\ (Calm => MarkInv) /\ [Next]_vars => (Calm => MarkInv)'
  BY MarkStep DEF IInv
<1>3. (Calm => MarkInv) => MarkerMeansParked
  BY DEF Calm, MarkInv, MarkHome, MarkerMeansParked, Marked, Settling, At
<1> QED
  BY <1>1, <1>2, <1>3, Inductive, PTL DEF Spec

-----------------------------------------------------------------------------
(* What is handed to a person is handed over once.                         *)

\* Nothing has failed so far, and nobody has stepped in.
Still == faults = 0 /\ hands = 0

LEMMA StillStep ==
    ASSUME TypeOK, [Next]_vars, Still'
    PROVE  /\ Still /\ Calm' /\ hands' = hands /\ hands' # hands + 1
           /\ \A kind : ~Fault(kind)
<1>1. faults \in Nat /\ hands \in Nat
  BY DEF TypeOK, DispatchTypeOK
<1> QED
  BY <1>1, StepCounted DEF Calm, Still, Counted, NoFault, Fault

\* An issue announced to a person is parked for good: it has no run, or one that ended
\* in a verdict that is never announced twice.
Announced(i) ==
    /\ said[i] = 1 /\ status[i] = "backlog"
    /\ \/ phase[i] = "none"
       \/ phase[i] = "Failed" /\ result[i] \in {"declared", "demoted"}
       \/ phase[i] = "Completed" /\ result[i] = "gonopr"
       \/ At("retry", "retire") /\ cur = i

OnceHome   == \A i \in Issues : said[i] >= 1 => Announced(i)
OnceMarked == \A i \in Issues : Marked(i) => said[i] = 0 \/ (At("recover", "unmark") /\ cur = i)

\* What a pass has listed is as it was listed, until its turn comes.
OnceListed ==
    /\ pc = "retry" => \A i \in todo : phase[i] = "Failed" \/ (At("retry", "create") /\ cur = i)
    /\ pc = "review" => \A i \in todo : phase[i] = "Completed"
    /\ pc = "stranded" => \A i \in todo : status[i] \in {"ready", "in-progress"}

\* The retry pass gives up what was announced before, and announces the rest once.
OnceRetry ==
    /\ pc = "retry" /\ cur # NoIssue /\ said[cur] >= 1 => step \in {"check", "relabel", "retire"}
    /\ At("retry", "check") \/ At("retry", "status") \/ At("retry", "label") \/ At("retry", "comment")
       => (path \in {"declared", "demoted"} => result[cur] = path)
    /\ At("retry", "label") \/ At("retry", "comment") => status[cur] = "backlog"
    /\ At("retry", "infraStatus") \/ At("retry", "infraCheck") \/ At("retry", "infraLabels")
       => path = "infra"
    /\ ~At("retry", "infraComment")

OnceReview ==
    /\ At("review", "reviewStatus") => result[cur] # "gonopr"
    /\ \/ At("review", "reviewCheck") \/ At("review", "reviewPark") \/ At("review", "reviewLabel")
       \/ At("review", "reviewComment")
       => result[cur] = "gonopr"
    /\ At("review", "reviewPark") \/ At("review", "reviewLabel") \/ At("review", "reviewComment")
       => said[cur] = 0
    /\ At("review", "reviewLabel") \/ At("review", "reviewComment") => status[cur] = "backlog"

OnceOthers ==
    /\ At("prune", "pruneReset") => status[cur] # "backlog"
    /\ At("claim", "claimed") => said[cur] = 0

OnceInv == MarkInv /\ OnceHome /\ OnceMarked /\ OnceListed /\ OnceRetry /\ OnceReview /\ OnceOthers

\* Left to itself, the cluster ends runs and nothing else.
LEMMA QuietOutside ==
    ASSUME TypeOK, NoneGoing, Outside, hands' # hands + 1, NEW i \in Issues
    PROVE  Untouched(i) /\ (phase[i] # "Active" => phase'[i] = phase[i] /\ result'[i] = result[i])
<1> USE DEF Untouched, BoardBut, BoardSame, WorkBut, WorkSame
<1>1. CASE UNCHANGED vars
  BY <1>1, BoardKept, WorkKept DEF vars, Work, Board
<1>2. ASSUME NEW j \in Issues, ClusterStep(j) \/ HandStep(j) \/ RemoveStep(j)
      PROVE  Untouched(i) /\ (phase[i] # "Active" => phase'[i] = phase[i] /\ result'[i] = result[i])
  <2>1. ~HandStep(j) /\ ~RemoveStep(j)
    BY HandFacts DEF RemoveStep, RemoveByHand, Hand
  <2>2. CASE FinishRun(j)
    BY <2>2, FinishFacts
  <2>3. ~FinalizeRun(j)
    BY DEF FinalizeRun, NoneGoing
  <2>4. CASE AgeRun(j)
    BY <2>4, BoardKept DEF AgeRun, Board
  <2> QED
    BY <1>2, <2>1, <2>2, <2>3, <2>4 DEF ClusterStep
<1> QED
  BY <1>1, <1>2 DEF Outside

\* The tombstone of an announced issue goes, and nothing else happens to it.
LEMMA RetiredStays ==
    ASSUME TypeOK, ControlInv, OnceInv, [Next]_vars, Still', NEW i \in Issues,
           Announced(i), At("retry", "retire"), cur = i
    PROVE  Announced(i)'
<1> USE DEF At
<1>still. hands' # hands + 1 /\ \A kind : ~Fault(kind)
  BY StillStep
<1>0. cur # NoIssue /\ pc' = "retry" /\ pc = "retry"
  BY <1>still, PassGoesOn DEF ControlInv
<1>1. CASE Outside
  <2>1. UNCHANGED <<pc, cur, step>>
    BY <1>1, OutsideMoves DEF bridgeVars, passVars, jobVars
  <2>2. Untouched(i)
    BY <1>still, <1>1, QuietOutside DEF OnceInv, MarkInv
  <2> QED
    BY <1>0, <2>1, <2>2 DEF Untouched, Announced
<1>2. CASE Retire
  <2>1. ~going[i] /\ UNCHANGED <<status, said>>
    BY <1>2 DEF OnceInv, MarkInv, NoneGoing, Retire, issueVars
  <2>2. Gone(i)
    BY <1>still, <1>0, <1>2, <2>1 DEF Retire, DeleteCall, WorkCall
  <2> QED
    BY <2>1, <2>2, GoneFacts DEF Vanished, Announced
<1>3. RetryPass \/ Outside
  BY <1>0, InPass
<1> QED
  BY <1>0, <1>1, <1>2, <1>3
     DEF RetryPass, StartRetry, RetrySkipClosed, RetryPick, RetryPickBlind, CheckParked, CheckNotParked,
         Relabel, ParkStatus, ParkLabel, ParkComment, EscalateLane, EscalateUnclaim, InfraStatus,
         InfraCheck, InfraLabels, InfraComment, RetryDelete, RetryCreate, Picking

\* Whatever is announced was not announced before, and is parked.
LEMMA CommentedOnce ==
    ASSUME TypeOK, ControlInv, OnceInv, [Next]_vars, Still', NEW i \in Issues,
           CommentMove(i), WorkSame(i)
    PROVE  /\ Announced(i)'
           /\ Marked(i) => At("recover", "unmark")' /\ cur' = i
<1> USE DEF At, Working, WorkSame
<1>still. \A kind : ~Fault(kind)
  BY StillStep
<1>0. cur = i /\ cur # NoIssue /\ pc' = pc
  BY <1>still, PassGoesOn DEF CommentMove, ControlInv
<1>1. status'[i] = status[i] /\ (said[i] = 0 => said'[i] = 1) /\ said[i] \in 0 .. 2
  BY <1>still DEF CommentMove, TypeOK, DispatchTypeOK
<1>2. ~(said' = said) => ~Outside
  <2>1. Outside => said' = said \/ \E j \in Issues : Regroom(j)
    BY DEF Outside, ClusterStep, HandStep, RemoveStep, FinishRun, FinalizeRun, AgeRun, CloseByHand,
           ReopenByHand, ClosePrByHand, Reclassify, LaneSet, RivalClaims, RemoveByHand,
           issueVars, vars
  <2>2. ASSUME NEW j \in Issues, Regroom(j)
        PROVE  FALSE
    BY <2>2, StillStep DEF Regroom, Hand
  <2> QED
    BY <2>1, <2>2
<1>3. CASE Working("retry", "comment", i)
  <2>1. said[i] = 0
    BY <1>1, <1>3 DEF OnceInv, OnceRetry
  <2>2. ParkComment
    <3>1. RetryPass
      BY <1>0, <1>1, <1>2, <1>3, <2>1, InPass
    <3> QED
      BY <1>3, <3>1
         DEF RetryPass, StartRetry, RetrySkipClosed, RetryPick, RetryPickBlind, CheckParked,
             CheckNotParked, Relabel, ParkStatus, ParkLabel, EscalateLane, EscalateUnclaim,
             InfraStatus, InfraCheck, InfraLabels, InfraComment, Retire, RetryDelete, RetryCreate,
             Picking
  <2>3. i \in todo /\ phase[i] = "Failed" /\ status[i] = "backlog"
    BY <1>3 DEF ControlInv, JobListed, OnceInv, OnceListed, OnceRetry
  <2>4. CASE path \in {"declared", "demoted"}
    BY <1>1, <1>3, <2>1, <2>3, <2>4 DEF OnceInv, OnceRetry, Announced, MarkInv, MarkListed, Retiring
  <2>5. CASE path \notin {"declared", "demoted"}
    BY <1>0, <1>1, <1>3, <2>1, <2>2, <2>3, <2>5
       DEF ParkComment, AnnouncedPath, Goto, Announced, MarkInv, MarkListed, Retiring, OnceInv
  <2> QED
    BY <2>4, <2>5
<1>4. CASE Working("review", "reviewComment", i)
  <2>1. said[i] = 0 /\ status[i] = "backlog" /\ result[i] = "gonopr"
    BY <1>4 DEF OnceInv, OnceReview
  <2>2. phase[i] = "Completed" /\ ~Marked(i)
    BY <1>4 DEF OnceInv, OnceListed, MarkInv, MarkListed
  <2> QED
    BY <1>1, <2>1, <2>2 DEF Announced
<1>5. CASE Working("recover", "handComment", i)
  <2>1. Marked(i)
    BY <1>5 DEF OnceInv, MarkInv, MarkListed
  <2>2. status[i] = "backlog" /\ phase[i] = "none" /\ said[i] = 0
    BY <1>1, <1>5, <2>1
       DEF OnceInv, MarkInv, MarkHome, Retiring, Settling, OnceHome, Announced, OnceMarked
  <2>3. RecoverPass
    BY <1>0, <1>1, <1>2, <1>5, <2>2, InPass
  <2>4. HandComment
    BY <1>5, <2>3
       DEF RecoverPass, StartRecover, RecoverHealthy, RecoverUnhealthy, RecoverCreate, RecoverResume,
           RecoverUnpark, RecoverUnmark, HandStatus, HandLabel, RecoverUncount, RecoverCount, Drained,
           Picking
  <2> QED
    BY <1>0, <1>1, <1>5, <2>2, <2>4 DEF HandComment, Goto, Announced
<1> QED
  BY <1>3, <1>4, <1>5 DEF CommentMove, OnceInv, OnceRetry

\* No other request touches what was announced.
LEMMA AnnouncedStays ==
    ASSUME TypeOK, ControlInv, OnceInv, [Next]_vars, Still', NEW i \in Issues,
           BoardMove(i), ~CommentMove(i), WorkSame(i), said'[i] >= 1
    PROVE  Announced(i)'
<1>0. said[i] \in 0 .. 2 /\ hands' # hands + 1
  BY StillStep DEF TypeOK, DispatchTypeOK
<1>1. CASE Announced(i) /\ At("retry", "retire") /\ cur = i
  BY <1>1, RetiredStays
<1>2. CASE ~(Announced(i) /\ At("retry", "retire") /\ cur = i)
  <2>1. said'[i] = said[i] /\ said[i] >= 1
    <3>1. said'[i] \in {said[i], 0}
      BY <1>0
         DEF BoardMove, Untouched, ParkMove, ReviewMove, ReadyMove, StatusTo, HumanMove, MarkMove,
             UnmarkMove, ReleaseMove, ClaimMove, ResumeMove, EscalateMove, HandMove, RegroomMove,
             RivalMove, ReclassifyMove
    <3> QED
      BY <1>0, <3>1
  <2>2. /\ Announced(i)
        /\ \/ phase[i] = "none"
           \/ phase[i] = "Failed" /\ result[i] \in {"declared", "demoted"}
           \/ phase[i] = "Completed" /\ result[i] = "gonopr"
    <3>1. Announced(i)
      BY <2>1 DEF OnceInv, OnceHome
    <3> QED
      BY <1>2, <3>1 DEF Announced
  <2>3. ~ReviewMove(i)
    BY <2>2 DEF ReviewMove, Working, At, OnceInv, OnceReview, OnceListed, MarkInv, MarkListed
  <2>4. ~ReadyMove(i)
    BY <2>2 DEF ReadyMove, Working, At, OnceInv, OnceListed, OnceOthers, Announced
  <2>5. status'[i] = "backlog"
    <3>1. status[i] = "backlog"
      BY <2>2 DEF Announced
    <3>2. ~ResumeMove(i) /\ ~RegroomMove(i)
      BY <1>0, <2>1 DEF ResumeMove, RegroomMove
    <3> QED
      BY <2>3, <2>4, <3>1, <3>2
         DEF BoardMove, Untouched, ParkMove, StatusTo, HumanMove, MarkMove, UnmarkMove, ReleaseMove,
             Held, ClaimMove, EscalateMove, HandMove, RivalMove, ReclassifyMove
  <2> QED
    BY <2>1, <2>2, <2>5 DEF Announced, WorkSame
<1> QED
  BY <1>1, <1>2

\* Nor does anything that happens to its Workload.
LEMMA AnnouncedEnds ==
    ASSUME TypeOK, ControlInv, OnceInv, [Next]_vars, Still', NEW i \in Issues,
           Untouched(i), WorkMove(i), said'[i] >= 1
    PROVE  Announced(i)'
<1> USE DEF At, Working
<1>still. \A kind : ~Fault(kind)
  BY StillStep
<1>0. said[i] \in 0 .. 2 /\ said[i] >= 1 /\ Announced(i)
  BY DEF TypeOK, DispatchTypeOK, Untouched, OnceInv, OnceHome
<1>1. CASE At("retry", "retire") /\ cur = i
  BY <1>0, <1>1, RetiredStays
<1>2. CASE ~(At("retry", "retire") /\ cur = i)
  <2>1. ~CreateMove(i)
    <3>1. ~Working("retry", "create", i) /\ ~Working("claim", "claimed", i)
      BY <1>0 DEF OnceInv, OnceRetry, OnceOthers
    <3>2. ~Working("recover", "redrive", i)
      BY <1>0 DEF OnceInv, OnceMarked, MarkInv, MarkListed
    <3> QED
      BY <3>1, <3>2 DEF CreateMove
  <2> QED
    BY <1>0, <1>2, <1>still, <2>1
       DEF Announced, Untouched, WorkMove, WorkSame, StampMove, AgeMove, SameRun, FinishMove, GoneMove,
           Vanished, WedgeMove
<1> QED
  BY <1>1, <1>2

LEMMA OnceHomeStep ==
    ASSUME TypeOK, ControlInv, OnceInv, [Next]_vars, Still'
    PROVE  OnceHome'
<1>1. CASE Work /\ \A i \in Issues : BoardMove(i)
  BY <1>1, CommentedOnce, AnnouncedStays DEF Work, OnceHome
<1>2. CASE \A i \in Issues : Untouched(i) /\ WorkMove(i)
  BY <1>2, AnnouncedEnds DEF OnceHome
<1> QED
  BY <1>1, <1>2, StepMoves DEF Moved

LEMMA OnceMarkedStep ==
    ASSUME TypeOK, ControlInv, OnceInv, [Next]_vars, Still'
    PROVE  OnceMarked'
<1> USE DEF At
<1>still. Calm' /\ hands' # hands + 1 /\ \A kind : ~Fault(kind)
  BY StillStep
<1>1. ASSUME NEW i \in Issues, Marked(i)'
      PROVE  said'[i] = 0 \/ (At("recover", "unmark") /\ cur = i)'
  <2>0. said[i] \in 0 .. 2
    BY DEF TypeOK, DispatchTypeOK
  <2>1. CASE ~Marked(i)
    <3>1. InfraLabels /\ pc = "retry" /\ Retiring(i)'
      BY <1>1, <1>still, <2>1, MarkWritten DEF OnceInv
    <3>2. cur = i /\ cur # NoIssue /\ step = "infraLabels" /\ said' = said
      BY <3>1, <1>still DEF InfraLabels, MarkCall, Goto, Retiring
    <3> QED
      BY <2>0, <3>1, <3>2 DEF OnceInv, OnceRetry
  <2>2. CASE Marked(i) /\ At("recover", "unmark") /\ cur = i
    <3>1. RecoverPass \/ Outside
      BY <1>still, <2>2, PassGoesOn, InPass DEF ControlInv
    <3>2. CASE Outside
      BY <2>2, <3>2, OutsideMoves DEF bridgeVars, passVars, jobVars
    <3>3. ~RecoverUnmark
      <4>1. RecoverUnmark => \E ok \in BOOLEAN : UnmarkCall(i, ok)
        BY <2>2 DEF RecoverUnmark
      <4> QED
        BY <1>1, <1>still, <4>1, UnmarkFacts DEF Marked
    <3> QED
      BY <2>2, <3>1, <3>2, <3>3
         DEF RecoverPass, StartRecover, RecoverHealthy, RecoverUnhealthy, RecoverCreate, RecoverResume,
             RecoverUnpark, HandStatus, HandLabel, HandComment, RecoverUncount, RecoverCount, Drained,
             Picking
  <2>3. CASE said[i] = 0 /\ Marked(i)
    <3>1. CASE Untouched(i)
      BY <2>3, <3>1 DEF Untouched
    <3>2. CASE BoardMove(i) /\ WorkSame(i)
      <4>1. CASE CommentMove(i)
        BY <2>3, <3>2, <4>1, CommentedOnce
      <4>2. CASE ~CommentMove(i)
        BY <2>3, <3>2, <4>2
           DEF BoardMove, Untouched, ParkMove, ReviewMove, ReadyMove, StatusTo, HumanMove, MarkMove,
               UnmarkMove, ReleaseMove, ClaimMove, ResumeMove, EscalateMove, HandMove, RegroomMove,
               RivalMove, ReclassifyMove
      <4> QED
        BY <4>1, <4>2
    <3> QED
      BY <3>1, <3>2, StepMoves DEF Moved, Work
  <2> QED
    BY <2>1, <2>2, <2>3 DEF OnceInv, OnceMarked
<1> QED
  BY <1>1 DEF OnceMarked

\* Nobody but the bridge takes a terminal Workload away.
LEMMA TerminalStays ==
    ASSUME TypeOK, ControlInv, NoneGoing, [Next]_vars, Still', NEW i \in Issues,
           phase[i] \in {"Failed", "Completed"}
    PROVE  \/ phase'[i] = phase[i] /\ result'[i] = result[i]
           \/ /\ Working("retry", "delete", i) \/ Working("retry", "retire", i)
                 \/ Working("prune", "pruneDelete", i)
              /\ phase'[i] = "none"
<1>1. hands' # hands + 1 /\ \A kind : ~Fault(kind)
  BY StillStep
<1>2. WorkSame(i) \/ WorkMove(i)
  BY StepMoves DEF Moved, Work
<1> QED
  BY <1>1, <1>2
     DEF WorkMove, WorkSame, StampMove, AgeMove, SameRun, FinishMove, GoneMove, Vanished, NoneGoing,
         WedgeMove, CreateMove

LEMMA OnceListedRetry ==
    ASSUME TypeOK, ControlInv, OnceInv, [Next]_vars, Still', RetryPass
    PROVE  \A i \in todo' : phase'[i] = "Failed" \/ (At("retry", "create") /\ cur = i)'
<1> USE DEF At
<1>still. \A kind : ~Fault(kind)
  BY StillStep
<1>1. CASE StartRetry
  BY <1>1 DEF StartRetry, InPhase, workVars
<1>2. ASSUME ~StartRetry, NEW i \in todo'
      PROVE  phase'[i] = "Failed" \/ (At("retry", "create") /\ cur = i)'
  <2>1. pc = "retry" /\ i \in todo /\ i \in Issues
    BY <1>2, RetryListing DEF TypeOK, BridgeTypeOK
  <2>2. CASE At("retry", "create") /\ cur = i
    <3>1. RetryCreate
      BY <1>2, <2>2
         DEF RetryPass, RetrySkipClosed, RetryPick, RetryPickBlind, CheckParked, CheckNotParked,
             Relabel, ParkStatus, ParkLabel, ParkComment, EscalateLane, EscalateUnclaim, InfraStatus,
             InfraCheck, InfraLabels, InfraComment, Retire, RetryDelete, Picking
    <3> QED
      BY <1>2, <2>2, <3>1 DEF RetryCreate, Done
  <2>3. CASE phase[i] = "Failed" /\ phase'[i] # "Failed"
    <3>1. cur = i /\ cur # NoIssue /\ (step = "delete" \/ step = "retire")
      BY <2>1, <2>3, TerminalStays DEF OnceInv, MarkInv, Working
    <3>2. RetryDelete \/ Retire
      BY <1>2, <2>1, <3>1
         DEF RetryPass, RetrySkipClosed, RetryPick, RetryPickBlind, CheckParked, CheckNotParked,
             Relabel, ParkStatus, ParkLabel, ParkComment, EscalateLane, EscalateUnclaim, InfraStatus,
             InfraCheck, InfraLabels, InfraComment, RetryCreate, Picking
    <3> QED
      BY <1>2, <2>1, <3>1, <3>2 DEF RetryDelete, Retire, Done, Goto, frame
  <2> QED
    BY <2>1, <2>2, <2>3 DEF OnceInv, OnceListed
<1> QED
  BY <1>1, <1>2

LEMMA OnceListedReview ==
    ASSUME TypeOK, ControlInv, OnceInv, [Next]_vars, Still', ReviewPass
    PROVE  \A i \in todo' : phase'[i] = "Completed"
<1>1. CASE StartReview
  BY <1>1 DEF StartReview, InPhase, workVars
<1>2. CASE ~StartReview
  <2>1. pc = "review" /\ todo' \subseteq todo
    BY <1>2 DEF ReviewPass, ReviewPick, ReviewStatus, ReviewClose, ReviewCheck, ReviewPark,
                ReviewLabel, ReviewComment, Take, Done, Goto, At, Picking
  <2>2. \A i \in todo : i \in Issues /\ phase[i] = "Completed"
    BY <2>1 DEF OnceInv, OnceListed, TypeOK, BridgeTypeOK
  <2> QED
    BY <2>1, <2>2, TerminalStays DEF OnceInv, MarkInv, Working, At
<1> QED
  BY <1>1, <1>2

LEMMA OnceListedStranded ==
    ASSUME TypeOK, ControlInv, OnceInv, [Next]_vars, ReconcilePass, pc' = "stranded"
    PROVE  \A i \in todo' : status'[i] \in {"ready", "in-progress"}
<1> USE DEF At, Drained, Picking, Done, Skip, Take, frame
<1>1. CASE ListNames
  BY <1>1 DEF ListNames, Claimed, issueVars
<1>2. CASE ~ListNames
  <2>1. pc = "stranded" /\ todo' \subseteq todo
    BY <1>2 DEF ReconcilePass, StartStuck, StrandedSkip, StrandedReset, StrandedUnlabel, StuckSkip,
                StuckRelease
  <2>2. ASSUME NEW i \in todo'
        PROVE  status'[i] \in {"ready", "in-progress"}
    <3>1. i \in Issues /\ status[i] \in {"ready", "in-progress"}
      BY <2>1, <2>2 DEF OnceInv, OnceListed, TypeOK, BridgeTypeOK
    <3>2. BoardMove(i) \/ Untouched(i)
      BY <3>1, StepMoves DEF Moved
    <3> QED
      BY <2>1, <3>1, <3>2
         DEF BoardMove, Untouched, ParkMove, ReviewMove, ReadyMove, StatusTo, HumanMove, CommentMove,
             MarkMove, UnmarkMove, ReleaseMove, ClaimMove, ResumeMove, EscalateMove, HandMove,
             RegroomMove, RivalMove, ReclassifyMove, Working
  <2> QED
    BY <2>2
<1> QED
  BY <1>1, <1>2

LEMMA OnceListedStep ==
    ASSUME TypeOK, ControlInv, OnceInv, [Next]_vars, Still'
    PROVE  OnceListed'
<1>1. CASE Outside
  <2>1. UNCHANGED <<pc, todo, cur, step>>
    BY <1>1, OutsideMoves DEF bridgeVars, passVars, jobVars
  <2>2. ASSUME NEW i \in Issues
        PROVE  /\ status'[i] = status[i]
               /\ phase[i] # "Active" => phase'[i] = phase[i]
    BY <1>1, StillStep, QuietOutside DEF OnceInv, MarkInv, Untouched
  <2>3. todo \subseteq Issues
    BY DEF TypeOK, BridgeTypeOK
  <2> QED
    BY <2>1, <2>2, <2>3 DEF OnceInv, OnceListed, At
<1>2. CASE ~Outside
  BY <1>2, InPass, OnceListedRetry, OnceListedReview, OnceListedStranded DEF OnceListed
<1> QED
  BY <1>1, <1>2

LEMMA OnceOutside ==
    ASSUME TypeOK, ControlInv, OnceInv, Outside, hands' # hands + 1
    PROVE  OnceRetry' /\ OnceReview' /\ OnceOthers'
<1>1. UNCHANGED <<pc, cur, step, path>>
  BY OutsideMoves DEF bridgeVars, passVars, jobVars
<1>2. ASSUME NEW i \in Issues
      PROVE  /\ status'[i] = status[i] /\ said'[i] = said[i]
             /\ phase[i] \in {"Failed", "Completed"} => result'[i] = result[i]
  BY QuietOutside DEF OnceInv, MarkInv, Untouched
<1>3. cur # NoIssue => cur \in Issues
  BY DEF TypeOK, BridgeTypeOK
<1>4. pc = "retry" /\ cur # NoIssue /\ step # "create" => phase[cur] = "Failed"
  BY DEF ControlInv, JobListed, OnceInv, OnceListed, At
<1>5. pc = "review" /\ cur # NoIssue => phase[cur] = "Completed"
  BY DEF OnceInv, OnceListed, MarkInv, MarkListed
<1>6. OnceRetry'
  BY <1>1, <1>2, <1>3, <1>4 DEF OnceInv, OnceRetry, At
<1>7. OnceReview'
  BY <1>1, <1>2, <1>3, <1>5 DEF OnceInv, OnceReview, At
<1>8. OnceOthers'
  BY <1>1, <1>2, <1>3 DEF OnceInv, OnceOthers, At
<1> QED
  BY <1>6, <1>7, <1>8

\* A tombstone is announced on its own declaration, read from its tasks.
LEMMA PickedOnce ==
    ASSUME TypeOK, ControlInv, OnceInv, NEW i \in Issues, RetryPick(i)
    PROVE  OnceRetry'
<1> USE DEF At
<1>1. /\ pc = "retry" /\ cur = NoIssue /\ i \in todo /\ UNCHANGED <<said, result, status>>
      /\ pc' = "retry"
  BY DEF RetryPick, Picking, issueVars, workVars, frame
<1>2. phase[i] = "Failed" /\ ~going[i]
  BY <1>1 DEF OnceInv, OnceListed, MarkInv, NoneGoing
<1>3. Route(i, result[i])
  BY <1>2 DEF RetryPick, TasksOf
<1>4. said[i] >= 1 => result[i] \in {"declared", "demoted"}
  BY <1>1, <1>2 DEF OnceInv, OnceHome, Announced
<1>5. CASE result[i] \in {"declared", "demoted"}
  <2>1. cur' = i /\ path' = result[i] /\ step' = "check"
    BY <1>3, <1>5 DEF Route, Enter, Take, FirstStep
  <2> QED
    BY <1>1, <2>1 DEF OnceRetry
<1>6. CASE result[i] \notin {"declared", "demoted"}
  <2>1. Enter(i, Branch(i, result[i]), result[i])
    BY <1>3, <1>6 DEF Route
  <2>2. Branch(i, result[i]) \in {"infra", "retry", "nogo", "escalate", "exhausted"}
    BY DEF Branch
  <2>3. /\ cur' = i /\ path' \in {"infra", "retry", "nogo", "escalate", "exhausted"}
        /\ step' = FirstStep(path')
    BY <2>1, <2>2 DEF Enter, Take
  <2>4. /\ step' \in {"infraStatus", "setLane", "delete", "check"}
        /\ step' = "infraStatus" => path' = "infra"
    BY <2>3 DEF FirstStep
  <2> QED
    BY <1>1, <1>4, <1>6, <2>3, <2>4 DEF OnceRetry
<1> QED
  BY <1>5, <1>6

LEMMA OnceRetryStep ==
    ASSUME TypeOK, ControlInv, OnceInv, [Next]_vars, Still', RetryPass
    PROVE  OnceRetry'
<1> USE DEF At, Done, Goto, Take, Skip, frame, OnceRetry
<1>job. OnceRetry
  BY DEF OnceInv
<1>still. \A kind : ~Fault(kind)
  BY StillStep
<1>0. pc' = "retry"
  BY PassSteps
<1>cur. ASSUME NEW s, pc = "retry" /\ cur # NoIssue /\ step = s
        PROVE  cur \in Issues
  BY <1>cur DEF TypeOK, BridgeTypeOK
<1>over. ASSUME cur' = NoIssue
         PROVE  OnceRetry'
  BY <1>over
<1>1. CASE StartRetry
  BY <1>1, <1>over DEF StartRetry, jobVars, ControlInv, HandsEmpty
<1>2. ASSUME NEW i \in Issues, RetrySkipClosed(i) \/ RetryPick(i) \/ RetryPickBlind(i)
      PROVE  OnceRetry'
  BY <1>2, <1>over, <1>still, PickedOnce
     DEF RetrySkipClosed, RetryPickBlind, Picking, jobVars
<1>3. CASE CheckParked
  BY <1>0, <1>3, <1>job DEF CheckParked, workVars
<1>4. CASE CheckNotParked
  <2>1. /\ ~Parked(cur) /\ step' = "status" /\ cur \in Issues
        /\ UNCHANGED <<cur, path, said, result>>
    BY <1>4, <1>cur, <1>still DEF CheckNotParked, issueVars, workVars
  <2>2. said[cur] = 0
    BY <2>1 DEF OnceInv, OnceHome, Announced, Parked, TypeOK, DispatchTypeOK
  <2> QED
    BY <1>4, <1>job, <2>1, <2>2 DEF CheckNotParked
<1>5. CASE Relabel \/ RetryCreate \/ Retire
  BY <1>5, <1>over DEF Relabel, RetryCreate, Retire
<1>6. CASE ParkStatus
  <2>1. cur \in Issues /\ ~(said[cur] >= 1)
    BY <1>6, <1>cur, <1>job DEF ParkStatus
  <2>2. StatusCall(cur, "backlog", "ok") /\ Goto("label") /\ result' = result
    BY <1>6, <1>still DEF ParkStatus, StatusCall, Call, Failures, workVars
  <2>3. status'[cur] = "backlog" /\ said'[cur] = said[cur]
    BY <2>1, <2>2, StatusFacts DEF Failed, Failures, Statuses
  <2> QED
    BY <1>6, <1>job, <2>1, <2>2, <2>3 DEF ParkStatus
<1>7. CASE ParkLabel
  <2>1. cur \in Issues /\ ~(said[cur] >= 1) /\ status[cur] = "backlog"
    BY <1>7, <1>cur, <1>job DEF ParkLabel
  <2>2. status'[cur] = status[cur] /\ said'[cur] = said[cur]
    BY <1>7, <2>1, HumanFacts DEF ParkLabel, LabelCall, Failed, Board, BoardSame
  <2> QED
    BY <1>7, <1>job, <2>1, <2>2 DEF ParkLabel, workVars
<1>8. CASE ParkComment
  BY <1>0, <1>8, <1>over DEF ParkComment
<1>9. CASE EscalateLane \/ EscalateUnclaim
  <2>1. CASE cur' = NoIssue
    BY <2>1, <1>over
  <2>2. CASE EscalateLane /\ cur' # NoIssue
    <3>1. cur \in Issues /\ ~(said[cur] >= 1)
      BY <1>cur, <1>job, <2>2 DEF EscalateLane
    <3>2. LaneCall(cur, EscLane, "ok") /\ Goto("unclaim")
      BY <1>still, <2>2 DEF EscalateLane, LaneCall, Call, Failures
    <3>3. said'[cur] = said[cur]
      BY <3>1, <3>2, LaneFacts DEF Failed, Board, BoardSame
    <3> QED
      BY <3>1, <3>2, <3>3
  <2>3. CASE EscalateUnclaim /\ cur' # NoIssue
    <3>1. step' = "retire"
      BY <1>still, <2>3 DEF EscalateUnclaim, UnclaimCall, Call, Failures, EscalateFailed
    <3> QED
      BY <3>1
  <2> QED
    BY <1>9, <2>1, <2>2, <2>3
<1>10. CASE InfraStatus
  <2>1. cur \in Issues /\ ~(said[cur] >= 1) /\ path = "infra"
    BY <1>10, <1>cur, <1>job DEF InfraStatus
  <2>2. StatusCall(cur, "backlog", "ok") /\ Goto("infraCheck")
    BY <1>10, <1>still DEF InfraStatus, StatusCall, Call, Failures
  <2>3. said'[cur] = said[cur]
    BY <2>1, <2>2, StatusFacts DEF Failed, Failures, Statuses
  <2> QED
    BY <2>1, <2>2, <2>3
<1>11. CASE InfraCheck
  <2>1. Parked(cur) /\ path = "infra" /\ ~(said[cur] >= 1) /\ said' = said
    BY <1>11, <1>job DEF InfraCheck, OnceInv, MarkInv, MarkJob, Parked, issueVars
  <2>2. Goto("infraLabels")
    BY <1>11, <1>still, <2>1 DEF InfraCheck
  <2> QED
    BY <2>1, <2>2
<1>12. CASE InfraLabels
  <2>1. Goto("retire")
    BY <1>12, <1>still, <1>job DEF InfraLabels, MarkCall
  <2> QED
    BY <2>1
<1>13. CASE InfraComment
  BY <1>13, <1>job DEF InfraComment
<1>14. CASE RetryDelete
  <2>1. CASE cur' = NoIssue
    BY <2>1, <1>over
  <2>2. CASE cur' # NoIssue
    BY <1>14, <1>job, <2>2 DEF RetryDelete, issueVars
  <2> QED
    BY <2>1, <2>2
<1> QED
  BY <1>1, <1>2, <1>3, <1>4, <1>5, <1>6, <1>7, <1>8, <1>9, <1>10, <1>11, <1>12, <1>13, <1>14
     DEF RetryPass

LEMMA OnceReviewStep ==
    ASSUME TypeOK, ControlInv, OnceInv, [Next]_vars, Still', ReviewPass
    PROVE  OnceReview'
<1> USE DEF At, Done, Goto, frame, OnceReview
<1>job. OnceReview
  BY DEF OnceInv
<1>still. \A kind : ~Fault(kind)
  BY StillStep
<1>cur. ASSUME NEW s, pc = "review" /\ cur # NoIssue /\ step = s
        PROVE  cur \in Issues /\ phase[cur] = "Completed"
  BY <1>cur DEF TypeOK, BridgeTypeOK, OnceInv, OnceListed, MarkInv, MarkListed
<1>over. ASSUME cur' = NoIssue
         PROVE  OnceReview'
  BY <1>over
<1>1. CASE StartReview
  BY <1>1, <1>over DEF StartReview, Picking, jobVars
<1>2. ASSUME NEW i \in Issues, ReviewPick(i)
      PROVE  OnceReview'
  <2>1. TasksOf(i) = {result[i]} /\ UNCHANGED result
    BY <1>2 DEF ReviewPick, Picking, TasksOf, OnceInv, OnceListed, MarkInv, NoneGoing, workVars
  <2>2. Take(i, IF result[i] = "gonopr" THEN "reviewCheck" ELSE "reviewStatus",
             Destination(result[i]), result[i])
    BY <1>2, <2>1 DEF ReviewPick
  <2> QED
    BY <2>1, <2>2 DEF Take
<1>3. CASE ReviewStatus \/ ReviewClose \/ ReviewComment
  BY <1>3, <1>over DEF ReviewStatus, ReviewClose, ReviewComment
<1>4. CASE ReviewCheck
  <2>1. CASE cur' = NoIssue
    BY <2>1, <1>over
  <2>2. CASE cur' # NoIssue
    <3>1. ~Parked(cur) /\ cur \in Issues /\ Goto("reviewPark") /\ UNCHANGED <<said, result>>
      BY <1>4, <1>cur, <1>still, <2>2 DEF ReviewCheck, issueVars, workVars
    <3>2. said[cur] = 0
      BY <3>1 DEF OnceInv, OnceHome, Announced, Parked, TypeOK, DispatchTypeOK
    <3> QED
      BY <1>4, <1>job, <3>1, <3>2 DEF ReviewCheck
  <2> QED
    BY <2>1, <2>2
<1>5. CASE ReviewPark
  <2>1. PICK reply \in Replies : /\ StatusCall(cur, "backlog", reply)
                                 /\ IF reply = "raise" THEN Done ELSE Goto("reviewLabel")
    BY <1>5 DEF ReviewPark
  <2>2. cur \in Issues /\ said[cur] = 0 /\ result[cur] = "gonopr" /\ UNCHANGED result
    BY <1>5, <1>cur, <1>job DEF ReviewPark, workVars
  <2>3. status'[cur] = "backlog" /\ said'[cur] = said[cur]
    BY <1>still, <2>1, <2>2, StatusFacts DEF Failed, Statuses
  <2> QED
    BY <1>over, <2>1, <2>2, <2>3
<1>6. CASE ReviewLabel
  <2>1. /\ cur \in Issues /\ said[cur] = 0 /\ result[cur] = "gonopr" /\ status[cur] = "backlog"
        /\ UNCHANGED result
    BY <1>6, <1>cur, <1>job DEF ReviewLabel, workVars
  <2>2. status'[cur] = status[cur] /\ said'[cur] = said[cur]
    BY <1>6, <2>1, HumanFacts DEF ReviewLabel, LabelCall, Failed, Board, BoardSame
  <2> QED
    BY <1>6, <2>1, <2>2 DEF ReviewLabel
<1> QED
  BY <1>1, <1>2, <1>3, <1>4, <1>5, <1>6 DEF ReviewPass

LEMMA OnceClaim ==
    ASSUME TypeOK, OnceInv, ClaimPass
    PROVE  OnceOthers'
<1> USE DEF OnceOthers, At
<1>0. pc' \in {"claim", "idle"}
  BY PassSteps
<1>1. CASE StartClaim \/ NextLane \/ MaterializeWorkload
  BY <1>0, <1>1 DEF StartClaim, NextLane, Drained, Draining, Picking, jobVars, MaterializeWorkload,
                    Done, EndTick
<1>2. ASSUME NEW i \in Issues, ClaimCandidate(i)
      PROVE  OnceOthers'
  <2>1. CASE UNCHANGED jobVars
    BY <1>0, <1>2, <2>1 DEF ClaimCandidate, Draining, Picking, jobVars
  <2>2. CASE ClaimCall(i, "ok") /\ Take(i, "claimed", "claim", "none")
    BY <1>0, <2>2, ClaimFacts DEF Failures, Take
  <2> QED
    BY <1>2, <2>1, <2>2 DEF ClaimCandidate
<1> QED
  BY <1>1, <1>2 DEF ClaimPass

LEMMA OncePrune ==
    ASSUME TypeOK, OnceInv, [Next]_vars, Still', PrunePass
    PROVE  OnceOthers'
<1> USE DEF OnceOthers, At, Done, Goto, Take, Skip, Drained, Picking, frame
<1>still. \A kind : ~Fault(kind)
  BY StillStep
<1>0. pc' = "prune"
  BY PassSteps
<1>1. CASE StartPrune \/ PruneDelete \/ PruneReset
           \/ \E i \in Issues : PrunePick(i) \/ PruneUnstamped(i)
  BY <1>0, <1>1 DEF StartPrune, PruneDelete, PruneReset, PrunePick, PruneUnstamped, jobVars
<1>2. CASE PruneCheck
  <2>1. UNCHANGED status /\ (cur' = NoIssue \/ (cur' = cur /\ ~Parked(cur)))
    BY <1>2, <1>still DEF PruneCheck, issueVars
  <2> QED
    BY <1>0, <2>1 DEF Parked
<1> QED
  BY <1>1, <1>2 DEF PrunePass

LEMMA OnceStep ==
    ASSUME TypeOK, ControlInv, OnceInv, [Next]_vars, Still'
    PROVE  OnceInv'
<1>1. MarkInv'
  BY StillStep, MarkStep DEF OnceInv
<1>2. CASE Outside
  BY <1>2, StillStep, OnceOutside, <1>1, OnceHomeStep, OnceMarkedStep, OnceListedStep DEF OnceInv
<1>3. CASE ~Outside
  <2>1. OnceRetry'
    BY <1>3, InPass, OnceRetryStep DEF OnceRetry, At
  <2>2. OnceReview'
    BY <1>3, InPass, OnceReviewStep DEF OnceReview, At
  <2>3. OnceOthers'
    BY <1>3, InPass, OnceClaim, OncePrune DEF OnceOthers, At
  <2> QED
    BY <1>1, <2>1, <2>2, <2>3, OnceHomeStep, OnceMarkedStep, OnceListedStep DEF OnceInv
<1> QED
  BY <1>2, <1>3

\* As long as nothing fails and nobody steps in, one claim of an issue, or one redrive,
\* hands it to a person with one comment: through the retry pass, the review pass or
\* infra recovery, with recovery on or off.
THEOREM HandedOverAtMostOnce == Spec => []HandedOverOnce
<1>1. Init => OnceInv
  BY InitGoing
     DEF Init, DispatchInit, BridgeInit, ClusterInit, OnceInv, MarkInv, MarkHome, MarkListed, MarkJob,
         Marked, OnceHome, OnceMarked, OnceListed, OnceRetry, OnceReview, OnceOthers, At
<1>2. IInv /\ (Still => OnceInv) /\ [Next]_vars => (Still => OnceInv)'
  <2> SUFFICES ASSUME IInv, Still => OnceInv, [Next]_vars, Still'
               PROVE  OnceInv'
    OBVIOUS
  <2>1. TypeOK /\ ControlInv
    BY DEF IInv
  <2>2. Still
    BY <2>1, StillStep
  <2> QED
    BY <2>1, <2>2, OnceStep
<1>3. IInv /\ (Still => OnceInv) => HandedOverOnce
  <2> SUFFICES ASSUME IInv, OnceInv, NEW i \in Issues
               PROVE  said[i] <= 1
    BY DEF Still, HandedOverOnce
  <2>1. said[i] \in 0 .. 2
    BY DEF IInv, TypeOK, DispatchTypeOK
  <2>2. said[i] >= 1 => said[i] = 1
    BY DEF OnceInv, OnceHome, Announced
  <2> QED
    BY <2>1, <2>2
<1> QED
  BY <1>1, <1>2, <1>3, Inductive, PTL DEF Spec

=============================================================================
