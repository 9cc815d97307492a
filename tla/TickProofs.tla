------------------------------ MODULE TickProofs ------------------------------
(***************************************************************************)
(* Theorems about Tick, for every board, lane list, retry budget, fault    *)
(* budget and number of interventions.                                     *)
(***************************************************************************)
EXTENDS Tick, TLAPS, FiniteSetTheorems

USE FaultsAssumption, DispatchAssumption, ClusterAssumption, BridgeAssumption

-----------------------------------------------------------------------------
(* The inductive invariant.                                                *)

\* Nothing is in hand before the first pass.
HandsEmpty == pc \in {"idle", "snap"} => cur = NoIssue

\* The retry pass works on what it still has listed.
JobListed == pc = "retry" /\ cur # NoIssue => cur \in todo

\* Escalation is attempted only when there is a lane to escalate to.
EscalationOn == At("retry", "setLane") => EscLane # NoLane

\* A claim is materialised while its lane is being drained.
ClaimedInLane == At("claim", "claimed") => laneAt \in Lanes

\* What the review pass sets is one of dispatch's statuses.
ReviewPath == At("review", "reviewStatus") => path \in {"in-review", "done", "blocked"}

\* A retry under way has room in the budget it will be charged to, by the counters
\* of the listing.
RetryInBudget ==
    At("retry", "delete") \/ At("retry", "create")
    => IF view = "infra" THEN shotInfra[cur] < InfraMax ELSE shotAttempt[cur] < MaxAttempts

\* The listing's counters stay those of the issue's runs until its turn comes, even
\* when its Workload is gone by then.
ShotSound ==
    pc = "retry" =>
        \A i \in todo : /\ shotAttempt[i] <= MaxAttempts
                        /\ shotInfra[i] <= InfraMax
                        /\ shotLane[i] \in Lanes

\* The recovery pass restarts an issue in a lane of the service.
RecoverLanes == pc = "recover" => \A i \in Issues : shotLane[i] \in Lanes

ControlInv == HandsEmpty /\ JobListed /\ EscalationOn /\ ClaimedInLane /\ ReviewPath
              /\ RetryInBudget
DataInv    == BudgetOK /\ RunsCharged /\ LaneKept /\ ShotSound
IInv       == TypeOK /\ ControlInv /\ DataInv /\ RecoverLanes

-----------------------------------------------------------------------------
(* Type correctness.                                                       *)

\* A request to dispatch, answered or not, keeps the issues well typed.
LEMMA DispatchCallType ==
    ASSUME DispatchTypeOK, NEW i \in Issues, NEW reply \in Replies, hands' = hands,
           \/ \E s \in Statuses : StatusCall(i, s, reply)
           \/ LabelCall(i, reply) \/ UnlabelCall(i, reply)
           \/ \E l \in Lanes : LaneCall(i, l, reply)
           \/ CommentCall(i, reply) \/ CloseCall(i, reply)
           \/ UnclaimCall(i, reply) \/ ClaimCall(i, reply)
           \/ ResumeCall(i, reply) \/ UncountCall(i)
           \/ \E n \in Nat : CountCall(i, n, reply)
           \/ \E ok \in BOOLEAN : UnmarkCall(i, ok) \/ \E n \in Nat : MarkCall(i, n, ok)
    PROVE  DispatchTypeOK'
<1>0. faults' \in 0 .. MaxFaults
  <2>1. NoFault \/ Fault("call") \/ Fault("lost") \/ Fault("resend") \/ Fault("repeat")
    BY DEF StatusCall, LabelCall, UnlabelCall, LaneCall, CommentCall,
           CloseCall, UnclaimCall, ClaimCall, ResumeCall, CountCall, UncountCall, UnmarkCall,
           MarkCall, Call
  <2> QED
    BY <2>1 DEF DispatchTypeOK, NoFault, Fault
<1>1. CASE UNCHANGED issueVars
  BY <1>0, <1>1 DEF DispatchTypeOK, issueVars, marks
<1> USE DEF marks
<1>2. ASSUME NEW s \in Statuses, StatusSet(i, s)
      PROVE  DispatchTypeOK'
  BY <1>0, <1>2 DEF DispatchTypeOK, StatusSet, Owners
<1>3. ASSUME NEW b \in BOOLEAN, HumanSet(i, b)
      PROVE  DispatchTypeOK'
  BY <1>0, <1>3 DEF DispatchTypeOK, HumanSet
<1>4. ASSUME NEW l \in Lanes, LaneSet(i, l)
      PROVE  DispatchTypeOK'
  BY <1>0, <1>4 DEF DispatchTypeOK, LaneSet
<1>5. CASE Comments(i, 1) \/ Comments(i, 2)
  BY <1>0, <1>5 DEF DispatchTypeOK, Comments
<1>6. CASE CloseIssue(i)
  BY <1>0, <1>6 DEF DispatchTypeOK, CloseIssue
<1>7. CASE Released(i)
  BY <1>0, <1>7 DEF DispatchTypeOK, Released, Statuses, Owners
<1>8. CASE Granted(i)
  BY <1>0, <1>8 DEF DispatchTypeOK, Granted, Statuses, Owners
<1>9. CASE Resumed(i)
  BY <1>0, <1>9 DEF DispatchTypeOK, Resumed, Statuses, Owners
<1>10. ASSUME NEW n \in Nat, CountSet(i, n)
       PROVE  DispatchTypeOK'
  BY <1>0, <1>10 DEF DispatchTypeOK, CountSet
<1>tries. ASSUME NEW kept \in SUBSET Nat, tries' = [tries EXCEPT ![i] = kept]
          PROVE  tries' \in [Issues -> SUBSET Nat]
  BY <1>tries DEF DispatchTypeOK
<1>marker. ASSUME NEW m \in Markers, marker' = [marker EXCEPT ![i] = m]
           PROVE  marker' \in [Issues -> Markers]
  BY <1>marker DEF DispatchTypeOK
<1>own. tries[i] \in SUBSET Nat /\ marker[i] \in Markers
  BY DEF DispatchTypeOK
<1>11. CASE UncountCall(i)
  <2>1. \E kept \in SUBSET Nat : tries' = [tries EXCEPT ![i] = kept]
    BY <1>11, <1>own DEF UncountCall
  <2>2. tries' \in [Issues -> SUBSET Nat]
    BY <2>1, <1>tries
  <2> QED
    BY <1>0, <1>11, <2>2 DEF DispatchTypeOK, UncountCall
<1>12. ASSUME NEW ok \in BOOLEAN, UnmarkCall(i, ok)
       PROVE  DispatchTypeOK'
  <2>1. \E kept \in SUBSET Nat : tries' = [tries EXCEPT ![i] = kept]
    BY <1>12, <1>own DEF UnmarkCall
  <2>2. \E m \in Markers : marker' = [marker EXCEPT ![i] = m]
    BY <1>12, <1>own DEF UnmarkCall, Markers
  <2>3. tries' \in [Issues -> SUBSET Nat] /\ marker' \in [Issues -> Markers]
    BY <2>1, <2>2, <1>tries, <1>marker
  <2> QED
    BY <1>0, <1>12, <2>3 DEF DispatchTypeOK, UnmarkCall
<1>13. ASSUME NEW ok \in BOOLEAN, NEW n \in Nat, MarkCall(i, n, ok)
       PROVE  DispatchTypeOK'
  <2>1. tries[i] \cup {n} \in SUBSET Nat
    BY <1>own
  <2>2. tries' = tries \/ tries' = [tries EXCEPT ![i] = tries[i] \cup {n}]
    BY <1>13 DEF MarkCall
  <2>3. tries' \in [Issues -> SUBSET Nat]
    BY <2>1, <2>2, <1>tries DEF DispatchTypeOK
  <2>4. \E m \in Markers : marker' = [marker EXCEPT ![i] = m]
    BY <1>13, <1>own DEF MarkCall, Markers
  <2>5. marker' \in [Issues -> Markers]
    BY <2>4, <1>marker
  <2>6. human' \in [Issues -> BOOLEAN]
    BY <1>13 DEF MarkCall, DispatchTypeOK
  <2> QED
    BY <1>0, <1>13, <2>3, <2>5, <2>6 DEF DispatchTypeOK, MarkCall
<1> QED
  BY <1>1, <1>2, <1>3, <1>4, <1>5, <1>6, <1>7, <1>8, <1>9, <1>10, <1>11, <1>12, <1>13
     DEF StatusCall, LabelCall, UnlabelCall, LaneCall, CommentCall, CloseCall,
         UnclaimCall, ClaimCall, ResumeCall, CountCall, Call

\* A request to Kubernetes keeps the Workloads well typed.
LEMMA ClusterCallType ==
    ASSUME ClusterTypeOK, NEW i \in Issues, NEW ok \in BOOLEAN,
           \/ \E l \in Lanes \cup {NoLane}, a, f, r \in Nat : CreateCall(i, l, a, f, r, ok)
           \/ DeleteCall(i, ok)
           \/ Stamped(i)
           \/ UNCHANGED workVars
    PROVE  ClusterTypeOK'
<1>1. CASE UNCHANGED workVars
  BY <1>1 DEF ClusterTypeOK, workVars
<1>2. ASSUME NEW l \in Lanes \cup {NoLane}, NEW a \in Nat, NEW f \in Nat, NEW r \in Nat,
             Created(i, l, a, f, r)
      PROVE  ClusterTypeOK'
  BY <1>1, <1>2 DEF ClusterTypeOK, Created, Phases
<1>3. CASE Gone(i)
  BY <1>3 DEF ClusterTypeOK, Gone, Phases
<1>4. CASE Terminating(i)
  BY <1>4 DEF ClusterTypeOK, Terminating
<1>5. CASE Stamped(i)
  BY <1>5 DEF ClusterTypeOK, Stamped
<1> QED
  BY <1>1, <1>2, <1>3, <1>4, <1>5 DEF CreateCall, DeleteCall, WorkCall

\* What a step of a pass may do to the job in hand.
Moves ==
    \/ Done
    \/ \E s \in Steps : Goto(s)
    \/ \E i \in Issues : Skip(i)
    \/ \E i \in Issues, s \in Steps, p \in Paths, v \in Verdicts : Take(i, s, p, v)

\* A step that sends dispatch a request, and one that sends none.
Asks ==
    \E i \in Issues, reply \in Replies :
        \/ \E s \in Statuses : StatusCall(i, s, reply)
        \/ LabelCall(i, reply) \/ UnlabelCall(i, reply)
        \/ \E l \in Lanes : LaneCall(i, l, reply)
        \/ CommentCall(i, reply) \/ CloseCall(i, reply)
        \/ UnclaimCall(i, reply) \/ ClaimCall(i, reply)
        \/ ResumeCall(i, reply) \/ UncountCall(i)
        \/ \E n \in Nat : CountCall(i, n, reply)
        \/ \E ok \in BOOLEAN : UnmarkCall(i, ok) \/ \E n \in Nat : MarkCall(i, n, ok)

Waits == UNCHANGED issueVars /\ (NoFault \/ \E kind \in FaultKinds : Fault(kind))

\* A step that sends Kubernetes a request.
Works ==
    \E i \in Issues, ok \in BOOLEAN :
        \/ \E l \in Lanes \cup {NoLane}, a, f, r \in Nat : CreateCall(i, l, a, f, r, ok)
        \/ DeleteCall(i, ok)
        \/ Stamped(i) /\ NoFault

LEMMA WaitsType ==
    ASSUME DispatchTypeOK, Waits, hands' = hands
    PROVE  DispatchTypeOK'
<1>1. faults' \in 0 .. MaxFaults
  BY DEF DispatchTypeOK, Waits, NoFault, Fault
<1> QED
  BY <1>1 DEF DispatchTypeOK, Waits, issueVars, marks

LEMMA MovesType ==
    ASSUME BridgeTypeOK, Moves, UNCHANGED frame
    PROVE  BridgeTypeOK'
<1> USE DEF BridgeTypeOK, frame, shotVars, queueVars, claimVars
<1>1. CASE Done
  BY <1>1 DEF Done, Steps, Paths, Verdicts
<1>2. ASSUME NEW s \in Steps, Goto(s)
      PROVE  BridgeTypeOK'
  BY <1>2 DEF Goto
<1>3. ASSUME NEW i \in Issues, Skip(i)
      PROVE  BridgeTypeOK'
  BY <1>3 DEF Skip, jobVars
<1>4. ASSUME NEW i \in Issues, NEW s \in Steps, NEW p \in Paths, NEW v \in Verdicts,
             Take(i, s, p, v)
      PROVE  BridgeTypeOK'
  BY <1>4 DEF Take
<1> QED
  BY <1>1, <1>2, <1>3, <1>4 DEF Moves

LEMMA WorksType ==
    ASSUME DispatchTypeOK, ClusterTypeOK, Works, UNCHANGED <<issueVars, hands>>
    PROVE  DispatchTypeOK' /\ ClusterTypeOK'
<1>1. NoFault \/ \E kind \in FaultKinds : Fault(kind)
  BY DEF Works, CreateCall, DeleteCall, WorkCall, Fault
<1>2. DispatchTypeOK'
  BY <1>1, WaitsType DEF Waits
<1>3. ClusterTypeOK'
  BY ClusterCallType DEF Works
<1> QED
  BY <1>2, <1>3

\* The shape of most steps keeps every variable typed.
LEMMA StepType ==
    ASSUME TypeOK, UNCHANGED frame, Moves,
           \/ (Asks \/ Waits) /\ UNCHANGED workVars
           \/ Works /\ UNCHANGED issueVars
    PROVE  TypeOK'
<1>1. hands' = hands
  BY DEF frame
<1>2. BridgeTypeOK'
  BY MovesType DEF TypeOK
<1>3. CASE Asks /\ UNCHANGED workVars
  BY <1>1, <1>2, <1>3, DispatchCallType DEF TypeOK, Asks, ClusterTypeOK, workVars
<1>4. CASE Waits /\ UNCHANGED workVars
  BY <1>1, <1>2, <1>4, WaitsType DEF TypeOK, ClusterTypeOK, workVars
<1>5. CASE Works /\ UNCHANGED issueVars
  BY <1>1, <1>2, <1>5, WorksType DEF TypeOK
<1> QED
  BY <1>3, <1>4, <1>5

\* What the tasks of an issue's Workload say is a verdict.
LEMMA TasksOfType ==
    ASSUME TypeOK, NEW i \in Issues
    PROVE  TasksOf(i) \subseteq Verdicts
BY DEF TypeOK, ClusterTypeOK, TasksOf, Verdicts

\* Entering a branch of the retry pass is a move.
LEMMA EnterMoves ==
    ASSUME NEW i \in Issues, NEW v \in Verdicts, NEW p \in Paths, Enter(i, p, v)
    PROVE  Moves
<1>1. FirstStep(p) \in Steps
  BY DEF FirstStep, Steps
<1> QED
  BY <1>1 DEF Enter, Moves

LEMMA BranchPath ==
    ASSUME NEW i \in Issues, NEW v \in Verdicts
    PROVE  Branch(i, v) \in Paths
BY DEF Branch, Paths, ParkPaths

LEMMA RouteMoves ==
    ASSUME NEW i \in Issues, NEW v \in Verdicts, Route(i, v)
    PROVE  Moves
<1>1. (IF v \in {"declared", "demoted"} THEN v ELSE Branch(i, v)) \in Paths
  BY BranchPath DEF Paths, ParkPaths
<1> QED
  BY <1>1, EnterMoves DEF Route

LEMMA CountersType ==
    ASSUME TypeOK, cur \in Issues
    PROVE  /\ NextAttempt \in Nat /\ NextInfra \in Nat
           /\ ItemLane(cur) \in Lanes \cup {NoLane}
BY DEF TypeOK, BridgeTypeOK, NextAttempt, NextInfra, ItemLane

\* Every step of the retry pass keeps the type invariant.
LEMMA RetryType ==
    ASSUME TypeOK, EscalationOn, RetryPass
    PROVE  TypeOK'
<1> USE DEF Moves, Steps, Statuses
<1>cur. ASSUME NEW s, At("retry", s)
        PROVE  cur \in Issues /\ view \in Verdicts
  BY <1>cur DEF At, TypeOK, BridgeTypeOK
<1>1. CASE StartRetry
  <2>1. DispatchTypeOK' /\ ClusterTypeOK'
    BY <1>1 DEF StartRetry, TypeOK, DispatchTypeOK, ClusterTypeOK, NoFault, issueVars, marks,
                workVars
  <2>2. BridgeTypeOK'
    BY <1>1 DEF StartRetry, TypeOK, ClusterTypeOK, BridgeTypeOK, InPhase, Passes, jobVars,
                queueVars, claimVars
  <2> QED
    BY <2>1, <2>2 DEF TypeOK
<1>2. ASSUME NEW i \in Issues, RetrySkipClosed(i)
      PROVE  TypeOK'
  BY <1>2, StepType DEF RetrySkipClosed, Waits
<1>3. ASSUME NEW i \in Issues, RetryPick(i)
      PROVE  TypeOK'
  BY <1>3, StepType, RouteMoves, TasksOfType DEF RetryPick, Waits
<1>4. ASSUME NEW i \in Issues, RetryPickBlind(i)
      PROVE  TypeOK'
  <2>1. Moves
    BY <1>4, RouteMoves, EnterMoves, TasksOfType
       DEF RetryPickBlind, Verdicts, Results, FailedResults, Paths, ParkPaths
  <2>2. Waits
    BY <1>4 DEF RetryPickBlind, Waits, Fault
  <2> QED
    BY <1>4, <2>1, <2>2, StepType DEF RetryPickBlind
<1>5. CASE CheckParked
  BY <1>5, StepType DEF CheckParked, Waits
<1>6. CASE CheckNotParked
  BY <1>6, StepType DEF CheckNotParked, Waits, Fault
<1>7. CASE Relabel
  BY <1>7, <1>cur, StepType DEF Relabel, Asks
<1>8. CASE ParkStatus
  <2>1. ParkFailed => Moves
    BY <1>8, <1>cur, EnterMoves, BranchPath DEF ParkStatus, ParkFailed
  <2>2. Moves
    BY <1>8, <2>1 DEF ParkStatus
  <2>3. Asks
    BY <1>8, <1>cur DEF ParkStatus, Asks, Replies
  <2> QED
    BY <1>8, <2>2, <2>3, StepType DEF ParkStatus
<1>9. CASE ParkLabel
  BY <1>9, <1>cur, StepType DEF ParkLabel, Asks
<1>10. CASE ParkComment
  BY <1>10, <1>cur, StepType DEF ParkComment, Asks
<1>11. CASE Retire
  BY <1>11, <1>cur, StepType DEF Retire, Works
<1>12. CASE EscalateLane \/ EscalateUnclaim
  <2> USE <1>12, <1>cur
  <2>1. EscalateLane => EscLane \in Lanes
    BY DEF EscalationOn, EscalateLane, NoLane
  <2>2. ASSUME NEW reply \in Failures, EscalateFailed(reply)
        PROVE  Moves
    BY <2>2, EnterMoves DEF EscalateFailed, EscalateLane, EscalateUnclaim, Paths, ParkPaths
  <2>3. Moves
    BY <2>2 DEF EscalateLane, EscalateUnclaim
  <2>4. Asks
    BY <2>1 DEF EscalateLane, EscalateUnclaim, Asks, Replies
  <2> QED
    BY <2>3, <2>4, StepType DEF EscalateLane, EscalateUnclaim
<1>13. CASE InfraStatus
  <2>1. Asks
    BY <1>13, <1>cur DEF InfraStatus, Asks, Replies
  <2> QED
    BY <1>13, <2>1, StepType DEF InfraStatus
<1>14. CASE InfraCheck
  BY <1>14, <1>cur, StepType DEF InfraCheck, Waits, Fault, Paths
<1>15. CASE InfraLabels
  <2>1. cur \in Issues /\ shotAttempt[cur] \in Nat
    BY <1>15, <1>cur DEF InfraLabels, TypeOK, BridgeTypeOK
  <2>3. Asks
    BY <1>15, <2>1 DEF InfraLabels, Asks, Replies
  <2>2. Moves
    BY <1>15, <1>cur DEF InfraLabels, Paths
  <2> QED
    BY <1>15, <2>3, <2>2, StepType DEF InfraLabels
<1>16. CASE InfraComment
  BY <1>16, <1>cur, StepType DEF InfraComment, Asks
<1>17. CASE RetryDelete
  BY <1>17, <1>cur, StepType DEF RetryDelete, Works
<1>18. CASE RetryCreate
  <2>1. cur \in Issues /\ runs[cur] + 1 \in Nat
    BY <1>18, <1>cur DEF RetryCreate, TypeOK, ClusterTypeOK
  <2>2. Works
    BY <1>18, <2>1, CountersType DEF RetryCreate, Works
  <2> QED
    BY <1>18, <2>2, StepType DEF RetryCreate
<1> QED
  BY <1>1, <1>2, <1>3, <1>4, <1>5, <1>6, <1>7, <1>8, <1>9, <1>10, <1>11, <1>12, <1>13,
     <1>14, <1>15, <1>16, <1>17, <1>18 DEF RetryPass

\* Every step of the recovery pass keeps the type invariant.
LEMMA RecoverType ==
    ASSUME TypeOK, RecoverLanes, RecoverPass
    PROVE  TypeOK'
<1> USE DEF Moves, Steps, Paths, Verdicts, Statuses
<1>cur. ASSUME NEW s, At("recover", s)
        PROVE  cur \in Issues /\ view \in Verdicts
  BY <1>cur DEF At, TypeOK, BridgeTypeOK
<1>1. CASE StartRecover
  <2>1. DispatchTypeOK' /\ ClusterTypeOK'
    BY <1>1 DEF StartRecover, TypeOK, DispatchTypeOK, ClusterTypeOK, NoFault, Fault, issueVars,
                marks, workVars
  <2>2. BridgeTypeOK'
    BY <1>1 DEF StartRecover, TypeOK, DispatchTypeOK, BridgeTypeOK, Passes, Zero, jobVars,
                queueVars, claimVars
  <2> QED
    BY <2>1, <2>2 DEF TypeOK
<1>2. ASSUME NEW i \in Issues, RecoverHealthy(i)
      PROVE  TypeOK'
  BY <1>2, StepType DEF RecoverHealthy, Waits
<1>3. ASSUME NEW i \in Issues, RecoverUnhealthy(i)
      PROVE  TypeOK'
  <2>1. hands' = hands /\ Waits /\ UNCHANGED workVars
    BY <1>3 DEF RecoverUnhealthy, Waits
  <2>2. DispatchTypeOK' /\ ClusterTypeOK'
    BY <2>1, WaitsType DEF TypeOK, ClusterTypeOK, workVars
  <2>3. PICK n \in tries[i] \cup {0} :
          /\ shotInfra' = [shotInfra EXCEPT ![i] = n]
          /\ IF n + 1 >= RecoveryMax THEN Take(i, "handStatus", "handover", "none")
                                     ELSE Take(i, "uncount", "recount", "none")
    BY <1>3 DEF RecoverUnhealthy
  <2>4. n \in Nat
    BY DEF TypeOK, DispatchTypeOK
  <2>5. BridgeTypeOK'
    BY <1>3, <2>3, <2>4 DEF RecoverUnhealthy, Take, TypeOK, BridgeTypeOK, queueVars, claimVars
  <2> QED
    BY <2>2, <2>5 DEF TypeOK
<1>4. CASE RecoverCreate
  <2>1. cur \in Issues /\ shotLane[cur] \in Lanes
    BY <1>4, <1>cur DEF RecoverCreate, At, RecoverLanes
  <2>2. Works
    BY <1>4, <2>1 DEF RecoverCreate, Works
  <2> QED
    BY <1>4, <2>2, StepType DEF RecoverCreate
<1>5. CASE RecoverResume
  <2>1. Asks
    BY <1>5, <1>cur DEF RecoverResume, Asks, Replies, Failures
  <2>2. Moves
    BY <1>5, <1>cur DEF RecoverResume
  <2> QED
    BY <1>5, <2>1, <2>2, StepType DEF RecoverResume
<1>6. CASE RecoverUnpark
  BY <1>6, <1>cur, StepType DEF RecoverUnpark, Asks
<1>7. CASE RecoverUnmark
  <2>1. Asks
    BY <1>7, <1>cur DEF RecoverUnmark, Asks, Replies
  <2> QED
    BY <1>7, <2>1, StepType DEF RecoverUnmark
<1>8. CASE HandStatus
  <2>1. Asks
    BY <1>8, <1>cur DEF HandStatus, Asks, Replies
  <2> QED
    BY <1>8, <2>1, StepType DEF HandStatus
<1>9. CASE HandLabel
  BY <1>9, <1>cur, StepType DEF HandLabel, Asks
<1>10. CASE HandComment
  BY <1>10, <1>cur, StepType DEF HandComment, Asks
<1>11. CASE RecoverUncount
  <2>1. Asks
    BY <1>11, <1>cur DEF RecoverUncount, Asks, Replies
  <2> QED
    BY <1>11, <2>1, StepType DEF RecoverUncount
<1>12. CASE RecoverCount
  <2>1. cur \in Issues /\ shotInfra[cur] + 1 \in Nat
    BY <1>12, <1>cur DEF RecoverCount, TypeOK, BridgeTypeOK
  <2>2. Asks
    BY <1>12, <2>1 DEF RecoverCount, Asks
  <2> QED
    BY <1>12, <2>2, StepType DEF RecoverCount
<1> QED
  BY <1>1, <1>2, <1>3, <1>4, <1>5, <1>6, <1>7, <1>8, <1>9, <1>10, <1>11, <1>12 DEF RecoverPass

\* A tick that ends leaves its own variables typed.
LEMMA EndTickType ==
    ASSUME EndTick
    PROVE  BridgeTypeOK'
BY DEF EndTick, BridgeTypeOK, Passes, Steps, Paths, Verdicts, Zero, NoLane

\* The number of Workloads in a phase is a natural number.
LEMMA InPhaseFinite ==
    ASSUME NEW p
    PROVE  IsFiniteSet(InPhase(p)) /\ Cardinality(InPhase(p)) \in Nat
<1>1. InPhase(p) \subseteq Issues
  BY DEF InPhase
<1>2. IsFiniteSet(InPhase(p))
  BY <1>1, FS_Subset
<1> QED
  BY <1>2, FS_CardinalityType

\* Every step of the claim pass keeps the type invariant.
LEMMA ClaimType ==
    ASSUME TypeOK, ClaimedInLane, ClaimPass
    PROVE  TypeOK'
<1> USE DEF TypeOK
<1>1. CASE StartClaim
  <2>1. DispatchTypeOK' /\ ClusterTypeOK'
    BY <1>1 DEF StartClaim, DispatchTypeOK, ClusterTypeOK, NoFault, issueVars, marks,
                workVars
  <2>2. inflight' \in Nat
    BY <1>1, InPhaseFinite DEF StartClaim
  <2> QED
    BY <1>1, <2>1, <2>2 DEF StartClaim, BridgeTypeOK, Passes, Zero, jobVars, queueVars, NoLane
<1>2. CASE NextLane
  <2>1. DispatchTypeOK' /\ ClusterTypeOK'
    BY <1>2 DEF NextLane, DispatchTypeOK, ClusterTypeOK, NoFault, issueVars, marks,
                workVars
  <2> QED
    BY <1>2, <2>1 DEF NextLane, Draining, BridgeTypeOK, passVars, jobVars, shotVars, queueVars
<1>3. ASSUME NEW i \in Issues, ClaimCandidate(i)
      PROVE  TypeOK'
  <2>1. \E reply \in Replies : ClaimCall(i, reply)
    BY <1>3 DEF ClaimCandidate, Replies
  <2>2. DispatchTypeOK' /\ ClusterTypeOK'
    BY <1>3, <2>1, DispatchCallType DEF ClaimCandidate, ClusterTypeOK, workVars
  <2> QED
    BY <1>3, <2>2 DEF ClaimCandidate, Take, BridgeTypeOK, Steps, Paths, Verdicts, jobVars,
                      shotVars, queueVars
<1>4. CASE MaterializeWorkload
  <2>1. cur \in Issues /\ laneAt \in Lanes
    BY <1>4 DEF MaterializeWorkload, At, ClaimedInLane, BridgeTypeOK
  <2>2. Works /\ UNCHANGED <<issueVars, hands>>
    BY <1>4, <2>1 DEF MaterializeWorkload, Works
  <2>3. DispatchTypeOK' /\ ClusterTypeOK'
    BY <2>2, WorksType
  <2>4. CASE EndTick
    BY <2>3, <2>4, EndTickType
  <2>5. CASE Done /\ ~EndTick
    <3>1. /\ inflight' = IF MaxInProgress = 0 THEN 0 ELSE inflight + 1
          /\ tried' = {}
          /\ UNCHANGED <<pc, shotVars, queueVars, laneAt, names>>
      BY <1>4, <2>5 DEF MaterializeWorkload
    <3>2. inflight' \in Nat
      BY <3>1 DEF BridgeTypeOK
    <3>3. BridgeTypeOK'
      BY <2>5, <3>1, <3>2 DEF Done, BridgeTypeOK, Steps, Paths, Verdicts, shotVars, queueVars
    <3> QED
      BY <2>3, <3>3
  <2> QED
    BY <1>4, <2>4, <2>5 DEF MaterializeWorkload
<1> QED
  BY <1>1, <1>2, <1>3, <1>4 DEF ClaimPass

\* Every step of the review pass keeps the type invariant.
LEMMA ReviewType ==
    ASSUME TypeOK, ReviewPath, ReviewPass
    PROVE  TypeOK'
<1> USE DEF Moves, Steps
<1>cur. ASSUME NEW s, At("review", s)
        PROVE  cur \in Issues /\ view \in Verdicts
  BY <1>cur DEF At, TypeOK, BridgeTypeOK
<1>1. CASE StartReview
  <2>1. DispatchTypeOK' /\ ClusterTypeOK'
    BY <1>1 DEF StartReview, TypeOK, DispatchTypeOK, ClusterTypeOK, NoFault, issueVars, marks,
                workVars
  <2>2. BridgeTypeOK'
    BY <1>1 DEF StartReview, TypeOK, BridgeTypeOK, InPhase, Passes, Zero, NoLane, jobVars,
                shotVars
  <2> QED
    BY <2>1, <2>2 DEF TypeOK
<1>2. ASSUME NEW i \in Issues, ReviewPick(i)
      PROVE  TypeOK'
  <2>1. ASSUME NEW v
        PROVE  Destination(v) \in Paths
    BY DEF Destination, Paths
  <2>2. Moves
    BY <1>2, <2>1, TasksOfType DEF ReviewPick
  <2> QED
    BY <1>2, <2>2, StepType DEF ReviewPick, Waits
<1>3. CASE ReviewStatus
  <2>1. path \in Statuses
    BY <1>3 DEF ReviewStatus, ReviewPath, Statuses
  <2> QED
    BY <1>3, <1>cur, <2>1, StepType DEF ReviewStatus, Asks
<1>4. CASE ReviewClose
  BY <1>4, <1>cur, StepType DEF ReviewClose, Asks
<1>5. CASE ReviewCheck
  BY <1>5, StepType DEF ReviewCheck, Waits, Fault
<1>6. CASE ReviewPark
  BY <1>6, <1>cur, StepType DEF ReviewPark, Asks, Statuses
<1>7. CASE ReviewLabel
  BY <1>7, <1>cur, StepType DEF ReviewLabel, Asks
<1>8. CASE ReviewComment
  BY <1>8, <1>cur, StepType DEF ReviewComment, Asks
<1> QED
  BY <1>1, <1>2, <1>3, <1>4, <1>5, <1>6, <1>7, <1>8 DEF ReviewPass

\* Every step of the reapers keeps the type invariant.
LEMMA ReconcileType ==
    ASSUME TypeOK, ReconcilePass
    PROVE  TypeOK'
<1> USE DEF Moves, Steps, Paths, Verdicts, Statuses
<1>1. CASE ListNames \/ StartStuck
  <2>1. DispatchTypeOK' /\ ClusterTypeOK'
    BY <1>1 DEF ListNames, StartStuck, TypeOK, DispatchTypeOK, ClusterTypeOK, NoFault, issueVars, marks,
                workVars
  <2>2. BridgeTypeOK'
    BY <1>1 DEF ListNames, StartStuck, Claimed, Existing, TypeOK, BridgeTypeOK, Passes, jobVars,
                shotVars, queueVars, claimVars
  <2> QED
    BY <2>1, <2>2 DEF TypeOK
<1>2. ASSUME NEW i \in Issues, StrandedSkip(i) \/ StuckSkip(i)
      PROVE  TypeOK'
  BY <1>2, StepType DEF StrandedSkip, StuckSkip, Waits
<1>3. ASSUME NEW i \in Issues, StrandedReset(i)
      PROVE  TypeOK'
  BY <1>3, StepType DEF StrandedReset, Asks
<1>4. CASE StrandedUnlabel
  <2>1. cur \in Issues
    BY <1>4 DEF StrandedUnlabel, At, TypeOK, BridgeTypeOK
  <2> QED
    BY <1>4, <2>1, StepType DEF StrandedUnlabel, Asks
<1>5. ASSUME NEW i \in Issues, StuckRelease(i)
      PROVE  TypeOK'
  BY <1>5, StepType DEF StuckRelease, Asks
<1> QED
  BY <1>1, <1>2, <1>3, <1>4, <1>5 DEF ReconcilePass

\* Every step of the prune pass keeps the type invariant.
LEMMA PruneType ==
    ASSUME TypeOK, PrunePass
    PROVE  TypeOK'
<1> USE DEF Moves, Steps, Paths, Verdicts, Statuses
<1>cur. ASSUME NEW s, At("prune", s)
        PROVE  cur \in Issues
  BY <1>cur DEF At, TypeOK, BridgeTypeOK
<1>1. CASE StartPrune
  <2>1. DispatchTypeOK' /\ ClusterTypeOK'
    BY <1>1 DEF StartPrune, TypeOK, DispatchTypeOK, ClusterTypeOK, NoFault, issueVars, marks,
                workVars
  <2>2. BridgeTypeOK'
    BY <1>1 DEF StartPrune, InPhase, TypeOK, BridgeTypeOK, Passes, jobVars, shotVars, queueVars,
                claimVars
  <2> QED
    BY <2>1, <2>2 DEF TypeOK
<1>2. ASSUME NEW i \in Issues, PrunePick(i)
      PROVE  TypeOK'
  <2>1. Works \/ (Waits /\ UNCHANGED workVars)
    BY <1>2 DEF PrunePick, Works, Waits
  <2>2. Moves
    BY <1>2 DEF PrunePick
  <2> QED
    BY <1>2, <2>1, <2>2, StepType DEF PrunePick
<1>3. ASSUME NEW i \in Issues, PruneUnstamped(i)
      PROVE  TypeOK'
  BY <1>3, StepType DEF PruneUnstamped, Waits, Fault
<1>4. CASE PruneDelete
  BY <1>4, <1>cur, StepType DEF PruneDelete, Works
<1>5. CASE PruneCheck
  BY <1>5, StepType DEF PruneCheck, Waits, Fault
<1>6. CASE PruneReset
  BY <1>6, <1>cur, StepType DEF PruneReset, Asks
<1> QED
  BY <1>1, <1>2, <1>3, <1>4, <1>5, <1>6 DEF PrunePass

\* The cluster's own steps and the hands of others keep the type invariant.
LEMMA WorldType ==
    ASSUME TypeOK, NEW i \in Issues, ClusterStep(i) \/ HandStep(i) \/ RemoveStep(i)
    PROVE  TypeOK'
<1> USE DEF TypeOK
<1>1. BridgeTypeOK'
  BY DEF ClusterStep, HandStep, RemoveStep, BridgeTypeOK, bridgeVars, passVars, jobVars, shotVars,
         queueVars, claimVars
<1>2. CASE ClusterStep(i)
  <2>1. DispatchTypeOK'
    BY <1>2 DEF ClusterStep, FinishRun, FinalizeRun, AgeRun, DispatchTypeOK, NoFault, issueVars, marks
  <2>2. CASE FinishRun(i)
    BY <1>1, <2>1, <2>2 DEF FinishRun, ClusterTypeOK, PhaseOf, Phases
  <2>3. CASE FinalizeRun(i)
    BY <1>1, <2>1, <2>3 DEF FinalizeRun, Gone, ClusterTypeOK, Phases
  <2>4. CASE AgeRun(i)
    BY <1>1, <2>1, <2>4 DEF AgeRun, ClusterTypeOK
  <2> QED
    BY <1>1, <1>2, <2>1, <2>2, <2>3, <2>4 DEF ClusterStep
<1>3. CASE HandStep(i)
  <2> USE DEF marks
  <2>1. ClusterTypeOK'
    BY <1>3 DEF HandStep, ClusterTypeOK, workVars
  <2>2. hands' \in 0 .. MaxHands /\ faults' \in 0 .. MaxFaults
    BY <1>3 DEF HandStep, CloseByHand, ReopenByHand, ClosePrByHand, Regroom, Reclassify,
                RivalClaims, Hand, NoFault, DispatchTypeOK
  <2>3. CASE CloseByHand(i) \/ ReopenByHand(i) \/ ClosePrByHand(i)
    BY <1>1, <2>1, <2>2, <2>3 DEF CloseByHand, ReopenByHand, ClosePrByHand, DispatchTypeOK
  <2>4. CASE Regroom(i)
    BY <1>1, <2>1, <2>2, <2>4 DEF Regroom, DispatchTypeOK, Statuses, Owners
  <2>5. CASE Reclassify(i)
    BY <1>1, <2>1, <2>2, <2>5 DEF Reclassify, LaneSet, DispatchTypeOK
  <2>6. CASE RivalClaims(i)
    BY <1>1, <2>1, <2>2, <2>6 DEF RivalClaims, DispatchTypeOK, Statuses, Owners
  <2> QED
    BY <1>1, <1>3, <2>1, <2>3, <2>4, <2>5, <2>6 DEF HandStep
<1>4. CASE RemoveStep(i)
  <2>1. ClusterTypeOK'
    BY <1>4 DEF RemoveStep, RemoveByHand, Gone, ClusterTypeOK, Phases
  <2>2. DispatchTypeOK'
    BY <1>4 DEF RemoveStep, RemoveByHand, Hand, NoFault, DispatchTypeOK, issueVars, marks
  <2> QED
    BY <1>1, <2>1, <2>2
<1> QED
  BY <1>2, <1>3, <1>4

LEMMA TypeStep ==
    ASSUME TypeOK, ControlInv, RecoverLanes, [Next]_vars
    PROVE  TypeOK'
<1> USE DEF ControlInv
<1>1. CASE UNCHANGED vars
  BY <1>1 DEF TypeOK, DispatchTypeOK, ClusterTypeOK, BridgeTypeOK, vars, issueVars, marks, workVars,
              bridgeVars, passVars, jobVars, shotVars, queueVars, claimVars
<1>2. CASE SnapshotQueues
  <2>1. ClusterTypeOK'
    BY <1>2 DEF SnapshotQueues, TypeOK, ClusterTypeOK, workVars
  <2>2. DispatchTypeOK'
    BY <1>2, WaitsType DEF SnapshotQueues, TypeOK, Waits, Fault
  <2>3. BridgeTypeOK'
    BY <1>2 DEF SnapshotQueues, TypeOK, DispatchTypeOK, BridgeTypeOK, Passes, jobVars, shotVars,
                claimVars
  <2> QED
    BY <2>1, <2>2, <2>3 DEF TypeOK
<1>3. CASE FinishTick \/ Crash
  <2>1. ClusterTypeOK'
    BY <1>3 DEF FinishTick, Crash, TypeOK, ClusterTypeOK, workVars
  <2>2. DispatchTypeOK'
    BY <1>3, WaitsType DEF FinishTick, Crash, TypeOK, Waits, Fault
  <2>3. BridgeTypeOK'
    BY <1>3, EndTickType DEF FinishTick, Crash
  <2> QED
    BY <2>1, <2>2, <2>3 DEF TypeOK
<1> QED
  BY <1>1, <1>2, <1>3, RetryType, RecoverType, ClaimType, ReviewType, ReconcileType, PruneType, WorldType
     DEF Next, TickStep

-----------------------------------------------------------------------------
(* Control: what the job in hand may be.                                   *)

\* With nothing in hand there is nothing to show.
LEMMA EmptyControl ==
    ASSUME cur' = NoIssue
    PROVE  ControlInv'
BY DEF ControlInv, HandsEmpty, JobListed, EscalationOn, ClaimedInLane, ReviewPath, RetryInBudget,
       At

\* Nor is there in the passes the invariant does not speak of.
LEMMA OtherControl ==
    ASSUME pc' \in {"recover", "stranded", "stuck", "prune"}
    PROVE  ControlInv'
BY DEF ControlInv, HandsEmpty, JobListed, EscalationOn, ClaimedInLane, ReviewPath, RetryInBudget,
       At

\* Going on with the job, past the steps the invariant constrains.
LEMMA GotoControl ==
    ASSUME ControlInv, pc \in {"retry", "review"}, UNCHANGED <<pc, todo, cur>>,
           step' \notin {"setLane", "delete", "create", "claimed", "reviewStatus"}
    PROVE  ControlInv'
BY DEF ControlInv, HandsEmpty, JobListed, EscalationOn, ClaimedInLane, ReviewPath, RetryInBudget,
       At

\* A branch of the retry pass is entered within its budget, and with a lane to
\* escalate to.
LEMMA EnterControl ==
    ASSUME TypeOK, pc = "retry", UNCHANGED frame, NEW i \in todo, NEW v \in Verdicts,
           NEW p \in ParkPaths \cup {"infra", Branch(i, v)}, Enter(i, p, v)
    PROVE  ControlInv'
<1>0. i \in Issues
  BY DEF TypeOK, BridgeTypeOK
<1>1. pc' = "retry" /\ cur' = i /\ todo' = todo /\ view' = v /\ step' = FirstStep(p)
  BY DEF Enter, Take, frame
<1>2. p = "escalate" => EscLane # NoLane
  BY DEF Branch, CanEscalate, ParkPaths
<1>3. p = "retry" => IF v = "infra" THEN shotInfra[i] < InfraMax ELSE shotAttempt[i] < MaxAttempts
  BY <1>0 DEF Branch, CanEscalate, ParkPaths, TypeOK, BridgeTypeOK
<1>4. step' = "setLane" => p = "escalate"
  BY <1>1 DEF FirstStep
<1>5. step' = "delete" => p = "retry"
  BY <1>1 DEF FirstStep
<1>6. step' \notin {"create", "claimed", "reviewStatus"}
  BY <1>1 DEF FirstStep
<1>7. HandsEmpty' /\ JobListed' /\ EscalationOn' /\ ClaimedInLane' /\ ReviewPath'
  BY <1>1, <1>2, <1>4, <1>6
     DEF HandsEmpty, JobListed, EscalationOn, ClaimedInLane, ReviewPath, At
<1>8. RetryInBudget'
  BY <1>1, <1>3, <1>5, <1>6 DEF RetryInBudget, At, frame, shotVars
<1> QED
  BY <1>7, <1>8 DEF ControlInv

LEMMA RouteControl ==
    ASSUME TypeOK, pc = "retry", UNCHANGED frame, NEW i \in todo, NEW v \in Verdicts, Route(i, v)
    PROVE  ControlInv'
<1> DEFINE p == IF v \in {"declared", "demoted"} THEN v ELSE Branch(i, v)
<1>1. p \in ParkPaths \cup {"infra", Branch(i, v)}
  BY DEF ParkPaths
<1>2. Enter(i, p, v)
  BY DEF Route
<1> QED
  BY <1>1, <1>2, EnterControl

\* Every step of the retry pass keeps ControlInv.
LEMMA RetryControl ==
    ASSUME TypeOK, ControlInv, RetryPass
    PROVE  ControlInv'
<1> USE DEF Done
<1>cur. ASSUME NEW s, At("retry", s)
        PROVE  pc = "retry" /\ cur \in todo /\ view \in Verdicts
  BY <1>cur DEF At, TypeOK, BridgeTypeOK, ControlInv, JobListed
<1>goto. ASSUME NEW s, At("retry", s), UNCHANGED frame,
                NEW t \in Steps \ {"setLane", "delete", "create", "claimed", "reviewStatus"},
                Goto(t)
         PROVE  ControlInv'
  BY <1>goto, GotoControl DEF At, Goto, frame
<1>take. ASSUME NEW s, At("retry", s), UNCHANGED frame, NEW p,
                NEW t \in {"infraLabels", "infraComment"}, Take(cur, t, p, view)
         PROVE  ControlInv'
  BY <1>take, GotoControl DEF At, Take, frame
<1>1. CASE StartRetry
  BY <1>1, EmptyControl DEF StartRetry, ControlInv, HandsEmpty, jobVars
<1>2. ASSUME NEW i \in Issues, RetrySkipClosed(i)
      PROVE  ControlInv'
  BY <1>2, EmptyControl DEF RetrySkipClosed, Picking, Skip, jobVars
<1>3. ASSUME NEW i \in Issues, RetryPick(i)
      PROVE  ControlInv'
  BY <1>3, RouteControl, TasksOfType DEF RetryPick, Picking
<1>4. ASSUME NEW i \in Issues, RetryPickBlind(i)
      PROVE  ControlInv'
  <2>1. (\E v \in Verdicts : Route(i, v)) \/ Enter(i, "declared", "unknown")
    BY <1>4, TasksOfType DEF RetryPickBlind, Verdicts, Results, FailedResults
  <2> QED
    BY <1>4, <2>1, RouteControl, EnterControl DEF RetryPickBlind, Picking, ParkPaths, Verdicts
<1>5. CASE CheckParked
  BY <1>5, <1>goto DEF CheckParked, Steps
<1>6. CASE CheckNotParked
  BY <1>6, <1>goto DEF CheckNotParked, Steps
<1>7. CASE Relabel \/ ParkComment \/ Retire
  BY <1>7, <1>goto, EmptyControl DEF Relabel, ParkComment, Retire, Steps
<1>8. CASE ParkStatus
  <2>1. ASSUME ParkFailed
        PROVE  ControlInv'
    BY <1>8, <1>cur, <1>goto, <2>1, EnterControl, EmptyControl
       DEF ParkStatus, ParkFailed, Steps
  <2> QED
    BY <1>8, <1>goto, <2>1 DEF ParkStatus, Steps
<1>9. CASE ParkLabel
  BY <1>9, <1>goto DEF ParkLabel, Steps
<1>10. CASE EscalateLane \/ EscalateUnclaim
  <2> USE <1>10
  <2>1. ASSUME NEW reply \in Failures, EscalateFailed(reply)
        PROVE  ControlInv'
    BY <1>cur, <2>1, EnterControl, EmptyControl
       DEF EscalateFailed, EscalateLane, EscalateUnclaim, ParkPaths
  <2> QED
    BY <1>goto, <2>1 DEF EscalateLane, EscalateUnclaim, Steps
<1>11. CASE InfraStatus
  BY <1>11, <1>goto, EmptyControl DEF InfraStatus, Steps
<1>12. CASE InfraCheck
  BY <1>12, <1>goto, <1>take DEF InfraCheck, Steps
<1>13. CASE InfraLabels
  BY <1>13, <1>goto, <1>take, EmptyControl DEF InfraLabels, Steps
<1>14. CASE InfraComment
  BY <1>14, <1>goto, EmptyControl DEF InfraComment, Steps
<1>15. CASE RetryDelete
  <2>1. CASE Done
    BY <2>1, EmptyControl
  <2>2. CASE Goto("create")
    BY <1>15, <2>2 DEF RetryDelete, Goto, At, frame, shotVars, ControlInv, HandsEmpty, JobListed,
                       EscalationOn, ClaimedInLane, ReviewPath, RetryInBudget
  <2> QED
    BY <1>15, <2>1, <2>2 DEF RetryDelete
<1>16. CASE RetryCreate
  BY <1>16, EmptyControl DEF RetryCreate
<1> QED
  BY <1>1, <1>2, <1>3, <1>4, <1>5, <1>6, <1>7, <1>8, <1>9, <1>10, <1>11, <1>12, <1>13, <1>14,
     <1>15, <1>16 DEF RetryPass

\* So does every step of the other passes.
LEMMA PassesControl ==
    ASSUME TypeOK, ControlInv, RecoverPass \/ ClaimPass \/ ReviewPass \/ ReconcilePass \/ PrunePass
    PROVE  ControlInv'
<1>1. CASE ClaimPass
  <2>1. CASE StartClaim
    BY <2>1, EmptyControl DEF StartClaim, Drained, Picking, jobVars
  <2>2. CASE NextLane
    BY <2>2, EmptyControl DEF NextLane, Draining, Picking, jobVars
  <2>3. ASSUME NEW i \in Issues, ClaimCandidate(i)
        PROVE  ControlInv'
    <3>1. CASE UNCHANGED jobVars
      BY <2>3, <3>1, EmptyControl DEF ClaimCandidate, Draining, Picking, jobVars
    <3>2. CASE Take(i, "claimed", "claim", "none")
      <4>1. pc' = "claim" /\ step' = "claimed" /\ laneAt' \in Lanes
        BY <2>3, <3>2 DEF ClaimCandidate, Draining, Picking, Take, TypeOK, BridgeTypeOK, Lanes
      <4> QED
        BY <4>1 DEF ControlInv, HandsEmpty, JobListed, EscalationOn, ClaimedInLane, ReviewPath,
                    RetryInBudget, At
    <3> QED
      BY <2>3, <3>1, <3>2 DEF ClaimCandidate
  <2>4. CASE MaterializeWorkload
    BY <2>4, EmptyControl DEF MaterializeWorkload, Done, EndTick
  <2> QED
    BY <1>1, <2>1, <2>2, <2>3, <2>4 DEF ClaimPass
<1>2. CASE ReviewPass
  <2>1. CASE StartReview
    BY <2>1, EmptyControl DEF StartReview, Picking, jobVars
  <2>2. ASSUME NEW i \in Issues, ReviewPick(i)
        PROVE  ControlInv'
    <3>1. PICK v \in TasksOf(i) :
            Take(i, IF v = "gonopr" THEN "reviewCheck" ELSE "reviewStatus", Destination(v), v)
      BY <2>2 DEF ReviewPick
    <3>2. pc' = "review" /\ step' \in {"reviewCheck", "reviewStatus"}
      BY <2>2, <3>1 DEF ReviewPick, Picking, Take, frame
    <3>3. step' = "reviewStatus" => path' \in {"in-review", "done", "blocked"}
      BY <3>1 DEF Take, Destination
    <3> QED
      BY <3>2, <3>3 DEF ControlInv, HandsEmpty, JobListed, EscalationOn, ClaimedInLane, ReviewPath,
                        RetryInBudget, At
  <2>3. CASE ReviewStatus \/ ReviewClose \/ ReviewCheck \/ ReviewPark \/ ReviewLabel
             \/ ReviewComment
    <3>1. pc = "review" /\ UNCHANGED frame
      BY <2>3 DEF ReviewStatus, ReviewClose, ReviewCheck, ReviewPark, ReviewLabel, ReviewComment, At
    <3>2. Done \/ \E s \in {"close", "reviewPark", "reviewLabel", "reviewComment"} : Goto(s)
      BY <2>3 DEF ReviewStatus, ReviewClose, ReviewCheck, ReviewPark, ReviewLabel, ReviewComment
    <3> QED
      BY <3>1, <3>2, EmptyControl, GotoControl DEF Done, Goto, frame
  <2> QED
    BY <1>2, <2>1, <2>2, <2>3 DEF ReviewPass
<1>3. CASE ReconcilePass
  BY <1>3, OtherControl
     DEF ReconcilePass, ListNames, StrandedUnlabel, StartStuck, StrandedSkip, StrandedReset,
         StuckSkip, StuckRelease, Picking, At, frame
<1>4. CASE PrunePass
  BY <1>4, OtherControl
     DEF PrunePass, StartPrune, PrunePick, PruneUnstamped, PruneDelete, PruneCheck, PruneReset,
         Picking, At, frame
<1>5. CASE RecoverPass
  BY <1>5, OtherControl
     DEF RecoverPass, StartRecover, RecoverHealthy, RecoverUnhealthy, RecoverCreate,
         RecoverResume, RecoverUnpark, RecoverUnmark, HandStatus, HandLabel, HandComment,
         RecoverUncount, RecoverCount, Picking, At, frame
<1> QED
  BY <1>1, <1>2, <1>3, <1>4, <1>5

LEMMA ControlStep ==
    ASSUME TypeOK, ControlInv, [Next]_vars
    PROVE  ControlInv'
<1>1. CASE UNCHANGED bridgeVars
  BY <1>1 DEF bridgeVars, passVars, jobVars, shotVars, queueVars, claimVars, ControlInv, HandsEmpty,
              JobListed, EscalationOn, ClaimedInLane, ReviewPath, RetryInBudget, At
<1>2. CASE SnapshotQueues
  BY <1>2, EmptyControl DEF SnapshotQueues, ControlInv, HandsEmpty, jobVars
<1>3. CASE FinishTick \/ Crash
  BY <1>3, EmptyControl DEF FinishTick, Crash, EndTick
<1> QED
  BY <1>1, <1>2, <1>3, RetryControl, PassesControl
     DEF Next, TickStep, ClusterStep, HandStep, RemoveStep, vars

-----------------------------------------------------------------------------
(* Data: the counters and the lane of the Workloads.                       *)

\* No Workload appears, and those that stay keep counters and lane.
Keeps ==
    /\ runs' = runs
    /\ \A i \in Issues :
        /\ attempt'[i] \in {0, attempt[i]} /\ infra'[i] \in {0, infra[i]}
        /\ phase'[i] # "none" => /\ phase[i] # "none"
                                 /\ attempt'[i] = attempt[i] /\ infra'[i] = infra[i]
                                 /\ wlane'[i] = wlane[i]
        /\ phase'[i] = "Active" => phase[i] = "Active"
        /\ phase'[i] \in {phase[i], "none"} \/ phase[i] = "Active"

LEMMA WorkKeeps ==
    ASSUME TypeOK, NEW i \in Issues, NEW ok \in BOOLEAN,
           \/ DeleteCall(i, ok) \/ Stamped(i) \/ FinishRun(i) \/ FinalizeRun(i) \/ AgeRun(i)
           \/ RemoveByHand(i) \/ UNCHANGED workVars
    PROVE  Keeps
<1> USE DEF TypeOK, ClusterTypeOK, Keeps
<1>1. CASE UNCHANGED workVars
  BY <1>1 DEF workVars
<1>2. CASE Gone(i)
  BY <1>2 DEF Gone
<1>3. CASE Terminating(i) \/ Stamped(i) \/ AgeRun(i)
  BY <1>3 DEF Terminating, Stamped, AgeRun
<1>4. CASE FinishRun(i)
  BY <1>4 DEF FinishRun, PhaseOf
<1> QED
  BY <1>1, <1>2, <1>3, <1>4 DEF DeleteCall, WorkCall, FinalizeRun, RemoveByHand

LEMMA KeepsData ==
    ASSUME TypeOK, DataInv, Keeps,
           pc' = "retry" => pc = "retry" /\ todo' \subseteq todo /\ UNCHANGED shotVars
    PROVE  DataInv'
<1>1. BudgetOK'
  BY DEF DataInv, BudgetOK, Keeps, TypeOK, ClusterTypeOK
<1>2. RunsCharged' /\ LaneKept'
  BY DEF DataInv, RunsCharged, LaneKept, Keeps, shotVars
<1>3. ShotSound'
  BY DEF DataInv, ShotSound, Keeps, shotVars
<1> QED
  BY <1>1, <1>2, <1>3 DEF DataInv

\* The listing of the retry pass starts out sound.
LEMMA StartRetryData ==
    ASSUME TypeOK, DataInv, StartRetry
    PROVE  DataInv'
<1>1. Keeps
  BY DEF StartRetry, workVars, Keeps
<1>2. BudgetOK'
  BY <1>1 DEF DataInv, BudgetOK, Keeps, TypeOK, ClusterTypeOK
<1>3. RunsCharged' /\ LaneKept'
  BY <1>1 DEF StartRetry, DataInv, RunsCharged, LaneKept, InPhase, Keeps
<1>4. ShotSound'
  BY <1>1 DEF StartRetry, DataInv, BudgetOK, LaneKept, ShotSound, InPhase, Keeps
<1> QED
  BY <1>2, <1>3, <1>4 DEF DataInv

\* A create charges the run to one of the two budgets, or finds the name taken.
LEMMA CreateData ==
    ASSUME TypeOK, DataInv, NEW i \in Issues, NEW l \in Lanes, NEW a \in Nat, NEW f \in Nat,
           NEW r \in Nat, NEW ok \in BOOLEAN, CreateCall(i, l, a, f, r, ok),
           a <= MaxAttempts, f <= InfraMax, r + 1 = a + f,
           pc' = "retry" => /\ pc = "retry" /\ i \notin todo' /\ todo' \subseteq todo
                            /\ UNCHANGED shotVars
    PROVE  DataInv'
<1>1. CASE UNCHANGED workVars
  BY <1>1, WorkKeeps, KeepsData
<1>2. CASE Created(i, l, a, f, r) /\ ~UNCHANGED workVars
  <2>1. /\ attempt' = [attempt EXCEPT ![i] = a] /\ infra' = [infra EXCEPT ![i] = f]
        /\ wlane' = [wlane EXCEPT ![i] = l] /\ runs' = [runs EXCEPT ![i] = r]
        /\ phase' = [phase EXCEPT ![i] = "Active"]
    BY <1>2 DEF Created
  <2>2. BudgetOK'
    BY <2>1 DEF DataInv, BudgetOK, TypeOK, ClusterTypeOK
  <2>3. RunsCharged' /\ LaneKept'
    BY <2>1 DEF DataInv, RunsCharged, LaneKept, TypeOK, ClusterTypeOK, BridgeTypeOK, shotVars
  <2>4. ShotSound'
    BY <2>1 DEF DataInv, ShotSound, TypeOK, ClusterTypeOK, BridgeTypeOK, shotVars
  <2> QED
    BY <2>2, <2>3, <2>4 DEF DataInv
<1> QED
  BY <1>1, <1>2 DEF CreateCall, WorkCall

\* The listing of the retry pass only gets shorter once it is made.
LEMMA RetryListing ==
    ASSUME RetryPass, ~StartRetry
    PROVE  pc = "retry" /\ todo' \subseteq todo
<1> USE DEF Done, Goto, Take, Skip, Enter
<1>1. pc = "retry"
  BY DEF RetryPass, RetrySkipClosed, RetryPick, RetryPickBlind, CheckParked, CheckNotParked,
         Relabel, ParkStatus, ParkLabel, ParkComment, Retire, EscalateLane, EscalateUnclaim,
         InfraStatus, InfraCheck, InfraLabels, InfraComment, RetryDelete, RetryCreate, At, Picking
<1>2. CASE \E i \in Issues : RetrySkipClosed(i) \/ RetryPick(i) \/ RetryPickBlind(i)
  BY <1>1, <1>2 DEF RetrySkipClosed, RetryPick, RetryPickBlind, Route
<1>3. CASE \/ CheckParked \/ CheckNotParked \/ Relabel \/ ParkStatus \/ ParkLabel
           \/ ParkComment \/ Retire
  BY <1>1, <1>3 DEF CheckParked, CheckNotParked, Relabel, ParkStatus, ParkFailed, ParkLabel,
                    ParkComment, Retire
<1>4. CASE EscalateLane \/ EscalateUnclaim \/ RetryDelete \/ RetryCreate
  BY <1>1, <1>4 DEF EscalateLane, EscalateUnclaim, EscalateFailed, RetryDelete, RetryCreate
<1>5. CASE InfraStatus \/ InfraCheck \/ InfraLabels \/ InfraComment
  BY <1>1, <1>5 DEF InfraStatus, InfraCheck, InfraLabels, InfraComment
<1> QED
  BY <1>1, <1>2, <1>3, <1>4, <1>5 DEF RetryPass

LEMMA RetryData ==
    ASSUME TypeOK, ControlInv, DataInv, RetryPass
    PROVE  DataInv'
<1>1. CASE StartRetry
  BY <1>1, StartRetryData
<1>2. CASE RetryCreate
  <2>1. pc = "retry" /\ cur \in todo /\ cur \in Issues
    BY <1>2 DEF RetryCreate, At, TypeOK, BridgeTypeOK, ControlInv, JobListed
  <2>2. todo' = todo \ {cur} /\ UNCHANGED shotVars
    BY <1>2 DEF RetryCreate, Done, frame, shotVars
  <2>3. IF view = "infra" THEN shotInfra[cur] < InfraMax ELSE shotAttempt[cur] < MaxAttempts
    BY <1>2 DEF RetryCreate, ControlInv, RetryInBudget
  <2>4. /\ shotAttempt[cur] <= MaxAttempts /\ shotInfra[cur] <= InfraMax
        /\ runs[cur] + 1 = shotAttempt[cur] + shotInfra[cur]
        /\ shotLane[cur] \in Lanes
    BY <2>1 DEF DataInv, RunsCharged, ShotSound
  <2>5. /\ NextAttempt \in Nat /\ NextInfra \in Nat /\ runs[cur] + 1 \in Nat
        /\ NextAttempt <= MaxAttempts /\ NextInfra <= InfraMax
        /\ (runs[cur] + 1) + 1 = NextAttempt + NextInfra
    BY <2>1, <2>3, <2>4 DEF NextAttempt, NextInfra, TypeOK, BridgeTypeOK, ClusterTypeOK
  <2>6. ItemLane(cur) \in Lanes
    BY <2>1, <2>4 DEF ItemLane, TypeOK, BridgeTypeOK
  <2> QED
    BY <1>2, <2>1, <2>2, <2>5, <2>6, CreateData DEF RetryCreate
<1>3. CASE Retire \/ RetryDelete
  <2>1. cur \in Issues /\ pc = "retry"
    BY <1>3 DEF Retire, RetryDelete, At, TypeOK, BridgeTypeOK
  <2>2. Keeps
    BY <1>3, <2>1, WorkKeeps DEF Retire, RetryDelete
  <2>3. todo' \subseteq todo /\ UNCHANGED shotVars
    BY <1>3 DEF Retire, RetryDelete, Done, Goto, frame, shotVars
  <2> QED
    BY <2>1, <2>2, <2>3, KeepsData
<1>4. CASE ~(StartRetry \/ RetryCreate \/ Retire \/ RetryDelete)
  <2>1. pc = "retry" /\ UNCHANGED <<workVars, frame>>
    BY <1>4 DEF RetryPass, RetrySkipClosed, RetryPick, RetryPickBlind, CheckParked,
                CheckNotParked, Relabel, ParkStatus, ParkLabel, ParkComment, EscalateLane,
                EscalateUnclaim, InfraStatus, InfraCheck, InfraLabels, InfraComment, At, Picking
  <2>2. todo' \subseteq todo
    BY <1>4, RetryListing
  <2>3. Keeps
    BY <2>1 DEF workVars, Keeps
  <2> QED
    BY <2>1, <2>2, <2>3, KeepsData DEF frame, shotVars
<1> QED
  BY <1>1, <1>2, <1>3, <1>4

\* A redrive starts the issue's run count anew, in its current lane.
LEMMA RecoverData ==
    ASSUME TypeOK, DataInv, RecoverLanes, RecoverPass
    PROVE  DataInv'
<1>1. CASE RecoverCreate
  <2>1. cur \in Issues /\ shotLane[cur] \in Lanes /\ pc' # "retry"
    BY <1>1 DEF RecoverCreate, At, frame, TypeOK, BridgeTypeOK, RecoverLanes
  <2>2. \E ok \in BOOLEAN : CreateCall(cur, shotLane[cur], 1, 1, 1, ok)
    BY <1>1 DEF RecoverCreate
  <2> QED
    BY <2>1, <2>2, CreateData
<1>2. CASE RecoverPass /\ ~RecoverCreate
  <2>1. pc' # "retry" /\ UNCHANGED workVars
    BY <1>2 DEF RecoverPass, StartRecover, RecoverHealthy, RecoverUnhealthy, RecoverResume,
                RecoverUnpark, RecoverUnmark, HandStatus, HandLabel, HandComment,
                RecoverUncount, RecoverCount, Picking, At, frame
  <2> QED
    BY <2>1, KeepsData DEF workVars, Keeps
<1> QED
  BY <1>1, <1>2

LEMMA ClaimData ==
    ASSUME TypeOK, ControlInv, DataInv, ClaimPass
    PROVE  DataInv'
<1>1. CASE MaterializeWorkload
  <2>1. cur \in Issues /\ laneAt \in Lanes /\ pc' # "retry"
    BY <1>1 DEF MaterializeWorkload, At, TypeOK, BridgeTypeOK, ControlInv, ClaimedInLane, EndTick
  <2>2. \E ok \in BOOLEAN : CreateCall(cur, laneAt, 1, 1, 1, ok)
    BY <1>1 DEF MaterializeWorkload
  <2> QED
    BY <2>1, <2>2, CreateData
<1>2. CASE StartClaim \/ NextLane \/ \E i \in Issues : ClaimCandidate(i)
  <2>1. pc' = "claim" /\ UNCHANGED workVars
    BY <1>2 DEF StartClaim, NextLane, ClaimCandidate, Draining, Picking, passVars
  <2>2. Keeps
    BY <2>1 DEF workVars, Keeps
  <2> QED
    BY <2>1, <2>2, KeepsData
<1> QED
  BY <1>1, <1>2 DEF ClaimPass

LEMMA OtherData ==
    ASSUME TypeOK, DataInv, ReviewPass \/ ReconcilePass \/ PrunePass
    PROVE  DataInv'
<1>1. CASE ReviewPass
  <2>1. pc' # "retry" /\ UNCHANGED workVars
    BY <1>1 DEF ReviewPass, StartReview, ReviewPick, ReviewStatus, ReviewClose, ReviewCheck,
                ReviewPark, ReviewLabel, ReviewComment, Picking, At, frame
  <2> QED
    BY <2>1, KeepsData DEF workVars, Keeps
<1>2. CASE ReconcilePass
  <2>1. pc' # "retry" /\ UNCHANGED workVars
    BY <1>2 DEF ReconcilePass, ListNames, StrandedUnlabel, StartStuck, StrandedSkip,
                StrandedReset, StuckSkip, StuckRelease, Picking, At, frame
  <2> QED
    BY <2>1, KeepsData DEF workVars, Keeps
<1>3. CASE PrunePass
  <2>1. pc' = "prune"
    BY <1>3 DEF PrunePass, StartPrune, PrunePick, PruneUnstamped, PruneDelete, PruneCheck,
                PruneReset, Picking, At, frame
  <2>2. UNCHANGED workVars \/ \E i \in Issues : Stamped(i) \/ \E ok \in BOOLEAN : DeleteCall(i, ok)
    <3>1. CASE PruneDelete
      BY <3>1 DEF PruneDelete, At, TypeOK, BridgeTypeOK
    <3>2. CASE ~PruneDelete
      BY <1>3, <3>2 DEF PrunePass, StartPrune, PrunePick, PruneUnstamped, PruneCheck, PruneReset
    <3> QED
      BY <3>1, <3>2
  <2>3. Keeps
    <3>1. CASE UNCHANGED workVars
      BY <3>1 DEF workVars, Keeps
    <3> QED
      BY <2>2, <3>1, WorkKeeps
  <2> QED
    BY <2>1, <2>3, KeepsData
<1> QED
  BY <1>1, <1>2, <1>3

LEMMA DataStep ==
    ASSUME TypeOK, ControlInv, DataInv, RecoverLanes, [Next]_vars
    PROVE  DataInv'
<1>1. CASE UNCHANGED <<workVars, bridgeVars>>
  BY <1>1, KeepsData DEF workVars, Keeps, bridgeVars, passVars, shotVars
<1>2. CASE SnapshotQueues \/ FinishTick \/ Crash
  <2>1. pc' # "retry" /\ UNCHANGED workVars
    BY <1>2 DEF SnapshotQueues, FinishTick, Crash, EndTick
  <2> QED
    BY <2>1, KeepsData DEF workVars, Keeps
<1>3. ASSUME NEW i \in Issues, ClusterStep(i) \/ HandStep(i) \/ RemoveStep(i)
      PROVE  DataInv'
  <2>1. Keeps
    BY <1>3, WorkKeeps DEF ClusterStep, HandStep, RemoveStep
  <2>2. UNCHANGED <<pc, todo, shotVars>>
    BY <1>3 DEF ClusterStep, HandStep, RemoveStep, bridgeVars, passVars, shotVars
  <2> QED
    BY <2>1, <2>2, KeepsData
<1> QED
  BY <1>1, <1>2, <1>3, RetryData, RecoverData, ClaimData, OtherData DEF Next, TickStep, vars

\* Which pass a step belongs to.
LEMMA PassSteps ==
    /\ RetryPass => pc \in {"snap", "retry"} /\ pc' = "retry"
    /\ RecoverPass => pc \in {"retry", "recover"} /\ pc' = "recover"
    /\ ClaimPass => (pc = "claim" \/ StartClaim) /\ pc' \in {"claim", "idle"}
    /\ ReviewPass => pc' = "review"
    /\ ReconcilePass => pc \notin {"claim"} /\ pc' \in {"stranded", "stuck"}
    /\ PrunePass => pc \notin {"claim"} /\ pc' = "prune"
<1> USE DEF Drained, Picking, At, frame
<1>1. RetryPass => pc \in {"snap", "retry"} /\ pc' = "retry"
  BY DEF RetryPass, StartRetry, RetrySkipClosed, RetryPick, RetryPickBlind, CheckParked,
         CheckNotParked, Relabel, ParkStatus, ParkLabel, ParkComment, Retire, EscalateLane,
         EscalateUnclaim, InfraStatus, InfraCheck, InfraLabels, InfraComment, RetryDelete,
         RetryCreate
<1>2. ClaimPass => (pc = "claim" \/ StartClaim) /\ pc' \in {"claim", "idle"}
  BY DEF ClaimPass, StartClaim, NextLane, MaterializeWorkload, ClaimCandidate, Draining, EndTick,
         passVars
<1>3. ReviewPass => pc' = "review"
  BY DEF ReviewPass, StartReview, ReviewPick, ReviewStatus, ReviewClose, ReviewCheck, ReviewPark,
         ReviewLabel, ReviewComment
<1>4. ReconcilePass => pc \notin {"claim"} /\ pc' \in {"stranded", "stuck"}
  BY DEF ReconcilePass, ListNames, StrandedUnlabel, StartStuck, StrandedSkip, StrandedReset,
         StuckSkip, StuckRelease
<1>5. PrunePass => pc \notin {"claim"} /\ pc' = "prune"
  BY DEF PrunePass, StartPrune, PrunePick, PruneUnstamped, PruneDelete, PruneCheck, PruneReset
<1>6. RecoverPass => pc \in {"retry", "recover"} /\ pc' = "recover"
  BY DEF RecoverPass, StartRecover, RecoverHealthy, RecoverUnhealthy, RecoverCreate,
         RecoverResume, RecoverUnpark, RecoverUnmark, HandStatus, HandLabel, HandComment,
         RecoverUncount, RecoverCount
<1> QED
  BY <1>1, <1>2, <1>3, <1>4, <1>5, <1>6

\* The lanes of the recovery pass are those of its listing.
LEMMA RecoverLanesStep ==
    ASSUME TypeOK, RecoverLanes, [Next]_vars
    PROVE  RecoverLanes'
<1>1. CASE StartRecover
  BY <1>1 DEF StartRecover, RecoverLanes, TypeOK, DispatchTypeOK
<1>2. CASE RecoverPass /\ ~StartRecover
  <2>1. pc = "recover" /\ UNCHANGED shotLane
    BY <1>2 DEF RecoverPass, RecoverHealthy, RecoverUnhealthy, RecoverCreate, RecoverResume,
                RecoverUnpark, RecoverUnmark, HandStatus, HandLabel, HandComment,
                RecoverUncount, RecoverCount, Picking, At, frame, shotVars
  <2> QED
    BY <2>1 DEF RecoverLanes
<1>3. CASE SnapshotQueues \/ FinishTick \/ Crash
  BY <1>3 DEF SnapshotQueues, FinishTick, Crash, EndTick, RecoverLanes
<1>4. CASE UNCHANGED bridgeVars
  BY <1>4 DEF RecoverLanes, bridgeVars, passVars, shotVars
<1> QED
  BY <1>1, <1>2, <1>3, <1>4, PassSteps
     DEF Next, TickStep, ClusterStep, HandStep, RemoveStep, vars, RecoverLanes

-----------------------------------------------------------------------------
(* Theorems.                                                               *)

LEMMA InitInv == Init => IInv
<1> SUFFICES ASSUME Init PROVE IInv
  OBVIOUS
<1>1. TypeOK
  BY DEF Init, DispatchInit, ClusterInit, BridgeInit, TypeOK, DispatchTypeOK, ClusterTypeOK,
         BridgeTypeOK, Statuses, Owners, Markers, Phases, Passes, Steps, Paths, Verdicts, Zero, NoLane
<1>2. ControlInv
  BY DEF Init, BridgeInit, ControlInv, HandsEmpty, JobListed, EscalationOn, ClaimedInLane,
         ReviewPath, RetryInBudget, At
<1>3. DataInv
  BY DEF Init, ClusterInit, BridgeInit, DataInv, BudgetOK, RunsCharged, LaneKept, ShotSound
<1>4. RecoverLanes
  BY DEF Init, BridgeInit, RecoverLanes
<1> QED
  BY <1>1, <1>2, <1>3, <1>4 DEF IInv

\* The inductive invariant holds throughout: a step of any pass, of the cluster or of
\* a person preserves it.
THEOREM Inductive == Spec => []IInv
<1>1. IInv /\ [Next]_vars => IInv'
  BY TypeStep, ControlStep, DataStep, RecoverLanesStep DEF IInv
<1> QED
  BY InitInv, <1>1, PTL DEF Spec

\* Every variable keeps its type, on every board and under every fault.
THEOREM TypeCorrect == Spec => []TypeOK
<1>1. IInv => TypeOK
  BY DEF IInv
<1> QED
  BY <1>1, Inductive, PTL

\* No Workload's counters exceed RETRY_MAX_ATTEMPTS and INFRA_MAX_ATTEMPTS.
THEOREM BudgetsRespected == Spec => []BudgetOK
<1>1. IInv => BudgetOK
  BY DEF IInv, DataInv
<1> QED
  BY <1>1, Inductive, PTL

\* The two counters account for every coder run since the issue was last claimed.
THEOREM ChargesExact == Spec => []RunsCharged
<1>1. IInv => RunsCharged
  BY DEF IInv, DataInv
<1> QED
  BY <1>1, Inductive, PTL

\* No retry loses the lane its Workload is routed by.
THEOREM LanesKept == Spec => []LaneKept
<1>1. IInv => LaneKept
  BY DEF IInv, DataInv
<1> QED
  BY <1>1, Inductive, PTL

-----------------------------------------------------------------------------
(* The cap on running Workloads.                                           *)

\* While the lanes are drained, run_once's tally bounds the running Workloads from
\* above, and a claim is only held when the tally leaves room for it.
CapInv ==
    pc = "claim" /\ MaxInProgress > 0 =>
        /\ Cardinality(InPhase("Active")) <= inflight
        /\ cur # NoIssue => inflight < MaxInProgress

\* Without a create, the running Workloads only become fewer.
LEMMA KeepsFewer ==
    ASSUME Keeps
    PROVE  Cardinality(InPhase("Active"))' <= Cardinality(InPhase("Active"))
<1>1. InPhase("Active")' \subseteq InPhase("Active")
  BY DEF Keeps, InPhase
<1> QED
  BY <1>1, InPhaseFinite, FS_Subset

\* A create adds one at most.
LEMMA CreateOneMore ==
    ASSUME TypeOK, NEW i \in Issues, NEW l, NEW a, NEW f, NEW r, NEW ok, CreateCall(i, l, a, f, r, ok)
    PROVE  /\ Cardinality(InPhase("Active"))' <= Cardinality(InPhase("Active")) + 1
           /\ Cardinality(InPhase("Active"))' \in Nat
<1>1. InPhase("Active")' \subseteq InPhase("Active") \cup {i}
  BY DEF CreateCall, WorkCall, Created, InPhase, workVars, TypeOK, ClusterTypeOK
<1>2. /\ IsFiniteSet(InPhase("Active") \cup {i})
      /\ Cardinality(InPhase("Active") \cup {i}) <= Cardinality(InPhase("Active")) + 1
  <2> DEFINE A == InPhase("Active")
  <2>1. IsFiniteSet(A) /\ Cardinality(A) \in Nat
    BY InPhaseFinite
  <2> HIDE DEF A
  <2>2. /\ IsFiniteSet(A \cup {i})
        /\ Cardinality(A \cup {i}) = IF i \in A THEN Cardinality(A) ELSE Cardinality(A) + 1
    BY <2>1, FS_AddElement
  <2>3. IsFiniteSet(A \cup {i}) /\ Cardinality(A \cup {i}) <= Cardinality(A) + 1
    BY <2>1, <2>2
  <2> QED
    BY <2>3 DEF A
<1>3. /\ IsFiniteSet(InPhase("Active")')
      /\ Cardinality(InPhase("Active")') <= Cardinality(InPhase("Active") \cup {i})
  BY <1>1, <1>2, FS_Subset
<1>4. /\ Cardinality(InPhase("Active")) \in Nat
      /\ Cardinality(InPhase("Active") \cup {i}) \in Nat
      /\ Cardinality(InPhase("Active")') \in Nat
  BY <1>2, <1>3, InPhaseFinite, FS_CardinalityType
<1> QED
  BY <1>2, <1>3, <1>4

\* Outside the create of a claim, a step that starts from the claim pass starts no run.
LEMMA ClaimPassKeeps ==
    ASSUME TypeOK, pc = "claim", [Next]_vars, ~MaterializeWorkload
    PROVE  Keeps
<1>1. CASE UNCHANGED workVars
  BY <1>1 DEF workVars, Keeps
<1>2. ASSUME NEW i \in Issues, ClusterStep(i) \/ HandStep(i) \/ RemoveStep(i)
      PROVE  Keeps
  BY <1>1, <1>2, WorkKeeps DEF ClusterStep, HandStep, RemoveStep
<1>3. CASE ClaimPass \/ ReviewPass
  <2>1. UNCHANGED workVars
    BY <1>3 DEF ClaimPass, StartClaim, NextLane, ClaimCandidate, ReviewPass, StartReview,
                ReviewPick, ReviewStatus, ReviewClose, ReviewCheck, ReviewPark, ReviewLabel,
                ReviewComment
  <2> QED
    BY <1>1, <2>1
<1>4. CASE SnapshotQueues \/ FinishTick \/ Crash
  BY <1>1, <1>4 DEF SnapshotQueues, FinishTick, Crash
<1> QED
  BY <1>1, <1>2, <1>3, <1>4, PassSteps DEF Next, TickStep, vars

LEMMA CapStep ==
    ASSUME TypeOK, CapInv, [Next]_vars
    PROVE  CapInv'
<1> SUFFICES ASSUME pc' = "claim", MaxInProgress > 0
             PROVE  /\ Cardinality(InPhase("Active"))' <= inflight'
                    /\ cur' # NoIssue => inflight' < MaxInProgress
  BY DEF CapInv
<1> DEFINE running == Cardinality(InPhase("Active"))
<1>0. running \in Nat /\ running' \in Nat /\ inflight \in Nat /\ MaxInProgress \in Nat
  <2>1. running' \in Nat
    <3>1. InPhase("Active")' \subseteq Issues
      BY DEF InPhase
    <3> QED
      BY <3>1, FS_Subset, FS_CardinalityType
  <2> QED
    BY <2>1, InPhaseFinite DEF TypeOK, BridgeTypeOK
<1>1. CASE StartClaim
  <2>1. running' = running
    BY <1>1 DEF StartClaim, InPhase, workVars
  <2> QED
    BY <1>0, <1>1, <2>1 DEF StartClaim, Drained, Picking, jobVars
<1>2. CASE pc # "claim" /\ ~StartClaim
  <2>1. ~(SnapshotQueues \/ FinishTick \/ Crash)
    BY DEF SnapshotQueues, FinishTick, Crash, EndTick
  <2>2. ~UNCHANGED pc
    BY <1>2
  <2> QED
    BY <1>2, <2>1, <2>2, PassSteps
       DEF Next, TickStep, ClusterStep, HandStep, RemoveStep, vars, bridgeVars, passVars
<1>3. CASE pc = "claim" /\ MaterializeWorkload
  <2>1. cur \in Issues /\ cur # NoIssue
    BY <1>3 DEF MaterializeWorkload, At, TypeOK, BridgeTypeOK
  <2>2. running' <= running + 1
    BY <1>3, <2>1, CreateOneMore DEF MaterializeWorkload
  <2>3. inflight' = inflight + 1 /\ cur' = NoIssue
    BY <1>3 DEF MaterializeWorkload, EndTick, Done
  <2> QED
    BY <1>0, <1>3, <2>2, <2>3 DEF CapInv
<1>4. CASE pc = "claim" /\ ~MaterializeWorkload
  <2>1. running' <= running
    BY <1>4, ClaimPassKeeps, KeepsFewer
  <2>2. CASE UNCHANGED <<inflight, cur>>
    BY <1>0, <1>4, <2>1, <2>2 DEF CapInv
  <2>3. CASE \E i \in Issues : ClaimCandidate(i)
    <3>1. inflight' = inflight /\ inflight < MaxInProgress
      BY <1>0, <2>3 DEF ClaimCandidate, Capped
    <3> QED
      BY <1>0, <1>4, <2>1, <3>1 DEF CapInv
  <2>4. CASE ~(\E i \in Issues : ClaimCandidate(i)) /\ ~UNCHANGED <<inflight, cur>>
    <3>1. ~(SnapshotQueues \/ FinishTick \/ Crash)
      BY DEF SnapshotQueues, FinishTick, Crash, EndTick
    <3>2. ~NextLane
      BY <2>4 DEF NextLane, jobVars
    <3>3. ~StartClaim
      BY <1>4 DEF StartClaim, Drained, Picking
    <3> QED
      BY <1>4, <2>4, <3>1, <3>2, <3>3, PassSteps
         DEF Next, TickStep, ClaimPass, ClusterStep, HandStep, RemoveStep, vars, bridgeVars,
             jobVars, claimVars
  <2> QED
    BY <2>2, <2>3, <2>4
<1> QED
  BY <1>1, <1>2, <1>3, <1>4

\* Claiming never takes the running Workloads past MAX_IN_PROGRESS, however many
\* issues and lanes there are.
THEOREM CapHolds == Spec => CapRespected
<1>1. Init => CapInv
  BY DEF Init, BridgeInit, CapInv
<1>2. IInv /\ CapInv /\ [Next]_vars => CapInv'
  BY CapStep DEF IInv
<1>3. ASSUME IInv, CapInv, [Next]_vars, NEW i \in Issues,
             MaxInProgress > 0, pc = "claim", phase[i] # "Active", phase'[i] = "Active"
      PROVE  Cardinality(InPhase("Active"))' <= MaxInProgress
  <2>1. MaterializeWorkload
    BY <1>3, ClaimPassKeeps DEF IInv, Keeps
  <2>2. cur \in Issues /\ cur # NoIssue
    BY <1>3, <2>1 DEF MaterializeWorkload, At, IInv, TypeOK, BridgeTypeOK
  <2>3. /\ Cardinality(InPhase("Active"))' <= Cardinality(InPhase("Active")) + 1
        /\ Cardinality(InPhase("Active"))' \in Nat
    BY <1>3, <2>1, <2>2, CreateOneMore DEF MaterializeWorkload, IInv
  <2>4. Cardinality(InPhase("Active")) <= inflight /\ inflight < MaxInProgress
    BY <1>3, <2>2 DEF CapInv
  <2>5. inflight \in Nat /\ MaxInProgress \in Nat /\ Cardinality(InPhase("Active")) \in Nat
    BY <1>3, InPhaseFinite DEF IInv, TypeOK, BridgeTypeOK
  <2> QED
    BY <2>3, <2>4, <2>5
<1>4. IInv /\ CapInv /\ [Next]_vars =>
        [\A i \in Issues :
            MaxInProgress > 0 /\ pc = "claim" /\ phase[i] # "Active" /\ phase'[i] = "Active"
            => Cardinality(InPhase("Active"))' <= MaxInProgress]_vars
  BY <1>3
<1> QED
  BY <1>1, <1>2, <1>4, Inductive, PTL DEF Spec, CapRespected

-----------------------------------------------------------------------------
(* The refinement of RunBudget.                                            *)

\* What the retry pass has listed has failed, or is gone since.
RetryListed == pc = "retry" => \A i \in todo : phase[i] \in {"Failed", "none"}

\* Workloads only go, or stay as they are.
Drops == runs' = runs /\ \A i \in Issues : phase'[i] \in {phase[i], "none"}

\* The listing of the retry pass only gets shorter, except when it is made.
Shortens ==
    pc' = "retry" => \/ pc = "retry" /\ todo' \subseteq todo
                     \/ StartRetry

\* Where nothing ends and nothing starts, runs are settled or nothing happens.
LEMMA DropsForget ==
    ASSUME TypeOK, RetryListed, Drops, Shortens
    PROVE  \E S \in SUBSET Issues : Promise!Forget(S)
<1> DEFINE S == {i \in Issues : LastRun(i)' # LastRun(i)}
<1>1. ASSUME NEW i \in Issues
      PROVE  LastRun(i)' \in {LastRun(i), "idle"}
  <2>0. phase[i] \in Phases /\ phase'[i] \in {phase[i], "none"}
    BY DEF TypeOK, ClusterTypeOK, Drops
  <2>1. CASE phase'[i] # "none"
    BY <2>0, <2>1 DEF LastRun, Phases
  <2>2. CASE phase'[i] = "none" /\ pc' = "retry" /\ i \in todo'
    <3>1. pc = "retry" /\ i \in todo
      BY <2>2 DEF Shortens, StartRetry, InPhase, workVars
    <3>2. phase[i] \in {"Failed", "none"}
      BY <3>1 DEF RetryListed
    <3> QED
      BY <2>2, <3>1, <3>2 DEF LastRun
  <2>3. CASE phase'[i] = "none" /\ ~(pc' = "retry" /\ i \in todo')
    BY <2>3 DEF LastRun
  <2> QED
    BY <2>1, <2>2, <2>3
<1>2. [i \in Issues |-> LastRun(i)]'
        = [i \in Issues |-> IF i \in S THEN "idle" ELSE [j \in Issues |-> LastRun(j)][i]]
  BY <1>1
<1>3. runs' = runs
  BY DEF Drops
<1>4. Promise!Forget(S)
  BY <1>2, <1>3 DEF Promise!Forget
<1> QED
  BY <1>4

\* A run that ends is the abstract End.
LEMMA FinishEnds ==
    ASSUME TypeOK, NEW i \in Issues, FinishRun(i), UNCHANGED bridgeVars
    PROVE  Promise!End(i)
<1>1. PICK r \in Outcomes : phase' = [phase EXCEPT ![i] = PhaseOf(r)]
  BY DEF FinishRun
<1>2. phase[i] = "Active" /\ runs' = runs
  BY DEF FinishRun
<1>3. phase' = [phase EXCEPT ![i] = PhaseOf(r)] /\ phase \in [Issues -> Phases]
  BY <1>1 DEF TypeOK, ClusterTypeOK
<1>4. LastRun(i) = "running" /\ LastRun(i)' \in {"failed", "ended"}
  BY <1>2, <1>3 DEF LastRun, PhaseOf
<1>5. ASSUME NEW j \in Issues, j # i
      PROVE  LastRun(j)' = LastRun(j)
  BY <1>3, <1>5 DEF LastRun, bridgeVars, passVars
<1>6. [j \in Issues |-> LastRun(j)]' = [[j \in Issues |-> LastRun(j)] EXCEPT ![i] = LastRun(i)']
  BY <1>5
<1>7. [j \in Issues |-> LastRun(j)][i] = "running"
  BY <1>4
<1> QED
  BY <1>2, <1>4, <1>6, <1>7 DEF Promise!End

\* A Workload that is created runs, and changes nothing for the other issues.
LEMMA CreatedRuns ==
    ASSUME TypeOK, NEW i \in Issues, NEW l, NEW a, NEW f, NEW r, phase[i] = "none",
           Created(i, l, a, f, r),
           pc' = "retry" => pc = "retry" /\ todo' = todo \ {i},
           pc = "retry" => pc' = "retry"
    PROVE  /\ [j \in Issues |-> LastRun(j)]'
                = [[j \in Issues |-> LastRun(j)] EXCEPT ![i] = "running"]
           /\ runs' = [runs EXCEPT ![i] = r]
<1>1. phase' = [phase EXCEPT ![i] = "Active"] /\ phase \in [Issues -> Phases]
  BY DEF Created, TypeOK, ClusterTypeOK
<1>2. LastRun(i)' = "running"
  BY <1>1 DEF LastRun
<1>3. ASSUME NEW j \in Issues, j # i
      PROVE  LastRun(j)' = LastRun(j)
  BY <1>1, <1>3 DEF LastRun
<1>4. [j \in Issues |-> LastRun(j)]' = [[j \in Issues |-> LastRun(j)] EXCEPT ![i] = "running"]
  BY <1>2, <1>3
<1> QED
  BY <1>4 DEF Created

\* A retry is the abstract Again, and its budget has room for it.
LEMMA RetryAgain ==
    ASSUME IInv, RetryListed, RetryCreate
    PROVE  Promise!Next
<1>1. pc = "retry" /\ cur \in todo /\ cur \in Issues
  BY DEF RetryCreate, At, IInv, TypeOK, BridgeTypeOK, ControlInv, JobListed
<1>2. pc' = "retry" /\ todo' = todo \ {cur}
  BY <1>1 DEF RetryCreate, Done, frame
<1>3. CASE UNCHANGED workVars
  <2>1. Drops /\ Shortens
    BY <1>1, <1>2, <1>3 DEF Drops, Shortens, workVars
  <2> QED
    BY <2>1, DropsForget DEF IInv, Promise!Next
<1>4. CASE ~UNCHANGED workVars
  <2>1. Created(cur, ItemLane(cur), NextAttempt, NextInfra, runs[cur] + 1)
    BY <1>4 DEF RetryCreate, CreateCall, WorkCall
  <2>2. phase[cur] = "none"
    BY <1>4, <2>1 DEF Created
  <2>3. [j \in Issues |-> LastRun(j)][cur] = "failed"
    BY <1>1, <2>2 DEF LastRun
  <2>4. runs[cur] < MaxAttempts + InfraMax - 1
    <3>1. /\ shotAttempt[cur] <= MaxAttempts /\ shotInfra[cur] <= InfraMax
          /\ runs[cur] + 1 = shotAttempt[cur] + shotInfra[cur]
      BY <1>1 DEF IInv, DataInv, RunsCharged, ShotSound
    <3>2. IF view = "infra" THEN shotInfra[cur] < InfraMax ELSE shotAttempt[cur] < MaxAttempts
      BY DEF RetryCreate, IInv, ControlInv, RetryInBudget
    <3>3. runs[cur] \in Nat /\ shotAttempt[cur] \in Nat /\ shotInfra[cur] \in Nat
      BY <1>1 DEF IInv, TypeOK, ClusterTypeOK, BridgeTypeOK
    <3> QED
      BY <3>1, <3>2, <3>3
  <2>5. /\ [j \in Issues |-> LastRun(j)]'
             = [[j \in Issues |-> LastRun(j)] EXCEPT ![cur] = "running"]
        /\ runs' = [runs EXCEPT ![cur] = runs[cur] + 1]
    BY <1>1, <1>2, <2>1, <2>2, CreatedRuns DEF IInv
  <2>6. Promise!Again(cur)
    BY <2>3, <2>4, <2>5 DEF Promise!Again
  <2> QED
    BY <1>1, <2>6 DEF Promise!Next
<1> QED
  BY <1>3, <1>4

\* A claim or a redrive is the abstract Fresh, unless the name is taken.
LEMMA CreateFresh ==
    ASSUME TypeOK, RetryListed, NEW i \in Issues, NEW l, NEW ok, CreateCall(i, l, 1, 1, 1, ok),
           pc # "retry", pc' # "retry"
    PROVE  Promise!Next
<1>1. CASE UNCHANGED workVars
  <2>1. Drops /\ Shortens
    BY <1>1 DEF Drops, Shortens, workVars
  <2> QED
    BY <2>1, DropsForget DEF Promise!Next
<1>2. CASE ~UNCHANGED workVars
  <2>1. Created(i, l, 1, 1, 1) /\ phase[i] = "none"
    BY <1>2 DEF CreateCall, WorkCall, Created
  <2>2. [j \in Issues |-> LastRun(j)][i] = "idle"
    BY <2>1 DEF LastRun
  <2>3. /\ [j \in Issues |-> LastRun(j)]'
             = [[j \in Issues |-> LastRun(j)] EXCEPT ![i] = "running"]
        /\ runs' = [runs EXCEPT ![i] = 1]
    BY <2>1, CreatedRuns
  <2>4. Promise!Fresh(i)
    BY <2>2, <2>3 DEF Promise!Fresh
  <2> QED
    BY <2>4 DEF Promise!Next
<1> QED
  BY <1>1, <1>2

\* A request that creates nothing makes Workloads go at most.
LEMMA CallDrops ==
    ASSUME TypeOK, NEW i \in Issues, NEW ok \in BOOLEAN,
           \/ DeleteCall(i, ok) \/ Stamped(i) \/ FinalizeRun(i) \/ AgeRun(i)
           \/ RemoveByHand(i) \/ UNCHANGED workVars
    PROVE  Drops
<1> USE DEF Drops, TypeOK, ClusterTypeOK
<1>1. CASE UNCHANGED workVars
  BY <1>1 DEF workVars
<1>2. CASE Gone(i)
  BY <1>2 DEF Gone
<1>3. CASE Terminating(i) \/ Stamped(i) \/ AgeRun(i)
  BY <1>3 DEF Terminating, Stamped, AgeRun
<1> QED
  BY <1>1, <1>2, <1>3 DEF DeleteCall, WorkCall, FinalizeRun, RemoveByHand

\* Only the retry pass, or a step outside the bridge, ends in the retry pass.
LEMMA ListingShortens ==
    ASSUME TypeOK, [Next]_vars
    PROVE  Shortens
<1>1. CASE UNCHANGED bridgeVars
  BY <1>1 DEF bridgeVars, passVars, Shortens
<1>2. CASE RetryPass /\ ~StartRetry
  BY <1>2, RetryListing DEF Shortens
<1>3. CASE SnapshotQueues \/ FinishTick \/ Crash
  BY <1>3 DEF SnapshotQueues, FinishTick, Crash, EndTick, Shortens
<1>4. CASE RecoverPass \/ ClaimPass \/ ReviewPass \/ ReconcilePass \/ PrunePass
  BY <1>4, PassSteps DEF Shortens
<1>5. CASE StartRetry
  BY <1>5 DEF Shortens
<1> QED
  BY <1>1, <1>2, <1>3, <1>4, <1>5 DEF Next, TickStep, ClusterStep, HandStep, RemoveStep, vars

\* Every step is a create, the end of a run, or makes Workloads go at most.
LEMMA StepDrops ==
    ASSUME TypeOK, [Next]_vars, ~RetryCreate, ~RecoverCreate, ~MaterializeWorkload,
           ~\E i \in Issues : FinishRun(i) /\ UNCHANGED bridgeVars
    PROVE  Drops
<1>1. CASE UNCHANGED workVars
  BY <1>1 DEF workVars, Drops, TypeOK, ClusterTypeOK
<1>2. ASSUME NEW i \in Issues, ClusterStep(i) \/ HandStep(i) \/ RemoveStep(i)
      PROVE  Drops
  BY <1>1, <1>2, CallDrops DEF ClusterStep, HandStep, RemoveStep
<1>3. CASE RetryPass
  <2>1. CASE Retire \/ RetryDelete
    BY <2>1, CallDrops DEF Retire, RetryDelete, At, TypeOK, BridgeTypeOK
  <2>2. CASE ~(Retire \/ RetryDelete)
    <3>1. UNCHANGED workVars
      BY <1>3, <2>2
         DEF RetryPass, StartRetry, RetrySkipClosed, RetryPick, RetryPickBlind, CheckParked,
             CheckNotParked, Relabel, ParkStatus, ParkLabel, ParkComment, EscalateLane,
             EscalateUnclaim, InfraStatus, InfraCheck, InfraLabels, InfraComment
    <3> QED
      BY <1>1, <3>1
  <2> QED
    BY <2>1, <2>2
<1>4. CASE RecoverPass
  BY <1>1, <1>4
     DEF RecoverPass, StartRecover, RecoverHealthy, RecoverUnhealthy, RecoverResume,
         RecoverUnpark, RecoverUnmark, HandStatus, HandLabel, HandComment, RecoverUncount,
         RecoverCount
<1>5. CASE ClaimPass \/ ReviewPass \/ ReconcilePass
  <2>1. UNCHANGED workVars
    BY <1>5
       DEF ClaimPass, StartClaim, NextLane, ClaimCandidate, ReviewPass, StartReview, ReviewPick,
           ReviewStatus, ReviewClose, ReviewCheck, ReviewPark, ReviewLabel, ReviewComment,
           ReconcilePass, ListNames, StrandedUnlabel, StartStuck, StrandedSkip, StrandedReset,
           StuckSkip, StuckRelease
  <2> QED
    BY <1>1, <2>1
<1>6. CASE PrunePass
  <2>1. CASE PruneDelete
    BY <2>1, CallDrops DEF PruneDelete, At, TypeOK, BridgeTypeOK
  <2>2. CASE ~PruneDelete
    BY <1>1, <1>6, <2>2, CallDrops
       DEF PrunePass, StartPrune, PrunePick, PruneUnstamped, PruneCheck, PruneReset
  <2> QED
    BY <2>1, <2>2
<1>7. CASE SnapshotQueues \/ FinishTick \/ Crash
  BY <1>1, <1>7 DEF SnapshotQueues, FinishTick, Crash
<1> QED
  BY <1>1, <1>2, <1>3, <1>4, <1>5, <1>6, <1>7 DEF Next, TickStep, vars

\* What the retry pass has listed stays failed or gone.
LEMMA ListedStep ==
    ASSUME TypeOK, ControlInv, RetryListed, [Next]_vars
    PROVE  RetryListed'
<1>1. Shortens
  BY ListingShortens
<1> SUFFICES ASSUME pc' = "retry", NEW i \in todo'
             PROVE  phase'[i] \in {"Failed", "none"}
  BY DEF RetryListed
<1>2. CASE StartRetry
  BY <1>2 DEF StartRetry, InPhase, workVars
<1>3. CASE ~StartRetry
  <2>1. pc = "retry" /\ i \in todo /\ i \in Issues /\ phase[i] \in {"Failed", "none"}
    BY <1>1, <1>3 DEF Shortens, RetryListed, TypeOK, BridgeTypeOK
  <2>2. CASE Drops
    BY <2>1, <2>2 DEF Drops
  <2>3. CASE RetryCreate
    <3>1. i # cur
      BY <2>3 DEF RetryCreate, Done
    <3>2. phase'[i] = phase[i]
      BY <2>1, <2>3, <3>1
         DEF RetryCreate, CreateCall, WorkCall, Created, workVars, TypeOK, ClusterTypeOK
    <3> QED
      BY <2>1, <3>2
  <2>4. CASE RecoverCreate \/ MaterializeWorkload
    BY <2>1, <2>4 DEF RecoverCreate, MaterializeWorkload, At
  <2>5. ASSUME NEW j \in Issues, FinishRun(j)
        PROVE  phase'[i] \in {"Failed", "none"}
    BY <2>1, <2>5 DEF FinishRun, TypeOK, ClusterTypeOK
  <2> QED
    BY <2>2, <2>3, <2>4, <2>5, StepDrops
<1> QED
  BY <1>2, <1>3

\* Every step is a step of RunBudget, or changes nothing it sees.
LEMMA StepRefines ==
    ASSUME IInv, RetryListed, [Next]_vars
    PROVE  Promise!Next
<1> USE DEF IInv
<1>1. CASE RetryCreate
  BY <1>1, RetryAgain
<1>2. CASE RecoverCreate
  <2>1. cur \in Issues /\ pc = "recover" /\ pc' = "recover"
    BY <1>2 DEF RecoverCreate, At, frame, TypeOK, BridgeTypeOK
  <2>2. \E ok : CreateCall(cur, shotLane[cur], 1, 1, 1, ok)
    BY <1>2 DEF RecoverCreate
  <2> QED
    BY <2>1, <2>2, CreateFresh
<1>3. CASE MaterializeWorkload
  <2>1. cur \in Issues /\ pc = "claim" /\ pc' # "retry"
    BY <1>3 DEF MaterializeWorkload, At, EndTick, TypeOK, BridgeTypeOK
  <2>2. \E ok : CreateCall(cur, laneAt, 1, 1, 1, ok)
    BY <1>3 DEF MaterializeWorkload
  <2> QED
    BY <2>1, <2>2, CreateFresh
<1>4. ASSUME NEW i \in Issues, FinishRun(i), UNCHANGED bridgeVars
      PROVE  Promise!Next
  BY <1>4, FinishEnds DEF Promise!Next
<1>5. CASE Drops
  BY <1>5, ListingShortens, DropsForget DEF Promise!Next
<1> QED
  BY <1>1, <1>2, <1>3, <1>4, <1>5, StepDrops

\* The bridge implements RunBudget: one run at a time, no more runs on a grant than the
\* two budgets admit together, and none repeated unless it failed.
THEOREM Refines == Spec => RunsBudgeted
<1>1. Init => Promise!Init
  BY DEF Init, ClusterInit, BridgeInit, Promise!Init, LastRun
<1>2. Init => RetryListed
  BY DEF Init, BridgeInit, RetryListed
<1>3. IInv /\ RetryListed /\ [Next]_vars => RetryListed'
  BY ListedStep DEF IInv
<1>4. IInv /\ RetryListed /\ [Next]_vars
        => [Promise!Next]_<<[i \in Issues |-> LastRun(i)], runs>>
  BY StepRefines
<1> QED
  BY <1>1, <1>2, <1>3, <1>4, Inductive, PTL DEF Spec, RunsBudgeted, Promise!Spec

=============================================================================
