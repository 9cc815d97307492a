------------------------------ MODULE RunProofs ------------------------------
(***************************************************************************)
(* Which issues a coder is never started on, for every board, lane list    *)
(* and budget: those resting in backlog, and those another agent holds.    *)
(* Each theorem names the faults and the interventions it does without.    *)
(***************************************************************************)
EXTENDS ParkProofs

USE FaultsAssumption, DispatchAssumption, ClusterAssumption, BridgeAssumption

-----------------------------------------------------------------------------
(* No run on what is parked.                                               *)

\* The bridge is done with a failure of this kind, by the counters of its Workload.
Resting(i) ==
    \/ result[i] \in {"declared", "demoted"}
    \/ result[i] = "infra" /\ infra[i] >= InfraMax
    \/ result[i] = "nogo" /\ attempt[i] >= 2
    \/ result[i] # "infra" /\ attempt[i] >= MaxAttempts

\* What rests in backlog is not about to be tried again.
RestedFailures ==
    \A i \in Issues : status[i] = "backlog"
        => \/ phase[i] \in {"none", "Completed", "Stopped"}
           \/ phase[i] = "Failed" /\ Resting(i)

\* The counters of the listing are those of the Workload, until the pass deletes it.
ShotHolds ==
    pc = "retry" => \A i \in todo : \/ At("retry", "create") /\ i = cur
                                    \/ /\ phase[i] = "Failed"
                                       /\ shotAttempt[i] = attempt[i] /\ shotInfra[i] = infra[i]

\* What the retry pass does with an issue follows from its verdict; it parks, or tries
\* again, what is not in backlog yet.
RestJob ==
    /\ pc = "retry" /\ cur # NoIssue /\ step # "create"
       => view = result[cur] /\ (step # "delete" => Resting(cur))
    /\ At("retry", "delete") \/ At("retry", "create") \/ At("retry", "status")
       => status[cur] # "backlog"

RestInv == NoneGoing /\ RestedFailures /\ ShotHolds /\ RestJob

\* A Failed Workload the retry pass has listed goes only when the pass deletes it.
LEMMA ListedStays ==
    ASSUME TypeOK, ControlInv, NoneGoing, [Next]_vars, pc = "retry",
           "remove" \notin HandKinds, "wedge" \notin FaultKinds, NEW i \in Issues, phase[i] = "Failed"
    PROVE  \/ SameRun(i)
           \/ i = cur /\ (At("retry", "delete") \/ At("retry", "retire")) /\ phase'[i] = "none"
<1>1. \A j \in Issues : WorkSame(j) \/ WorkMove(j)
  BY StepMoves DEF Moved, Work
<1> QED
  BY <1>1 DEF NoneGoing, WorkMove, WorkSame, StampMove, AgeMove, SameRun, FinishMove, GoneMove,
              Vanished, Working, At, WedgeMove, CreateMove, Fault

\* Nobody but the bridge touches a Workload whose run is over.
LEMMA OutsideStays ==
    ASSUME TypeOK, NoneGoing, "remove" \notin HandKinds, Outside,
           NEW i \in Issues, phase[i] # "Active"
    PROVE  SameRun(i)
<1> USE DEF SameRun
<1>1. CASE UNCHANGED vars
  BY <1>1 DEF vars, workVars
<1>2. ASSUME NEW j \in Issues, FinishRun(j)
      PROVE  SameRun(i)
  <2>1. i # j
    BY <1>2 DEF FinishRun
  <2> QED
    BY <1>2, <2>1, FinishFacts DEF WorkBut, WorkSame
<1>3. ASSUME NEW j \in Issues, FinalizeRun(j) \/ RemoveByHand(j)
      PROVE  FALSE
  BY <1>3 DEF FinalizeRun, RemoveByHand, Hand, NoneGoing
<1>4. ASSUME NEW j \in Issues, AgeRun(j)
      PROVE  SameRun(i)
  BY <1>4 DEF AgeRun
<1>5. ASSUME NEW j \in Issues, HandStep(j)
      PROVE  SameRun(i)
  BY <1>5, HandMoves DEF Work, WorkSame
<1> QED
  BY <1>1, <1>2, <1>3, <1>4, <1>5 DEF Outside, ClusterStep, RemoveStep

LEMMA RestedStep ==
    ASSUME TypeOK, ControlInv, PassInv, RestInv, [Next]_vars,
           "remove" \notin HandKinds, "wedge" \notin FaultKinds
    PROVE  /\ RestedFailures'
           /\ \A i \in Issues : phase[i] = "none" /\ phase'[i] = "Active" => status[i] # "backlog"
<1> USE DEF Working, At
<1>1. Moved
  BY StepMoves
<1>cur. pc = "retry" /\ cur # NoIssue => cur \in todo /\ cur \in Issues
  BY DEF ControlInv, JobListed, TypeOK, BridgeTypeOK
<1>2. ASSUME NEW i \in Issues, BoardMove(i), status'[i] = "backlog", status[i] # "backlog"
      PROVE  \/ phase[i] \in {"none", "Completed", "Stopped"}
             \/ phase[i] = "Failed" /\ Resting(i)
  <2>1. ParkMove(i) \/ ReviewMove(i)
    BY <1>2 DEF BoardMove, Untouched, ReadyMove, StatusTo, HumanMove, CommentMove, MarkMove,
                UnmarkMove, ReleaseMove, ClaimMove, ResumeMove, EscalateMove, HandMove,
                RegroomMove, RivalMove, ReclassifyMove
  <2>2. ~ReviewMove(i)
    BY <1>2 DEF ReviewMove, StatusTo, ControlInv, ReviewPath
  <2>3. CASE pc = "review"
    BY <2>1, <2>2, <2>3 DEF ParkMove, PassInv, ReviewOver, JobInTodo
  <2>4. CASE pc = "retry"
    BY <1>cur, <2>1, <2>2, <2>4 DEF ParkMove, RestInv, ShotHolds, RestJob
  <2> QED
    BY <2>1, <2>2, <2>3, <2>4 DEF ParkMove, PassInv
<1>3. ASSUME NEW i \in Issues, CreateMove(i)
      PROVE  status[i] # "backlog"
  BY <1>3 DEF CreateMove, PassInv, ClaimHeld, RestInv, RestJob
<1>4. ASSUME NEW i \in Issues, WorkMove(i), status[i] = "backlog"
      PROVE  \/ phase'[i] \in {"none", "Completed", "Stopped"}
             \/ phase'[i] = "Failed" /\ Resting(i)'
  BY <1>3, <1>4
     DEF WorkMove, WorkSame, StampMove, AgeMove, SameRun, FinishMove, GoneMove, Vanished, WedgeMove,
         RestInv, RestedFailures, Resting
<1>5. CASE Work /\ \A i \in Issues : BoardMove(i)
  <2>1. \A i \in Issues : WorkSame(i) /\ Resting(i)' = Resting(i)
    BY <1>5 DEF Work, WorkSame, Resting
  <2> QED
    BY <1>2, <1>5, <2>1 DEF RestInv, RestedFailures, WorkSame
<1>6. CASE \A i \in Issues : Untouched(i) /\ WorkMove(i)
  <2>1. \A i \in Issues : phase[i] = "none" /\ phase'[i] = "Active" => CreateMove(i)
    BY <1>6 DEF WorkMove, WorkSame, StampMove, AgeMove, SameRun, FinishMove, GoneMove, Vanished,
                WedgeMove
  <2> QED
    BY <1>3, <1>4, <1>6, <2>1 DEF RestedFailures, Untouched
<1> QED
  BY <1>1, <1>5, <1>6 DEF Moved

LEMMA RestOutside ==
    ASSUME TypeOK, ControlInv, RestInv, Outside, [Next]_vars,
           "remove" \notin HandKinds, "wedge" \notin FaultKinds
    PROVE  ShotHolds' /\ RestJob'
<1>1. UNCHANGED <<pc, cur, step, todo, path, view, shotAttempt, shotInfra>>
  BY OutsideMoves DEF bridgeVars, passVars, jobVars, shotVars
<1> SUFFICES ASSUME pc = "retry"
             PROVE  ShotHolds' /\ RestJob'
  BY <1>1 DEF ShotHolds, RestJob, At
<1>2. ASSUME NEW i \in Issues, phase[i] = "Failed"
      PROVE  SameRun(i)
  BY <1>2, OutsideStays DEF RestInv
<1>3. ASSUME NEW i \in Issues, status[i] # "backlog"
      PROVE  status'[i] # "backlog"
  BY <1>3, OutsideMoves
     DEF WorldMoved, Untouched, HandMove, RegroomMove, RivalMove, ReclassifyMove
<1>4. ShotHolds'
  BY <1>1, <1>2 DEF RestInv, ShotHolds, SameRun, At, TypeOK, BridgeTypeOK
<1>5. cur # NoIssue => cur \in Issues /\ cur \in todo
  BY DEF ControlInv, JobListed, TypeOK, BridgeTypeOK
<1>6. cur # NoIssue /\ step # "create" => SameRun(cur)
  BY <1>2, <1>5 DEF RestInv, ShotHolds, At
<1> QED
  BY <1>1, <1>3, <1>4, <1>5, <1>6 DEF RestInv, RestJob, SameRun, Resting, At

LEMMA CreateOnly ==
    ASSUME RetryPass, At("retry", "create")
    PROVE  RetryCreate
BY DEF RetryPass, StartRetry, RetrySkipClosed, RetryPick, RetryPickBlind, CheckParked, CheckNotParked,
       Relabel, ParkStatus, ParkLabel, ParkComment, Retire, EscalateLane, EscalateUnclaim,
       InfraStatus, InfraCheck, InfraLabels, InfraComment, RetryDelete, At, Picking

LEMMA RetireOnly ==
    ASSUME RetryPass, At("retry", "delete") \/ At("retry", "retire")
    PROVE  RetryDelete \/ Retire
BY DEF RetryPass, StartRetry, RetrySkipClosed, RetryPick, RetryPickBlind, CheckParked, CheckNotParked,
       Relabel, ParkStatus, ParkLabel, ParkComment, EscalateLane, EscalateUnclaim,
       InfraStatus, InfraCheck, InfraLabels, InfraComment, RetryCreate, At, Picking

LEMMA ShotStep ==
    ASSUME TypeOK, ControlInv, NoneGoing, ShotHolds, RetryPass, [Next]_vars,
           "remove" \notin HandKinds, "wedge" \notin FaultKinds
    PROVE  ShotHolds'
<1>1. CASE StartRetry
  BY <1>1 DEF StartRetry, ShotHolds, InPhase, workVars
<1>2. CASE ~StartRetry
  <2>0. pc = "retry" /\ todo' \subseteq todo /\ pc' = "retry"
    BY <1>2, RetryListing, PassSteps
  <2>1. UNCHANGED <<shotAttempt, shotInfra>>
    BY <1>2, RetryReaches DEF RetryReach, shotVars
  <2>2. ASSUME NEW i \in todo'
        PROVE  \/ At("retry", "create")' /\ i = cur'
               \/ phase'[i] = "Failed" /\ shotAttempt'[i] = attempt'[i] /\ shotInfra'[i] = infra'[i]
    <3>0. i \in todo /\ i \in Issues
      BY <2>0, <2>2 DEF TypeOK, BridgeTypeOK
    <3>1. CASE At("retry", "create") /\ i = cur
      BY <2>2, <3>1, CreateOnly DEF RetryCreate, Done
    <3>2. CASE phase[i] = "Failed" /\ shotAttempt[i] = attempt[i] /\ shotInfra[i] = infra[i]
      <4>1. CASE SameRun(i)
        BY <2>1, <3>2, <4>1 DEF SameRun
      <4>2. CASE i = cur /\ (At("retry", "delete") \/ At("retry", "retire"))
        <5>1. Goto("create") \/ Done
          BY <4>2, RetireOnly DEF RetryDelete, Retire
        <5>2. Goto("create")
          BY <2>2, <4>2, <5>1 DEF Done
        <5> QED
          BY <2>0, <4>2, <5>2 DEF Goto, At
      <4> QED
        BY <2>0, <3>0, <3>2, <4>1, <4>2, ListedStays
    <3> QED
      BY <2>0, <3>0, <3>1, <3>2 DEF ShotHolds
  <2> QED
    BY <2>2 DEF ShotHolds
<1> QED
  BY <1>1, <1>2

\* The branch an issue is put on, by the listing's counters, is the one its Workload
\* asks for.
LEMMA BranchRests ==
    ASSUME TypeOK, NEW i \in Issues, shotAttempt[i] = attempt[i], shotInfra[i] = infra[i]
    PROVE  /\ Branch(i, result[i]) # "retry" => Resting(i)
           /\ Branch(i, result[i]) = "retry" /\ result[i] \notin {"declared", "demoted"}
                => ~Resting(i)
<1>1. attempt[i] \in Nat /\ infra[i] \in Nat
  BY DEF TypeOK, ClusterTypeOK
<1> QED
  BY <1>1 DEF Branch, CoderSaidNo, Resting

LEMMA RestPick ==
    ASSUME TypeOK, ControlInv, RestInv, NEW i \in Issues, RetryPick(i)
    PROVE  RestJob'
<1>1. /\ i \in todo /\ pc = "retry" /\ cur = NoIssue
      /\ UNCHANGED <<status, phase, result, attempt, infra, pc>>
  BY DEF RetryPick, Picking, issueVars, workVars, frame
<1>2. phase[i] = "Failed" /\ shotAttempt[i] = attempt[i] /\ shotInfra[i] = infra[i] /\ ~going[i]
  BY <1>1 DEF RestInv, ShotHolds, At, NoneGoing
<1>3. Route(i, result[i])
  BY <1>2 DEF RetryPick, TasksOf
<1> DEFINE p == IF result[i] \in {"declared", "demoted"} THEN result[i] ELSE Branch(i, result[i])
<1>4. cur' = i /\ view' = result[i] /\ step' = FirstStep(p)
  BY <1>3 DEF Route, Enter, Take
<1>5. step' \in {"infraStatus", "setLane", "delete", "check"} /\ (step' = "delete" => p = "retry")
  BY <1>4 DEF FirstStep
<1>6. p = "retry" => ~Resting(i)
  BY <1>2, BranchRests
<1>7. p # "retry" => Resting(i)
  BY <1>2, BranchRests DEF Resting
<1>8. step' # "delete" => Resting(i)
  BY <1>4, <1>7 DEF FirstStep
<1>9. Resting(i)' = Resting(i)
  BY <1>1 DEF Resting
<1>10. step' = "delete" => status[i] # "backlog"
  BY <1>2, <1>5, <1>6 DEF RestInv, RestedFailures
<1> QED
  BY <1>1, <1>4, <1>5, <1>8, <1>9, <1>10 DEF RestJob, At, Resting

\* The requests of the retry pass, but its last two: the job goes on, and the status it
\* may still set is not yet set.
RestKept ==
    /\ UNCHANGED workVars
    /\ \/ cur' = NoIssue
       \/ /\ cur' = cur /\ view' = view /\ step # "delete" /\ step # "create" /\ step' # "create"
          /\ step' \in {"delete", "status"} => status'[cur] # "backlog"

LEMMA RestRequests ==
    ASSUME TypeOK, ControlInv, RestInv, RetryPass, {"lost", "read"} \cap FaultKinds = {},
           ~StartRetry, ~RetryDelete, ~RetryCreate, ~Retire,
           \A i \in Issues : ~RetryPick(i) /\ ~RetryPickBlind(i)
    PROVE  RestKept
<1> USE DEF RestKept, At, Done, Goto, Take
<1>enter. ASSUME NEW i, NEW p, NEW v, Enter(i, p, v)
          PROVE  /\ cur' = i /\ view' = v
                 /\ step' \in {"infraStatus", "setLane", "delete", "check"}
                 /\ step' = "delete" => p = "retry"
  BY <1>enter DEF Enter, FirstStep
<1>1. CASE \E i \in Issues : RetrySkipClosed(i)
  BY <1>1 DEF RetrySkipClosed, Skip, Picking, jobVars
<1>2. CASE CheckParked \/ Relabel \/ ParkLabel \/ ParkComment
           \/ InfraStatus \/ InfraCheck \/ InfraLabels \/ InfraComment
  BY <1>2 DEF CheckParked, Relabel, ParkLabel, ParkComment, InfraStatus, InfraCheck, InfraLabels,
              InfraComment
<1>3. CASE CheckNotParked
  BY <1>3 DEF CheckNotParked, Fault, Parked, issueVars
<1>4. CASE EscalateLane \/ EscalateUnclaim
  BY <1>4, <1>enter DEF EscalateLane, EscalateUnclaim, EscalateFailed
<1>5. CASE ParkStatus
  <2>1. cur \in Issues /\ status[cur] # "backlog"
    BY <1>5 DEF ParkStatus, RestInv, RestJob, TypeOK, BridgeTypeOK
  <2>2. CASE ParkFailed /\ \E reply \in Failures : StatusCall(cur, "backlog", reply)
    <3>1. status'[cur] # "backlog"
      BY <2>1, <2>2 DEF StatusCall, Call, Fault, issueVars, Failures
    <3> QED
      BY <1>5, <1>enter, <2>2, <3>1 DEF ParkStatus, ParkFailed
  <2> QED
    BY <1>5, <2>2 DEF ParkStatus
<1> QED
  BY <1>1, <1>2, <1>3, <1>4, <1>5 DEF RetryPass

LEMMA RestRetry ==
    ASSUME TypeOK, ControlInv, RestInv, RetryPass, {"lost", "read", "wedge"} \cap FaultKinds = {}
    PROVE  RestJob'
<1> USE DEF At
<1>0. pc' = "retry"
  BY PassSteps
<1>1. CASE StartRetry
  BY <1>1 DEF StartRetry, jobVars, ControlInv, HandsEmpty, RestJob
<1>2. CASE \E i \in Issues : RetryPick(i) \/ RetryPickBlind(i)
  BY <1>2, RestPick DEF RetryPickBlind, Fault
<1>3. CASE Retire \/ RetryCreate
  BY <1>3 DEF Retire, RetryCreate, Done, RestJob
<1>4. CASE RetryDelete
  BY <1>0, <1>4 DEF RetryDelete, Done, Goto, RestJob, RestInv, issueVars
<1>5. CASE RestKept
  <2>1. UNCHANGED <<result, attempt, infra>>
    BY <1>5 DEF RestKept, workVars
  <2>2. Resting(cur)' = Resting(cur) \/ cur' = NoIssue
    BY <1>5, <2>1 DEF RestKept, Resting
  <2>3. pc = "retry" \/ StartRetry
    BY RetryListing
  <2> QED
    BY <1>0, <1>1, <1>5, <2>1, <2>2, <2>3 DEF RestKept, RestInv, RestJob
<1> QED
  BY <1>1, <1>2, <1>3, <1>4, <1>5, RestRequests

LEMMA RestStep ==
    ASSUME TypeOK, ControlInv, PassInv, RestInv, [Next]_vars,
           {"lost", "read", "wedge"} \cap FaultKinds = {}, "remove" \notin HandKinds
    PROVE  RestInv'
<1>1. NoneGoing' /\ RestedFailures'
  BY GoingStep, RestedStep DEF RestInv
<1>2. ShotHolds'
  BY InPass, ShotStep, RestOutside DEF RestInv, ShotHolds
<1>3. RestJob'
  BY InPass, RestRetry, RestOutside DEF RestJob, At
<1> QED
  BY <1>1, <1>2, <1>3 DEF RestInv

\* No coder is started on an issue resting in backlog, whatever is refused, repeated or
\* cut short, as long as an answer is never lost, a read never comes back empty, and an
\* object goes at once and only by the bridge's hand.
THEOREM ParkedNotRun ==
    ASSUME ~ProbeModel, {"lost", "read", "wedge"} \cap FaultKinds = {}, "remove" \notin HandKinds
    PROVE  Spec => NoRunOnParked
<1>1. Init => RestInv
  BY InitGoing DEF Init, DispatchInit, BridgeInit, RestInv, RestedFailures, ShotHolds, RestJob, At
<1>2. IInv /\ PassInv /\ RestInv /\ [Next]_vars => RestInv'
  BY RestStep DEF IInv
<1>3. IInv /\ PassInv /\ RestInv /\ [Next]_vars
        => [\A i \in Issues :
              phase[i] = "none" /\ phase'[i] = "Active" /\ status[i] = "backlog"
              => ProbeModel /\ marker[i] # "none"]_vars
  BY RestedStep DEF IInv
<1> QED
  BY <1>1, <1>2, <1>3, Inductive, PassSound, PTL DEF Spec, NoRunOnParked

-----------------------------------------------------------------------------
(* No run on what another agent holds.                                     *)

\* The issue is another agent's, or any agent may claim it.
Loose(i) == owner[i] = "other" \/ (owner[i] = "none" /\ status[i] = "ready")

\* What the bridge has let go of, it has no run of, nor a failure it would retry.
LooseOver ==
    \A i \in Issues : Loose(i)
        => /\ phase[i] # "Active"
           /\ phase[i] = "Failed" => result[i] # "infra" /\ attempt[i] >= MaxAttempts

\* Only what has ended is stamped, and only what has a TTL grows old.
AgedOver ==
    \A i \in Issues : /\ phase[i] \in {"none", "Active"} => age[i] = "fresh"
                      /\ age[i] = "old" => phase[i] \in Pruned

\* The listings of the pruning pass and of the reapers hold until they are through.
PruneListed ==
    pc = "prune" => \A i \in todo : /\ phase[i] \in {"none", "Failed", "Completed"}
                                    /\ i \in names => phase[i] \in {"none", "Failed"}

NamesHold == pc \in {"stranded", "stuck"} => \A i \in Issues : i \notin names => phase[i] = "none"

\* An issue is reset when its failed Workload has gone.
PruneJob ==
    /\ At("prune", "pruneDelete") /\ cur \in names => "Failed" \in Pruned
    /\ At("prune", "pruneCheck") \/ At("prune", "pruneReset") => phase[cur] = "none"

\* What the retry pass has let go of, it does not try again.
RetryLoose ==
    pc = "retry" => \A i \in todo : /\ phase[i] = "none"
                                       \/ (phase[i] = "Failed" /\ shotAttempt[i] = attempt[i])
                                    /\ Loose(i) => shotAttempt[i] >= MaxAttempts

LooseJob ==
    /\ pc = "retry" /\ cur # NoIssue
       => /\ phase[cur] = "Failed" /\ step # "create" => view = result[cur]
          /\ Loose(cur) => view # "infra"
    /\ At("retry", "delete") \/ At("retry", "create") => ~Loose(cur)
    /\ At("retry", "setLane") \/ At("retry", "unclaim")
       => shotAttempt[cur] >= MaxAttempts /\ view # "infra"

RivalInv == /\ NoneGoing /\ LooseOver /\ AgedOver /\ PruneListed /\ NamesHold /\ PruneJob
            /\ RetryLoose /\ LooseJob

\* Objects that are not running only go, and come back by the retry pass or a claim.
LEMMA PhaseFades ==
    ASSUME TypeOK, ControlInv, [Next]_vars, NEW i \in Issues, phase[i] # "Active", ~CreateMove(i)
    PROVE  phase'[i] = "none" \/ SameRun(i) \/ (Fault("wedge") /\ phase'[i] = phase[i])
<1>1. WorkSame(i) \/ WorkMove(i)
  BY StepMoves DEF Moved, Work
<1> QED
  BY <1>1 DEF WorkMove, WorkSame, StampMove, AgeMove, SameRun, FinishMove, GoneMove, Vanished,
              WedgeMove

\* An issue is let go of only when there is no Workload of it, or by an escalation.
LEMMA LetGo ==
    ASSUME TypeOK, ControlInv, PassInv, RivalInv, "regroom" \notin HandKinds, [Next]_vars,
           NEW i \in Issues, Loose(i)'
    PROVE  \/ Loose(i) \/ Working("retry", "unclaim", i)
           \/ phase[i] = "none" /\ pc # "retry"
<1> USE DEF Loose
<1>0. BoardMove(i)
  BY StepMoves DEF Moved, BoardMove
<1>1. CASE \/ Untouched(i) \/ HumanMove(i) \/ CommentMove(i) \/ MarkMove(i) \/ UnmarkMove(i)
           \/ EscalateMove(i)
  BY <1>1 DEF Untouched, HumanMove, CommentMove, MarkMove, UnmarkMove, EscalateMove
<1>2. CASE ParkMove(i) \/ ReviewMove(i)
  BY <1>2 DEF ParkMove, ReviewMove, StatusTo, Working, ControlInv, ReviewPath
<1>3. CASE ReadyMove(i)
  BY <1>3 DEF ReadyMove, Working, At, InFlight, RivalInv, NamesHold, PruneJob
<1>4. CASE ReleaseMove(i)
  BY <1>4 DEF ReleaseMove, Working, At, InFlight, RivalInv, NamesHold
<1>5. CASE ClaimMove(i) \/ ResumeMove(i)
  BY <1>5 DEF ClaimMove, ResumeMove, Working, At, PassInv
<1>6. CASE HandMove(i)
  BY <1>6 DEF HandMove, RegroomMove, RivalMove, ReclassifyMove
<1> QED
  BY <1>0, <1>1, <1>2, <1>3, <1>4, <1>5, <1>6 DEF BoardMove

LEMMA CreateHeld ==
    ASSUME PassInv, RivalInv, NEW i \in Issues, CreateMove(i)
    PROVE  ~Loose(i) /\ (pc = "claim" \/ Working("retry", "create", i))
BY DEF CreateMove, Working, At, PassInv, ClaimHeld, RivalInv, LooseJob, Loose

LEMMA LooseStep ==
    ASSUME TypeOK, ControlInv, PassInv, RivalInv, "regroom" \notin HandKinds, [Next]_vars,
           "wedge" \notin FaultKinds
    PROVE  LooseOver'
<1>1. ASSUME NEW i \in Issues, BoardMove(i), WorkSame(i), Loose(i)'
      PROVE  /\ phase'[i] # "Active"
             /\ phase'[i] = "Failed" => result'[i] # "infra" /\ attempt'[i] >= MaxAttempts
  <2>1. CASE Loose(i)
    BY <1>1, <2>1 DEF WorkSame, RivalInv, LooseOver
  <2>2. CASE phase[i] = "none" /\ pc # "retry"
    BY <1>1, <2>2 DEF WorkSame
  <2>3. CASE Working("retry", "unclaim", i)
    <3>1. i \in todo
      BY <2>3 DEF Working, At, ControlInv, JobListed
    <3> QED
      BY <1>1, <2>3, <3>1 DEF WorkSame, Working, At, RivalInv, RetryLoose, LooseJob
  <2> QED
    BY <1>1, <2>1, <2>2, <2>3, LetGo
<1>2. ASSUME NEW i \in Issues, Untouched(i), Loose(i)'
      PROVE  /\ phase'[i] # "Active"
             /\ phase'[i] = "Failed" => result'[i] # "infra" /\ attempt'[i] >= MaxAttempts
  <2>1. Loose(i)
    BY <1>2 DEF Untouched, Loose
  <2> QED
    BY <2>1, PhaseFades, CreateHeld DEF RivalInv, LooseOver, SameRun, Fault
<1>3. CASE Work /\ \A i \in Issues : BoardMove(i)
  BY <1>1, <1>3 DEF Work, LooseOver
<1>4. CASE \A i \in Issues : Untouched(i) /\ WorkMove(i)
  BY <1>2, <1>4 DEF LooseOver
<1> QED
  BY <1>3, <1>4, StepMoves DEF Moved

LEMMA AgedStep ==
    ASSUME TypeOK, ControlInv, AgedOver, PruneListed, [Next]_vars
    PROVE  AgedOver'
<1>1. \A i \in Issues : WorkSame(i) \/ WorkMove(i)
  BY StepMoves DEF Moved, Work
<1>2. ASSUME NEW i \in Issues
      PROVE  /\ phase'[i] \in {"none", "Active"} => age'[i] = "fresh"
             /\ age'[i] = "old" => phase'[i] \in Pruned
  <2>1. CASE WorkSame(i) \/ WedgeMove(i) \/ CreateMove(i) \/ GoneMove(i)
    BY <2>1 DEF AgedOver, WorkSame, WedgeMove, CreateMove, GoneMove, Vanished
  <2>2. CASE StampMove(i) \/ AgeMove(i)
    BY <2>2 DEF PruneListed, StampMove, AgeMove, SameRun
  <2>3. CASE FinishMove(i)
    <3>1. phase'[i] \in {"Failed", "Completed", "Stopped"}
      BY <2>3 DEF FinishMove, PhaseOf
    <3> QED
      BY <2>3, <3>1 DEF FinishMove, AgedOver
  <2> QED
    BY <1>1, <2>1, <2>2, <2>3 DEF WorkMove
<1> QED
  BY <1>2 DEF AgedOver

\* Outside the retry pass and the claims, what has gone stays away.
LEMMA StaysAway ==
    ASSUME TypeOK, ControlInv, PassInv, RivalInv, [Next]_vars, pc \notin {"retry", "claim"},
           "wedge" \notin FaultKinds, NEW i \in Issues, phase[i] # "Active"
    PROVE  phase'[i] = "none" \/ SameRun(i)
<1>1. ~CreateMove(i)
  BY CreateHeld DEF Working, At
<1> QED
  BY <1>1, PhaseFades DEF Fault

LEMMA PruneListing ==
    ASSUME PrunePass
    PROVE  StartPrune \/ (pc = "prune" /\ todo' \subseteq todo /\ names' = names)
<1> USE DEF At, Picking, Done, Goto, Take, Skip, frame
<1>1. CASE PruneDelete \/ PruneCheck \/ PruneReset
  BY <1>1 DEF PruneDelete, PruneCheck, PruneReset
<1>2. ASSUME NEW i \in Issues, PrunePick(i) \/ PruneUnstamped(i)
      PROVE  pc = "prune" /\ todo' \subseteq todo /\ names' = names
  BY <1>2 DEF PrunePick, PruneUnstamped
<1> QED
  BY <1>1, <1>2 DEF PrunePass

LEMMA PruneListedStep ==
    ASSUME TypeOK, ControlInv, PassInv, RivalInv, [Next]_vars, "wedge" \notin FaultKinds
    PROVE  PruneListed'
<1>1. CASE StartPrune
  BY <1>1 DEF StartPrune, InPhase, workVars, PruneListed
<1>2. CASE pc = "prune" /\ todo' \subseteq todo /\ names' = names
  <2>1. ASSUME NEW i \in todo'
        PROVE  /\ phase'[i] \in {"none", "Failed", "Completed"}
               /\ i \in names => phase'[i] \in {"none", "Failed"}
    <3>1. i \in todo /\ i \in Issues
      BY <1>2, <2>1 DEF TypeOK, BridgeTypeOK
    <3>2. /\ phase[i] \in {"none", "Failed", "Completed"}
          /\ i \in names => phase[i] \in {"none", "Failed"}
      BY <1>2, <3>1 DEF RivalInv, PruneListed
    <3> QED
      BY <1>2, <3>1, <3>2, StaysAway DEF SameRun
  <2> QED
    BY <1>2, <2>1 DEF PruneListed
<1>3. CASE Outside
  <2>1. UNCHANGED <<pc, todo, names>>
    BY <1>3, OutsideMoves DEF bridgeVars, passVars
  <2> QED
    BY <1>2, <2>1 DEF PruneListed
<1> QED
  BY <1>1, <1>2, <1>3, InPass, PruneListing DEF PruneListed

LEMMA NamesStep ==
    ASSUME TypeOK, ControlInv, PassInv, RivalInv, [Next]_vars, "wedge" \notin FaultKinds
    PROVE  NamesHold'
<1>1. CASE ListNames
  BY <1>1 DEF ListNames, Existing, workVars, NamesHold
<1>2. CASE pc \in {"stranded", "stuck"} /\ names' = names
  BY <1>2, StaysAway DEF RivalInv, NamesHold, SameRun
<1>3. CASE ReconcilePass /\ ~ListNames
  <2>1. pc \in {"stranded", "stuck"} /\ names' = names
    BY <1>3 DEF ReconcilePass, StrandedUnlabel, StartStuck, StrandedSkip, StrandedReset, StuckSkip,
                StuckRelease, Drained, Picking, At, frame
  <2> QED
    BY <1>2, <2>1
<1>4. CASE Outside
  <2>1. UNCHANGED <<pc, names>>
    BY <1>4, OutsideMoves DEF bridgeVars, passVars
  <2> QED
    BY <1>2, <2>1 DEF NamesHold
<1> QED
  BY <1>1, <1>3, <1>4, InPass DEF NamesHold

\* With nothing refused that matters, and nothing wedged, a delete takes its object away.
LEMMA DeletedGone ==
    ASSUME TypeOK, NoneGoing, "wedge" \notin FaultKinds, "call" \notin FaultKinds,
           NEW i \in Issues, NEW ok \in BOOLEAN, DeleteCall(i, ok)
    PROVE  phase'[i] = "none"
BY GoneFacts DEF DeleteCall, WorkCall, Vanished, Fault, NoneGoing

LEMMA PruneJobStep ==
    ASSUME TypeOK, ControlInv, PassInv, RivalInv, [Next]_vars, "wedge" \notin FaultKinds,
           "call" \in FaultKinds => "Failed" \notin Pruned
    PROVE  PruneJob'
<1> USE DEF At, Done, Goto, Take, Skip, frame
<1> SUFFICES ASSUME pc' = "prune"
             PROVE  PruneJob'
  BY DEF PruneJob
<1>1. CASE StartPrune
  BY <1>1 DEF StartPrune, Drained, Picking, jobVars, PruneJob
<1>cur. ASSUME NEW s, pc = "prune" /\ cur # NoIssue /\ step = s
        PROVE  cur \in Issues
  BY <1>cur DEF TypeOK, BridgeTypeOK
<1>2. ASSUME NEW i \in Issues, PrunePick(i) \/ PruneUnstamped(i)
      PROVE  PruneJob'
  <2>1. pc = "prune" /\ i \in todo /\ cur = NoIssue /\ names' = names
    BY <1>2 DEF PrunePick, PruneUnstamped, Picking
  <2>2. i \in names => phase[i] \in {"none", "Failed"}
    BY <2>1 DEF RivalInv, PruneListed
  <2>3. CASE Skip(i)
    BY <2>1, <2>3 DEF PruneJob, jobVars
  <2>4. CASE Take(i, "pruneDelete", "prune", "none")
    <3>1. i \in names => "Failed" \in Pruned
      BY <1>2, <2>2, <2>4 DEF PrunePick, PruneUnstamped, ListedPhase, jobVars, RivalInv, AgedOver
    <3> QED
      BY <2>1, <2>4, <3>1 DEF PruneJob
  <2> QED
    BY <1>2, <2>3, <2>4 DEF PrunePick, PruneUnstamped
<1>3. CASE PruneDelete
  <2>1. cur \in Issues /\ names' = names
    BY <1>3, <1>cur DEF PruneDelete
  <2>2. CASE cur \in names
    <3>1. "call" \notin FaultKinds
      BY <1>3, <2>2 DEF PruneDelete, RivalInv, PruneJob
    <3>2. phase'[cur] = "none"
      BY <1>3, <2>1, <3>1, DeletedGone DEF PruneDelete, RivalInv
    <3> QED
      BY <1>3, <2>2, <3>2 DEF PruneDelete, PruneJob
  <2>3. CASE cur \notin names
    BY <1>3, <2>3 DEF PruneDelete, PruneJob
  <2> QED
    BY <2>2, <2>3
<1>4. CASE PruneCheck
  BY <1>4 DEF PruneCheck, workVars, RivalInv, PruneJob
<1>5. CASE PruneReset
  BY <1>5 DEF PruneReset, PruneJob
<1>6. CASE Outside
  <2>1. UNCHANGED <<pc, cur, step, names>>
    BY <1>6, OutsideMoves DEF bridgeVars, passVars, jobVars
  <2>2. cur # NoIssue /\ phase[cur] = "none" => phase'[cur] = "none"
    BY <2>1, StaysAway DEF SameRun, TypeOK, BridgeTypeOK
  <2> QED
    BY <2>1, <2>2 DEF RivalInv, PruneJob
<1> QED
  BY <1>1, <1>2, <1>3, <1>4, <1>5, <1>6, InPass DEF PrunePass

LEMMA RetryLooseStep ==
    ASSUME TypeOK, ControlInv, PassInv, RivalInv, [Next]_vars, "wedge" \notin FaultKinds,
           "regroom" \notin HandKinds
    PROVE  RetryLoose'
<1>1. CASE StartRetry
  <2>1. ASSUME NEW i \in InPhase("Failed")
        PROVE  /\ phase'[i] = "Failed" /\ shotAttempt'[i] = attempt'[i]
               /\ Loose(i)' => shotAttempt'[i] >= MaxAttempts
    <3>1. Loose(i)' = Loose(i) /\ i \in Issues /\ phase[i] = "Failed"
      BY <1>1, <2>1 DEF StartRetry, issueVars, Loose, InPhase
    <3>2. phase' = phase /\ attempt' = attempt /\ shotAttempt' = attempt
      BY <1>1 DEF StartRetry, workVars
    <3> QED
      BY <3>1, <3>2 DEF RivalInv, LooseOver
  <2> QED
    BY <1>1, <2>1 DEF StartRetry, RetryLoose
<1>2. CASE pc = "retry" /\ todo' \subseteq todo /\ shotAttempt' = shotAttempt
           /\ \A i \in todo' : ~Working("retry", "create", i)
  <2>1. ASSUME NEW i \in todo'
        PROVE  /\ phase'[i] = "none" \/ (phase'[i] = "Failed" /\ shotAttempt'[i] = attempt'[i])
               /\ Loose(i)' => shotAttempt'[i] >= MaxAttempts
    <3>1. i \in todo /\ i \in Issues
      BY <1>2, <2>1 DEF TypeOK, BridgeTypeOK
    <3>2. /\ phase[i] = "none" \/ (phase[i] = "Failed" /\ shotAttempt[i] = attempt[i])
          /\ Loose(i) => shotAttempt[i] >= MaxAttempts
      BY <1>2, <3>1 DEF RivalInv, RetryLoose
    <3>3. ~CreateMove(i)
      BY <1>2, <2>1, <3>1, CreateHeld
    <3>4. phase'[i] = "none" \/ SameRun(i)
      BY <3>1, <3>2, <3>3, PhaseFades DEF Fault
    <3>5. Loose(i)' => shotAttempt[i] >= MaxAttempts
      BY <1>2, <3>1, <3>2, LetGo DEF RivalInv, LooseJob, Working
    <3> QED
      BY <1>2, <3>2, <3>4, <3>5 DEF SameRun
  <2> QED
    BY <2>1 DEF RetryLoose
<1>3. CASE RetryPass /\ ~StartRetry
  <2>1. pc = "retry" /\ todo' \subseteq todo /\ shotAttempt' = shotAttempt
    BY <1>3, RetryListing, RetryReaches DEF RetryReach, shotVars
  <2>2. \A i \in todo' : ~Working("retry", "create", i)
    BY <1>3, CreateOnly DEF Working, RetryCreate, Done
  <2> QED
    BY <1>2, <2>1, <2>2
<1>4. CASE Outside /\ pc = "retry"
  <2>1. UNCHANGED <<pc, todo, shotAttempt>>
    BY <1>4, OutsideMoves DEF bridgeVars, passVars, shotVars
  <2>2. ASSUME NEW i \in todo
        PROVE  /\ phase'[i] = "none" \/ (phase'[i] = "Failed" /\ shotAttempt'[i] = attempt'[i])
               /\ Loose(i)' => shotAttempt'[i] >= MaxAttempts
    <3>1. i \in Issues
      BY <2>2 DEF TypeOK, BridgeTypeOK
    <3>2. /\ phase[i] = "none" \/ (phase[i] = "Failed" /\ shotAttempt[i] = attempt[i])
          /\ Loose(i) => shotAttempt[i] >= MaxAttempts
      BY <1>4, <2>2 DEF RivalInv, RetryLoose
    <3>3. phase'[i] = "none" \/ SameRun(i)
      BY <1>4, <3>1, <3>2, OutsideMoves
         DEF WorldMoved, Work, WorkSame, AgeMove, SameRun, FinishMove, GoneMove, Vanished
    <3>4. Loose(i)' => shotAttempt[i] >= MaxAttempts
      BY <1>4, <3>1, <3>2, LetGo DEF RivalInv, LooseJob, Working
    <3> QED
      BY <2>1, <3>2, <3>3, <3>4 DEF SameRun
  <2> QED
    BY <2>1, <2>2 DEF RetryLoose
<1>5. Outside => pc' = pc
  BY OutsideMoves DEF bridgeVars, passVars
<1> QED
  BY <1>1, <1>3, <1>4, <1>5, InPass DEF RetryLoose

\* The branch an issue is put on tells what the pass knows of it.
LEMMA LooseBranch ==
    ASSUME TypeOK, NEW i \in Issues, NEW v
    PROVE  /\ Branch(i, v) = "retry" => v = "infra" \/ shotAttempt[i] < MaxAttempts
           /\ Branch(i, v) = "escalate" => v # "infra" /\ shotAttempt[i] >= MaxAttempts
<1>1. shotAttempt[i] \in Nat
  BY DEF TypeOK, BridgeTypeOK
<1> QED
  BY <1>1 DEF Branch

LEMMA LoosePick ==
    ASSUME TypeOK, ControlInv, RivalInv, NEW i \in Issues, RetryPick(i)
    PROVE  LooseJob'
<1>1. /\ i \in todo /\ pc = "retry" /\ pc' = "retry" /\ cur = NoIssue
      /\ UNCHANGED <<status, owner, phase, result, shotAttempt>>
  BY DEF RetryPick, Picking, issueVars, workVars, shotVars, frame
<1>2. PICK v \in TasksOf(i) : Route(i, v)
  BY DEF RetryPick
<1>3. /\ (phase[i] = "none" /\ v = "unknown") \/ (phase[i] = "Failed" /\ v = result[i])
      /\ Loose(i) => shotAttempt[i] >= MaxAttempts
  BY <1>1, <1>2 DEF TasksOf, RivalInv, RetryLoose, NoneGoing
<1>4. Loose(i) => v # "infra"
  BY <1>3 DEF RivalInv, LooseOver
<1> DEFINE p == IF v \in {"declared", "demoted"} THEN v ELSE Branch(i, v)
<1>5. cur' = i /\ view' = v /\ step' = FirstStep(p)
  BY <1>2 DEF Route, Enter, Take
<1>6. /\ step' \in {"infraStatus", "setLane", "delete", "check"}
      /\ (step' = "delete" => p = "retry") /\ (step' = "setLane" => p = "escalate")
  BY <1>5 DEF FirstStep
<1>7. /\ p = "retry" => v = "infra" \/ shotAttempt[i] < MaxAttempts
      /\ p = "escalate" => v # "infra" /\ shotAttempt[i] >= MaxAttempts
  BY LooseBranch
<1>8. shotAttempt[i] \in Nat
  BY DEF TypeOK, BridgeTypeOK
<1>9. step' = "delete" => ~Loose(i)
  BY <1>3, <1>4, <1>6, <1>7, <1>8
<1> QED
  BY <1>1, <1>3, <1>4, <1>5, <1>6, <1>7, <1>9 DEF LooseJob, Loose, At

\* The requests of the retry pass, but its last two.
LooseKept ==
    /\ UNCHANGED <<phase, result, shotAttempt>>
    /\ \/ cur' = NoIssue
       \/ /\ cur' = cur /\ view' = view /\ step # "create" /\ step' # "create"
          /\ step' = "delete" => step # "unclaim" /\ (view = "infra" \/ shotAttempt[cur] < MaxAttempts)
          /\ step' \in {"setLane", "unclaim"} => view # "infra" /\ shotAttempt[cur] >= MaxAttempts

LEMMA LooseRequests ==
    ASSUME TypeOK, ControlInv, RivalInv, RetryPass,
           ~StartRetry, ~RetryDelete, ~RetryCreate, ~Retire,
           \A i \in Issues : ~RetryPick(i) /\ ~RetryPickBlind(i)
    PROVE  LooseKept
<1> USE DEF LooseKept, At, Done, Goto, Take, workVars, shotVars, frame
<1>enter. ASSUME NEW i, NEW p, NEW v, Enter(i, p, v)
          PROVE  /\ cur' = i /\ view' = v
                 /\ step' \in {"infraStatus", "setLane", "delete", "check"}
                 /\ step' = "delete" => p = "retry"
                 /\ step' = "setLane" => p = "escalate"
  BY <1>enter DEF Enter, FirstStep
<1>1. CASE \E i \in Issues : RetrySkipClosed(i)
  BY <1>1 DEF RetrySkipClosed, Skip, Picking, jobVars
<1>2. CASE CheckParked \/ CheckNotParked \/ Relabel \/ ParkLabel \/ ParkComment
           \/ InfraStatus \/ InfraCheck \/ InfraLabels \/ InfraComment
  BY <1>2 DEF CheckParked, CheckNotParked, Relabel, ParkLabel, ParkComment, InfraStatus, InfraCheck,
              InfraLabels, InfraComment
<1>3. CASE EscalateLane \/ EscalateUnclaim
  BY <1>3, <1>enter DEF EscalateLane, EscalateUnclaim, EscalateFailed, RivalInv, LooseJob
<1>4. CASE ParkStatus
  <2>1. cur \in Issues
    BY <1>4 DEF ParkStatus, TypeOK, BridgeTypeOK
  <2>2. /\ Branch(cur, view) = "retry" => view = "infra" \/ shotAttempt[cur] < MaxAttempts
        /\ Branch(cur, view) = "escalate" => view # "infra" /\ shotAttempt[cur] >= MaxAttempts
    BY <2>1, LooseBranch
  <2>3. CASE ParkFailed
    BY <1>4, <1>enter, <2>2, <2>3 DEF ParkStatus, ParkFailed
  <2> QED
    BY <1>4, <2>3 DEF ParkStatus
<1> QED
  BY <1>1, <1>2, <1>3, <1>4 DEF RetryPass

LEMMA LooseRetry ==
    ASSUME TypeOK, ControlInv, PassInv, RivalInv, RetryPass, [Next]_vars,
           {"read", "wedge"} \cap FaultKinds = {}, "regroom" \notin HandKinds
    PROVE  LooseJob'
<1> USE DEF At
<1>0. pc' = "retry"
  BY PassSteps
<1>1. CASE StartRetry
  BY <1>1 DEF StartRetry, jobVars, ControlInv, HandsEmpty, LooseJob
<1>2. CASE \E i \in Issues : RetryPick(i) \/ RetryPickBlind(i)
  BY <1>2, LoosePick DEF RetryPickBlind, Fault
<1>3. CASE Retire \/ RetryCreate
  BY <1>3 DEF Retire, RetryCreate, Done, LooseJob
<1>4. CASE RetryDelete
  BY <1>0, <1>4 DEF RetryDelete, Done, Goto, LooseJob, RivalInv, issueVars, Loose
<1>5. CASE LooseKept /\ pc = "retry" /\ cur' # NoIssue
  <2>1. cur' = cur /\ cur \in Issues /\ cur \in todo /\ view' = view
    BY <1>5 DEF LooseKept, TypeOK, BridgeTypeOK, ControlInv, JobListed
  <2>2. Loose(cur)' => Loose(cur) \/ step = "unclaim"
    BY <1>5, <2>1, LetGo DEF Working, Loose
  <2>3. /\ Loose(cur) => view # "infra" /\ shotAttempt[cur] >= MaxAttempts
        /\ step = "unclaim" => view # "infra"
        /\ phase[cur] = "Failed" /\ step # "create" => view = result[cur]
    BY <1>5, <2>1 DEF RivalInv, LooseJob, RetryLoose
  <2>4. shotAttempt[cur] \in Nat
    BY <2>1 DEF TypeOK, BridgeTypeOK
  <2>5. step' = "delete" => ~Loose(cur)'
    BY <1>5, <2>1, <2>2, <2>3, <2>4 DEF LooseKept
  <2>6. Loose(cur)' => view # "infra"
    BY <2>2, <2>3
  <2> QED
    BY <1>5, <2>1, <2>3, <2>5, <2>6 DEF LooseKept, LooseJob, Loose
<1>6. cur' = NoIssue => LooseJob'
  BY DEF LooseJob
<1>7. pc = "retry" \/ StartRetry
  BY RetryListing
<1> QED
  BY <1>1, <1>2, <1>3, <1>4, <1>5, <1>6, <1>7, LooseRequests

LEMMA LooseOutside ==
    ASSUME TypeOK, ControlInv, PassInv, RivalInv, Outside, [Next]_vars,
           "regroom" \notin HandKinds
    PROVE  LooseJob'
<1>1. UNCHANGED <<pc, cur, step, view, shotAttempt>>
  BY OutsideMoves DEF bridgeVars, passVars, jobVars, shotVars
<1> SUFFICES ASSUME pc = "retry", cur # NoIssue
             PROVE  LooseJob'
  BY <1>1 DEF LooseJob, At
<1>2. cur \in Issues /\ cur \in todo
  BY DEF TypeOK, BridgeTypeOK, ControlInv, JobListed
<1>3. Loose(cur)' => Loose(cur)
  BY <1>1, <1>2, OutsideMoves
     DEF WorldMoved, Untouched, HandMove, RegroomMove, RivalMove, ReclassifyMove, Loose
<1>4. phase[cur] \in {"none", "Failed"}
  BY <1>2 DEF RivalInv, RetryLoose
<1>5. phase'[cur] = "none" \/ SameRun(cur)
  BY <1>2, <1>4, OutsideMoves
     DEF WorldMoved, Work, WorkSame, AgeMove, SameRun, FinishMove, GoneMove, Vanished
<1> QED
  BY <1>1, <1>3, <1>5 DEF RivalInv, LooseJob, Loose, SameRun, At

LEMMA RivalStep ==
    ASSUME TypeOK, ControlInv, PassInv, RivalInv, [Next]_vars,
           {"read", "wedge"} \cap FaultKinds = {}, "call" \in FaultKinds => "Failed" \notin Pruned,
           "regroom" \notin HandKinds
    PROVE  RivalInv'
<1>1. NoneGoing' /\ LooseOver' /\ AgedOver'
  BY GoingStep, LooseStep, AgedStep DEF RivalInv
<1>2. PruneListed' /\ NamesHold' /\ PruneJob' /\ RetryLoose'
  BY PruneListedStep, NamesStep, PruneJobStep, RetryLooseStep
<1>3. LooseJob'
  BY InPass, LooseRetry, LooseOutside DEF LooseJob, At
<1> QED
  BY <1>1, <1>2, <1>3 DEF RivalInv

\* No coder is started on an issue another agent holds, whoever claims, removes or
\* reclassifies what meanwhile, unless a read comes back empty, a deletion hangs, the
\* groomer steps in, or a failed Workload is pruned although its delete was refused.
THEOREM RivalNotRun ==
    ASSUME ~ProbeModel, {"read", "wedge"} \cap FaultKinds = {},
           "call" \in FaultKinds => "Failed" \notin Pruned, "regroom" \notin HandKinds
    PROVE  Spec => NoRunOnRival
<1>1. Init => RivalInv
  BY InitGoing DEF Init, DispatchInit, ClusterInit, BridgeInit, RivalInv, LooseOver, AgedOver,
                   PruneListed, NamesHold, PruneJob, RetryLoose, LooseJob, At
<1>2. IInv /\ PassInv /\ RivalInv /\ [Next]_vars => RivalInv'
  BY RivalStep DEF IInv
<1>3. IInv /\ PassInv /\ RivalInv /\ [Next]_vars
        => [\A i \in Issues :
              phase[i] = "none" /\ phase'[i] = "Active" => owner[i] # "other"]_vars
  <2>1. ASSUME IInv, PassInv, RivalInv, [Next]_vars, NEW i \in Issues, phase[i] = "none",
               phase'[i] = "Active"
        PROVE  owner[i] # "other"
    <3>1. CreateMove(i)
      BY <2>1, PhaseFades DEF IInv, SameRun
    <3> QED
      BY <2>1, <3>1, CreateHeld DEF Loose
  <2> QED
    BY <2>1
<1> QED
  BY <1>1, <1>2, <1>3, Inductive, PassSound, PTL DEF Spec, NoRunOnRival

=============================================================================
