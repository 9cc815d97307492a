----------------------------- MODULE PrFixProofs -----------------------------
(***************************************************************************)
(* Theorems about PrFix, for every set of PRs, coders and surfaces, every  *)
(* budget, and any number of faults and interventions.                     *)
(***************************************************************************)
EXTENDS PrFix, TLAPS, FiniteSetTheorems

USE FaultsAssumption, PrFixAssumption

-----------------------------------------------------------------------------
(* The inductive invariant.                                                *)

\* What the reconcile or the drain read of the Workloads was within bounds.
ListedBounded == \A p \in PRs : Bounded(listed[p])

\* The drain goes through items of the queue.
DrainQueued ==
    fpc = "drain" => \A p \in todo : queued[p] \in [lane : FixLanes, surface : Surfaces]

InHand == fpc = "reconcile" /\ cur # NoPr

\* A run is replaced only with room in the budget it is charged to.
PathInBudget ==
    InHand =>
        /\ path = "retry" => listed[cur].attempt < FixAttempts
        /\ path = "progress" => listed[cur].progress < FixProgress
        /\ path = "escalate" => listed[cur].lane = "NORMAL"

Evidence(p) == pr[p].merge = "merged" \/ (pr[p].merge = "clean" /\ pr[p].checks = "passed")

\* What the probe said is still so, unless the PR has moved.
ViewTrue ==
    InHand /\ ~moved =>
        /\ step = "act" /\ view \in {"ok", "merged"} => Evidence(cur)
        /\ path = "FIXED" => Evidence(cur)

\* Giving up has its reason in the counters.
GaveUp ==
    InHand =>
        /\ path = "BLOCKED" => /\ listed[cur].attempt >= FixAttempts
                               /\ listed[cur].lane = "NORMAL" => EscalatedCoder = NormalCoder
        /\ path = "giveup" => listed[cur].progress >= FixProgress

\* A Workload is retired for an item that carries its mark.
MarkedFirst ==
    At("delete") /\ path \in {"FIXED", "STALE"} => item[cur] = path \/ fixHands > 0

\* What is marked is one of the three outcomes or the end of the progress budget, and
\* what is created replaces a run.
MarkPath ==
    /\ At("mark") => path \in {"FIXED", "STALE", "BLOCKED", "giveup"}
    /\ At("create") => path \in {"retry", "progress", "escalate"}

\* No branch is chosen before the probe has answered, and a branch is updated only
\* for a conflict.
PathLater ==
    InHand =>
        /\ step \in {"probe", "update", "reprobe", "act"} => path = "none"
        /\ step = "update" => view = "dirty"

\* Only the reconcile holds a Workload.
HandFree == fpc # "reconcile" => cur = NoPr

Control == /\ DrainQueued /\ PathInBudget /\ ViewTrue /\ GaveUp /\ MarkedFirst /\ MarkPath
           /\ PathLater /\ HandFree
FInv    == TypeOK /\ FixRunsBounded /\ ListedBounded /\ Control

-----------------------------------------------------------------------------
(* Type correctness.                                                       *)

\* Every fault is counted.
LEMMA FaultType ==
    ASSUME TypeOK, NoFault \/ \E kind : Fault(kind)
    PROVE  faults' \in 0 .. MaxFaults
<1>1. faults \in 0 .. MaxFaults /\ MaxFaults \in Nat
  BY DEF TypeOK, FaultsAssumption
<1> QED
  BY <1>1 DEF NoFault, Fault

\* A request about the Workload of a PR leaves it a Workload or none.
LEMMA FixCallType ==
    ASSUME TypeOK, NEW p \in PRs, NEW w \in Runs, NEW ok \in BOOLEAN,
           FixCall(Placed(p, w), ok) \/ FixCall(Removed(p), ok)
    PROVE  /\ fix' \in [PRs -> Runs] /\ wasted' \in [PRs -> Nat]
           /\ faults' \in 0 .. MaxFaults
<1>1. NoRun \in Runs
  BY DEF NoRun, Runs, FixPhases, Signatures, FixLanes
<1>2. faults' \in 0 .. MaxFaults
  BY FaultType DEF FixCall
<1>3. CASE UNCHANGED <<fix, wasted>>
  BY <1>2, <1>3 DEF TypeOK
<1>4. CASE Removed(p)
  BY <1>1, <1>2, <1>4 DEF TypeOK, Removed
<1>5. CASE Placed(p, w)
  <2>1. fix \in [PRs -> Runs] /\ wasted \in [PRs -> Nat]
    BY DEF TypeOK
  <2> QED
    BY <1>2, <1>3, <1>5, <2>1 DEF Placed
<1> QED
  BY <1>3, <1>4, <1>5, <1>2 DEF FixCall

\* Writing the fields of a run.
LEMMA RunFields ==
    ASSUME NEW v \in Runs, NEW a \in Nat, NEW n \in Nat, NEW s \in Signatures
    PROVE  /\ [v EXCEPT !.phase = "Active", !.runs = n] \in Runs
           /\ [v EXCEPT !.attempt = a, !.sig = s] \in Runs
           /\ [v EXCEPT !.attempt = a, !.progress = n, !.sig = s] \in Runs
           /\ [v EXCEPT !.attempt = a, !.lane = "ESCALATED"] \in Runs
<1>1. v = [phase |-> v.phase, attempt |-> v.attempt, progress |-> v.progress, sig |-> v.sig,
           lane |-> v.lane, runs |-> v.runs]
  BY DEF Runs
<1>2. /\ v.phase \in FixPhases /\ v.attempt \in Nat /\ v.progress \in Nat
      /\ v.sig \in Signatures /\ v.lane \in FixLanes /\ v.runs \in Nat
  BY DEF Runs
<1>3. "Active" \in FixPhases /\ "ESCALATED" \in FixLanes
  BY DEF FixPhases, FixLanes
<1>4. [v EXCEPT !.phase = "Active", !.runs = n] \in Runs
  BY <1>1, <1>2, <1>3 DEF Runs
<1>5. [v EXCEPT !.attempt = a, !.sig = s] \in Runs
  BY <1>1, <1>2 DEF Runs
<1>6. [v EXCEPT !.attempt = a, !.progress = n, !.sig = s] \in Runs
  BY <1>1, <1>2 DEF Runs
<1>7. [v EXCEPT !.attempt = a, !.lane = "ESCALATED"] \in Runs
  BY <1>1, <1>2, <1>3 DEF Runs
<1> QED
  BY <1>2, <1>4, <1>5, <1>6, <1>7

\* The next run of a series, and the first.
LEMMA RunType ==
    ASSUME TypeOK, Control
    PROVE  /\ At("create") => cur \in PRs /\ NextRun \in Runs
           /\ \A p \in todo : fpc = "drain" => p \in PRs /\ FirstRun(p) \in Runs
<1>1. ASSUME At("create")
      PROVE  cur \in PRs /\ NextRun \in Runs
  <2>1. cur \in PRs /\ listed[cur] \in Runs /\ sigs[cur] \in Signatures
    BY <1>1 DEF At, TypeOK
  <2>2. NextSig \in Signatures
    BY <2>1 DEF NextSig, Runs
  <2> DEFINE w == [listed[cur] EXCEPT !.phase = "Active", !.runs = @ + 1]
  <2>3. w \in Runs
    <3>1. listed[cur].runs + 1 \in Nat
      BY <2>1 DEF Runs
    <3> QED
      BY <2>1, <3>1, RunFields
  <2> HIDE DEF w
  <2>4. w.attempt + 1 \in Nat /\ w.progress + 1 \in Nat
    BY <2>3 DEF Runs
  <2>5. /\ [w EXCEPT !.attempt = @ + 1, !.sig = NextSig] \in Runs
        /\ [w EXCEPT !.attempt = 1, !.progress = @ + 1, !.sig = sigs[cur]] \in Runs
        /\ [w EXCEPT !.attempt = 1, !.lane = "ESCALATED"] \in Runs
    BY <2>1, <2>2, <2>3, <2>4, RunFields
  <2>6. NextRun \in Runs
    BY <2>5 DEF NextRun, w
  <2> QED
    BY <2>1, <2>6
<1>2. ASSUME NEW p \in todo, fpc = "drain"
      PROVE  p \in PRs /\ FirstRun(p) \in Runs
  <2>1. p \in PRs /\ queued[p].lane \in FixLanes /\ queued[p].surface \in Signatures
    BY <1>2 DEF Control, DrainQueued, TypeOK, Signatures
  <2> QED
    BY <2>1 DEF FirstRun, Runs, FixPhases
<1> QED
  BY <1>1, <1>2

\* What no step of the reconcile changes, and its own job, are typed.
LEMMA StillType ==
    ASSUME TypeOK, UNCHANGED still
    PROVE  /\ ilane' \in [PRs -> FixLanes] /\ surface' \in [PRs -> Surfaces]
           /\ fixHands' \in 0 .. MaxFixHands
           /\ fpc' \in {"idle", "started", "signed", "reconcile", "drain"}
           /\ sigs' \in [PRs -> Signatures] /\ listed' \in [PRs -> Runs]
           /\ queued' \in [PRs -> [lane : FixLanes, surface : Surfaces] \cup {NotQueued}]
BY DEF still, TypeOK

\* What a step does to the job in hand.
Moves ==
    \/ Done
    \/ \E s \in Steps, q \in Paths : Goto(s, q)

JobType == /\ todo' \subseteq PRs
           /\ cur' \in PRs \cup {NoPr} /\ step' \in Steps /\ path' \in Paths /\ view' \in Views

LEMMA MovesType ==
    ASSUME TypeOK, Moves
    PROVE  JobType
<1>1. /\ todo \subseteq PRs
      /\ cur \in PRs \cup {NoPr} /\ step \in Steps /\ path \in Paths /\ view \in Views
  BY DEF TypeOK
<1> QED
  BY <1>1 DEF Moves, Done, Goto, JobType, Steps, Paths, Views

\* What GitHub can come to know of a PR.
LEMMA OpenPrType ==
    /\ OpenPr \subseteq PrStates
    /\ \A s \in PrStates :
        /\ \A m \in OpenMerges \cup {"merged", "closed"}, c \in AllChecks :
             [s EXCEPT !.merge = m, !.checks = c] \in PrStates
        /\ \A m \in OpenMerges \cup {"merged", "closed"} : [s EXCEPT !.merge = m] \in PrStates
        /\ [s EXCEPT !.changes = ~@] \in PrStates
        /\ s.merge \in OpenMerges \cup {"merged", "closed"} /\ s.checks \in AllChecks
        /\ MergeStatus(s) \in Views
<1>1. OpenPr \subseteq PrStates
  BY DEF OpenPr, PrStates, PrFixAssumption
<1>2. ASSUME NEW s \in PrStates
      PROVE  /\ \A m \in OpenMerges \cup {"merged", "closed"}, c \in AllChecks :
                  [s EXCEPT !.merge = m, !.checks = c] \in PrStates
             /\ \A m \in OpenMerges \cup {"merged", "closed"} : [s EXCEPT !.merge = m] \in PrStates
             /\ [s EXCEPT !.changes = ~@] \in PrStates
             /\ s.merge \in OpenMerges \cup {"merged", "closed"} /\ s.checks \in AllChecks
  BY DEF PrStates
<1>3. ASSUME NEW s \in PrStates
      PROVE  MergeStatus(s) \in Views
  BY DEF MergeStatus, Judged, PrStates, OpenMerges, AllChecks, Views
<1> QED
  BY <1>1, <1>2, <1>3

\* A step of the reconcile or the drain is typed if what it writes is.
LEMMA WritesType ==
    ASSUME TypeOK, UNCHANGED still, JobType, faults' \in 0 .. MaxFaults,
           item' \in [PRs -> Items], pr' \in [PRs -> PrStates], fix' \in [PRs -> Runs],
           wasted' \in [PRs -> Nat], load' \in [Coders -> Nat], moved' \in BOOLEAN
    PROVE  TypeOK'
BY StillType DEF TypeOK, JobType

LEMMA MarkType ==
    ASSUME TypeOK, NEW p \in PRs, NEW s \in Items, NEW ok \in BOOLEAN, MarkCall(p, s, ok)
    PROVE  item' \in [PRs -> Items] /\ faults' \in 0 .. MaxFaults
<1>1. item \in [PRs -> Items]
  BY DEF TypeOK
<1>2. faults' \in 0 .. MaxFaults
  BY FaultType DEF MarkCall
<1> QED
  BY <1>1, <1>2 DEF MarkCall

LEMMA DrawType ==
    ASSUME TypeOK, NEW c, Draw(c) \/ load' = load
    PROVE  load' \in [Coders -> Nat]
<1>1. load \in [Coders -> Nat]
  BY DEF TypeOK
<1> QED
  BY <1>1 DEF Draw

\* Every step of the reconcile keeps the types.
LEMMA ReconcileType ==
    ASSUME TypeOK, Control, ReconcileStep
    PROVE  TypeOK'
<1>t. /\ item \in [PRs -> Items] /\ pr \in [PRs -> PrStates] /\ fix \in [PRs -> Runs]
      /\ wasted \in [PRs -> Nat] /\ load \in [Coders -> Nat] /\ moved \in BOOLEAN
      /\ todo \subseteq PRs /\ cur \in PRs \cup {NoPr} /\ step \in Steps /\ path \in Paths
      /\ view \in Views
  BY DEF TypeOK
<1>cur. ASSUME NEW s, At(s)
        PROVE  cur \in PRs
  BY <1>t, <1>cur DEF At
<1>1. ASSUME NEW p \in PRs, FixPick(p)
      PROVE  TypeOK'
  <2>1. JobType /\ faults' \in 0 .. MaxFaults
    BY <1>1, <1>t, FaultType DEF FixPick, JobType, Steps, Paths, Views
  <2> QED
    BY <1>1, <1>t, <2>1, WritesType DEF FixPick
<1>2. CASE FixProbe
  <2>1. pr[cur] \in PrStates
    BY <1>2, <1>t DEF FixProbe
  <2>2. view' \in Views
    BY <1>2, <2>1, OpenPrType DEF FixProbe, FailedRead, Views
  <2>3. JobType /\ faults' \in 0 .. MaxFaults
    BY <1>2, <1>t, <2>2, FaultType DEF FixProbe, JobType, Steps
  <2>4. moved' \in BOOLEAN
    BY <1>2 DEF FixProbe
  <2> QED
    BY <1>2, <1>t, <2>3, <2>4, WritesType DEF FixProbe
<1>3. CASE FixUpdateBranch
  <2>1. cur \in PRs /\ pr[cur] \in PrStates
    BY <1>3, <1>t, <1>cur DEF FixUpdateBranch
  <2>2. [pr[cur] EXCEPT !.merge = IF @ = "dirty" THEN "unknown" ELSE @] \in PrStates
    <3>1. (IF pr[cur].merge = "dirty" THEN "unknown" ELSE pr[cur].merge)
             \in OpenMerges \cup {"merged", "closed"}
      BY <2>1, OpenPrType DEF OpenMerges
    <3> QED
      BY <2>1, <3>1, OpenPrType
  <2>3. pr' = pr \/ pr' = [pr EXCEPT ![cur] = [pr[cur] EXCEPT !.merge =
                                                IF @ = "dirty" THEN "unknown" ELSE @]]
    BY <1>3 DEF FixUpdateBranch
  <2>4. pr' \in [PRs -> PrStates]
    BY <1>t, <2>1, <2>2, <2>3
  <2>5. JobType /\ faults' \in 0 .. MaxFaults
    BY <1>3, <1>t, FaultType DEF FixUpdateBranch, JobType, Steps
  <2> QED
    BY <1>3, <1>t, <2>4, <2>5, WritesType DEF FixUpdateBranch
<1>4. CASE \/ FixOver \/ FixSucceeded \/ FixChangesRequested \/ FixWait \/ FixRetry
           \/ FixSpent
  <2>1. Moves
    BY <1>4 DEF FixOver, FixSucceeded, FixChangesRequested, FixWait, FixRetry, FixSpent, Moves,
                Steps, Paths
  <2>2. NoFault /\ UNCHANGED <<item, pr, fix, wasted, load, moved, still>>
    BY <1>4 DEF FixOver, FixSucceeded, FixChangesRequested, FixWait, FixRetry, FixSpent
  <2>3. JobType /\ faults' \in 0 .. MaxFaults
    BY <2>1, <2>2, MovesType, FaultType
  <2> QED
    BY <1>t, <2>2, <2>3, WritesType
<1>5. CASE FixMark
  <2>1. PICK ok \in BOOLEAN :
          /\ MarkCall(cur, MarkOf(path), ok)
          /\ Goto("delete", path) \/ Done
    BY <1>5 DEF FixMark
  <2>2. cur \in PRs
    BY <1>5, <1>cur DEF FixMark
  <2>3. item' \in [PRs -> Items] /\ faults' \in 0 .. MaxFaults
    <3>1. MarkOf(path) \in Items
      BY <1>5 DEF FixMark, Control, MarkPath, MarkOf, Items
    <3> QED
      BY <2>1, <2>2, <3>1, MarkType
  <2>4. JobType
    BY <1>t, <2>1, MovesType DEF Moves, Steps
  <2> QED
    BY <1>5, <1>t, <2>3, <2>4, WritesType DEF FixMark
<1>6. CASE FixDelete
  <2>1. cur \in PRs
    BY <1>6, <1>cur DEF FixDelete
  <2>2. PICK ok \in BOOLEAN : FixCall(Removed(cur), ok) /\ (Goto("create", path) \/ Done)
    BY <1>6 DEF FixDelete
  <2>3. /\ fix' \in [PRs -> Runs] /\ wasted' \in [PRs -> Nat]
        /\ faults' \in 0 .. MaxFaults
    <3>1. NoRun \in Runs
      BY DEF NoRun, Runs, FixPhases, Signatures, FixLanes
    <3> QED
      BY <2>1, <2>2, <3>1, FixCallType
  <2>4. JobType
    BY <1>t, <2>2, MovesType DEF Moves, Steps
  <2> QED
    BY <1>6, <1>t, <2>3, <2>4, WritesType DEF FixDelete
<1>7. CASE FixCreate
  <2>1. cur \in PRs /\ NextRun \in Runs
    BY <1>7, RunType DEF FixCreate
  <2>2. PICK ok \in BOOLEAN : FixCall(Placed(cur, NextRun), ok)
    BY <1>7 DEF FixCreate
  <2>3. /\ fix' \in [PRs -> Runs] /\ wasted' \in [PRs -> Nat]
        /\ faults' \in 0 .. MaxFaults
    BY <2>1, <2>2, FixCallType
  <2>4. JobType
    BY <1>7, MovesType DEF FixCreate, Moves
  <2>5. load' \in [Coders -> Nat]
    BY <1>7, DrawType DEF FixCreate
  <2> QED
    BY <1>7, <1>t, <2>3, <2>4, <2>5, WritesType DEF FixCreate
<1> QED
  BY <1>1, <1>2, <1>3, <1>4, <1>5, <1>6, <1>7 DEF ReconcileStep

\* The end of a tick forgets what the tick read.
LEMMA EndTickType ==
    ASSUME TypeOK, EndTick, UNCHANGED <<queueVars, pr, fix, wasted, fixHands>>,
           faults' \in 0 .. MaxFaults
    PROVE  TypeOK'
<1>1. NoRun \in Runs /\ Unsigned \in Signatures
  BY DEF NoRun, Runs, FixPhases, Signatures, FixLanes
<1>2. /\ load' = [c \in Coders |-> 0] /\ sigs' = [p \in PRs |-> Unsigned]
      /\ listed' = [p \in PRs |-> NoRun] /\ queued' = [p \in PRs |-> NotQueued]
  BY DEF EndTick
<1>3. /\ load' \in [Coders -> Nat] /\ sigs' \in [PRs -> Signatures]
      /\ listed' \in [PRs -> Runs]
      /\ queued' \in [PRs -> [lane : FixLanes, surface : Surfaces] \cup {NotQueued}]
  BY <1>1, <1>2
<1>4. /\ fpc' = "idle" /\ todo' = {} /\ cur' = NoPr /\ step' = "pick" /\ path' = "none"
      /\ view' = "none" /\ moved' = FALSE
  BY DEF EndTick
<1>5. /\ item' \in [PRs -> Items] /\ ilane' \in [PRs -> FixLanes]
      /\ surface' \in [PRs -> Surfaces] /\ pr' \in [PRs -> PrStates]
      /\ fix' \in [PRs -> Runs] /\ wasted' \in [PRs -> Nat] /\ fixHands' \in 0 .. MaxFixHands
  BY DEF TypeOK, queueVars
<1> QED
  BY <1>3, <1>4, <1>5 DEF TypeOK, Steps, Paths, Views

\* The steps of the tick outside the reconcile keep the types.
LEMMA TickType ==
    ASSUME TypeOK, Control,
           \/ StartTick \/ SnapshotSignatures \/ StartReconcile \/ StartDrain
           \/ \E p \in PRs : DrainSkip(p) \/ DrainCreate(p)
           \/ FinishFixes \/ CrashFixes
    PROVE  TypeOK'
<1>t. /\ item \in [PRs -> Items] /\ pr \in [PRs -> PrStates] /\ fix \in [PRs -> Runs]
      /\ wasted \in [PRs -> Nat] /\ load \in [Coders -> Nat] /\ moved \in BOOLEAN
      /\ todo \subseteq PRs /\ cur \in PRs \cup {NoPr} /\ step \in Steps /\ path \in Paths
      /\ view \in Views /\ ilane \in [PRs -> FixLanes] /\ surface \in [PRs -> Surfaces]
      /\ fixHands \in 0 .. MaxFixHands /\ sigs \in [PRs -> Signatures]
      /\ listed \in [PRs -> Runs] /\ faults \in 0 .. MaxFaults
      /\ queued \in [PRs -> [lane : FixLanes, surface : Surfaces] \cup {NotQueued}]
  BY DEF TypeOK
<1>1. CASE StartTick
  <2>1. ASSUME NEW c \in Coders
        PROVE  FixLoad(c) \in Nat
    <3>1. IsFiniteSet({p \in PRs : fix[p].phase = "Active" /\ CoderOf(fix[p].lane) = c})
      <4>1. {p \in PRs : fix[p].phase = "Active" /\ CoderOf(fix[p].lane) = c} \subseteq PRs
        OBVIOUS
      <4> QED
        BY <4>1, FS_Subset DEF PrFixAssumption
    <3> QED
      BY <3>1, FS_CardinalityType DEF FixLoad
  <2>2. load' \in [Coders -> Nat]
    <3>1. CASE Slots = 0
      BY <1>1, <1>t, <3>1 DEF StartTick
    <3>2. CASE Slots # 0
      <4>1. PICK others \in [Coders -> 0 .. OtherLoad] :
              load' = [c \in Coders |-> FixLoad(c) + others[c]]
        BY <1>1, <3>2 DEF StartTick
      <4>2. \A c \in Coders : FixLoad(c) + others[c] \in Nat
        BY <2>1, <4>1 DEF PrFixAssumption
      <4> QED
        BY <4>1, <4>2
    <3> QED
      BY <3>1, <3>2
  <2>3. fpc' = "started" /\ NoFault
        /\ UNCHANGED <<queueVars, pr, fix, wasted, fixHands, sigs, listed, todo, jobVars,
                       queued, moved>>
    BY <1>1 DEF StartTick
  <2> QED
    BY <1>t, <2>2, <2>3 DEF TypeOK, queueVars, jobVars, NoFault
<1>2. CASE SnapshotSignatures
  <2>1. PICK dark \in SUBSET FixLanes :
          /\ DarkLanes(dark)
          /\ sigs' = [p \in PRs |-> IF p \in QueueListing(dark)
                                    THEN SnapshotSignature(p) ELSE Unsigned]
    BY <1>2 DEF SnapshotSignatures
  <2>2. faults' \in 0 .. MaxFaults
    BY <2>1, FaultType DEF DarkLanes
  <2>3. sigs' \in [PRs -> Signatures]
    BY <2>1 DEF SnapshotSignature, Signatures
  <2>4. fpc' = "signed"
        /\ UNCHANGED <<queueVars, pr, fix, wasted, fixHands, load, listed, todo, jobVars,
                       queued, moved>>
    BY <1>2 DEF SnapshotSignatures
  <2> QED
    BY <1>t, <2>2, <2>3, <2>4 DEF TypeOK, queueVars, jobVars
<1>3. CASE StartReconcile
  <2>1. todo' \subseteq PRs /\ listed' \in [PRs -> Runs]
    BY <1>3, <1>t DEF StartReconcile
  <2>2. fpc' = "reconcile" /\ NoFault
        /\ UNCHANGED <<queueVars, pr, fix, wasted, fixHands, load, sigs, jobVars, queued, moved>>
    BY <1>3 DEF StartReconcile
  <2> QED
    BY <1>t, <2>1, <2>2 DEF TypeOK, queueVars, jobVars, NoFault
<1>4. CASE StartDrain
  <2>1. PICK dark \in SUBSET FixLanes :
          /\ DarkLanes(dark)
          /\ todo' = QueueListing(dark)
          /\ queued' = [p \in PRs |-> IF p \in QueueListing(dark)
                                      THEN [lane |-> ilane[p], surface |-> surface[p]]
                                      ELSE NotQueued]
    BY <1>4 DEF StartDrain
  <2>2. faults' \in 0 .. MaxFaults
    BY <2>1, FaultType DEF DarkLanes
  <2>3. todo' \subseteq PRs
    BY <2>1 DEF QueueListing
  <2>4. queued' \in [PRs -> [lane : FixLanes, surface : Surfaces] \cup {NotQueued}]
    BY <1>t, <2>1
  <2>5. fpc' = "drain" /\ listed' = fix
        /\ UNCHANGED <<queueVars, pr, fix, wasted, fixHands, load, sigs, jobVars, moved>>
    BY <1>4 DEF StartDrain
  <2> QED
    BY <1>t, <2>2, <2>3, <2>4, <2>5 DEF TypeOK, queueVars, jobVars
<1>5. ASSUME NEW p \in PRs, DrainSkip(p)
      PROVE  TypeOK'
  <2>1. JobType /\ faults' \in 0 .. MaxFaults
    BY <1>5, <1>t, FaultType DEF DrainSkip, JobType
  <2> QED
    BY <1>5, <1>t, <2>1, WritesType DEF DrainSkip
<1>6. ASSUME NEW p \in PRs, DrainCreate(p)
      PROVE  TypeOK'
  <2>1. FirstRun(p) \in Runs
    BY <1>6, RunType DEF DrainCreate
  <2>2. PICK ok \in BOOLEAN :
          /\ FixCall(Placed(p, FirstRun(p)), ok)
          /\ IF ok THEN Draw(CoderOf(queued[p].lane)) ELSE load' = load
    BY <1>6 DEF DrainCreate
  <2>3. fix' \in [PRs -> Runs] /\ wasted' \in [PRs -> Nat] /\ faults' \in 0 .. MaxFaults
    BY <2>1, <2>2, FixCallType
  <2>4. load' \in [Coders -> Nat]
    BY <2>2, DrawType
  <2>5. JobType
    BY <1>6, <1>t DEF DrainCreate, JobType
  <2> QED
    BY <1>6, <1>t, <2>3, <2>4, <2>5, WritesType DEF DrainCreate
<1>7. CASE FinishFixes \/ CrashFixes
  <2>1. EndTick /\ UNCHANGED <<queueVars, pr, fix, wasted, fixHands>>
    BY <1>7 DEF FinishFixes, CrashFixes
  <2>2. faults' \in 0 .. MaxFaults
    BY <1>7, FaultType DEF FinishFixes, CrashFixes
  <2> QED
    BY <2>1, <2>2, EndTickType
<1> QED
  BY <1>1, <1>2, <1>3, <1>4, <1>5, <1>6, <1>7

\* What others do keeps the types.
LEMMA OutsideType ==
    ASSUME TypeOK, NEW p \in PRs, Outside(p)
    PROVE  TypeOK'
<1>t. /\ item \in [PRs -> Items] /\ pr \in [PRs -> PrStates] /\ fix \in [PRs -> Runs]
      /\ surface \in [PRs -> Surfaces] /\ moved \in BOOLEAN
      /\ fixHands \in 0 .. MaxFixHands /\ faults \in 0 .. MaxFaults
  BY DEF TypeOK
<1>o. ASSUME UNCHANGED outside, faults' = faults, fixHands' \in 0 .. MaxFixHands,
             item' \in [PRs -> Items], pr' \in [PRs -> PrStates], fix' \in [PRs -> Runs],
             surface' \in [PRs -> Surfaces], moved' \in BOOLEAN
      PROVE  TypeOK'
  BY <1>o DEF TypeOK, outside, jobVars
<1>b. ASSUME NEW s \in PrStates, PrBecomes(p, s)
      PROVE  pr' \in [PRs -> PrStates] /\ moved' \in BOOLEAN
  BY <1>b, <1>t DEF PrBecomes
<1>h. ASSUME NEW kind, FixHand(kind)
      PROVE  fixHands' \in 0 .. MaxFixHands /\ faults' = faults
  BY <1>h, <1>t DEF FixHand, NoFault, PrFixAssumption
<1>s. pr[p] \in PrStates /\ fix[p] \in Runs
  BY <1>t
<1>1. CASE RunEnds(p)
  <2>1. fix' \in [PRs -> Runs]
    <3>1. PICK how \in {"Succeeded", "Failed"} : fix' = [fix EXCEPT ![p].phase = how]
      BY <1>1 DEF RunEnds
    <3>2. [fix[p] EXCEPT !.phase = how] \in Runs
      BY <1>s, <3>1 DEF Runs, FixPhases
    <3>3. fix' = [fix EXCEPT ![p] = [fix[p] EXCEPT !.phase = how]]
      BY <3>1, <1>t
    <3> QED
      BY <1>t, <3>2, <3>3
  <2>2. pr' \in [PRs -> PrStates] /\ moved' \in BOOLEAN /\ surface' \in [PRs -> Surfaces]
    <3>1. CASE Over(p)
      BY <1>1, <1>t, <3>1 DEF RunEnds
    <3>2. CASE ~Over(p)
      BY <1>1, <1>b, <3>2, OpenPrType DEF RunEnds
    <3> QED
      BY <3>1, <3>2
  <2>3. NoFault /\ UNCHANGED <<item, fixHands, outside>>
    BY <1>1 DEF RunEnds
  <2> QED
    BY <1>o, <1>t, <2>1, <2>2, <2>3 DEF NoFault
<1>2. CASE PrSettles(p)
  <2>1. PICK m \in Merges \ {"dirty", "unknown"}, c \in Checks \ {"pending"} :
          PrBecomes(p, [pr[p] EXCEPT !.merge = IF @ = "unknown" THEN m ELSE @, !.checks = c])
    BY <1>2 DEF PrSettles
  <2>2. [pr[p] EXCEPT !.merge = IF @ = "unknown" THEN m ELSE @, !.checks = c] \in PrStates
    <3>1. (IF pr[p].merge = "unknown" THEN m ELSE pr[p].merge)
             \in OpenMerges \cup {"merged", "closed"}
      BY <1>s, OpenPrType DEF PrFixAssumption
    <3>2. c \in AllChecks
      BY DEF PrFixAssumption
    <3> QED
      BY <1>s, <3>1, <3>2, OpenPrType
  <2>3. pr' \in [PRs -> PrStates] /\ moved' \in BOOLEAN
    BY <1>b, <2>1, <2>2
  <2>4. NoFault /\ UNCHANGED <<item, surface, fix, fixHands, outside>>
    BY <1>2 DEF PrSettles
  <2> QED
    BY <1>o, <1>t, <2>3, <2>4 DEF NoFault
<1>3. CASE PrHand(p)
  <2>1. PICK s \in PrStates : PrBecomes(p, s)
    <3>1. CASE FixHand("review") /\ PrBecomes(p, [pr[p] EXCEPT !.changes = ~@])
      BY <1>s, <3>1, OpenPrType
    <3>2. CASE \E m \in {"merged", "closed", "dirty"} :
                 PrBecomes(p, [pr[p] EXCEPT !.merge = m])
      BY <1>s, <3>2, OpenPrType DEF OpenMerges
    <3> QED
      BY <1>3, <3>1, <3>2 DEF PrHand
  <2>2. \E kind \in AllHands : FixHand(kind)
    BY <1>3 DEF PrHand, AllHands
  <2>3. UNCHANGED <<item, surface, fix, outside>>
    BY <1>3 DEF PrHand
  <2> QED
    BY <1>b, <1>h, <1>o, <1>t, <2>1, <2>2, <2>3
<1>4. CASE Requeue(p)
  BY <1>4, <1>h, <1>o, <1>t DEF Requeue, Items
<1>5. CASE LoseFix(p)
  <2>1. NoRun \in Runs
    BY DEF NoRun, Runs, FixPhases, Signatures, FixLanes
  <2> QED
    BY <1>5, <1>h, <1>o, <1>t, <2>1 DEF LoseFix
<1> QED
  BY <1>1, <1>2, <1>3, <1>4, <1>5 DEF Outside

LEMMA TypeStep ==
    ASSUME TypeOK, Control, [Next]_vars
    PROVE  TypeOK'
<1>1. CASE FixStep \/ CrashFixes
  BY <1>1, ReconcileType, TickType DEF FixStep
<1>2. ASSUME NEW p \in PRs, Outside(p)
      PROVE  TypeOK'
  BY <1>2, OutsideType
<1>3. CASE UNCHANGED vars
  BY <1>3 DEF vars, queueVars, tickVars, jobVars, TypeOK
<1> QED
  BY <1>1, <1>2, <1>3 DEF Next

-----------------------------------------------------------------------------
(* The control part of the invariant.                                      *)

\* It says nothing outside the reconcile and the drain.
LEMMA IdleControl ==
    ASSUME fpc' \notin {"reconcile", "drain"}, cur' = NoPr
    PROVE  Control'
BY DEF Control, DrainQueued, PathInBudget, ViewTrue, GaveUp, MarkedFirst, MarkPath, PathLater,
       HandFree, InHand, At

\* Nor of the reconcile between two Workloads.
LEMMA FreeControl ==
    ASSUME fpc' = "reconcile", cur' = NoPr
    PROVE  Control'
BY DEF Control, DrainQueued, PathInBudget, ViewTrue, GaveUp, MarkedFirst, MarkPath, PathLater,
       HandFree, InHand, At

LEMMA TickControl ==
    ASSUME TypeOK, Control,
           \/ StartTick \/ SnapshotSignatures \/ StartReconcile \/ StartDrain
           \/ \E p \in PRs : DrainSkip(p) \/ DrainCreate(p)
           \/ FinishFixes \/ CrashFixes
    PROVE  Control'
<1>1. CASE StartTick \/ SnapshotSignatures \/ FinishFixes \/ CrashFixes
  <2>1. fpc' \notin {"reconcile", "drain"} /\ cur' = NoPr
    BY <1>1 DEF StartTick, SnapshotSignatures, FinishFixes, CrashFixes, EndTick, jobVars,
                Control, HandFree
  <2> QED
    BY <2>1, IdleControl
<1>2. CASE StartReconcile
  <2>1. fpc' = "reconcile" /\ cur' = NoPr
    BY <1>2 DEF StartReconcile, jobVars, Control, HandFree
  <2> QED
    BY <2>1, FreeControl
<1>3. ASSUME fpc' = "drain", cur' = NoPr, DrainQueued'
      PROVE  Control'
  BY <1>3 DEF Control, PathInBudget, ViewTrue, GaveUp, MarkedFirst, MarkPath, PathLater,
              HandFree, InHand, At
<1>4. CASE StartDrain
  <2>1. fpc' = "drain" /\ cur' = NoPr
    BY <1>4 DEF StartDrain, jobVars
  <2>2. DrainQueued'
    <3>1. PICK dark \in SUBSET FixLanes :
            /\ todo' = QueueListing(dark)
            /\ queued' = [p \in PRs |-> IF p \in QueueListing(dark)
                                        THEN [lane |-> ilane[p], surface |-> surface[p]]
                                        ELSE NotQueued]
      BY <1>4 DEF StartDrain
    <3>2. ASSUME NEW p \in todo'
          PROVE  queued'[p] \in [lane : FixLanes, surface : Surfaces]
      <4>1. p \in PRs /\ queued'[p] = [lane |-> ilane[p], surface |-> surface[p]]
        BY <3>1, <3>2 DEF QueueListing
      <4> QED
        BY <4>1 DEF TypeOK
    <3> QED
      BY <3>2 DEF DrainQueued
  <2> QED
    BY <1>3, <2>1, <2>2
<1>5. ASSUME NEW p \in PRs, DrainSkip(p) \/ DrainCreate(p)
      PROVE  Control'
  <2>1. fpc = "drain" /\ fpc' = "drain" /\ cur' = cur /\ todo' = todo \ {p} /\ queued' = queued
    BY <1>5 DEF DrainSkip, DrainCreate, still
  <2>2. cur' = NoPr /\ DrainQueued'
    BY <2>1 DEF Control, HandFree, DrainQueued
  <2> QED
    BY <1>3, <2>1, <2>2
<1> QED
  BY <1>1, <1>2, <1>4, <1>5

\* A clean answer is evidence.
LEMMA MergeEvidence ==
    ASSUME TypeOK, NEW p \in PRs, MergeStatus(pr[p]) \in {"ok", "merged"}
    PROVE  Evidence(p)
<1>1. pr[p].merge \in OpenMerges \cup {"merged", "closed"} /\ pr[p].checks \in AllChecks
  BY OpenPrType DEF TypeOK
<1>2. pr[p].merge = "merged" \/ (pr[p].merge = "clean" /\ pr[p].checks = "passed")
  BY <1>1 DEF MergeStatus, Judged, AllChecks, OpenMerges
<1> QED
  BY <1>2 DEF Evidence

\* What the steps of the reconcile share.
LEMMA ReconcileFrame ==
    ASSUME ReconcileStep
    PROVE  fpc = "reconcile" /\ UNCHANGED <<fpc, listed, queued, fixHands, sigs>>
BY DEF ReconcileStep, FixPick, FixProbe, FixUpdateBranch, FixOver, FixSucceeded,
       FixChangesRequested, FixWait, FixRetry, FixSpent, FixMark, FixDelete, FixCreate,
       Ready, At, still

\* It is enough to look at the Workload in hand.
LEMMA HandControl ==
    ASSUME fpc' = "reconcile", PathInBudget', ViewTrue', GaveUp', MarkedFirst', MarkPath',
           PathLater'
    PROVE  Control'
BY DEF Control, DrainQueued, HandFree

\* Choosing a branch.
LEMMA ChoiceControl ==
    ASSUME TypeOK, Control,
           \/ FixOver \/ FixSucceeded \/ FixChangesRequested \/ FixWait \/ FixRetry \/ FixSpent
    PROVE  Control'
<1>1. fpc = "reconcile" /\ UNCHANGED <<fpc, listed, queued, fixHands, sigs>>
  BY ReconcileFrame DEF ReconcileStep
<1>2. /\ At("act") /\ cur \in PRs /\ UNCHANGED <<item, pr, fix, moved>>
      /\ listed[cur] \in Runs
  BY DEF FixOver, FixSucceeded, FixChangesRequested, FixWait, FixRetry, FixSpent, Ready, At,
         TypeOK
<1>3. CASE Done
  BY <1>1, <1>3, FreeControl DEF Done
<1>4. ASSUME NEW s \in {"mark", "delete"}, NEW q \in Paths, Goto(s, q),
             /\ q = "retry" => listed[cur].attempt < FixAttempts
             /\ q = "progress" => listed[cur].progress < FixProgress
             /\ q = "escalate" => listed[cur].lane = "NORMAL"
             /\ q = "FIXED" => view \in {"ok", "merged"}
             /\ q = "BLOCKED" => /\ listed[cur].attempt >= FixAttempts
                                 /\ listed[cur].lane = "NORMAL" => EscalatedCoder = NormalCoder
             /\ q = "giveup" => listed[cur].progress >= FixProgress
             /\ s = "delete" => q \notin {"FIXED", "STALE"}
             /\ s = "mark" => q \in {"FIXED", "STALE", "BLOCKED", "giveup"}
      PROVE  Control'
  <2>1. PathInBudget' /\ GaveUp' /\ MarkedFirst' /\ MarkPath' /\ PathLater'
    BY <1>1, <1>2, <1>4 DEF Goto, PathInBudget, GaveUp, MarkedFirst, MarkPath, PathLater,
                            InHand, At
  <2>2. ViewTrue'
    BY <1>1, <1>2, <1>4 DEF Goto, Control, ViewTrue, InHand, At, Evidence
  <2> QED
    BY <1>1, <2>1, <2>2, HandControl
<1>5. CASE FixOver \/ FixSucceeded \/ FixChangesRequested
  BY <1>4, <1>5 DEF FixOver, FixSucceeded, FixChangesRequested, Succeeded, Paths
<1>6. CASE FixWait
  BY <1>3, <1>6 DEF FixWait
<1>7. CASE FixRetry
  <2>1. /\ ~Spent => listed[cur].attempt < FixAttempts
        /\ ~(listed[cur].progress < FixProgress) => listed[cur].progress >= FixProgress
    BY <1>2 DEF Spent, Runs, PrFixAssumption
  <2> QED
    BY <1>3, <1>4, <1>7, <2>1 DEF FixRetry, Paths
<1>8. CASE FixSpent
  BY <1>3, <1>4, <1>8 DEF FixSpent, Spent, CanEscalate, Paths
<1> QED
  BY <1>5, <1>6, <1>7, <1>8

LEMMA ReconcileControl ==
    ASSUME TypeOK, Control, ReconcileStep
    PROVE  Control'
<1>1. fpc = "reconcile" /\ UNCHANGED <<fpc, listed, queued, fixHands, sigs>>
  BY ReconcileFrame
<1>c. /\ PathInBudget /\ ViewTrue /\ GaveUp /\ MarkedFirst /\ MarkPath /\ PathLater
  BY DEF Control
<1>2. ASSUME NEW p \in PRs, FixPick(p)
      PROVE  Control'
  <2>1. step' = "probe" /\ path' = "none"
    BY <1>2 DEF FixPick
  <2>2. PathInBudget' /\ GaveUp' /\ MarkedFirst' /\ MarkPath' /\ PathLater' /\ ViewTrue'
    BY <2>1 DEF PathInBudget, GaveUp, MarkedFirst, MarkPath, PathLater, ViewTrue, At
  <2> QED
    BY <1>1, <2>2, HandControl
<1>3. CASE FixProbe
  <2>1. /\ step' \in {"update", "act"} /\ path' = "none" /\ cur' = cur /\ cur \in PRs
        /\ step' = "update" => view' = "dirty"
        /\ pr' = pr
    BY <1>1, <1>3, <1>c DEF FixProbe, PathLater, InHand, TypeOK
  <2>2. PathInBudget' /\ GaveUp' /\ MarkedFirst' /\ MarkPath' /\ PathLater'
    BY <2>1 DEF PathInBudget, GaveUp, MarkedFirst, MarkPath, PathLater, At
  <2>3. ViewTrue'
    <3>1. view' \in {"ok", "merged"} => view' = MergeStatus(pr[cur])
      BY <1>3 DEF FixProbe, FailedRead
    <3>2. view' \in {"ok", "merged"} => Evidence(cur)
      BY <2>1, <3>1, MergeEvidence
    <3> QED
      BY <2>1, <3>2 DEF ViewTrue, Evidence
  <2> QED
    BY <1>1, <2>2, <2>3, HandControl
<1>4. CASE FixUpdateBranch
  <2>1. step' \in {"reprobe", "act"} /\ path' = "none" /\ cur' = cur /\ view' = "dirty"
    BY <1>1, <1>4, <1>c DEF FixUpdateBranch, At, PathLater, InHand
  <2>2. PathInBudget' /\ GaveUp' /\ MarkedFirst' /\ MarkPath' /\ PathLater' /\ ViewTrue'
    BY <2>1 DEF PathInBudget, GaveUp, MarkedFirst, MarkPath, PathLater, ViewTrue, At
  <2> QED
    BY <1>1, <2>2, HandControl
<1>5. CASE \/ FixOver \/ FixSucceeded \/ FixChangesRequested \/ FixWait \/ FixRetry
           \/ FixSpent
  BY <1>5, ChoiceControl
<1>6. CASE FixMark
  <2>1. PICK ok \in BOOLEAN :
          /\ MarkCall(cur, MarkOf(path), ok)
          /\ IF path = "giveup" \/ (ok /\ path # "BLOCKED") THEN Goto("delete", path) ELSE Done
    BY <1>6 DEF FixMark
  <2>2. CASE Done
    BY <1>1, <2>2, FreeControl DEF Done
  <2>3. CASE Goto("delete", path) /\ (path = "giveup" \/ (ok /\ path # "BLOCKED"))
    <3>1. step' = "delete" /\ path' = path /\ cur' = cur /\ pr' = pr /\ moved' = moved
          /\ cur \in PRs /\ item \in [PRs -> Items] /\ InHand
      BY <1>1, <1>6, <2>3 DEF Goto, FixMark, At, TypeOK, InHand
    <3>2. MarkedFirst'
      BY <2>1, <2>3, <3>1 DEF MarkedFirst, MarkCall, MarkOf
    <3>3. PathInBudget' /\ GaveUp' /\ MarkPath' /\ PathLater'
      BY <1>1, <1>c, <3>1 DEF PathInBudget, GaveUp, MarkPath, PathLater, At, InHand
    <3>4. ViewTrue'
      BY <1>c, <3>1 DEF ViewTrue, Evidence
    <3> QED
      BY <1>1, <3>2, <3>3, <3>4, HandControl
  <2> QED
    BY <2>1, <2>2, <2>3
<1>7. CASE FixDelete
  <2>1. Done \/ (Goto("create", path) /\ path \in {"retry", "progress", "escalate"})
    BY <1>7 DEF FixDelete
  <2>2. CASE Done
    BY <1>1, <2>2, FreeControl DEF Done
  <2>3. CASE Goto("create", path) /\ path \in {"retry", "progress", "escalate"}
    <3>1. step' = "create" /\ path' = path /\ cur' = cur /\ InHand
      BY <1>1, <1>7, <2>3 DEF Goto, FixDelete, At, InHand
    <3>2. PathInBudget' /\ GaveUp' /\ MarkedFirst' /\ MarkPath' /\ PathLater' /\ ViewTrue'
      BY <1>1, <1>c, <2>3, <3>1 DEF PathInBudget, GaveUp, MarkedFirst, MarkPath, PathLater,
                                    ViewTrue, At, InHand
    <3> QED
      BY <1>1, <3>2, HandControl
  <2> QED
    BY <2>1, <2>2, <2>3
<1>8. CASE FixCreate
  BY <1>1, <1>8, FreeControl DEF FixCreate, Done
<1> QED
  BY <1>2, <1>3, <1>4, <1>5, <1>6, <1>7, <1>8 DEF ReconcileStep

LEMMA OutsideControl ==
    ASSUME TypeOK, Control, NEW p \in PRs, Outside(p)
    PROVE  Control'
<1>c. DrainQueued /\ PathInBudget /\ ViewTrue /\ GaveUp /\ MarkedFirst /\ MarkPath /\ PathLater
      /\ HandFree
  BY DEF Control
<1>1. UNCHANGED <<fpc, listed, todo, cur, step, path, view, queued>>
  BY DEF Outside, RunEnds, PrSettles, PrHand, Requeue, LoseFix, outside, jobVars
<1>2. \/ UNCHANGED <<pr, moved>>
      \/ \E s : PrBecomes(p, s)
  BY DEF Outside, RunEnds, PrSettles, PrHand, Requeue, LoseFix
<1>3. (item' = item /\ fixHands' = fixHands) \/ fixHands' > 0
  <2>1. fixHands + 1 > 0
    BY DEF TypeOK, PrFixAssumption
  <2>2. CASE RunEnds(p) \/ PrSettles(p)
    BY <2>2 DEF RunEnds, PrSettles
  <2>3. CASE PrHand(p) \/ Requeue(p) \/ LoseFix(p)
    <3>1. fixHands' = fixHands + 1
      BY <2>3 DEF PrHand, Requeue, LoseFix, FixHand
    <3> QED
      BY <2>1, <3>1
  <2> QED
    BY <2>2, <2>3 DEF Outside
<1>4. DrainQueued' /\ PathInBudget' /\ GaveUp' /\ MarkPath' /\ PathLater' /\ HandFree'
  BY <1>c, <1>1 DEF DrainQueued, PathInBudget, GaveUp, MarkPath, PathLater, HandFree, InHand, At
<1>5. ViewTrue'
  <2>1. ~moved' => ~moved /\ (InHand' => Evidence(cur)' = Evidence(cur))
    BY <1>1, <1>2 DEF PrBecomes, Evidence, TypeOK, InHand
  <2> QED
    BY <1>c, <1>1, <2>1 DEF ViewTrue, InHand
<1>6. MarkedFirst'
  BY <1>c, <1>1, <1>3 DEF MarkedFirst, At
<1> QED
  BY <1>4, <1>5, <1>6 DEF Control

LEMMA ControlStep ==
    ASSUME TypeOK, Control, [Next]_vars
    PROVE  Control'
<1>1. CASE FixStep \/ CrashFixes
  BY <1>1, ReconcileControl, TickControl DEF FixStep
<1>2. ASSUME NEW p \in PRs, Outside(p)
      PROVE  Control'
  BY <1>2, OutsideControl
<1>3. CASE UNCHANGED vars
  BY <1>3 DEF vars, queueVars, tickVars, jobVars, Control, DrainQueued, PathInBudget, ViewTrue,
              GaveUp, MarkedFirst, MarkPath, PathLater, HandFree, InHand, At, Evidence
<1> QED
  BY <1>1, <1>2, <1>3 DEF Next

-----------------------------------------------------------------------------
(* The budgets.                                                            *)

\* A further unit of progress or tier admits one more spent series.
LEMMA OneMore ==
    ASSUME NEW x \in Nat, NEW f \in Nat
    PROVE  (x + 1) * f = x * f + f /\ x * f \in Nat
OBVIOUS

LEMMA NoRunBounded == Bounded(NoRun)
<1>1. Tier(NoRun) = 0 /\ NoRun.progress = 0 /\ NoRun.attempt = 0 /\ NoRun.runs = 0
  BY DEF Tier, NoRun
<1>2. (0 + 0) * FixAttempts = 0
  BY DEF PrFixAssumption
<1> QED
  BY <1>1, <1>2 DEF Bounded, PrFixAssumption

\* The first run of a series is within bounds.
LEMMA FirstRunBounded ==
    ASSUME NEW p \in PRs, FirstRun(p) \in Runs
    PROVE  Bounded(FirstRun(p))
<1> DEFINE w == FirstRun(p)
<1>1. w.attempt = 1 /\ w.progress = 0 /\ w.runs = 1
  BY DEF FirstRun
<1>2. Tier(w) \in Nat
  BY DEF Tier
<1> HIDE DEF w
<1>3. (0 + Tier(w)) * FixAttempts \in Nat
  BY <1>2, OneMore DEF PrFixAssumption
<1> QED
  BY <1>1, <1>3 DEF Bounded, PrFixAssumption, w

\* So is the run that replaces another.
LEMMA NextRunBounded ==
    ASSUME TypeOK, Control, ListedBounded, At("create"),
           path \in {"retry", "progress", "escalate"}
    PROVE  Bounded(NextRun)
<1>1. cur \in PRs /\ listed[cur] \in Runs /\ NextRun \in Runs
  BY RunType DEF At, TypeOK
<1> DEFINE v == listed[cur]
           w == NextRun
<1>2. /\ v.attempt \in Nat /\ v.progress \in Nat /\ v.runs \in Nat /\ v.lane \in FixLanes
      /\ FixAttempts \in Nat /\ FixAttempts >= 1 /\ FixProgress \in Nat
  BY <1>1 DEF Runs, PrFixAssumption
<1>3. /\ v.attempt <= FixAttempts /\ v.progress <= FixProgress
      /\ v.runs <= (v.progress + Tier(v)) * FixAttempts + v.attempt
  BY <1>1 DEF ListedBounded, Bounded
<1>4. Tier(v) \in Nat /\ v.progress + Tier(v) \in Nat
  BY <1>2 DEF Tier
<1>5. (v.progress + Tier(v)) * FixAttempts \in Nat
      /\ (v.progress + Tier(v) + 1) * FixAttempts
           = (v.progress + Tier(v)) * FixAttempts + FixAttempts
  BY <1>2, <1>4, OneMore
<1>6. InHand
  BY DEF At, InHand
<1>7. w.runs = v.runs + 1
  BY <1>1 DEF NextRun, Runs
<1>8. CASE path = "retry"
  <2>1. w.attempt = v.attempt + 1 /\ w.progress = v.progress /\ Tier(w) = Tier(v)
    BY <1>1, <1>8 DEF NextRun, Runs, Tier
  <2>2. v.attempt < FixAttempts
    BY <1>6, <1>8 DEF Control, PathInBudget
  <2> HIDE DEF v, w
  <2> QED
    BY <1>2, <1>3, <1>4, <1>5, <1>7, <2>1, <2>2 DEF Bounded, w
<1>9. CASE path = "progress"
  <2>1. w.attempt = 1 /\ w.progress = v.progress + 1 /\ Tier(w) = Tier(v)
    BY <1>1, <1>9 DEF NextRun, Runs, Tier
  <2>2. v.progress < FixProgress
    BY <1>6, <1>9 DEF Control, PathInBudget
  <2>3. w.progress + Tier(w) = v.progress + Tier(v) + 1
    BY <1>2, <1>4, <2>1
  <2> HIDE DEF v, w
  <2> QED
    BY <1>2, <1>3, <1>4, <1>5, <1>7, <2>1, <2>2, <2>3 DEF Bounded, w
<1>10. CASE path = "escalate"
  <2>1. v.lane = "NORMAL"
    BY <1>6, <1>10 DEF Control, PathInBudget
  <2>2. w.attempt = 1 /\ w.progress = v.progress /\ Tier(w) = 1 /\ Tier(v) = 0
    BY <1>1, <1>10, <2>1 DEF NextRun, Runs, Tier
  <2>3. w.progress + Tier(w) = v.progress + Tier(v) + 1
    BY <1>2, <2>2
  <2> HIDE DEF v, w
  <2> QED
    BY <1>2, <1>3, <1>4, <1>5, <1>7, <2>2, <2>3 DEF Bounded, w
<1> QED
  BY <1>8, <1>9, <1>10

\* A request keeps the bounds if what it creates is within them.
LEMMA CallBounded ==
    ASSUME TypeOK, FixRunsBounded, NEW p \in PRs, NEW w, Bounded(w), NEW ok \in BOOLEAN,
           FixCall(Placed(p, w), ok) \/ FixCall(Removed(p), ok)
    PROVE  FixRunsBounded'
<1>1. fix \in [PRs -> Runs]
  BY DEF TypeOK
<1>2. fix' = fix \/ fix' = [fix EXCEPT ![p] = w] \/ fix' = [fix EXCEPT ![p] = NoRun]
  BY DEF FixCall, Placed, Removed
<1>3. \A q \in PRs : Bounded(fix'[q])
  BY <1>1, <1>2, NoRunBounded DEF FixRunsBounded
<1> QED
  BY <1>3 DEF FixRunsBounded, Bounded, Tier

\* The counters do not depend on the phase.
LEMMA PhaseBounded ==
    ASSUME NEW v \in Runs, NEW h, Bounded(v)
    PROVE  Bounded([v EXCEPT !.phase = h])
<1> DEFINE w == [v EXCEPT !.phase = h]
<1>1. /\ w.attempt = v.attempt /\ w.progress = v.progress /\ w.runs = v.runs
      /\ w.lane = v.lane
  BY DEF Runs
<1> HIDE DEF w
<1> QED
  BY <1>1 DEF Bounded, Tier, w

LEMMA BoundStep ==
    ASSUME TypeOK, Control, FixRunsBounded, ListedBounded, [Next]_vars
    PROVE  FixRunsBounded' /\ ListedBounded'
<1>l. ASSUME listed' = listed \/ listed' = fix \/ listed' = [p \in PRs |-> NoRun]
      PROVE  ListedBounded'
  <2>1. \A p \in PRs : Bounded(listed'[p])
    BY <1>l, NoRunBounded DEF ListedBounded, FixRunsBounded
  <2> QED
    BY <2>1 DEF ListedBounded, Bounded, Tier
<1>f. ASSUME fix' = fix
      PROVE  FixRunsBounded'
  BY <1>f DEF FixRunsBounded, Bounded, Tier
<1>1. CASE StartTick \/ SnapshotSignatures \/ StartReconcile \/ StartDrain \/ FinishFixes
           \/ CrashFixes
  BY <1>1, <1>l, <1>f DEF StartTick, SnapshotSignatures, StartReconcile, StartDrain,
                          FinishFixes, CrashFixes, EndTick
<1>2. CASE ReconcileStep
  <2>1. listed' = listed
    BY <1>2, ReconcileFrame
  <2>2. CASE FixDelete
    <3>1. cur \in PRs /\ \E ok \in BOOLEAN : FixCall(Removed(cur), ok)
      BY <2>2 DEF FixDelete, At, TypeOK
    <3> QED
      BY <1>l, <2>1, <3>1, NoRunBounded, CallBounded
  <2>3. CASE FixCreate
    <3>1. cur \in PRs /\ \E ok \in BOOLEAN : FixCall(Placed(cur, NextRun), ok)
      BY <2>3 DEF FixCreate, At, TypeOK
    <3>2. Bounded(NextRun)
      BY <2>3, NextRunBounded DEF FixCreate, Control, MarkPath
    <3> QED
      BY <1>l, <2>1, <3>1, <3>2, CallBounded
  <2>4. CASE fix' = fix
    BY <1>l, <1>f, <2>1, <2>4
  <2>5. FixDelete \/ FixCreate \/ fix' = fix
    BY <1>2 DEF ReconcileStep, FixPick, FixProbe, FixUpdateBranch, FixOver, FixSucceeded,
                FixChangesRequested, FixWait, FixRetry, FixSpent, FixMark
  <2> QED
    BY <2>2, <2>3, <2>4, <2>5
<1>3. ASSUME NEW p \in PRs, DrainSkip(p)
      PROVE  FixRunsBounded' /\ ListedBounded'
  BY <1>3, <1>l, <1>f DEF DrainSkip, still
<1>4. ASSUME NEW p \in PRs, DrainCreate(p)
      PROVE  FixRunsBounded' /\ ListedBounded'
  <2>1. Bounded(FirstRun(p))
    BY <1>4, RunType, FirstRunBounded DEF DrainCreate
  <2>2. listed' = listed /\ \E ok \in BOOLEAN : FixCall(Placed(p, FirstRun(p)), ok)
    BY <1>4 DEF DrainCreate, still
  <2> QED
    BY <1>l, <2>1, <2>2, CallBounded
<1>5. ASSUME NEW p \in PRs, Outside(p)
      PROVE  FixRunsBounded' /\ ListedBounded'
  <2>1. listed' = listed
    BY <1>5 DEF Outside, RunEnds, PrSettles, PrHand, Requeue, LoseFix, outside
  <2>2. fix \in [PRs -> Runs] /\ fix[p] \in Runs /\ Bounded(fix[p])
    BY DEF TypeOK, FixRunsBounded
  <2>3. \/ fix' = fix \/ fix' = [fix EXCEPT ![p] = NoRun]
        \/ \E how : fix' = [fix EXCEPT ![p] = [fix[p] EXCEPT !.phase = how]]
    BY <1>5, <2>2 DEF Outside, RunEnds, PrSettles, PrHand, Requeue, LoseFix
  <2>4. \A q \in PRs : Bounded(fix'[q])
    BY <2>2, <2>3, NoRunBounded, PhaseBounded DEF FixRunsBounded
  <2> QED
    BY <1>l, <2>1, <2>4 DEF FixRunsBounded, Bounded, Tier
<1>6. CASE UNCHANGED vars
  BY <1>6, <1>l, <1>f DEF vars, tickVars
<1> QED
  BY <1>1, <1>2, <1>3, <1>4, <1>5, <1>6 DEF Next, FixStep

-----------------------------------------------------------------------------
(* The theorems.                                                           *)

LEMMA InitInv == Init => FInv
<1> SUFFICES ASSUME Init
             PROVE  FInv
  OBVIOUS
<1>1. NoRun \in Runs /\ Unsigned \in Signatures
  BY DEF NoRun, Runs, FixPhases, Signatures, FixLanes
<1>2. TypeOK
  <2>1. /\ fix \in [PRs -> Runs] /\ wasted \in [PRs -> Nat]
        /\ load \in [Coders -> Nat] /\ sigs \in [PRs -> Signatures]
        /\ listed \in [PRs -> Runs]
        /\ queued \in [PRs -> [lane : FixLanes, surface : Surfaces] \cup {NotQueued}]
    BY <1>1 DEF Init, TickInit
  <2>2. item \in [PRs -> Items] /\ pr \in [PRs -> PrStates]
    BY OpenPrType DEF Init, Items
  <2>3. faults \in 0 .. MaxFaults /\ fixHands \in 0 .. MaxFixHands
    BY DEF Init, PrFixAssumption, FaultsAssumption
  <2> QED
    BY <2>1, <2>2, <2>3 DEF Init, TickInit, TypeOK, Steps, Paths, Views
<1>3. FixRunsBounded /\ ListedBounded
  BY NoRunBounded DEF Init, TickInit, FixRunsBounded, ListedBounded
<1>4. Control
  BY DEF Init, TickInit, Control, DrainQueued, PathInBudget, ViewTrue, GaveUp, MarkedFirst,
         MarkPath, PathLater, HandFree, InHand, At
<1> QED
  BY <1>2, <1>3, <1>4 DEF FInv

\* Every step keeps the types, the bounds on every series of runs, and what the
\* reconcile knows of the Workload in hand.
THEOREM FixInductive == Spec => []FInv
<1>1. FInv /\ [Next]_vars => FInv'
  BY TypeStep, ControlStep, BoundStep DEF FInv
<1> QED
  BY InitInv, <1>1, PTL DEF Spec

\* The variables keep their types.
THEOREM FixTypeCorrect == Spec => []TypeOK
<1>1. FInv => TypeOK
  BY DEF FInv
<1> QED
  BY FixInductive, <1>1, PTL

\* The runs of a series stay within what its attempt, progress and tier admit.
THEOREM FixBudgets == Spec => []FixRunsBounded
<1>1. FInv => FixRunsBounded
  BY DEF FInv
<1> QED
  BY FixInductive, <1>1, PTL

\* Only the marking of the Workload in hand, or a person, changes an item.
LEMMA ItemChanges ==
    ASSUME TypeOK, [Next]_vars, NEW p \in PRs, item'[p] # item[p]
    PROVE  \/ At("mark") /\ p = cur /\ item'[p] = MarkOf(path)
           \/ item'[p] = "QUEUED"
<1>1. item \in [PRs -> Items]
  BY DEF TypeOK
<1>2. CASE ReconcileStep
  <2>1. FixMark \/ item' = item
    BY <1>2 DEF ReconcileStep, FixPick, FixProbe, FixUpdateBranch, FixOver, FixSucceeded,
                FixChangesRequested, FixWait, FixRetry, FixSpent, FixDelete, FixCreate
  <2>2. CASE FixMark
    BY <1>1, <2>2 DEF FixMark, MarkCall
  <2> QED
    BY <2>1, <2>2
<1>3. CASE (FixStep /\ ~ReconcileStep) \/ CrashFixes
  BY <1>3 DEF FixStep, StartTick, SnapshotSignatures, StartReconcile, StartDrain, DrainSkip,
              DrainCreate, FinishFixes, CrashFixes, queueVars
<1>4. ASSUME NEW q \in PRs, Outside(q)
      PROVE  item'[p] = "QUEUED"
  BY <1>1, <1>4 DEF Outside, RunEnds, PrSettles, PrHand, Requeue, LoseFix
<1>5. CASE UNCHANGED vars
  BY <1>5 DEF vars, queueVars
<1> QED
  BY <1>2, <1>3, <1>4, <1>5 DEF Next

\* An item is FIXED on the evidence of a merged PR or of one that may be merged.
THEOREM FixedOnEvidence == Spec => FixedIsTrue
<1>1. ASSUME FInv, [Next]_vars, NEW p \in PRs,
             item[p] # "FIXED", item'[p] = "FIXED", ~moved
      PROVE  \/ pr[p].merge = "merged"
             \/ pr[p].merge = "clean" /\ pr[p].checks = "passed"
  <2>1. At("mark") /\ p = cur /\ MarkOf(path) = "FIXED"
    BY <1>1, ItemChanges DEF FInv
  <2>2. path = "FIXED" /\ InHand
    BY <2>1 DEF MarkOf, At, InHand
  <2> QED
    BY <1>1, <2>1, <2>2 DEF FInv, Control, ViewTrue, Evidence
<1>2. FInv /\ [Next]_vars
      => [\A p \in PRs :
            item[p] # "FIXED" /\ item'[p] = "FIXED" /\ ~moved
            => \/ pr[p].merge = "merged"
               \/ pr[p].merge = "clean" /\ pr[p].checks = "passed"]_vars
  BY <1>1
<1> QED
  BY FixInductive, <1>2, PTL DEF Spec, FixedIsTrue

\* A person is asked only after the last tier or the progress is spent.
THEOREM BlockedAtTheEnd == Spec => BlockedLast
<1>1. ASSUME FInv, [Next]_vars, NEW p \in PRs,
             item[p] # "BLOCKED", item'[p] = "BLOCKED", NormalCoder # EscalatedCoder
      PROVE  \/ listed[p].lane = "ESCALATED" /\ listed[p].attempt >= FixAttempts
             \/ listed[p].progress >= FixProgress
  <2>1. At("mark") /\ p = cur /\ MarkOf(path) = "BLOCKED"
    BY <1>1, ItemChanges DEF FInv
  <2>2. path \in {"BLOCKED", "giveup"} /\ InHand
    BY <2>1 DEF MarkOf, At, InHand
  <2>3. listed[p].lane \in FixLanes
    BY <1>1 DEF FInv, TypeOK, Runs
  <2> QED
    BY <1>1, <2>1, <2>2, <2>3 DEF FInv, Control, GaveUp, FixLanes
<1>2. FInv /\ [Next]_vars
      => [\A p \in PRs :
            item[p] # "BLOCKED" /\ item'[p] = "BLOCKED" /\ NormalCoder # EscalatedCoder
            => \/ listed[p].lane = "ESCALATED" /\ listed[p].attempt >= FixAttempts
               \/ listed[p].progress >= FixProgress]_vars
  BY <1>1
<1> QED
  BY FixInductive, <1>2, PTL DEF Spec, BlockedLast

\* The Workload of a finished item goes only after the item's mark.
THEOREM MarkBeforeRetire == Spec => RetiredWhenMarked
<1>1. FInv /\ [Next]_vars
      => [\A p \in PRs :
            At("delete") /\ p = cur /\ path \in {"FIXED", "STALE"} /\ fix'[p].phase = "none"
            => item[p] = path \/ fixHands > 0]_vars
  BY DEF FInv, Control, MarkedFirst
<1> QED
  BY FixInductive, <1>1, PTL DEF Spec, RetiredWhenMarked

-----------------------------------------------------------------------------
(* The runs an ended PR costs.                                             *)

\* The reconcile holds this Workload on a way to its replacement.
Loose ==
    \/ step \in {"update", "create"}
    \/ step = "act" /\ view \notin {"merged", "closed"}
    \/ step = "delete" /\ (path \notin {"FIXED", "STALE", "giveup"} \/ item[cur] = "QUEUED")

\* One more run may start without a fault or an intervention: by the drain, or by the
\* reconcile from what it read before the PR ended.
Owes(p) ==
    \/ item[p] = "QUEUED" /\ fix[p].phase = "none"
    \/ InHand /\ cur = p /\ Loose

Debt(p) == IF Owes(p) THEN 1 ELSE 0

\* Ending a PR takes an intervention, which pays for the run that may be owed then.
PaidFor(p) ==
    IF Over(p) THEN wasted[p] + Debt(p) <= faults + fixHands ELSE wasted[p] = 0

DrainIsQueued == fpc = "drain" => \A p \in todo : item[p] = "QUEUED"

OverInv == FInv /\ DrainIsQueued /\ \A p \in PRs : PaidFor(p)

\* One more fault or intervention pays for one more run.
LEMMA PayOne ==
    ASSUME NEW w \in Nat, NEW f \in Nat, NEW h \in Nat, NEW g \in Nat, NEW i \in Nat,
           w <= f + h, g + i >= f + h + 1
    PROVE  w + 1 <= g + i
OBVIOUS

\* A step that starts no run keeps the account if a new debt is paid for.
LEMMA KeepPaid ==
    ASSUME TypeOK, TypeOK', NEW p \in PRs, PaidFor(p),
           faults' >= faults, fixHands' >= fixHands, wasted'[p] = wasted[p],
           Over(p)' = Over(p),
           Over(p) /\ Owes(p)' =>
               Owes(p) \/ faults' + fixHands' >= faults + fixHands + 1
    PROVE  PaidFor(p)'
<1>1. /\ faults \in Nat /\ fixHands \in Nat /\ faults' \in Nat /\ fixHands' \in Nat
      /\ wasted[p] \in Nat
  BY DEF TypeOK
<1>2. CASE ~Over(p)
  BY <1>2 DEF PaidFor
<1>3. CASE Over(p) /\ Owes(p)
  <2>1. wasted[p] + 1 <= faults + fixHands
    BY <1>3 DEF PaidFor, Debt
  <2>2. Debt(p)' \in {0, 1}
    BY DEF Debt
  <2> QED
    BY <1>1, <1>3, <2>1, <2>2 DEF PaidFor
<1>4. CASE Over(p) /\ ~Owes(p)
  <2>1. wasted[p] <= faults + fixHands
    <3>1. wasted[p] + 0 <= faults + fixHands
      BY <1>4 DEF PaidFor, Debt
    <3> QED
      BY <1>1, <3>1
  <2>2. CASE Owes(p)'
    <3>1. Debt(p)' = 1 /\ faults' + fixHands' >= faults + fixHands + 1
      BY <1>4, <2>2 DEF Debt
    <3>2. wasted[p] + 1 <= faults' + fixHands'
      BY <1>1, <2>1, <3>1, PayOne
    <3>3. wasted'[p] + Debt(p)' <= faults' + fixHands'
      BY <3>1, <3>2
    <3> QED
      BY <1>4, <3>3 DEF PaidFor
  <2>3. CASE ~Owes(p)'
    <3>1. Debt(p)' = 0
      BY <2>3 DEF Debt
    <3> QED
      BY <1>1, <1>4, <2>1, <3>1 DEF PaidFor
  <2> QED
    BY <2>2, <2>3
<1> QED
  BY <1>2, <1>3, <1>4

\* A create pays with the run it starts.
LEMMA CreatePaid ==
    ASSUME TypeOK, TypeOK', NEW p \in PRs, PaidFor(p), NEW w \in Runs, w.phase # "none",
           NEW ok \in BOOLEAN, FixCall(Placed(p, w), ok),
           UNCHANGED <<item, pr, fixHands>>, ~(InHand /\ cur = p)',
           fix[p].phase = "none" => Owes(p)
    PROVE  PaidFor(p)'
<1>1. /\ faults \in Nat /\ fixHands \in Nat /\ wasted \in [PRs -> Nat] /\ fix \in [PRs -> Runs]
  BY DEF TypeOK
<1>2. faults' = faults \/ faults' = faults + 1
  BY DEF FixCall, NoFault, Fault
<1>3. Over(p)' = Over(p)
  BY DEF Over
<1>4. CASE UNCHANGED <<fix, wasted>> /\ (faults' = faults + 1 \/ fix[p].phase # "none")
  <2>1. Owes(p)' => Owes(p) \/ faults' + fixHands' >= faults + fixHands + 1
    BY <1>1, <1>4 DEF Owes
  <2> QED
    BY <1>1, <1>2, <1>3, <1>4, <2>1, KeepPaid
<1>5. CASE Placed(p, w) /\ fix[p].phase = "none"
  <2>1. fix'[p] = w /\ wasted'[p] = IF Over(p) THEN wasted[p] + 1 ELSE wasted[p]
    BY <1>1, <1>5 DEF Placed
  <2>2. ~Owes(p)' /\ Owes(p)
    BY <1>5, <2>1 DEF Owes
  <2>3. CASE Over(p)
    <3>1. wasted[p] + 1 <= faults + fixHands
      BY <2>2, <2>3 DEF PaidFor, Debt
    <3>2. Debt(p)' = 0
      BY <2>2 DEF Debt
    <3> QED
      BY <1>1, <1>2, <1>3, <2>1, <2>3, <3>1, <3>2 DEF PaidFor
  <2>4. CASE ~Over(p)
    BY <1>3, <2>1, <2>4 DEF PaidFor
  <2> QED
    BY <2>3, <2>4
<1> QED
  BY <1>4, <1>5 DEF FixCall, Placed, Fault

\* The run that replaces another, and the first of a series, are runs.
LEMMA StartsActive ==
    /\ \A p \in PRs : FirstRun(p).phase = "Active"
    /\ TypeOK /\ At("create") => NextRun.phase = "Active"
<1>1. \A p \in PRs : FirstRun(p).phase = "Active"
  BY DEF FirstRun
<1>2. ASSUME TypeOK, At("create")
      PROVE  NextRun.phase = "Active"
  <2>1. listed[cur] \in Runs
    BY <1>2 DEF TypeOK, At
  <2> QED
    BY <2>1 DEF NextRun, Runs
<1> QED
  BY <1>1, <1>2

\* Neither the faults nor the interventions are forgotten.
LEMMA CountsGrow ==
    ASSUME TypeOK, [Next]_vars
    PROVE  faults' >= faults /\ fixHands' >= fixHands
<1>1. faults \in Nat /\ fixHands \in Nat
  BY DEF TypeOK
<1>2. faults' = faults \/ faults' = faults + 1
  <2>1. CASE ReconcileStep
    BY <2>1 DEF ReconcileStep, FixPick, FixProbe, FixUpdateBranch, FixOver, FixSucceeded,
                FixChangesRequested, FixWait, FixRetry, FixSpent, FixMark, FixDelete,
                FixCreate, MarkCall, FixCall, Fault, NoFault
  <2>2. CASE FixStep /\ ~ReconcileStep
    BY <2>2 DEF FixStep, StartTick, SnapshotSignatures, StartReconcile, StartDrain, DrainSkip,
                DrainCreate, FinishFixes, DarkLanes, FixCall, Fault, NoFault
  <2>3. CASE CrashFixes \/ UNCHANGED vars
    BY <2>3 DEF CrashFixes, Fault, vars
  <2>4. ASSUME NEW p \in PRs, Outside(p)
        PROVE  faults' = faults
    BY <2>4 DEF Outside, RunEnds, PrSettles, PrHand, Requeue, LoseFix, FixHand, NoFault
  <2> QED
    BY <2>1, <2>2, <2>3, <2>4 DEF Next
<1>3. fixHands' = fixHands \/ fixHands' = fixHands + 1
  <2>1. CASE ReconcileStep
    BY <2>1, ReconcileFrame
  <2>2. CASE FixStep /\ ~ReconcileStep
    BY <2>2 DEF FixStep, StartTick, SnapshotSignatures, StartReconcile, StartDrain, DrainSkip,
                DrainCreate, FinishFixes, still
  <2>3. CASE CrashFixes \/ UNCHANGED vars
    BY <2>3 DEF CrashFixes, vars
  <2>4. ASSUME NEW p \in PRs, Outside(p)
        PROVE  fixHands' = fixHands \/ fixHands' = fixHands + 1
    BY <2>4 DEF Outside, RunEnds, PrSettles, PrHand, Requeue, LoseFix, FixHand
  <2> QED
    BY <2>1, <2>2, <2>3, <2>4 DEF Next
<1> QED
  BY <1>1, <1>2, <1>3

\* The reconcile: the probe sees that a PR has ended, unless the read fails.
LEMMA ReconcilePaid ==
    ASSUME FInv, FInv', ReconcileStep, NEW p \in PRs, PaidFor(p),
           faults' >= faults, fixHands' >= fixHands
    PROVE  PaidFor(p)'
<1>t. /\ TypeOK /\ TypeOK' /\ Control
      /\ faults \in Nat /\ fixHands \in Nat /\ item \in [PRs -> Items]
      /\ pr \in [PRs -> PrStates] /\ fix \in [PRs -> Runs] /\ wasted \in [PRs -> Nat]
  BY DEF FInv, TypeOK
<1>f. fpc = "reconcile" /\ UNCHANGED <<fpc, listed, queued, fixHands>>
  BY ReconcileFrame
<1>p. Control /\ MarkPath /\ PathLater
  BY <1>t DEF Control
<1>1. ASSUME NEW q \in PRs, FixPick(q)
      PROVE  PaidFor(p)'
  <2>1. UNCHANGED <<item, pr, fix, wasted>> /\ step' = "probe"
    BY <1>1 DEF FixPick
  <2>2. Owes(p)' => Owes(p)
    BY <2>1 DEF Owes, Loose
  <2> QED
    BY <1>t, <2>1, <2>2, KeepPaid DEF Over
<1>2. CASE FixProbe
  <2>1. UNCHANGED <<item, pr, fix, wasted, cur>> /\ InHand
    BY <1>2 DEF FixProbe, InHand
  <2>2. CASE NoFault
    <3>1. Over(cur) => view' \in {"merged", "closed"} /\ step' = "act"
      <4>1. view' = MergeStatus(pr[cur])
            /\ step' = IF step = "probe" /\ view' = "dirty" THEN "update" ELSE "act"
        BY <1>2, <1>t, <2>2 DEF FixProbe, Fault, NoFault
      <4>2. Over(cur) => MergeStatus(pr[cur]) \in {"merged", "closed"}
        BY DEF MergeStatus, Judged, Over
      <4> QED
        BY <4>1, <4>2
    <3>2. Over(p) /\ Owes(p)' => Owes(p)
      BY <2>1, <3>1 DEF Owes, Loose
    <3> QED
      BY <1>t, <1>f, <2>1, <3>2, KeepPaid DEF Over
  <2>3. CASE Fault("read")
    <3>1. faults' + fixHands' >= faults + fixHands + 1
      BY <1>t, <1>f, <2>3 DEF Fault
    <3> QED
      BY <1>t, <1>f, <2>1, <3>1, KeepPaid DEF Over
  <2> QED
    BY <1>2, <2>2, <2>3 DEF FixProbe
<1>3. CASE FixUpdateBranch
  <2>1. UNCHANGED <<item, fix, wasted, cur>> /\ InHand /\ step = "update"
    BY <1>3 DEF FixUpdateBranch, At, InHand
  <2>2. Over(p)' = Over(p)
    BY <1>3, <1>t DEF FixUpdateBranch, Over, PrStates
  <2>3. Owes(p)' => Owes(p)
    BY <2>1 DEF Owes, Loose
  <2> QED
    BY <1>t, <1>f, <2>1, <2>2, <2>3, KeepPaid
<1>4. CASE \/ FixOver \/ FixSucceeded \/ FixChangesRequested \/ FixWait \/ FixRetry
           \/ FixSpent
  <2>1. UNCHANGED <<item, pr, fix, wasted>> /\ At("act")
    BY <1>4 DEF FixOver, FixSucceeded, FixChangesRequested, FixWait, FixRetry, FixSpent, Ready
  <2>2. cur' \in {cur, NoPr}
    BY <1>4 DEF FixOver, FixSucceeded, FixChangesRequested, FixWait, FixRetry, FixSpent,
                Goto, Done
  <2>3. CASE view \in {"merged", "closed"}
    <3>1. step' = "mark"
      BY <1>4, <2>3 DEF FixOver, FixSucceeded, FixChangesRequested, FixWait, FixRetry, FixSpent,
                        Goto, Succeeded, Retriable
    <3>2. Owes(p)' => Owes(p)
      BY <2>1, <3>1 DEF Owes, Loose
    <3> QED
      BY <1>t, <1>f, <2>1, <3>2, KeepPaid DEF Over
  <2>4. CASE view \notin {"merged", "closed"}
    <3>1. Owes(p)' => Owes(p)
      BY <1>t, <2>1, <2>2, <2>4 DEF Owes, Loose, InHand, At
    <3> QED
      BY <1>t, <1>f, <2>1, <3>1, KeepPaid DEF Over
  <2> QED
    BY <2>3, <2>4
<1>5. CASE FixMark
  <2>1. PICK ok \in BOOLEAN :
          /\ MarkCall(cur, MarkOf(path), ok)
          /\ IF path = "giveup" \/ (ok /\ path # "BLOCKED") THEN Goto("delete", path)
                                                            ELSE Done
    BY <1>5 DEF FixMark
  <2>2. /\ UNCHANGED <<pr, fix, wasted>> /\ At("mark") /\ cur \in PRs /\ InHand
        /\ path \in {"FIXED", "STALE", "BLOCKED", "giveup"}
    BY <1>5, <1>p, <1>t DEF FixMark, At, InHand, MarkPath, TypeOK
  <2>3. CASE ok
    <3>1. item' = [item EXCEPT ![cur] = MarkOf(path)] /\ MarkOf(path) # "QUEUED"
      BY <2>1, <2>2, <2>3 DEF MarkCall, MarkOf
    <3>2. Owes(p)' => Owes(p)
      <4>1. CASE cur = p
        <5>1. item'[p] # "QUEUED"
          BY <1>t, <2>2, <3>1, <4>1
        <5>2. \/ step' = "delete" /\ path' \in {"FIXED", "STALE", "giveup"} /\ cur' = cur
              \/ cur' = NoPr
          BY <2>1, <2>2, <2>3 DEF Goto, Done
        <5> QED
          BY <4>1, <5>1, <5>2 DEF Owes, Loose, InHand
      <4>2. CASE cur # p
        <5>1. item'[p] = item[p] /\ cur' \in {cur, NoPr}
          BY <1>t, <2>1, <3>1, <4>2 DEF Goto, Done
        <5> QED
          BY <2>2, <4>2, <5>1 DEF Owes, InHand
      <4> QED
        BY <4>1, <4>2
    <3> QED
      BY <1>t, <1>f, <2>2, <3>2, KeepPaid DEF Over
  <2>4. CASE ~ok
    <3>1. faults' + fixHands' >= faults + fixHands + 1
      BY <1>t, <1>f, <2>1, <2>4 DEF Fault, MarkCall
    <3> QED
      BY <1>t, <1>f, <2>2, <3>1, KeepPaid DEF Over
  <2> QED
    BY <2>3, <2>4
<1>6. CASE FixDelete
  <2>1. PICK ok \in BOOLEAN :
          /\ FixCall(Removed(cur), ok)
          /\ IF ok /\ path \in {"retry", "progress", "escalate"}
             THEN Goto("create", path) ELSE Done
    BY <1>6 DEF FixDelete
  <2>2. UNCHANGED <<item, pr, wasted>> /\ At("delete") /\ cur \in PRs /\ InHand
    BY <1>6, <1>t, <2>1 DEF FixDelete, At, InHand, FixCall, Removed, TypeOK
  <2>3. CASE ok
    <3>1. fix' = [fix EXCEPT ![cur] = NoRun] /\ faults' = faults
      BY <2>1, <2>3 DEF FixCall, Removed, NoFault
    <3>2. \/ step' = "create" /\ cur' = cur /\ path \notin {"FIXED", "STALE", "giveup"}
          \/ cur' = NoPr
      BY <2>1, <2>2, <2>3 DEF Goto, Done
    <3>3. Owes(p)' => Owes(p)
      <4>1. CASE cur = p
        BY <2>2, <3>2, <4>1 DEF Owes, Loose, InHand, At
      <4>2. CASE cur # p
        <5>1. fix'[p] = fix[p]
          BY <1>t, <3>1, <4>2
        <5> QED
          BY <2>2, <3>2, <4>2, <5>1 DEF Owes, InHand
      <4> QED
        BY <4>1, <4>2
    <3> QED
      BY <1>t, <1>f, <2>2, <3>3, KeepPaid DEF Over
  <2>4. CASE ~ok
    <3>1. faults' + fixHands' >= faults + fixHands + 1
      BY <1>t, <1>f, <2>1, <2>4 DEF Fault, FixCall
    <3> QED
      BY <1>t, <1>f, <2>2, <3>1, KeepPaid DEF Over
  <2> QED
    BY <2>3, <2>4
<1>7. CASE FixCreate
  <2>1. PICK ok \in BOOLEAN : FixCall(Placed(cur, NextRun), ok)
    BY <1>7 DEF FixCreate
  <2>2. /\ UNCHANGED <<item, pr>> /\ At("create") /\ InHand /\ cur \in PRs /\ cur' = NoPr
        /\ NextRun \in Runs /\ NextRun.phase = "Active"
    BY <1>7, <1>t, RunType, StartsActive DEF FixCreate, At, InHand, Done
  <2>3. CASE cur = p
    <3>1. Owes(p)
      BY <2>2, <2>3 DEF Owes, Loose, At
    <3> QED
      BY <1>t, <1>f, <2>1, <2>2, <2>3, <3>1, CreatePaid DEF InHand
  <2>4. CASE cur # p
    <3>1. fix'[p] = fix[p] /\ wasted'[p] = wasted[p]
      BY <1>t, <2>1, <2>2, <2>4 DEF FixCall, Placed
    <3>2. Owes(p)' => Owes(p)
      BY <2>2, <3>1 DEF Owes, InHand
    <3> QED
      BY <1>t, <1>f, <2>2, <3>1, <3>2, KeepPaid DEF Over
  <2> QED
    BY <2>3, <2>4
<1> QED
  BY <1>1, <1>2, <1>3, <1>4, <1>5, <1>6, <1>7 DEF ReconcileStep

\* The rest of a tick: only the drain starts a run, for an item of the queue.
LEMMA TickPaid ==
    ASSUME FInv, FInv', DrainIsQueued, NEW p \in PRs, PaidFor(p),
           faults' >= faults, fixHands' >= fixHands,
           \/ StartTick \/ SnapshotSignatures \/ StartReconcile \/ StartDrain
           \/ \E q \in PRs : DrainSkip(q) \/ DrainCreate(q)
           \/ FinishFixes \/ CrashFixes
    PROVE  PaidFor(p)'
<1>t. /\ TypeOK /\ TypeOK' /\ Control /\ HandFree
      /\ faults \in Nat /\ fixHands \in Nat /\ fix \in [PRs -> Runs] /\ wasted \in [PRs -> Nat]
  BY DEF FInv, TypeOK, Control
<1>1. CASE StartTick \/ SnapshotSignatures \/ StartReconcile \/ StartDrain
           \/ (\E q \in PRs : DrainSkip(q)) \/ FinishFixes \/ CrashFixes
  <2>1. UNCHANGED <<item, pr, fix, wasted, fixHands>>
    BY <1>1 DEF StartTick, SnapshotSignatures, StartReconcile, StartDrain, DrainSkip,
                FinishFixes, CrashFixes, queueVars, still
  <2>2. cur' = NoPr
    BY <1>1, <1>t DEF HandFree, StartTick, SnapshotSignatures, StartReconcile, StartDrain,
                DrainSkip, FinishFixes, CrashFixes, EndTick, jobVars
  <2>3. Owes(p)' => Owes(p)
    BY <2>1, <2>2 DEF Owes, InHand
  <2> QED
    BY <1>t, <2>1, <2>3, KeepPaid DEF Over
<1>2. ASSUME NEW q \in PRs, DrainCreate(q)
      PROVE  PaidFor(p)'
  <2>1. PICK ok \in BOOLEAN : FixCall(Placed(q, FirstRun(q)), ok)
    BY <1>2 DEF DrainCreate
  <2>2. /\ UNCHANGED <<item, pr, cur, fixHands>> /\ fpc = "drain" /\ q \in todo
        /\ cur = NoPr /\ FirstRun(q) \in Runs /\ FirstRun(q).phase = "Active"
    BY <1>2, <1>t, RunType, StartsActive DEF DrainCreate, HandFree, still
  <2>3. CASE q = p
    <3>1. item[p] = "QUEUED"
      BY <2>2, <2>3 DEF DrainIsQueued
    <3> QED
      BY <1>t, <2>1, <2>2, <2>3, <3>1, CreatePaid DEF InHand, Owes
  <2>4. CASE q # p
    <3>1. fix'[p] = fix[p] /\ wasted'[p] = wasted[p]
      BY <1>t, <2>1, <2>4 DEF FixCall, Placed
    <3>2. Owes(p)' => Owes(p)
      BY <2>2, <3>1 DEF Owes, InHand
    <3> QED
      BY <1>t, <2>2, <3>1, <3>2, KeepPaid DEF Over
  <2> QED
    BY <2>3, <2>4
<1> QED
  BY <1>1, <1>2

\* Outside the tick: ending a PR and losing a Workload are interventions.
LEMMA OutsidePaid ==
    ASSUME FInv, FInv', NEW q \in PRs, Outside(q), NEW p \in PRs, PaidFor(p),
           faults' >= faults, fixHands' >= fixHands
    PROVE  PaidFor(p)'
<1>t. /\ TypeOK /\ TypeOK'
      /\ faults \in Nat /\ fixHands \in Nat /\ item \in [PRs -> Items]
      /\ pr \in [PRs -> PrStates] /\ fix \in [PRs -> Runs] /\ wasted \in [PRs -> Nat]
      /\ faults' \in Nat /\ fixHands' \in Nat
  BY DEF FInv, TypeOK
<1>1. UNCHANGED <<fpc, cur, step, path, view, wasted>>
  BY DEF Outside, RunEnds, PrSettles, PrHand, Requeue, LoseFix, outside, jobVars
<1>2. CASE RunEnds(q) \/ PrSettles(q)
  <2>1. item' = item /\ (fix'[p].phase = "none" => fix[p].phase = "none")
    BY <1>2, <1>t DEF RunEnds, PrSettles, Runs
  <2>2. Owes(p)' => Owes(p)
    BY <1>1, <2>1 DEF Owes, Loose, InHand
  <2>3. Over(p)' = Over(p)
    <3>1. CASE RunEnds(q)
      BY <1>t, <3>1 DEF RunEnds, PrBecomes, Over, OpenPr, PrFixAssumption, OpenMerges
    <3>2. CASE PrSettles(q)
      <4>1. PICK m \in Merges, c \in Checks :
              pr' = [pr EXCEPT ![q] = [pr[q] EXCEPT
                       !.merge = IF @ = "unknown" THEN m ELSE @, !.checks = c]]
        BY <3>2 DEF PrSettles, PrBecomes
      <4>2. m \notin {"merged", "closed"} /\ ~Over(q)
        BY <3>2 DEF PrSettles, Over, PrFixAssumption, OpenMerges
      <4>3. pr'[q].merge = IF pr[q].merge = "unknown" THEN m ELSE pr[q].merge
        BY <1>t, <4>1 DEF PrStates
      <4>4. p # q => pr'[p] = pr[p]
        BY <1>t, <4>1
      <4> QED
        BY <4>2, <4>3, <4>4 DEF Over
    <3> QED
      BY <1>2, <3>1, <3>2
  <2> QED
    BY <1>t, <1>1, <2>2, <2>3, KeepPaid
<1>3. CASE PrHand(q)
  <2>1. fixHands' = fixHands + 1 /\ ~Over(q)
    BY <1>3 DEF PrHand, FixHand
  <2>2. CASE p = q
    <3>1. wasted'[p] = 0 /\ Debt(p)' \in {0, 1}
      BY <1>1, <2>1, <2>2 DEF PaidFor, Debt
    <3> QED
      BY <1>t, <2>1, <3>1 DEF PaidFor
  <2>3. CASE p # q
    <3>1. Over(p)' = Over(p) /\ faults' + fixHands' >= faults + fixHands + 1
      BY <1>3, <1>t, <2>1, <2>3 DEF PrHand, PrBecomes, Over
    <3> QED
      BY <1>t, <1>1, <3>1, KeepPaid
  <2> QED
    BY <2>2, <2>3
<1>4. CASE Requeue(q) \/ LoseFix(q)
  <2>1. pr' = pr /\ faults' = faults /\ fixHands' = fixHands + 1
    BY <1>4 DEF Requeue, LoseFix, FixHand, NoFault
  <2>2. faults' + fixHands' >= faults + fixHands + 1
    BY <1>t, <2>1
  <2> QED
    BY <1>t, <1>1, <2>1, <2>2, KeepPaid DEF Over
<1> QED
  BY <1>2, <1>3, <1>4 DEF Outside

\* The drain's listing holds items that nobody takes out of the queue meanwhile.
LEMMA DrainQueuedStep ==
    ASSUME FInv, DrainIsQueued, [Next]_vars
    PROVE  DrainIsQueued'
<1>t. TypeOK /\ HandFree
  BY DEF FInv, Control
<1>1. CASE fpc' # "drain"
  BY <1>1 DEF DrainIsQueued
<1>2. CASE fpc' = "drain" /\ fpc = "drain"
  <2>1. todo' \subseteq todo
    <3>1. ~ReconcileStep
      BY <1>2, ReconcileFrame
    <3>2. CASE FixStep \/ CrashFixes
      BY <1>2, <3>1, <3>2 DEF FixStep, StartTick, SnapshotSignatures, StartReconcile,
                              StartDrain, DrainSkip, DrainCreate, FinishFixes, CrashFixes,
                              EndTick
    <3>3. ASSUME NEW p \in PRs, Outside(p)
          PROVE  todo' \subseteq todo
      BY <3>3 DEF Outside, RunEnds, PrSettles, PrHand, Requeue, LoseFix, outside
    <3>4. CASE UNCHANGED vars
      BY <3>4 DEF vars, tickVars
    <3> QED
      BY <3>2, <3>3, <3>4 DEF Next
  <2>2. \A p \in PRs : item'[p] = item[p] \/ item'[p] = "QUEUED"
    BY <1>2, <1>t, ItemChanges DEF At
  <2> QED
    BY <1>2, <1>t, <2>1, <2>2 DEF DrainIsQueued, TypeOK
<1>3. CASE fpc' = "drain" /\ fpc # "drain"
  <2>1. StartDrain
    <3>1. ~ReconcileStep
      BY <1>3, ReconcileFrame
    <3>2. CASE FixStep \/ CrashFixes
      BY <1>3, <3>1, <3>2 DEF FixStep, StartTick, SnapshotSignatures, StartReconcile,
                              DrainSkip, DrainCreate, FinishFixes, CrashFixes,
                              EndTick
    <3>3. ASSUME NEW p \in PRs, Outside(p)
          PROVE  FALSE
      BY <1>3, <3>3 DEF Outside, RunEnds, PrSettles, PrHand, Requeue, LoseFix, outside
    <3>4. CASE UNCHANGED vars
      BY <1>3, <3>4 DEF vars, tickVars
    <3> QED
      BY <3>2, <3>3, <3>4 DEF Next
  <2> QED
    BY <2>1 DEF StartDrain, QueueListing, DrainIsQueued, queueVars
<1> QED
  BY <1>1, <1>2, <1>3

\* However the PR ended, and whatever else fails or is done to this PR or to others,
\* it costs no more runs than there were faults and interventions.
THEOREM OverCharged == Spec => []OverRunsBounded
<1>1. Init => OverInv
  <2> SUFFICES ASSUME Init
               PROVE  OverInv
    OBVIOUS
  <2>1. FInv
    BY InitInv
  <2>2. DrainIsQueued
    BY DEF Init, TickInit, DrainIsQueued
  <2>3. ASSUME NEW p \in PRs
        PROVE  PaidFor(p)
    BY DEF Init, PaidFor, Over, OpenPr, PrFixAssumption, OpenMerges
  <2> QED
    BY <2>1, <2>2, <2>3 DEF OverInv
<1>2. OverInv /\ [Next]_vars => OverInv'
  <2> SUFFICES ASSUME OverInv, [Next]_vars
               PROVE  OverInv'
    OBVIOUS
  <2>1. FInv /\ FInv' /\ DrainIsQueued /\ DrainIsQueued'
    BY TypeStep, ControlStep, BoundStep, DrainQueuedStep DEF FInv, OverInv
  <2>2. faults' >= faults /\ fixHands' >= fixHands
    BY <2>1, CountsGrow DEF FInv
  <2>3. ASSUME NEW p \in PRs
        PROVE  PaidFor(p)'
    <3>1. PaidFor(p)
      BY DEF OverInv
    <3>2. CASE FixStep \/ CrashFixes
      BY <2>1, <2>2, <3>1, <3>2, ReconcilePaid, TickPaid DEF FixStep
    <3>3. ASSUME NEW q \in PRs, Outside(q)
          PROVE  PaidFor(p)'
      BY <2>1, <2>2, <3>1, <3>3, OutsidePaid
    <3>4. CASE UNCHANGED vars
      BY <3>1, <3>4 DEF vars, queueVars, tickVars, jobVars, PaidFor, Debt, Owes, Loose, InHand,
                        Over
    <3> QED
      BY <3>2, <3>3, <3>4 DEF Next
  <2> QED
    BY <2>1, <2>3 DEF OverInv
<1>3. OverInv => OverRunsBounded
  <2> SUFFICES ASSUME OverInv, NEW p \in PRs
               PROVE  wasted[p] <= faults + fixHands
    BY DEF OverRunsBounded
  <2>1. faults \in Nat /\ fixHands \in Nat /\ wasted[p] \in Nat /\ PaidFor(p)
    BY DEF OverInv, FInv, TypeOK
  <2>2. Debt(p) \in {0, 1}
    BY DEF Debt
  <2> QED
    BY <2>1, <2>2 DEF PaidFor
<1> QED
  BY <1>1, <1>2, <1>3, PTL DEF Spec

=============================================================================
