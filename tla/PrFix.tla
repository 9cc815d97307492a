-------------------------------- MODULE PrFix --------------------------------
(***************************************************************************)
(* The PR-fix loop of a tick (bridge/prfix.py and its wiring in            *)
(* bridge/main.py): settle the terminal fix Workloads against what GitHub  *)
(* says of their PRs, then create a Workload per QUEUED item.  The queue   *)
(* itself, GitHub and the Foreman controller are external; each request    *)
(* may fail with or without its effect, and the tick may end between two.  *)
(***************************************************************************)
EXTENDS Faults, Integers, FiniteSets

CONSTANTS
    PRs, NoPr,
    Coders,          \* the coder Agents of the pool
    NormalCoder,     \* PR_FIX_LANE_AGENTS["NORMAL"] and ["ESCALATED"]
    EscalatedCoder,
    Slots,           \* CODER_AGENT_SLOTS["*"], 0 when it is not configured
    OtherLoad,       \* the most runs of a coder that are not PR fixes
    FixAttempts,     \* PR_FIX_MAX_ATTEMPTS
    FixProgress,     \* PR_FIX_PROGRESS_MAX_ATTEMPTS
    Surfaces,        \* the failure surfaces a PR may show: type and first feedback line
    Merges, Checks,  \* what GitHub may answer for an open PR, see pr below
    FixHands, MaxFixHands

OpenMerges == {"dirty", "unknown", "clean", "blocked"}
AllChecks  == {"passed", "failed", "pending"}
AllHands   == {"merge", "close", "review", "base", "queue", "lose"}

\* No signature, or the one failure_signature gives an object without attributes.
Unsigned   == "none"
NoFeedback == "unknown::no-feedback"

ASSUME PrFixAssumption ==
    /\ IsFiniteSet(PRs) /\ NoPr \notin PRs
    /\ {NormalCoder, EscalatedCoder} \subseteq Coders
    /\ Slots \in Nat /\ OtherLoad \in Nat /\ FixAttempts \in Nat \ {0} /\ FixProgress \in Nat
    /\ Unsigned \notin Surfaces /\ NoFeedback \notin Surfaces
    /\ {"unknown", "clean"} \subseteq Merges /\ Merges \subseteq OpenMerges
    /\ Checks \subseteq AllChecks /\ Checks # {}
    /\ FixHands \subseteq AllHands /\ MaxFixHands \in Nat

FixLanes   == {"NORMAL", "ESCALATED"}
Signatures == Surfaces \cup {Unsigned, NoFeedback}
Items      == {"QUEUED", "FIXED", "STALE", "BLOCKED"}
FixPhases  == {"none", "Active", "Succeeded", "Failed"}

VARIABLES
    item,      \* the status of the queue item of each PR
    ilane,     \* its lane
    surface,   \* its type and feedback
    pr,        \* what GitHub knows: mergeability, the head's checks, and whether
               \* a reviewer's last word is CHANGES_REQUESTED
    fix,       \* the fix Workload, with the runs of its series (history)
    wasted,    \* history: runs started on a PR already merged or closed
    fixHands,
    fpc,       \* "idle", "started", "signed", "reconcile", "drain"
    load,      \* coder_load, then the drain's copy of it
    sigs,      \* pr_fix_signatures
    listed,    \* the Workloads as list_prfix_workloads returned them
    todo,
    cur, step, path, view,
    queued,    \* the drain's listing: the lane and surface of each item, or "out"
    moved      \* history: has the PR in hand changed since it was probed?

queueVars == <<item, ilane, surface>>
jobVars   == <<cur, step, path, view>>
tickVars  == <<fpc, load, sigs, listed, todo, jobVars, queued, moved>>
vars      == <<queueVars, pr, fix, wasted, fixHands, tickVars, faults>>

PrStates ==
    [merge : OpenMerges \cup {"merged", "closed"}, checks : AllChecks, changes : BOOLEAN]

Runs == [phase : FixPhases, attempt : Nat, progress : Nat, sig : Signatures,
         lane : FixLanes, runs : Nat]

NoRun == [phase |-> "none", attempt |-> 0, progress |-> 0, sig |-> Unsigned,
          lane |-> "NORMAL", runs |-> 0]

Steps == {"pick", "probe", "update", "reprobe", "act", "mark", "delete", "create"}
Paths == {"none", "FIXED", "STALE", "BLOCKED", "giveup", "drop", "retry", "progress", "escalate"}
Views == {"none", "ok", "dirty", "checks_failed", "checks_pending", "blocked",
          "changes_requested", "merged", "closed"}

NotQueued == [lane |-> "none", surface |-> Unsigned]

TypeOK ==
    /\ item \in [PRs -> Items] /\ ilane \in [PRs -> FixLanes]
    /\ surface \in [PRs -> Surfaces] /\ pr \in [PRs -> PrStates]
    /\ fix \in [PRs -> Runs] /\ wasted \in [PRs -> Nat] /\ fixHands \in 0 .. MaxFixHands
    /\ fpc \in {"idle", "started", "signed", "reconcile", "drain"}
    /\ load \in [Coders -> Nat] /\ sigs \in [PRs -> Signatures]
    /\ listed \in [PRs -> Runs] /\ todo \subseteq PRs
    /\ cur \in PRs \cup {NoPr} /\ step \in Steps /\ path \in Paths /\ view \in Views
    /\ queued \in [PRs -> [lane : FixLanes, surface : Surfaces] \cup {NotQueued}]
    /\ moved \in BOOLEAN /\ faults \in 0 .. MaxFaults

OpenPr == [merge : Merges, checks : Checks, changes : BOOLEAN]

Over(p) == pr[p].merge \in {"merged", "closed"}

TickInit ==
    /\ fpc = "idle" /\ load = [c \in Coders |-> 0]
    /\ sigs = [p \in PRs |-> Unsigned] /\ listed = [p \in PRs |-> NoRun]
    /\ todo = {} /\ cur = NoPr /\ step = "pick" /\ path = "none" /\ view = "none"
    /\ queued = [p \in PRs |-> NotQueued] /\ moved = FALSE

\* Dispatch queues a PR whose audit failed.
Init ==
    /\ item = [p \in PRs |-> "QUEUED"]
    /\ ilane \in [PRs -> FixLanes]
    /\ surface \in [PRs -> Surfaces]
    /\ pr \in [PRs -> OpenPr]
    /\ fix = [p \in PRs |-> NoRun] /\ wasted = [p \in PRs |-> 0]
    /\ fixHands = 0 /\ faults = 0
    /\ TickInit

EndTick ==
    /\ fpc' = "idle" /\ load' = [c \in Coders |-> 0]
    /\ sigs' = [p \in PRs |-> Unsigned] /\ listed' = [p \in PRs |-> NoRun]
    /\ todo' = {} /\ cur' = NoPr /\ step' = "pick" /\ path' = "none" /\ view' = "none"
    /\ queued' = [p \in PRs |-> NotQueued] /\ moved' = FALSE

-----------------------------------------------------------------------------
(* Requests.                                                               *)

\* mark_pr_fix: an exception and a refusal are both FALSE.
MarkCall(p, s, ok) ==
    \/ ok /\ NoFault /\ item' = [item EXCEPT ![p] = s]
    \/ ~ok /\ Fault("call") /\ UNCHANGED item
    \/ ~ok /\ Fault("lost") /\ item' = [item EXCEPT ![p] = s]

Removed(p) == fix' = [fix EXCEPT ![p] = NoRun] /\ UNCHANGED wasted

\* A create of a name that exists is a 409, which create_workload swallows.
Placed(p, w) ==
    IF fix[p].phase # "none" THEN UNCHANGED <<fix, wasted>>
    ELSE /\ fix' = [fix EXCEPT ![p] = w]
         /\ wasted' = [wasted EXCEPT ![p] = IF Over(p) THEN @ + 1 ELSE @]

FixCall(Effect, ok) ==
    \/ ok /\ NoFault /\ Effect
    \/ ~ok /\ Fault("call") /\ UNCHANGED <<fix, wasted>>
    \/ ~ok /\ Fault("lost") /\ Effect

\* The checks and the reviews are asked for.
Judged(s) == s.merge \in {"clean", "blocked"}

\* Mutant: an unfinished answer reads as a clean PR.
MergeStatusUnknownOk(s) ==
    CASE s.merge \in {"merged", "closed", "dirty"}   -> s.merge
      [] Judged(s) /\ s.checks = "pending"           -> "checks_pending"
      [] Judged(s) /\ s.checks = "failed"            -> "checks_failed"
      [] s.merge = "blocked" /\ s.checks = "passed"  ->
            IF s.changes THEN "changes_requested" ELSE "blocked"
      [] OTHER                                       -> "ok"

\* check_pr_mergeable, once the reads have succeeded.
MergeStatus(s) ==
    CASE s.merge \in {"merged", "closed", "dirty"}   -> s.merge
      [] s.merge = "unknown"                         -> "checks_pending"
      [] Judged(s) /\ s.checks = "pending"           -> "checks_pending"
      [] Judged(s) /\ s.checks = "failed"            -> "checks_failed"
      [] s.merge = "clean" /\ s.checks = "passed"    -> "ok"
      [] s.merge = "blocked" /\ s.checks = "passed"  ->
            IF s.changes THEN "changes_requested" ELSE "blocked"

\* A read of the PR or of its checks that fails is "checks_pending", one of its
\* reviews is "blocked".
FailedRead(s) ==
    {"checks_pending"} \cup (IF MergeStatus(s) \in {"changes_requested", "blocked"}
                             THEN {"blocked"} ELSE {})

-----------------------------------------------------------------------------
(* The start of the tick.                                                  *)

CoderOf(l) == IF l = "NORMAL" THEN NormalCoder ELSE EscalatedCoder

FixLoad(c) == Cardinality({p \in PRs : fix[p].phase = "Active" /\ CoderOf(fix[p].lane) = c})

\* coder_load: the fix Workloads and whatever the issue passes hold or take.
StartTick ==
    /\ fpc = "idle" /\ fpc' = "started"
    /\ IF Slots = 0 THEN load' = load
       ELSE \E others \in [Coders -> 0 .. OtherLoad] :
                load' = [c \in Coders |-> FixLoad(c) + others[c]]
    /\ NoFault
    /\ UNCHANGED <<queueVars, pr, fix, wasted, fixHands, sigs, listed, todo, jobVars,
                   queued, moved>>

\* list_pr_fix_queued, less the lanes whose GET failed.
QueueListing(dark) == {p \in PRs : item[p] = "QUEUED" /\ ilane[p] \notin dark}

DarkLanes(dark) == IF dark = {} THEN NoFault ELSE Fault("read")

\* The listing holds the raw items, in which failure_signature finds no attribute.
SnapshotSignature(p) == NoFeedback

\* pr_fix_signatures: one listing of the queue for the whole tick.
SnapshotSignatures ==
    /\ fpc = "started" /\ fpc' = "signed"
    /\ \E dark \in SUBSET FixLanes :
        /\ DarkLanes(dark)
        /\ sigs' = [p \in PRs |-> IF p \in QueueListing(dark)
                                  THEN SnapshotSignature(p) ELSE Unsigned]
    /\ UNCHANGED <<queueVars, pr, fix, wasted, fixHands, load, listed, todo, jobVars,
                   queued, moved>>

\* list_prfix_workloads.
StartReconcile ==
    /\ fpc = "signed" /\ fpc' = "reconcile"
    /\ listed' = fix
    /\ todo' = {p \in PRs : fix[p].phase \in {"Succeeded", "Failed"}}
    /\ NoFault
    /\ UNCHANGED <<queueVars, pr, fix, wasted, fixHands, load, sigs, jobVars, queued, moved>>

-----------------------------------------------------------------------------
(* reconcile_pr_fixes, one Workload at a time.                             *)

At(s) == fpc = "reconcile" /\ cur # NoPr /\ step = s

Goto(s, q) == step' = s /\ path' = q /\ UNCHANGED <<todo, cur, view>>

Done ==
    /\ todo' = todo \ {cur}
    /\ cur' = NoPr /\ step' = "pick" /\ path' = "none" /\ view' = "none"

\* What no step of the reconcile changes.
still == <<ilane, surface, fixHands, fpc, sigs, listed, queued>>

FixPick(p) ==
    /\ fpc = "reconcile" /\ cur = NoPr /\ p \in todo
    /\ cur' = p /\ step' = "probe" /\ path' = "none" /\ view' = "none" /\ todo' = todo
    /\ NoFault
    /\ UNCHANGED <<item, pr, fix, wasted, load, moved, still>>

\* pr_is_mergeable; a conflict gets one branch update before the second probe.
FixProbe ==
    /\ cur # NoPr /\ fpc = "reconcile" /\ step \in {"probe", "reprobe"}
    /\ \/ NoFault /\ view' = MergeStatus(pr[cur])
       \/ Fault("read") /\ view' \in FailedRead(pr[cur])
    /\ step' = IF step = "probe" /\ view' = "dirty" THEN "update" ELSE "act"
    /\ moved' = FALSE
    /\ UNCHANGED <<item, pr, fix, wasted, load, todo, cur, path, still>>

\* update_pull_request_branch: GitHub merges the base in the background, or declines.
FixUpdateBranch ==
    /\ At("update")
    /\ \/ /\ NoFault /\ step' = "reprobe"
          /\ pr' \in {pr, [pr EXCEPT ![cur].merge = IF @ = "dirty" THEN "unknown" ELSE @]}
       \/ NoFault /\ step' = "act" /\ pr' = pr
       \/ Fault("call") /\ step' = "act" /\ pr' = pr
    /\ UNCHANGED <<item, fix, wasted, load, todo, cur, path, view, moved, still>>

Ready     == At("act")
Spent     == listed[cur].attempt >= FixAttempts
Succeeded == listed[cur].phase = "Succeeded" /\ view = "ok"

\* No other branch of the reconcile applies.
Retriable ==
    /\ ~Succeeded /\ view \notin {"merged", "closed", "changes_requested"}
    /\ view \in {"blocked", "checks_pending"} => Spent

FreeSlot(c) == Slots = 0 \/ load[c] < Slots

\* Mutant: only a Succeeded Workload's PR is looked up for having ended.
FixOverSucceededOnly ==
    /\ Ready /\ view \in {"merged", "closed"}
    /\ IF listed[cur].phase = "Succeeded"
       THEN Goto("mark", IF view = "merged" THEN "FIXED" ELSE "STALE")
       ELSE IF Spent THEN Goto("mark", "BLOCKED") ELSE Goto("delete", "retry")
    /\ NoFault
    /\ UNCHANGED <<item, pr, fix, wasted, load, moved, still>>

FixOver ==
    /\ Ready /\ view \in {"merged", "closed"}
    /\ Goto("mark", IF view = "merged" THEN "FIXED" ELSE "STALE")
    /\ NoFault
    /\ UNCHANGED <<item, pr, fix, wasted, load, moved, still>>

FixSucceeded ==
    /\ Ready /\ Succeeded
    /\ Goto("mark", "FIXED")
    /\ NoFault
    /\ UNCHANGED <<item, pr, fix, wasted, load, moved, still>>

\* Retired without a mark: the drain starts afresh from the new feedback.
FixChangesRequested ==
    /\ Ready /\ view = "changes_requested"
    /\ Goto("delete", "drop")
    /\ NoFault
    /\ UNCHANGED <<item, pr, fix, wasted, load, moved, still>>

FixWait ==
    /\ Ready /\ view \in {"blocked", "checks_pending"} /\ ~Spent
    /\ Done /\ NoFault
    /\ UNCHANGED <<item, pr, fix, wasted, load, moved, still>>

Progressed ==
    /\ listed[cur].sig # Unsigned /\ sigs[cur] # Unsigned
    /\ listed[cur].sig # sigs[cur]

\* A retry waits for a slot of its coder; one that made progress is charged to the
\* larger budget.
FixRetry ==
    /\ Ready /\ Retriable /\ ~Spent
    /\ IF ~FreeSlot(CoderOf(listed[cur].lane)) THEN Done
       ELSE IF ~Progressed THEN Goto("delete", "retry")
       ELSE IF listed[cur].progress < FixProgress THEN Goto("delete", "progress")
       ELSE Goto("mark", "giveup")
    /\ NoFault
    /\ UNCHANGED <<item, pr, fix, wasted, load, moved, still>>

CanEscalate == listed[cur].lane = "NORMAL" /\ EscalatedCoder # NormalCoder

\* Mutant: the item is given up at the end of its first tier.
FixSpentNoTier ==
    /\ Ready /\ Retriable /\ Spent
    /\ Goto("mark", "BLOCKED")
    /\ NoFault
    /\ UNCHANGED <<item, pr, fix, wasted, load, moved, still>>

\* Mutant: the end of the last tier is left without a mark.
FixSpentSilent ==
    /\ Ready /\ Retriable /\ Spent
    /\ IF CanEscalate THEN Goto("delete", "escalate") ELSE Done
    /\ NoFault
    /\ UNCHANGED <<item, pr, fix, wasted, load, moved, still>>

\* The tier is spent: the next one if there is another coder, else a person.
FixSpent ==
    /\ Ready /\ Retriable /\ Spent
    /\ IF ~CanEscalate THEN Goto("mark", "BLOCKED")
       ELSE IF FreeSlot(EscalatedCoder) THEN Goto("delete", "escalate") ELSE Done
    /\ NoFault
    /\ UNCHANGED <<item, pr, fix, wasted, load, moved, still>>

MarkOf(q) == IF q = "giveup" THEN "BLOCKED" ELSE q

\* Mutant: a finished item keeps its Workload.
FixMarkKeeps ==
    /\ At("mark")
    /\ \E ok \in BOOLEAN :
        /\ MarkCall(cur, MarkOf(path), ok)
        /\ IF path = "giveup" THEN Goto("delete", path) ELSE Done
    /\ UNCHANGED <<pr, fix, wasted, load, moved, still>>

\* Mutant: a failed mark retires the Workload all the same.
FixMarkRetiresAnyway ==
    /\ At("mark")
    /\ \E ok \in BOOLEAN :
        /\ MarkCall(cur, MarkOf(path), ok)
        /\ IF path # "BLOCKED" THEN Goto("delete", path) ELSE Done
    /\ UNCHANGED <<pr, fix, wasted, load, moved, still>>

\* A finished item loses its Workload only once it is marked; a blocked one keeps
\* it, and one out of progress loses it either way.
FixMark ==
    /\ At("mark")
    /\ \E ok \in BOOLEAN :
        /\ MarkCall(cur, MarkOf(path), ok)
        /\ IF path = "giveup" \/ (ok /\ path # "BLOCKED") THEN Goto("delete", path)
                                                          ELSE Done
    /\ UNCHANGED <<pr, fix, wasted, load, moved, still>>

FixDelete ==
    /\ At("delete")
    /\ \E ok \in BOOLEAN :
        /\ FixCall(Removed(cur), ok)
        /\ IF ok /\ path \in {"retry", "progress", "escalate"}
           THEN Goto("create", path) ELSE Done
    /\ UNCHANGED <<item, pr, load, moved, still>>

\* A signature replaces the stored one, and its absence keeps it.
NextSig == IF sigs[cur] = Unsigned THEN listed[cur].sig ELSE sigs[cur]

\* Mutant: the escalated run is labelled with its coder.
NextRunCoderLane ==
    [listed[cur] EXCEPT !.phase = "Active", !.runs = @ + 1,
                        !.attempt = IF path = "retry" THEN @ + 1 ELSE 1,
                        !.lane = IF path = "escalate" THEN EscalatedCoder ELSE @]

\* Mutant: progress is not written back.
NextRunForgetful ==
    LET w == [listed[cur] EXCEPT !.phase = "Active", !.runs = @ + 1]
    IN CASE path = "retry"    -> [w EXCEPT !.attempt = @ + 1, !.sig = NextSig]
         [] path = "progress" -> [w EXCEPT !.attempt = 1, !.sig = sigs[cur]]
         [] OTHER             -> [w EXCEPT !.attempt = 1, !.lane = "ESCALATED"]

\* rebuild_prfix_manifest and escalate_prfix_manifest.
NextRun ==
    LET w == [listed[cur] EXCEPT !.phase = "Active", !.runs = @ + 1]
    IN CASE path = "retry"    -> [w EXCEPT !.attempt = @ + 1, !.sig = NextSig]
         [] path = "progress" -> [w EXCEPT !.attempt = 1, !.progress = @ + 1, !.sig = sigs[cur]]
         [] OTHER             -> [w EXCEPT !.attempt = 1, !.lane = "ESCALATED"]

Draw(c) == load' = IF Slots = 0 THEN load ELSE [load EXCEPT ![c] = @ + 1]

FixCreate ==
    /\ At("create")
    /\ \E ok \in BOOLEAN :
        /\ FixCall(Placed(cur, NextRun), ok)
        /\ IF ok THEN Draw(CoderOf(NextRun.lane)) ELSE load' = load
    /\ Done
    /\ UNCHANGED <<item, pr, moved, still>>

-----------------------------------------------------------------------------
(* drain_pr_fixes.                                                         *)

\* The names, then the queue.
StartDrain ==
    /\ fpc = "reconcile" /\ cur = NoPr /\ todo = {} /\ fpc' = "drain"
    /\ listed' = fix
    /\ \E dark \in SUBSET FixLanes :
        /\ DarkLanes(dark)
        /\ todo' = QueueListing(dark)
        /\ queued' = [p \in PRs |-> IF p \in QueueListing(dark)
                                    THEN [lane |-> ilane[p], surface |-> surface[p]]
                                    ELSE NotQueued]
    /\ UNCHANGED <<queueVars, pr, fix, wasted, fixHands, load, sigs, jobVars, moved>>

FirstRun(p) == [phase |-> "Active", attempt |-> 1, progress |-> 0,
                sig |-> queued[p].surface, lane |-> queued[p].lane, runs |-> 1]

\* In flight, or its coder is busy.
DrainSkip(p) ==
    /\ fpc = "drain" /\ p \in todo
    /\ listed[p].phase # "none" \/ ~FreeSlot(CoderOf(queued[p].lane))
    /\ todo' = todo \ {p}
    /\ NoFault
    /\ UNCHANGED <<item, pr, fix, wasted, load, cur, step, path, view, moved, still>>

DrainCreate(p) ==
    /\ fpc = "drain" /\ p \in todo
    /\ listed[p].phase = "none" /\ FreeSlot(CoderOf(queued[p].lane))
    /\ \E ok \in BOOLEAN :
        /\ FixCall(Placed(p, FirstRun(p)), ok)
        /\ IF ok THEN Draw(CoderOf(queued[p].lane)) ELSE load' = load
    /\ todo' = todo \ {p}
    /\ UNCHANGED <<item, pr, cur, step, path, view, moved, still>>

FinishFixes ==
    /\ fpc = "drain" /\ todo = {}
    /\ EndTick /\ NoFault
    /\ UNCHANGED <<queueVars, pr, fix, wasted, fixHands>>

\* The pod is killed, or a listing raises.
CrashFixes ==
    /\ fpc # "idle"
    /\ EndTick /\ Fault("crash")
    /\ UNCHANGED <<queueVars, pr, fix, wasted, fixHands>>

-----------------------------------------------------------------------------
(* GitHub, the controller, dispatch, other people.                         *)

PrBecomes(p, s) ==
    /\ pr' = [pr EXCEPT ![p] = s]
    /\ moved' = (moved \/ (cur = p))

outside == <<ilane, wasted, fpc, load, sigs, listed, todo, jobVars, queued>>

\* A coder run ends; what it pushed may be anything, and so may the next audit.
RunEnds(p) ==
    /\ fix[p].phase = "Active"
    /\ \E how \in {"Succeeded", "Failed"} : fix' = [fix EXCEPT ![p].phase = how]
    /\ IF Over(p) THEN UNCHANGED <<pr, moved, surface>>
       ELSE /\ \E s \in OpenPr : PrBecomes(p, s)
            /\ surface' \in [PRs -> Surfaces]
            /\ \A q \in PRs : q # p => surface'[q] = surface[q]
    /\ NoFault
    /\ UNCHANGED <<item, fixHands, outside>>

\* Checks conclude and GitHub works out the mergeability.
PrSettles(p) ==
    /\ pr[p].merge = "unknown" \/ (~Over(p) /\ pr[p].checks = "pending")
    /\ \E m \in Merges \ {"dirty", "unknown"}, c \in Checks \ {"pending"} :
        PrBecomes(p, [pr[p] EXCEPT !.merge = IF @ = "unknown" THEN m ELSE @, !.checks = c])
    /\ NoFault
    /\ UNCHANGED <<item, surface, fix, fixHands, outside>>

FixHand(kind) ==
    /\ kind \in FixHands /\ fixHands < MaxFixHands
    /\ fixHands' = fixHands + 1
    /\ NoFault

PrHand(p) ==
    /\ ~Over(p)
    /\ \/ FixHand("merge") /\ PrBecomes(p, [pr[p] EXCEPT !.merge = "merged"])
       \/ FixHand("close") /\ PrBecomes(p, [pr[p] EXCEPT !.merge = "closed"])
       \/ FixHand("review") /\ PrBecomes(p, [pr[p] EXCEPT !.changes = ~@])
       \/ FixHand("base") /\ PrBecomes(p, [pr[p] EXCEPT !.merge = "dirty"])
    /\ UNCHANGED <<item, surface, fix, outside>>

\* The next audit of an open PR, or a person, queues the item again.
Requeue(p) ==
    /\ FixHand("queue") /\ item[p] # "QUEUED" /\ ~Over(p)
    /\ item' = [item EXCEPT ![p] = "QUEUED"]
    /\ UNCHANGED <<surface, pr, fix, moved, outside>>

\* The prune of an earlier or later tick, or an operator, deletes a finished Workload.
LoseFix(p) ==
    /\ FixHand("lose") /\ fix[p].phase \in {"Succeeded", "Failed"}
    /\ fix' = [fix EXCEPT ![p] = NoRun]
    /\ UNCHANGED <<item, surface, pr, moved, outside>>

-----------------------------------------------------------------------------

ReconcileStep ==
    \/ \E p \in PRs : FixPick(p)
    \/ FixProbe \/ FixUpdateBranch
    \/ FixOver \/ FixSucceeded \/ FixChangesRequested \/ FixWait \/ FixRetry \/ FixSpent
    \/ FixMark \/ FixDelete \/ FixCreate

FixStep ==
    \/ StartTick \/ SnapshotSignatures \/ StartReconcile \/ ReconcileStep \/ StartDrain
    \/ \E p \in PRs : DrainSkip(p) \/ DrainCreate(p)
    \/ FinishFixes

Outside(p) == RunEnds(p) \/ PrSettles(p) \/ PrHand(p) \/ Requeue(p) \/ LoseFix(p)

Next == FixStep \/ CrashFixes \/ \E p \in PRs : Outside(p)

Spec == Init /\ [][Next]_vars

\* The CronJob keeps running, runs finish, checks conclude.
Fairness ==
    /\ WF_vars(FixStep)
    /\ \A p \in PRs : WF_vars(RunEnds(p)) /\ WF_vars(PrSettles(p))

FairSpec == Spec /\ Fairness

-----------------------------------------------------------------------------
(* Properties.                                                             *)

Tier(w) == IF w.lane = "ESCALATED" THEN 1 ELSE 0

Bounded(w) ==
    /\ w.attempt <= FixAttempts
    /\ w.progress <= FixProgress
    /\ w.runs <= (w.progress + Tier(w)) * FixAttempts + w.attempt

\* The coder runs of a series stay within what its attempt, its tier and its
\* progress admit, and the attempt and progress within their budgets: neither a
\* retry that made progress nor an escalation opens an unbounded series.
FixRunsBounded == \A p \in PRs : Bounded(fix[p])

\* A merged or closed PR costs at most one more run, plus one per fault or further
\* intervention (ending the PR is the first): the reconcile notices before it retries.
OverRunsBounded == \A p \in PRs : wasted[p] <= faults + fixHands

\* An item is marked FIXED only on the evidence of a merged PR or of one that is
\* mergeable with no check failing or pending, unless the PR has moved since: a
\* read that failed or is unfinished never stands for success.
FixedIsTrue ==
    [][\A p \in PRs :
         item[p] # "FIXED" /\ item'[p] = "FIXED" /\ ~moved
         => \/ pr[p].merge = "merged"
            \/ pr[p].merge = "clean" /\ pr[p].checks = "passed"]_vars

\* A person is asked for help with a PR only when the coder of every tier has spent
\* its attempts on it, or the series its progress.
BlockedLast ==
    [][\A p \in PRs :
         item[p] # "BLOCKED" /\ item'[p] = "BLOCKED" /\ NormalCoder # EscalatedCoder
         => \/ listed[p].lane = "ESCALATED" /\ listed[p].attempt >= FixAttempts
            \/ listed[p].progress >= FixProgress]_vars

\* The Workload of a FIXED or STALE PR is deleted only once its item carries that mark,
\* unless a person intervened: a mark that failed leaves the Workload for the next tick.
RetiredWhenMarked ==
    [][\A p \in PRs :
         At("delete") /\ p = cur /\ path \in {"FIXED", "STALE"} /\ fix'[p].phase = "none"
         => item[p] = path \/ fixHands > 0]_vars

\* A retry against the same failure surface is charged: while there is only one
\* surface nothing counts as progress.
SameWallCharged ==
    Cardinality(Surfaces) = 1 => \A p \in PRs : fix[p].progress = 0

\* A QUEUED item ends FIXED, STALE or BLOCKED, unless its PR waits for a reviewer.
FixSettles ==
    \A p \in PRs :
        item[p] = "QUEUED"
        ~> item[p] # "QUEUED" \/ MergeStatus(pr[p]) \in {"blocked", "changes_requested"}

\* The Workload of a merged or closed PR is collected.
OverRetired == \A p \in PRs : Over(p) ~> fix[p].phase = "none"

=============================================================================
