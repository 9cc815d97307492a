------------------------------- MODULE Bridge -------------------------------
(***************************************************************************)
(* The local state of one run_tick: which pass it is in, the listing that  *)
(* pass still has to go through, the Workload or issue in hand, and the    *)
(* snapshots taken earlier in the tick.  Nothing of it survives the tick.  *)
(***************************************************************************)
EXTENDS Cluster

CONSTANTS
    NoIssue,
    MaxInProgress,   \* MAX_IN_PROGRESS, 0 for no cap
    ProbeModel,      \* is there a probe_model, which turns infra recovery on?
    RecoveryMax      \* INFRA_RECOVERY_MAX_FAILURES

ASSUME BridgeAssumption ==
    /\ NoIssue \notin Issues
    /\ MaxInProgress \in Nat
    /\ ProbeModel \in BOOLEAN
    /\ RecoveryMax \in Nat

Passes == {"idle", "snap", "retry", "recover", "claim", "review", "stranded", "stuck",
           "prune"}

ParkPaths == {"declared", "demoted", "nogo", "exhausted"}
Paths == ParkPaths \cup {"none", "escalate", "retry", "infra", "infraLoud", "infraKept",
                         "claim", "in-review", "done", "blocked", "gonopr",
                         "stranded", "prune", "redrive", "redriveKept", "handover", "recount"}

Steps == {"pick", "check", "relabel", "status", "label", "comment", "retire",
          "setLane", "unclaim", "infraStatus", "infraCheck", "infraLabels",
          "infraComment", "delete", "create", "claimed",
          "redrive", "resume", "unpark", "unmark", "handStatus", "handLabel",
          "handComment", "uncount", "count",
          "reviewStatus", "close", "reviewCheck", "reviewPark", "reviewLabel",
          "reviewComment", "unlabel", "pruneDelete", "pruneCheck", "pruneReset"}

\* What the tasks of a Workload can be read as.
Verdicts == Results \cup {"none", "unknown"}

VARIABLES
    pc,            \* the pass
    todo,          \* what is left of the pass's listing
    cur,           \* the item in hand
    step,          \* its next request
    path,          \* why that request is made
    view,          \* the verdict as its tasks were read
    shotAttempt,   \* attempt, infra and lane as list_failed returned them
    shotInfra,
    shotLane,
    queueLane,     \* lane_index of the queue snapshot, NoLane when unlisted
    queueReady,    \* the snapshot's candidates
    names,         \* the Workload names the reapers compare against; the Failed
                   \* ones of the listing while pruning
    laneAt,        \* the lane being drained
    tried,         \* candidates this claim_one call has been refused
    inflight       \* in_progress of run_once

jobVars    == <<cur, step, path, view>>
shotVars   == <<shotAttempt, shotInfra, shotLane>>
queueVars  == <<queueLane, queueReady>>
claimVars  == <<laneAt, tried, inflight>>
passVars   == <<pc, todo>>
bridgeVars == <<passVars, jobVars, shotVars, queueVars, claimVars, names>>
vars       == <<issueVars, workVars, bridgeVars, faults, hands>>

\* Everything a step inside a pass leaves alone besides the job itself.
frame == <<pc, shotVars, queueVars, claimVars, names, hands>>

BridgeTypeOK ==
    /\ pc \in Passes
    /\ todo \subseteq Issues
    /\ cur \in Issues \cup {NoIssue}
    /\ step \in Steps
    /\ path \in Paths
    /\ view \in Verdicts
    /\ shotAttempt \in [Issues -> Nat]
    /\ shotInfra \in [Issues -> Nat]
    /\ shotLane \in [Issues -> Lanes \cup {NoLane}]
    /\ queueLane \in [Issues -> Lanes \cup {NoLane}]
    /\ queueReady \subseteq Issues
    /\ names \subseteq Issues
    /\ laneAt \in 1 .. NumLanes + 1
    /\ tried \subseteq Issues
    /\ inflight \in Nat

Zero == [i \in Issues |-> 0]

BridgeInit ==
    /\ pc = "idle" /\ todo = {}
    /\ cur = NoIssue /\ step = "pick" /\ path = "none" /\ view = "none"
    /\ shotAttempt = Zero /\ shotInfra = Zero /\ shotLane = Zero
    /\ queueLane = Zero /\ queueReady = {}
    /\ names = {}
    /\ laneAt = 1 /\ tried = {} /\ inflight = 0

\* The tick is over, however it got there.
EndTick ==
    /\ pc' = "idle" /\ todo' = {}
    /\ cur' = NoIssue /\ step' = "pick" /\ path' = "none" /\ view' = "none"
    /\ shotAttempt' = Zero /\ shotInfra' = Zero /\ shotLane' = Zero
    /\ queueLane' = Zero /\ queueReady' = {}
    /\ names' = {}
    /\ laneAt' = 1 /\ tried' = {} /\ inflight' = 0

\* A pass is at its picking point for pass p.
Picking(p) == pc = p /\ cur = NoIssue

\* The pass p has gone through its listing.
Drained(p) == Picking(p) /\ todo = {}

\* The job of pass p is at step s.
At(p, s) == pc = p /\ cur # NoIssue /\ step = s

Take(i, s, p, v) ==
    /\ cur' = i /\ step' = s /\ path' = p /\ view' = v /\ todo' = todo

Goto(s) == step' = s /\ UNCHANGED <<todo, cur, path, view>>

Done ==
    /\ todo' = todo \ {cur}
    /\ cur' = NoIssue /\ step' = "pick" /\ path' = "none" /\ view' = "none"

Skip(i) == todo' = todo \ {i} /\ UNCHANGED jobVars

=============================================================================
