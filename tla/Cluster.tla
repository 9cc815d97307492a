------------------------------- MODULE Cluster -------------------------------
(***************************************************************************)
(* The Kubernetes API and the Foreman controller, as bridge/main.py uses   *)
(* them: at most one Workload per issue (its name is a function of the     *)
(* issue), the phase the controller reports, the retry counters the bridge *)
(* stamps on it, and the verdict its tasks carry.                          *)
(***************************************************************************)
EXTENDS Dispatch

CONSTANTS
    MaxAttempts,     \* RETRY_MAX_ATTEMPTS
    InfraMax,        \* INFRA_MAX_ATTEMPTS
    Outcomes,        \* the results a coder run may end with
    Pruned           \* the phases with a TTL above 0 (PRUNE_*_AFTER_HOURS)

(* How a run ends.                                                          *)
(*   Failed:     "rejected"  a reviewer or a gate said no                   *)
(*               "nogo"      the coder said NO-GO and nothing else          *)
(*               "declared"  NO-GO with DESIGN-DECISION / NO-TECHNICAL-FIX  *)
(*               "demoted"   a rail rewrote the reviewer's GO               *)
(*               "infra"     ExecutorError: no request reached the model    *)
(*   Completed:  "pr" opened, "resolved" already on main, "refused" non-GO, *)
(*               "gonopr" GO without a PR                                   *)
(*   "stopped":  the other terminal phases (Succeeded, Cancelled, Timeout)  *)
FailedResults    == {"rejected", "nogo", "declared", "demoted", "infra"}
CompletedResults == {"pr", "resolved", "refused", "gonopr"}
Results          == FailedResults \cup CompletedResults \cup {"stopped"}
Phases           == {"none", "Active", "Failed", "Completed", "Stopped"}

PhaseOf(r) ==
    IF r \in FailedResults THEN "Failed"
    ELSE IF r \in CompletedResults THEN "Completed" ELSE "Stopped"

ASSUME ClusterAssumption ==
    /\ MaxAttempts \in Nat \ {0}
    /\ InfraMax \in Nat \ {0}
    /\ Outcomes \subseteq Results
    /\ Pruned \subseteq {"Failed", "Completed"}

VARIABLES
    phase,     \* "none": there is no such object
    going,     \* accepted for deletion, finalizers pending
    attempt,   \* the attempt annotation, 0 without an object
    infra,     \* the infra-attempt annotation, 0 without an object
    wlane,     \* the lane label, frozen at creation
    result,    \* what the tasks report once terminal
    age,       \* "fresh" unstamped, "seen" stamped terminal-since, "old" past its TTL
    runs       \* history: coder runs since the bridge last claimed the issue

workVars == <<phase, going, attempt, infra, wlane, result, age, runs>>

ClusterTypeOK ==
    /\ phase \in [Issues -> Phases]
    /\ going \in [Issues -> BOOLEAN]
    /\ attempt \in [Issues -> Nat]
    /\ infra \in [Issues -> Nat]
    /\ wlane \in [Issues -> Lanes \cup {NoLane}]
    /\ result \in [Issues -> Results \cup {"none"}]
    /\ age \in [Issues -> {"fresh", "seen", "old"}]
    /\ runs \in [Issues -> Nat]

ClusterInit ==
    /\ phase = [i \in Issues |-> "none"]
    /\ going = [i \in Issues |-> FALSE]
    /\ attempt = [i \in Issues |-> 0]
    /\ infra = [i \in Issues |-> 0]
    /\ wlane = [i \in Issues |-> NoLane]
    /\ result = [i \in Issues |-> "none"]
    /\ age = [i \in Issues |-> "fresh"]
    /\ runs = [i \in Issues |-> 0]

InPhase(p) == {i \in Issues : phase[i] = p}
Existing   == {i \in Issues : phase[i] # "none"}

\* list_workload_tasks: an object under foreground deletion loses its tasks
\* before it goes, a missing one has none.
TasksOf(i) ==
    IF phase[i] = "none" THEN {"unknown"}
    ELSE IF going[i] THEN {result[i], "unknown"} ELSE {result[i]}

-----------------------------------------------------------------------------
(* The requests of the bridge.                                             *)

WorkCall(Effect, ok) ==
    \/ ok /\ NoFault /\ Effect
    \/ ~ok /\ Fault("call") /\ UNCHANGED workVars
    \/ ~ok /\ Fault("lost") /\ Effect

\* The create of a name that exists is a 409, which create_workload swallows.
Created(i, l, a, f, r) ==
    IF phase[i] # "none" THEN UNCHANGED workVars
    ELSE /\ phase' = [phase EXCEPT ![i] = "Active"]
         /\ going' = going
         /\ attempt' = [attempt EXCEPT ![i] = a]
         /\ infra' = [infra EXCEPT ![i] = f]
         /\ wlane' = [wlane EXCEPT ![i] = l]
         /\ result' = result
         /\ age' = age
         /\ runs' = [runs EXCEPT ![i] = r]

CreateCall(i, l, a, f, r, ok) == WorkCall(Created(i, l, a, f, r), ok)

Gone(i) ==
    /\ phase' = [phase EXCEPT ![i] = "none"]
    /\ going' = [going EXCEPT ![i] = FALSE]
    /\ attempt' = [attempt EXCEPT ![i] = 0]
    /\ infra' = [infra EXCEPT ![i] = 0]
    /\ wlane' = [wlane EXCEPT ![i] = NoLane]
    /\ result' = [result EXCEPT ![i] = "none"]
    /\ age' = [age EXCEPT ![i] = "fresh"]
    /\ runs' = runs

Terminating(i) ==
    /\ going' = [going EXCEPT ![i] = TRUE]
    /\ UNCHANGED <<phase, attempt, infra, wlane, result, age, runs>>

\* _delete_workload: returns once the object is gone, raises TimeoutError while
\* its finalizers hold it.
DeleteCall(i, ok) ==
    \/ WorkCall(Gone(i), ok)
    \/ ~ok /\ phase[i] # "none" /\ Fault("wedge") /\ Terminating(i)
    \/ ~ok /\ going[i] /\ NoFault /\ UNCHANGED workVars

Stamped(i) ==
    /\ age' = [age EXCEPT ![i] = "seen"]
    /\ UNCHANGED <<phase, going, attempt, infra, wlane, result, runs>>

-----------------------------------------------------------------------------
(* What happens in the cluster by itself, or by another hand.              *)

\* The controller finishes a run; a run that opened a PR shows on the issue.
FinishRun(i) ==
    /\ phase[i] = "Active"
    /\ \E r \in Outcomes :
        /\ result' = [result EXCEPT ![i] = r]
        /\ phase' = [phase EXCEPT ![i] = PhaseOf(r)]
        /\ hasPr' = [hasPr EXCEPT ![i] = @ \/ r = "pr"]
    /\ NoFault
    /\ UNCHANGED <<going, attempt, infra, wlane, age, runs>>
    /\ UNCHANGED <<status, owner, lane, human, open, said, marks, hands>>

\* The finalizers of a deleted object complete.
FinalizeRun(i) ==
    /\ going[i] /\ Gone(i)
    /\ NoFault /\ UNCHANGED issueVars /\ UNCHANGED hands

\* The TTL of the object's phase passes, counted from the stamp.
AgeRun(i) ==
    /\ age[i] = "seen" /\ phase[i] \in Pruned
    /\ age' = [age EXCEPT ![i] = "old"]
    /\ NoFault /\ UNCHANGED issueVars /\ UNCHANGED hands
    /\ UNCHANGED <<phase, going, attempt, infra, wlane, result, runs>>

\* An operator or a garbage collector deletes the object.
RemoveByHand(i) ==
    /\ Hand("remove") /\ phase[i] # "none"
    /\ Gone(i) /\ UNCHANGED issueVars

=============================================================================
