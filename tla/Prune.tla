-------------------------------- MODULE Prune --------------------------------
(***************************************************************************)
(* prune_workloads (bridge/prune.py) over list_terminal_candidates: stamp  *)
(* terminal Workloads when first seen, delete those past their TTL, and    *)
(* send the issue of a Failed one back to ready unless it is parked.       *)
(***************************************************************************)
EXTENDS Bridge

\* Mutant: Completed Workloads are not listed.
StartPruneFailed ==
    /\ Drained("stuck") /\ pc' = "prune"
    /\ todo' = IF Pruned = {} THEN {} ELSE InPhase("Failed")
    /\ names' = InPhase("Failed")
    /\ NoFault
    /\ UNCHANGED <<issueVars, workVars, jobVars, shotVars, queueVars, claimVars, hands>>

\* list_terminal_candidates: the two phases it knows.
StartPrune ==
    /\ Drained("stuck") /\ pc' = "prune"
    /\ todo' = IF Pruned = {} THEN {} ELSE InPhase("Failed") \cup InPhase("Completed")
    /\ names' = InPhase("Failed")
    /\ NoFault
    /\ UNCHANGED <<issueVars, workVars, jobVars, shotVars, queueVars, claimVars, hands>>

ListedPhase(i) == IF i \in names THEN "Failed" ELSE "Completed"

\* An object that went since it was listed may have been past its TTL or not.
PrunePick(i) ==
    /\ Picking("prune") /\ i \in todo
    /\ \/ age[i] = "fresh" /\ phase[i] # "none" /\ Skip(i) /\ Stamped(i)
       \/ (age[i] = "seen" \/ phase[i] = "none") /\ Skip(i) /\ UNCHANGED workVars
       \/ /\ age[i] = "old" \/ (phase[i] = "none" /\ ListedPhase(i) \in Pruned)
          /\ Take(i, "pruneDelete", "prune", "none") /\ UNCHANGED workVars
    /\ NoFault
    /\ UNCHANGED <<issueVars, frame>>

\* A rejected stamp falls back to creationTimestamp, which may be long past.
PruneUnstamped(i) ==
    /\ Picking("prune") /\ i \in todo /\ age[i] = "fresh"
    /\ Fault("stamp")
    /\ Skip(i) \/ (phase[i] \in Pruned /\ Take(i, "pruneDelete", "prune", "none"))
    /\ UNCHANGED <<issueVars, workVars, frame>>

\* Mutant: the issue of a Completed Workload is reset too.
PruneDeleteResets ==
    /\ At("prune", "pruneDelete")
    /\ \E ok \in BOOLEAN : DeleteCall(cur, ok)
    /\ Goto("pruneCheck")
    /\ UNCHANGED <<issueVars, frame>>

\* A failed delete is reported and the issue is handled all the same.
PruneDelete ==
    /\ At("prune", "pruneDelete")
    /\ \E ok \in BOOLEAN : DeleteCall(cur, ok)
    /\ IF cur \in names THEN Goto("pruneCheck") ELSE Done
    /\ UNCHANGED <<issueVars, frame>>

\* Without an answer the issue counts as not parked.
PruneCheck ==
    /\ At("prune", "pruneCheck")
    /\ \/ Parked(cur) /\ NoFault /\ Done
       \/ /\ \/ ~Parked(cur) /\ NoFault
             \/ Parked(cur) /\ Fault("read")
          /\ Goto("pruneReset")
    /\ UNCHANGED <<issueVars, workVars, frame>>

PruneReset ==
    /\ At("prune", "pruneReset")
    /\ \E reply \in Replies : StatusCall(cur, "ready", reply)
    /\ Done
    /\ UNCHANGED <<workVars, frame>>

PrunePass ==
    \/ StartPrune \/ PruneDelete \/ PruneCheck \/ PruneReset
    \/ \E i \in Issues : PrunePick(i) \/ PruneUnstamped(i)

=============================================================================
