------------------------------ MODULE Reconcile ------------------------------
(***************************************************************************)
(* The two reapers of bridge/reconcile.py, which share one listing of the  *)
(* Workload names: issues in-progress without a Workload go back to ready, *)
(* and claims stuck at ready are released.                                 *)
(***************************************************************************)
EXTENDS Bridge

\* Mutant: the wrong status is asked for.
ListNamesReady ==
    /\ Drained("review") /\ pc' = "stranded" /\ names' = Existing
    /\ todo' = Claimed("ready")
    /\ NoFault
    /\ UNCHANGED <<issueVars, workVars, jobVars, shotVars, queueVars, claimVars, hands>>

\* bridge_wl_names, taken once for both reapers.
ListNames ==
    /\ Drained("review") /\ pc' = "stranded" /\ names' = Existing
    /\ todo' = Claimed("in-progress")
    /\ NoFault
    /\ UNCHANGED <<issueVars, workVars, jobVars, shotVars, queueVars, claimVars, hands>>

\* Mutant: the Workload listing is not consulted.
InFlightPrOnly(i) == hasPr[i]

\* Work in flight: a Workload by that name, or a PR a human is reviewing.
InFlight(i) == i \in names \/ hasPr[i]

StrandedSkip(i) ==
    /\ Picking("stranded") /\ i \in todo /\ InFlight(i)
    /\ Skip(i) /\ NoFault
    /\ UNCHANGED <<issueVars, workVars, frame>>

\* A refused update still goes on to the label; an exception does not.
StrandedReset(i) ==
    /\ Picking("stranded") /\ i \in todo /\ ~InFlight(i)
    /\ \E reply \in Replies :
        /\ StatusCall(i, "ready", reply)
        /\ IF reply = "raise" THEN Skip(i) ELSE Take(i, "unlabel", "stranded", "none")
    /\ UNCHANGED <<workVars, frame>>

StrandedUnlabel ==
    /\ At("stranded", "unlabel")
    /\ \E reply \in Replies : UnlabelCall(cur, reply)
    /\ Done
    /\ UNCHANGED <<workVars, frame>>

\* Mutant: the service ignores the status parameter and nobody notices.
StartStuckInProgress ==
    /\ Drained("stranded") /\ pc' = "stuck"
    /\ todo' = Claimed("in-progress")
    /\ NoFault
    /\ UNCHANGED <<issueVars, workVars, jobVars, shotVars, queueVars, claimVars, names, hands>>

StartStuck ==
    /\ Drained("stranded") /\ pc' = "stuck"
    /\ todo' = Claimed("ready")
    /\ NoFault
    /\ UNCHANGED <<issueVars, workVars, jobVars, shotVars, queueVars, claimVars, names, hands>>

StuckSkip(i) ==
    /\ Picking("stuck") /\ i \in todo /\ InFlight(i)
    /\ Skip(i) /\ NoFault
    /\ UNCHANGED <<issueVars, workVars, frame>>

StuckRelease(i) ==
    /\ Picking("stuck") /\ i \in todo /\ ~InFlight(i)
    /\ \E reply \in Replies : UnclaimCall(i, reply)
    /\ Skip(i)
    /\ UNCHANGED <<workVars, frame>>

ReconcilePass ==
    \/ ListNames \/ StrandedUnlabel \/ StartStuck
    \/ \E i \in Issues : \/ StrandedSkip(i) \/ StrandedReset(i)
                         \/ StuckSkip(i) \/ StuckRelease(i)

=============================================================================
