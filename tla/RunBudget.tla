------------------------------ MODULE RunBudget ------------------------------
(***************************************************************************)
(* What the bridge promises of an issue's coder runs, without passes,      *)
(* Workloads or faults: one run at a time; a run that failed may be had    *)
(* again until the budget of its grant is used up; a run that did not fail *)
(* is never repeated on the same grant.                                    *)
(***************************************************************************)
EXTENDS Integers

CONSTANTS
    Issues,
    Budget           \* the runs one grant of an issue may cost

VARIABLES
    state,           \* "failed" until the failure is settled, one way or another
    used             \* runs on the current grant

Init ==
    /\ state = [i \in Issues |-> "idle"]
    /\ used = [i \in Issues |-> 0]

\* The issue is granted: its first run.
Fresh(i) ==
    /\ state[i] = "idle"
    /\ state' = [state EXCEPT ![i] = "running"]
    /\ used' = [used EXCEPT ![i] = 1]

Again(i) ==
    /\ state[i] = "failed" /\ used[i] < Budget
    /\ state' = [state EXCEPT ![i] = "running"]
    /\ used' = [used EXCEPT ![i] = @ + 1]

End(i) ==
    /\ state[i] = "running"
    /\ \E s \in {"failed", "ended"} : state' = [state EXCEPT ![i] = s]
    /\ UNCHANGED used

\* The last runs of some issues are settled, or lost sight of; a crash can lose
\* several at once.
Forget(S) ==
    /\ state' = [i \in Issues |-> IF i \in S THEN "idle" ELSE state[i]]
    /\ UNCHANGED used

Next ==
    \/ \E i \in Issues : Fresh(i) \/ Again(i) \/ End(i)
    \/ \E S \in SUBSET Issues : Forget(S)

Spec == Init /\ [][Next]_<<state, used>>

=============================================================================
