------------------------------- MODULE Faults -------------------------------
(***************************************************************************)
(* The failures a bridge tick is exposed to, drawn from one budget.        *)
(*                                                                         *)
(*   "call"   a request fails and has no effect                            *)
(*   "lost"   a request takes effect and its reply never arrives           *)
(*   "resend" the reply to a claim or an unclaim is lost, retry_request    *)
(*            sends it again and the caller sees the second answer         *)
(*   "repeat" the same for a comment, which is then posted twice           *)
(*   "read"   a read returns nothing usable, so its caller sees None or [] *)
(*   "stamp"  the terminal-since PATCH is rejected                         *)
(*   "wedge"  a Workload's deletion outlives delete_workload's polling     *)
(*   "crash"  the tick ends early: the pod is killed, or an exception no   *)
(*            caller catches leaves run_tick                               *)
(*                                                                         *)
(* MaxFaults bounds the total, which also makes every behaviour eventually *)
(* free of faults: the liveness properties need exactly that.              *)
(***************************************************************************)
EXTENDS Naturals

CONSTANTS FaultKinds, MaxFaults

ASSUME FaultsAssumption ==
    /\ FaultKinds \subseteq {"call", "lost", "resend", "repeat", "read", "stamp",
                       "wedge", "crash"}
    /\ MaxFaults \in Nat

VARIABLE faults

Fault(kind) ==
    /\ kind \in FaultKinds
    /\ faults < MaxFaults
    /\ faults' = faults + 1

NoFault == faults' = faults

=============================================================================
