------------------------------ MODULE Dispatch ------------------------------
(***************************************************************************)
(* The dispatch service, as bridge/claim.py uses it: the issues, their     *)
(* status label, the agent holding the claim, the lane, the needs-human    *)
(* marker, whether a PR is open.  The service is external to this          *)
(* repository; each operator ending in Call is one request DispatchClient  *)
(* sends, with the effect the bridge relies on and the replies it handles. *)
(* The last section is what other people and agents do to the same issues. *)
(***************************************************************************)
EXTENDS Faults, Integers, FiniteSets

CONSTANTS
    Issues,          \* the issues of the board
    NumLanes,        \* lanes polled, 1 .. NumLanes, in DISPATCH_LANES order
    EscLane,         \* ESCALATION_LANE, or NoLane when escalation is off
    SelfClaimOk,     \* does claiming an issue one already holds succeed?
    HandKinds,       \* the kinds of manual intervention considered
    MaxHands         \* how many interventions there are

NoLane == 0
Lanes  == 1 .. NumLanes

Statuses  == {"ready", "in-progress", "in-review", "done", "blocked", "backlog"}
Owners    == {"none", "bridge", "other"}
Markers   == {"none", "model", "unknown"}
Hands     == {"close", "reopen", "closePr", "regroom", "reclassify", "remove", "rival"}

ASSUME DispatchAssumption ==
    /\ IsFiniteSet(Issues)
    /\ NumLanes \in Nat \ {0}
    /\ EscLane \in Lanes \cup {NoLane}
    /\ SelfClaimOk \in BOOLEAN
    /\ HandKinds \subseteq Hands
    /\ MaxHands \in Nat

VARIABLES
    status,    \* the status/... label of each issue
    owner,     \* whose agent label the issue carries
    lane,      \* the lane the service classifies it into
    human,     \* the needs-human label
    open,      \* is the GitHub issue open?
    hasPr,     \* hasOpenPr
    said,      \* needs-human comments since the issue was last claimed or handed
               \* back by a person; 2 stands for several
    marker,    \* the blocked/infra label: absent, or beside a model label or not
    tries,     \* the counts of the blocked/infra-attempt labels
    hands      \* interventions so far

marks     == <<marker, tries>>
issueVars == <<status, owner, lane, human, open, hasPr, said, marks>>

DispatchTypeOK ==
    /\ status \in [Issues -> Statuses]
    /\ owner \in [Issues -> Owners]
    /\ lane \in [Issues -> Lanes]
    /\ human \in [Issues -> BOOLEAN]
    /\ open \in [Issues -> BOOLEAN]
    /\ hasPr \in [Issues -> BOOLEAN]
    /\ said \in [Issues -> 0 .. 2]
    /\ marker \in [Issues -> Markers]
    /\ tries \in [Issues -> SUBSET Nat]
    /\ hands \in 0 .. MaxHands
    /\ faults \in 0 .. MaxFaults

DispatchInit ==
    /\ status = [i \in Issues |-> "ready"]
    /\ owner = [i \in Issues |-> "none"]
    /\ lane \in [Issues -> Lanes]
    /\ human = [i \in Issues |-> FALSE]
    /\ open = [i \in Issues |-> TRUE]
    /\ hasPr = [i \in Issues |-> FALSE]
    /\ said = [i \in Issues |-> 0]
    /\ marker = [i \in Issues |-> "none"]
    /\ tries = [i \in Issues |-> {}]
    /\ hands = 0
    /\ faults = 0

-----------------------------------------------------------------------------
(* Reads.                                                                  *)

\* The queue of an agent lists its own and the unclaimed work (includeClaimed).
Listed(i) == open[i] /\ status[i] \in {"ready", "in-progress"} /\ owner[i] # "other"

\* issue_is_parked: the marker label or the resting status.
Parked(i) == human[i] \/ status[i] = "backlog"

\* list_claimed(status): what the bridge holds in that status.
Claimed(s) == {i \in Issues : open[i] /\ owner[i] = "bridge" /\ status[i] = s}

-----------------------------------------------------------------------------
(* Writes.  A request is answered, refused (a 409, which _http_post turns   *)
(* into None), or raises, with or without its effect.                      *)

Failures == {"refused", "raise"}
Replies  == {"ok"} \cup Failures

Call(Effect, reply) ==
    \/ reply = "ok" /\ NoFault /\ Effect
    \/ reply \in Failures /\ Fault("call") /\ UNCHANGED issueVars
    \/ reply = "raise" /\ Fault("lost") /\ Effect

\* Leaving in-progress may or may not take the agent label with it.
StatusSet(i, s) ==
    /\ status' = [status EXCEPT ![i] = s]
    /\ \/ owner' = owner
       \/ /\ s # "in-progress" /\ owner[i] = "bridge"
          /\ owner' = [owner EXCEPT ![i] = "none"]
    /\ UNCHANGED <<lane, human, open, hasPr, said, marks>>

HumanSet(i, b) ==
    /\ human' = [human EXCEPT ![i] = b]
    /\ UNCHANGED <<status, owner, lane, open, hasPr, said, marks>>

LaneSet(i, l) ==
    /\ lane' = [lane EXCEPT ![i] = l]
    /\ UNCHANGED <<status, owner, human, open, hasPr, said, marks>>

Comments(i, n) ==
    /\ said' = [said EXCEPT ![i] = IF @ + n < 2 THEN @ + n ELSE 2]
    /\ UNCHANGED <<status, owner, lane, human, open, hasPr, marks>>

CloseIssue(i) ==
    /\ open' = [open EXCEPT ![i] = FALSE]
    /\ UNCHANGED <<status, owner, lane, human, hasPr, said, marks>>

Released(i) ==
    /\ status' = [status EXCEPT ![i] = "ready"]
    /\ owner' = [owner EXCEPT ![i] = "none"]
    /\ UNCHANGED <<lane, human, open, hasPr, said, marks>>

Granted(i) ==
    /\ status' = [status EXCEPT ![i] = "in-progress"]
    /\ owner' = [owner EXCEPT ![i] = "bridge"]
    /\ said' = [said EXCEPT ![i] = 0]
    /\ UNCHANGED <<lane, human, open, hasPr, marks>>

\* Back to work: the bridge's name goes with the status, and may become the claim.
Resumed(i) ==
    /\ status' = [status EXCEPT ![i] = "in-progress"]
    /\ owner' \in {owner, [owner EXCEPT ![i] = IF @ = "none" THEN "bridge" ELSE @]}
    /\ said' = [said EXCEPT ![i] = 0]
    /\ UNCHANGED <<lane, human, open, hasPr, marks>>

StatusCall(i, s, reply) == Call(StatusSet(i, s), reply)
LabelCall(i, reply)     == Call(HumanSet(i, TRUE), reply)
UnlabelCall(i, reply)   == Call(HumanSet(i, FALSE), reply)
LaneCall(i, l, reply)   == Call(LaneSet(i, l), reply)
CloseCall(i, reply)     == Call(CloseIssue(i), reply)

\* Resending is harmless for the requests above, and not for the three below.
CommentCall(i, reply) ==
    \/ Call(Comments(i, 1), reply)
    \/ reply = "ok" /\ Fault("repeat") /\ Comments(i, 2)

\* What there is for the bridge to release.
Held(i) == open[i] /\ owner[i] = "bridge" /\ status[i] \in {"ready", "in-progress"}

\* Anything else is a 400, which DispatchClient.unclaim means to take for success
\* and raises: a requests.Response of that status is false.
UnclaimCall(i, reply) ==
    \/ Held(i) /\ Call(Released(i), reply)
    \/ Held(i) /\ reply = "raise" /\ Fault("resend") /\ Released(i)
    \/ ~Held(i) /\ reply = "raise" /\ NoFault /\ UNCHANGED issueVars

\* The service grants unclaimed ready work, and, if self-claims are idempotent,
\* work the bridge already holds.  Anything else is a 409.
Claimable(i) ==
    /\ open[i]
    /\ \/ status[i] = "ready" /\ owner[i] = "none"
       \/ SelfClaimOk /\ owner[i] = "bridge" /\ status[i] \in {"ready", "in-progress"}

ClaimCall(i, reply) ==
    \/ Claimable(i) /\ Call(Granted(i), reply)
    \/ Claimable(i) /\ ~SelfClaimOk /\ reply = "refused" /\ Fault("resend") /\ Granted(i)
    \/ ~Claimable(i) /\ reply = "refused" /\ NoFault /\ UNCHANGED issueVars

\* replace_labels sends one request per label and goes on after a failure, so one
\* that reports failure may have done any part of its work.
MarkCall(i, n, ok) ==
    /\ \/ /\ ok /\ NoFault
          /\ human' = [human EXCEPT ![i] = FALSE]
          /\ marker' = [marker EXCEPT ![i] = "model"]
          /\ tries' = [tries EXCEPT ![i] = @ \cup {n}]
       \/ /\ ~ok /\ (Fault("call") \/ Fault("lost"))
          /\ human' \in {human, [human EXCEPT ![i] = FALSE]}
          /\ \E m \in {marker[i], "unknown", "model"} : marker' = [marker EXCEPT ![i] = m]
          /\ tries' \in {tries, [tries EXCEPT ![i] = @ \cup {n}]}
    /\ UNCHANGED <<status, owner, lane, open, hasPr, said>>

UnmarkCall(i, ok) ==
    /\ \/ /\ ok /\ NoFault
          /\ marker' = [marker EXCEPT ![i] = "none"]
          /\ tries' = [tries EXCEPT ![i] = {}]
       \/ /\ ~ok /\ (Fault("call") \/ Fault("lost"))
          /\ \E m \in {marker[i], "none", "unknown"}, kept \in SUBSET tries[i] :
                /\ m = "unknown" => marker[i] # "none"
                /\ marker' = [marker EXCEPT ![i] = m]
                /\ tries' = [tries EXCEPT ![i] = kept]
    /\ UNCHANGED <<status, owner, lane, human, open, hasPr, said>>

\* The old count goes label by label, then the model label is repeated and the new
\* count added.
UncountCall(i) ==
    /\ \/ NoFault /\ tries' = [tries EXCEPT ![i] = {}]
       \/ /\ Fault("call") \/ Fault("lost")
          /\ \E kept \in SUBSET tries[i] : tries' = [tries EXCEPT ![i] = kept]
    /\ UNCHANGED <<status, owner, lane, human, open, hasPr, said, marker>>

CountSet(i, n) ==
    /\ tries' = [tries EXCEPT ![i] = @ \cup {n}]
    /\ UNCHANGED <<status, owner, lane, human, open, hasPr, said, marker>>

ResumeCall(i, reply)   == Call(Resumed(i), reply)
CountCall(i, n, reply) == Call(CountSet(i, n), reply)

-----------------------------------------------------------------------------
(* Other people and agents.                                                *)

Hand(kind) ==
    /\ kind \in HandKinds
    /\ hands < MaxHands
    /\ hands' = hands + 1
    /\ NoFault

\* The issue is closed on GitHub, with its PR if it had one.
CloseByHand(i) ==
    /\ Hand("close") /\ open[i]
    /\ open' = [open EXCEPT ![i] = FALSE]
    /\ hasPr' = [hasPr EXCEPT ![i] = FALSE]
    /\ UNCHANGED <<status, owner, lane, human, said, marks>>

\* Someone disagrees with the close; the labels stay as they are.
ReopenByHand(i) ==
    /\ Hand("reopen") /\ ~open[i]
    /\ open' = [open EXCEPT ![i] = TRUE]
    /\ UNCHANGED <<status, owner, lane, human, hasPr, said, marks>>

\* The PR is closed unmerged.
ClosePrByHand(i) ==
    /\ Hand("closePr") /\ hasPr[i]
    /\ hasPr' = [hasPr EXCEPT ![i] = FALSE]
    /\ UNCHANGED <<status, owner, lane, human, open, said, marks>>

\* The groomer puts triaged work back to ready and clears the marker; the agent
\* label may survive it.
Regroom(i) ==
    /\ Hand("regroom") /\ open[i]
    /\ status[i] \in {"backlog", "blocked"}
    /\ status' = [status EXCEPT ![i] = "ready"]
    /\ human' = [human EXCEPT ![i] = FALSE]
    /\ said' = [said EXCEPT ![i] = 0]
    /\ owner' \in {owner, [owner EXCEPT ![i] = "none"]}
    /\ UNCHANGED <<lane, open, hasPr, marks>>

\* A manual de-escalation or a groomer reclassification.
Reclassify(i) ==
    /\ Hand("reclassify")
    /\ \E l \in Lanes : l # lane[i] /\ LaneSet(i, l)

\* Another agent claims unclaimed ready work.
RivalClaims(i) ==
    /\ Hand("rival") /\ open[i]
    /\ status[i] = "ready" /\ owner[i] = "none"
    /\ status' = [status EXCEPT ![i] = "in-progress"]
    /\ owner' = [owner EXCEPT ![i] = "other"]
    /\ UNCHANGED <<lane, human, open, hasPr, said, marks>>

=============================================================================
