------------------------------ MODULE Routing -------------------------------
(***************************************************************************)
(* How the bridge chooses a coder Agent (bridge/workload.py, with          *)
(* bridge/lanes.py and bridge/prfix.py): pure operators on a deployment    *)
(* record d, whose fields are the environment's maps.                      *)
(*                                                                         *)
(*   slots     CODER_AGENT_SLOTS, <<>> when it is not configured           *)
(*   fixFirst  FIX_FIRST_AGENTS                                            *)
(*   lanes     LANE_CODER_AGENTS     repos  REPO_CODER_AGENTS              *)
(*   bases     BASE_CODER_AGENTS     fix    PR_FIX_LANE_AGENTS             *)
(*   polled    DISPATCH_LANES                                              *)
(*                                                                         *)
(* A map's value is an Agent name or a list of them.  roles is the         *)
(* topology discovered from dispatch, <<>> when there is none.             *)
(***************************************************************************)
EXTENDS Integers, Sequences, FiniteSets

CONSTANTS
    NoAgent,
    DefaultAgent,    \* CODER_AGENT
    DefaultLanes,    \* DEFAULT_POLLED_LANES
    ClaimableLanes   \* the claimable lanes dispatch publishes, in its order

Wildcard == "*"

Name(a)   == [list |-> FALSE, agents |-> <<a>>]
List(as)  == [list |-> TRUE, agents |-> as]
Nothing   == Name(NoAgent)

Get(map, key) == IF key \in DOMAIN map THEN map[key] ELSE Nothing

\* Python's `or` between two values: a missing one and an empty list are false.
OrElse(v, w) == IF v.agents \in {<<>>, <<NoAgent>>} THEN w ELSE v

Among(as) == {as[k] : k \in 1 .. Len(as)}

-----------------------------------------------------------------------------
(* lanes.py.                                                               *)

\* Has dispatch given the lane a role, and is that role a key of the map?
RoleIn(map, roles, lane) == lane \in DOMAIN roles /\ roles[lane] \in DOMAIN map

\* Lane id, then role, then wildcard.
Lookup(map, roles, lane) ==
    IF lane \in DOMAIN map THEN map[lane]
    ELSE IF RoleIn(map, roles, lane) THEN map[roles[lane]]
    ELSE Get(map, Wildcard)

\* resolve_polled_lanes.
PolledLanes(d, known) ==
    IF d.polled # <<>> THEN d.polled
    ELSE IF known /\ ClaimableLanes # <<>> THEN ClaimableLanes
    ELSE DefaultLanes

-----------------------------------------------------------------------------
(* workload.py.                                                            *)

Rationed(d) == DOMAIN d.slots # {}

\* A value that is not positive counts as one.
SlotsFor(d, a) ==
    LET raw == IF a \in DOMAIN d.slots THEN d.slots[a]
               ELSE IF Wildcard \in DOMAIN d.slots THEN d.slots[Wildcard] ELSE 1
    IN IF raw > 0 THEN raw ELSE 1

FreeSlots(d, a, load) == SlotsFor(d, a) - load[a]

\* A fix-first agent is in the issue rotation only while it holds nothing.
InRotation(d, a, load) ==
    a \in d.fixFirst => load[a] = 0 /\ (Rationed(d) => FreeSlots(d, a, load) > 0)

\* What the claim pass sees of a lane before it claims: not its role, nor the
\* repository and language of what it will get.
CandidateValue(d, lane) ==
    IF lane \in DOMAIN d.lanes THEN d.lanes[lane] ELSE Get(d.lanes, Wildcard)

CoderCandidates(d, lane, load) ==
    {a \in Among(CandidateValue(d, lane).agents) \ {NoAgent} : InRotation(d, a, load)}

CodersSaturated(d, as, load) ==
    /\ Rationed(d) /\ as # {}
    /\ \A a \in as : FreeSlots(d, a, load) <= 0

\* Of a finite set of numbers, the one with n others below it.
Nth(S, n) == CHOOSE k \in S : Cardinality({m \in S : m < k}) = n

\* Mutant: the fix-first agents that dropped out are picked from all the same.
PickCoderAll(d, v, number, load) ==
    IF ~v.list THEN v.agents[1]
    ELSE IF v.agents = <<>> THEN NoAgent
    ELSE v.agents[1 + (number % Len(v.agents))]

\* A list gives its idlest coder, the issue number deciding between equals; without
\* slots the number alone decides.
PickCoder(d, v, number, load) ==
    IF ~v.list THEN v.agents[1]
    ELSE LET as   == v.agents
             kept == {k \in 1 .. Len(as) : InRotation(d, as[k], load)}
             tied == {k \in kept : Rationed(d) => \A m \in kept :
                        FreeSlots(d, as[m], load) <= FreeSlots(d, as[k], load)}
         IN IF kept = {} THEN NoAgent ELSE as[Nth(tied, number % Cardinality(tied))]

OrNamed(a, b) == IF a # NoAgent THEN a ELSE b

\* The first tier that names a coder: lane, repository, language, wildcard.
CoderAgentFor(d, roles, i, load) ==
    LET pick(v) == PickCoder(d, v, i.number, load)
    IN OrNamed(pick(Lookup(d.lanes, roles, i.lane)),
         OrNamed(pick(Get(d.repos, i.repo)),
           OrNamed(pick(OrElse(Get(d.bases, i.language), Get(d.bases, Wildcard))),
             OrNamed(pick(Get(d.lanes, Wildcard)), DefaultAgent))))

\* pr_fix_coder_for (prfix.py).
PrFixCoderFor(d, lane) ==
    LET v == OrElse(Get(d.fix, lane), Get(d.fix, Wildcard))
    IN IF v = Nothing THEN DefaultAgent ELSE v.agents[1]

=============================================================================
