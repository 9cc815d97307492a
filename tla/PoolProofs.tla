----------------------------- MODULE PoolProofs -----------------------------
(***************************************************************************)
(* The slots of the coders, for every set of jobs and coders, every        *)
(* deployment and any number of faults.  First the passes that ask for a   *)
(* free slot: they stay within the slots there are, whichever coder the    *)
(* routing has them ask for, only that it draws what it asked for.  Then   *)
(* the types, and what the claim pass may take, where the routing counts:  *)
(* it is let through by the candidates of a lane before it claims, and     *)
(* takes the coder CoderAgentFor gives it afterwards.                      *)
(***************************************************************************)
EXTENDS Pool, RoutingProofs

\* The jobs a coder works on through a pass that asked for its slot.
Gated(a) == {j \in Coding(a) : ~claimed[j]}

\* The load the pass under way draws on, own being the copy of the drain.
Drawn(a) == IF pc = "drain" THEN own[a] ELSE load[a]

Uncounted == {"idle", "started"}

OnJobs(f) == f = [j \in Jobs |-> f[j]]

Shape ==
    /\ conf \in Deployments /\ faults \in Nat
    /\ OnJobs(work) /\ OnJobs(coder) /\ OnJobs(claimed)
    /\ load \in [Agents -> Nat] /\ own \in [Agents -> Nat]

\* From the count of the tick on, nothing is at work through a gated pass that the
\* load does not know of, but for the creates whose reply was lost.
Covered ==
    Rationed(conf) /\ pc \notin Uncounted =>
        \A a \in Agents : Cardinality(Gated(a)) <= Drawn(a) + faults

PInv == Shape /\ Covered /\ GatedWithinSlots

-----------------------------------------------------------------------------
(* Slots and sets.                                                         *)

\* A coder has at least one slot.
LEMMA SlotsPositive ==
    ASSUME conf \in Deployments, NEW a
    PROVE  SlotsFor(conf, a) \in Nat \ {0}
  BY DeploymentAssumption DEF SlotsFor

LEMMA GatedFinite ==
    ASSUME NEW a
    PROVE  IsFiniteSet(Gated(a)) /\ Cardinality(Gated(a)) \in Nat
<1>1. Gated(a) \subseteq Jobs
  BY DEF Gated, Coding
<1> QED
  BY <1>1, PoolAssumption, FS_Subset, FS_CardinalityType

\* Busy jobs, which the tick counts, include the gated ones.
LEMMA CountCovers ==
    ASSUME NEW a, NEW blind \in BOOLEAN
    PROVE  LET B == {j \in Jobs : Busy(j, blind) /\ coder[j] = a}
           IN Cardinality(B) \in Nat /\ Cardinality(Gated(a)) <= Cardinality(B)
<1> DEFINE B == {j \in Jobs : Busy(j, blind) /\ coder[j] = a}
<1>1. B \subseteq Jobs /\ Gated(a) \subseteq B
  BY DEF Gated, Coding, Busy
<1>2. IsFiniteSet(B)
  BY <1>1, PoolAssumption, FS_Subset
<1> QED
  BY <1>1, <1>2, FS_Subset, FS_CardinalityType

\* A set that gains at most one element gains at most one.
LEMMA OneMore ==
    ASSUME NEW S, IsFiniteSet(S), NEW x, NEW T, T \subseteq S \cup {x}
    PROVE  Cardinality(T) \in Nat /\ Cardinality(T) <= Cardinality(S) + 1
<1>1. Cardinality(S) \in Nat
  BY FS_CardinalityType
<1>2. /\ IsFiniteSet(S \cup {x})
      /\ Cardinality(S \cup {x}) = Cardinality(S) \/ Cardinality(S \cup {x}) = Cardinality(S) + 1
  BY FS_AddElement
<1>3. IsFiniteSet(T) /\ Cardinality(T) <= Cardinality(S \cup {x})
  BY <1>2, FS_Subset
<1> QED
  BY <1>1, <1>2, <1>3, FS_CardinalityType

Took(held, c, a) == IF a = c THEN held[a] + 1 ELSE held[a]

\* What is counted is one more for the coder drawn, and the same for the others.
LEMMA PlusTakes ==
    ASSUME NEW held \in [Agents -> Nat], NEW c
    PROVE  /\ Plus(held, c) \in [Agents -> Nat]
           /\ \A a \in Agents : Plus(held, c)[a] = Took(held, c, a)
<1>1. \A a \in Agents : Plus(held, c)[a] = Took(held, c, a)
  BY DEF Plus, Took
<1>2. \A a \in Agents : Took(held, c, a) \in Nat
  BY DEF Took
<1>3. Plus(held, c) = [a \in Agents |-> Plus(held, c)[a]]
  BY DEF Plus
<1> QED
  BY <1>1, <1>2, <1>3

-----------------------------------------------------------------------------
(* What a step does to the gated jobs.                                     *)

\* No coder gains a gated job.
Eases == \A a \in Agents : Gated(a)' \subseteq Gated(a)

\* Only coder c may gain one, and that is j.
Gives(j, c) ==
    \A a \in Agents : Gated(a)' \subseteq (IF a = c THEN Gated(a) \cup {j} ELSE Gated(a))

Shapes == OnJobs(work) /\ OnJobs(coder) /\ OnJobs(claimed)

LEMMA IdleEases ==
    ASSUME UNCHANGED jobVars
    PROVE  Eases /\ (Shapes => Shapes')
  BY DEF Eases, Gated, Coding, jobVars, Shapes, OnJobs

LEMMA StartGives ==
    ASSUME Shapes, NEW j \in Jobs, NEW c, NEW byClaim \in BOOLEAN, Started(j, c, byClaim)
    PROVE  Shapes' /\ Gives(j, c) /\ (byClaim => Eases)
<1>1. Shapes'
  BY DEF Shapes, OnJobs, Started
<1>2. \A k \in Jobs \ {j} : /\ work'[k] = work[k] /\ coder'[k] = coder[k]
                            /\ claimed'[k] = claimed[k]
  BY DEF Shapes, OnJobs, Started
<1>3. coder'[j] = c /\ claimed'[j] = byClaim
  BY DEF Shapes, OnJobs, Started
<1>4. Gives(j, c)
  BY <1>2, <1>3 DEF Gives, Gated, Coding
<1>5. byClaim => Eases
  BY <1>2, <1>3 DEF Eases, Gated, Coding
<1> QED
  BY <1>1, <1>4, <1>5

LEMMA LeaveEases ==
    ASSUME Shapes, NEW j \in Jobs, NEW w \in {"over", "parked"}, Leaves(j, w)
    PROVE  Shapes' /\ Eases
<1>1. Shapes'
  BY DEF Shapes, OnJobs, Leaves
<1>2. \A k \in Jobs \ {j} : /\ work'[k] = work[k] /\ coder'[k] = coder[k]
                            /\ claimed'[k] = claimed[k]
  BY DEF Shapes, OnJobs, Leaves
<1>3. work'[j] # "coding"
  BY DEF Shapes, OnJobs, Leaves
<1> QED
  BY <1>1, <1>2, <1>3 DEF Eases, Gated, Coding

LEMMA BecomeEases ==
    ASSUME Shapes, NEW j \in Jobs, NEW w \in {"waiting", "review", "failed"}, Becomes(j, w)
    PROVE  Shapes' /\ Eases
<1>1. Shapes'
  BY DEF Shapes, OnJobs, Becomes
<1>2. \A k \in Jobs \ {j} : /\ work'[k] = work[k] /\ coder'[k] = coder[k]
                            /\ claimed'[k] = claimed[k]
  BY DEF Shapes, OnJobs, Becomes
<1>3. work'[j] # "coding"
  BY DEF Shapes, OnJobs, Becomes
<1> QED
  BY <1>1, <1>2, <1>3 DEF Eases, Gated, Coding

-----------------------------------------------------------------------------
(* What such a step preserves.                                             *)

\* A coder's slots are not exceeded while its gated jobs do not grow.
LEMMA EasesWithin ==
    ASSUME PInv, Eases, conf' = conf, faults' \in Nat, faults' >= faults
    PROVE  GatedWithinSlots'
<1> SUFFICES ASSUME Rationed(conf), NEW a \in Agents
             PROVE  Cardinality(Gated(a)') <= SlotsFor(conf, a) + faults'
  BY DEF GatedWithinSlots, Gated, Coding
<1>1. Cardinality(Gated(a)') \in Nat /\ Cardinality(Gated(a)') <= Cardinality(Gated(a))
  BY GatedFinite, FS_Subset, FS_CardinalityType DEF Eases
<1>2. Cardinality(Gated(a)) <= SlotsFor(conf, a) + faults
  BY DEF PInv, GatedWithinSlots, Gated
<1>3. SlotsFor(conf, a) \in Nat /\ faults \in Nat /\ Cardinality(Gated(a)) \in Nat
  BY SlotsPositive, GatedFinite DEF PInv, Shape
<1> QED
  BY <1>1, <1>2, <1>3

\* Nor is the load overtaken.
LEMMA EasesCovered ==
    ASSUME PInv, Eases, conf' = conf, faults' \in Nat, faults' >= faults,
           pc \notin Uncounted,
           \A a \in Agents : Drawn(a)' \in Nat /\ Drawn(a)' >= Drawn(a)
    PROVE  Covered'
<1> SUFFICES ASSUME Rationed(conf), NEW a \in Agents
             PROVE  Cardinality(Gated(a)') <= Drawn(a)' + faults'
  BY DEF Covered, Gated, Coding, Drawn
<1>1. Cardinality(Gated(a)') \in Nat /\ Cardinality(Gated(a)') <= Cardinality(Gated(a))
  BY GatedFinite, FS_Subset, FS_CardinalityType DEF Eases
<1>2. Cardinality(Gated(a)) <= Drawn(a) + faults
  BY DEF PInv, Covered
<1>3. faults \in Nat /\ Cardinality(Gated(a)) \in Nat /\ Drawn(a) \in Nat
  BY GatedFinite DEF PInv, Shape, Drawn
<1> QED
  BY <1>1, <1>2, <1>3

\* A pass that found a slot, and counts what it took unless the reply was lost.
LEMMA GivesInvariant ==
    ASSUME PInv, conf' = conf, faults' \in Nat, pc' = pc, pc \notin Uncounted,
           NEW j, NEW c, Gives(j, c),
           Rationed(conf) => ~(c \in Agents /\ SlotsFor(conf, c) - Drawn(c) <= 0),
           \A a \in Agents : Drawn(a)' \in Nat /\ Drawn(a)' >= Drawn(a),
           faults' >= faults,
           c \in Agents => Drawn(c)' + faults' >= Drawn(c) + faults + 1
    PROVE  Covered' /\ GatedWithinSlots'
<1> SUFFICES ASSUME Rationed(conf), NEW a \in Agents
             PROVE  /\ Cardinality(Gated(a)') <= Drawn(a)' + faults'
                    /\ Cardinality(Gated(a)') <= SlotsFor(conf, a) + faults'
  BY DEF Covered, GatedWithinSlots, Gated, Coding, Drawn
<1>1. /\ Cardinality(Gated(a)) <= Drawn(a) + faults
      /\ Cardinality(Gated(a)) <= SlotsFor(conf, a) + faults
  BY DEF PInv, Covered, GatedWithinSlots, Gated
<1>2. /\ faults \in Nat /\ Cardinality(Gated(a)) \in Nat /\ Drawn(a) \in Nat
      /\ SlotsFor(conf, a) \in Nat
  BY SlotsPositive, GatedFinite DEF PInv, Shape, Drawn
<1>3. CASE a = c
  <2>1. Gated(a)' \subseteq Gated(a) \cup {j}
    BY <1>3 DEF Gives
  <2>2. Cardinality(Gated(a)') \in Nat /\ Cardinality(Gated(a)') <= Cardinality(Gated(a)) + 1
    BY <2>1, OneMore, GatedFinite
  <2> QED
    BY <1>1, <1>2, <1>3, <2>2
<1>4. CASE a # c
  <2>1. Gated(a)' \subseteq Gated(a)
    BY <1>4 DEF Gives
  <2>2. Cardinality(Gated(a)') \in Nat /\ Cardinality(Gated(a)') <= Cardinality(Gated(a))
    BY <2>1, GatedFinite, FS_Subset, FS_CardinalityType
  <2> QED
    BY <1>1, <1>2, <2>2
<1> QED
  BY <1>3, <1>4

\* The coder of a launch had a slot, and the launch is counted or lost.
LEMMA LaunchKeeps ==
    ASSUME PInv, NEW j \in Jobs, NEW c, ~Full(c, load), Launch(j, c),
           pc \notin Uncounted \cup {"drain"}, UNCHANGED <<conf, pc, own>>
    PROVE  PInv'
<1>0. Shapes /\ faults \in Nat /\ load \in [Agents -> Nat]
  BY DEF PInv, Shape, Shapes
<1>1. CASE Started(j, c, FALSE) /\ NoFault /\ load' = Plus(load, c)
  <2>1. Shapes' /\ Gives(j, c)
    BY <1>0, <1>1, StartGives
  <2>2. load' \in [Agents -> Nat] /\ \A a \in Agents : load'[a] = Took(load, c, a)
    BY <1>0, <1>1, PlusTakes
  <2>3. Covered' /\ GatedWithinSlots'
    BY <1>0, <1>1, <2>1, <2>2, GivesInvariant DEF Drawn, Full, FreeSlots, NoFault, Took
  <2> QED
    BY <1>0, <1>1, <2>1, <2>2, <2>3 DEF PInv, Shape, Shapes, NoFault
<1>2. CASE UNCHANGED jobVars /\ Fault("call") /\ load' = load
  <2>1. faults' = faults + 1 /\ Eases /\ Shapes'
    BY <1>0, <1>2, IdleEases DEF Fault
  <2>2. Covered' /\ GatedWithinSlots'
    BY <1>0, <1>2, <2>1, EasesCovered, EasesWithin DEF Drawn
  <2> QED
    BY <1>0, <1>2, <2>1, <2>2 DEF PInv, Shape, Shapes
<1>3. CASE Started(j, c, FALSE) /\ Fault("lost") /\ load' = load
  <2>1. Shapes' /\ Gives(j, c) /\ faults' = faults + 1
    BY <1>0, <1>3, StartGives DEF Fault
  <2>2. Covered' /\ GatedWithinSlots'
    BY <1>0, <1>3, <2>1, GivesInvariant DEF Drawn, Full, FreeSlots
  <2> QED
    BY <1>0, <1>3, <2>1, <2>2 DEF PInv, Shape, Shapes
<1> QED
  BY <1>1, <1>2, <1>3 DEF Launch

\* Everything else a pass does to a job leaves the gated ones as they are, or fewer.
LEMMA QuietKeeps ==
    ASSUME PInv, Eases, Shapes', conf' = conf, faults' \in Nat, faults' >= faults,
           UNCHANGED <<pc, load, own>>
    PROVE  PInv'
<1>1. GatedWithinSlots'
  BY EasesWithin
<1>2. CASE pc \in Uncounted
  BY <1>1, <1>2 DEF PInv, Shape, Shapes, Covered
<1>3. CASE pc \notin Uncounted
  <2>1. Covered'
    BY <1>3, EasesCovered DEF PInv, Shape, Drawn
  <2> QED
    BY <1>1, <2>1 DEF PInv, Shape, Shapes
<1> QED
  BY <1>2, <1>3

\* A new pass draws on the load the one before it has left.
LEMMA PassKeeps ==
    ASSUME PInv, UNCHANGED <<conf, jobVars, load>>, faults' \in Nat, faults' >= faults,
           pc \notin Uncounted \cup {"drain"}, own' \in [Agents -> Nat],
           pc' # "drain" \/ own' = load
    PROVE  PInv'
<1>1. Eases /\ Shapes'
  BY IdleEases DEF PInv, Shape, Shapes
<1>2. GatedWithinSlots'
  BY <1>1, EasesWithin
<1>3. Covered'
  BY <1>1, EasesCovered DEF PInv, Shape, Drawn
<1> QED
  BY <1>1, <1>2, <1>3 DEF PInv, Shape, Shapes

\* A tick that ends leaves nothing to cover.
LEMMA EndKeeps ==
    ASSUME PInv, EndTick, faults' \in Nat, faults' >= faults
    PROVE  PInv'
<1>1. Eases /\ Shapes'
  BY IdleEases DEF PInv, Shape, Shapes, EndTick
<1>2. GatedWithinSlots'
  BY <1>1, EasesWithin DEF EndTick
<1>3. load' \in [Agents -> Nat] /\ own' \in [Agents -> Nat] /\ pc' \in Uncounted
  BY DEF EndTick, NoLoad, Uncounted
<1> QED
  BY <1>1, <1>2, <1>3 DEF PInv, Shape, Shapes, Covered, EndTick

-----------------------------------------------------------------------------
(* The theorems.                                                           *)

LEMMA PoolInit == Init => PInv
<1> SUFFICES ASSUME Init
             PROVE  PInv
  OBVIOUS
<1>1. Shape
  BY DEF Init, Shape, OnJobs, NoLoad
<1>2. Covered
  BY DEF Init, Covered, Uncounted
<1>3. \A a : Gated(a) = {}
  BY DEF Init, Gated, Coding
<1>4. GatedWithinSlots
  <2> SUFFICES ASSUME NEW a \in Agents
               PROVE  Cardinality(Gated(a)) <= SlotsFor(conf, a) + faults
    BY DEF GatedWithinSlots, Gated
  <2>1. Cardinality(Gated(a)) = 0
    BY <1>3, FS_EmptySet
  <2> QED
    BY <1>1, <2>1, SlotsPositive DEF Shape
<1> QED
  BY <1>1, <1>2, <1>4 DEF PInv

\* The count of the tick covers what is at work when it is taken.
LEMMA CountKeeps == PInv /\ CountLoad => PInv'
<1> SUFFICES ASSUME PInv, CountLoad
             PROVE  PInv'
  OBVIOUS
<1>1. PICK blind \in BOOLEAN :
        /\ IF blind THEN Fault("read") ELSE NoFault
        /\ load' = IF Rationed(conf)
                   THEN [a \in Agents |-> Cardinality({j \in Jobs : Busy(j, blind) /\ coder[j] = a})]
                   ELSE NoLoad
  BY DEF CountLoad
<1>2. faults \in Nat /\ faults' \in Nat /\ faults' >= faults
  BY <1>1 DEF PInv, Shape, Fault, NoFault
<1>3. Eases /\ Shapes' /\ UNCHANGED <<conf, jobVars, own>>
  BY IdleEases DEF CountLoad, PInv, Shape, Shapes
<1>4. GatedWithinSlots'
  BY <1>2, <1>3, EasesWithin
<1>5. load' \in [Agents -> Nat]
  BY <1>1, CountCovers DEF NoLoad
<1>6. Covered'
  <2> SUFFICES ASSUME Rationed(conf), NEW a \in Agents
               PROVE  Cardinality(Gated(a)') <= load'[a] + faults'
    BY <1>3 DEF Covered, Drawn, CountLoad, Gated, Coding
  <2>1. Gated(a)' = Gated(a)
    BY <1>3 DEF Gated, Coding, jobVars
  <2>2. load'[a] = Cardinality({j \in Jobs : Busy(j, blind) /\ coder[j] = a})
    BY <1>1
  <2>3. Cardinality(Gated(a)) <= load'[a] /\ load'[a] \in Nat /\ Cardinality(Gated(a)) \in Nat
    BY <2>2, CountCovers, GatedFinite
  <2> QED
    BY <1>2, <2>1, <2>3
<1> QED
  BY <1>2, <1>3, <1>4, <1>5, <1>6 DEF PInv, Shape, Shapes

\* The drain draws on its copy as the other passes draw on the load.
LEMMA DrainKeeps ==
    ASSUME PInv, NEW j \in Jobs, DrainFix(j)
    PROVE  PInv'
<1> DEFINE c == PrFixCoderFor(conf, Job[j].lane)
<1>0. /\ Shapes /\ faults \in Nat /\ own \in [Agents -> Nat] /\ load \in [Agents -> Nat]
      /\ pc = "drain" /\ pc \notin Uncounted
      /\ UNCHANGED <<conf, pc, load>>
  BY DEF PInv, Shape, Shapes, DrainFix, InPass, Uncounted
<1>1. CASE Full(c, own) /\ own' = own /\ UNCHANGED jobVars /\ NoFault
  BY <1>0, <1>1, IdleEases, QuietKeeps DEF NoFault
<1>2. CASE ~Full(c, own) /\ Started(j, c, FALSE) /\ own' = Plus(own, c) /\ NoFault
  <2>1. Shapes' /\ Gives(j, c)
    BY <1>0, <1>2, StartGives
  <2>2. own' \in [Agents -> Nat] /\ \A a \in Agents : own'[a] = Took(own, c, a)
    BY <1>0, <1>2, PlusTakes
  <2>3. Covered' /\ GatedWithinSlots'
    BY <1>0, <1>2, <2>1, <2>2, GivesInvariant DEF Drawn, Full, FreeSlots, NoFault, Took
  <2> QED
    BY <1>0, <1>2, <2>1, <2>2, <2>3 DEF PInv, Shape, Shapes, NoFault
<1>3. CASE ~Full(c, own) /\ UNCHANGED jobVars /\ own' = own /\ Fault("call")
  BY <1>0, <1>3, IdleEases, QuietKeeps DEF Fault
<1>4. CASE ~Full(c, own) /\ Started(j, c, FALSE) /\ own' = own /\ Fault("lost")
  <2>1. Shapes' /\ Gives(j, c) /\ faults' = faults + 1
    BY <1>0, <1>4, StartGives DEF Fault
  <2>2. Covered' /\ GatedWithinSlots'
    BY <1>0, <1>4, <2>1, GivesInvariant DEF Drawn, Full, FreeSlots
  <2> QED
    BY <1>0, <1>4, <2>1, <2>2 DEF PInv, Shape, Shapes
<1> QED
  BY <1>1, <1>2, <1>3, <1>4 DEF DrainFix

\* The passes that draw on the load itself.
LEMMA GatedJobKeeps ==
    ASSUME PInv, NEW j \in Jobs, RetryJob(j) \/ RedriveJob(j) \/ RetryFix(j)
    PROVE  PInv'
<1>0. /\ Shapes /\ faults \in Nat /\ pc \notin Uncounted \cup {"drain"}
      /\ UNCHANGED <<conf, pc, own>>
  BY DEF PInv, Shape, Shapes, RetryJob, RedriveJob, RetryFix, InPass, Uncounted
<1>1. CASE GivenUp(j)
  <2>1. Shapes' /\ Eases
    BY <1>0, <1>1, LeaveEases DEF GivenUp
  <2> QED
    BY <1>0, <1>1, <2>1, QuietKeeps DEF GivenUp, NoFault
<1>2. CASE Deferred
  BY <1>0, <1>2, IdleEases, QuietKeeps DEF Deferred, NoFault
<1>3. ASSUME NEW c, ~Full(c, load), Launch(j, c)
      PROVE  PInv'
  BY <1>0, <1>3, LaunchKeeps
<1>4. CASE RetryJob(j)
  BY <1>1, <1>2, <1>3, <1>4 DEF RetryJob
<1>5. CASE RedriveJob(j)
  BY <1>2, <1>3, <1>5 DEF RedriveJob
<1>6. CASE RetryFix(j)
  BY <1>1, <1>2, <1>3, <1>6 DEF RetryFix
<1> QED
  BY <1>4, <1>5, <1>6

\* A claim adds to the claimed jobs only.
LEMMA ClaimKeeps ==
    ASSUME PInv, NEW j \in Jobs, ClaimJob(j)
    PROVE  PInv'
<1> DEFINE c == CoderAgentFor(conf, topology, Job[j], own)
<1>1. /\ Started(j, c, TRUE) /\ own' = Plus(own, c) /\ NoFault
      /\ pc = "claim" /\ pc \notin Uncounted /\ UNCHANGED <<conf, pc, load>>
  BY DEF ClaimJob, Claiming, Uncounted
<1>2. Shapes /\ faults \in Nat /\ load \in [Agents -> Nat] /\ own \in [Agents -> Nat]
  BY DEF PInv, Shape, Shapes
<1>3. Shapes' /\ Eases
  BY <1>1, <1>2, StartGives
<1>4. own' \in [Agents -> Nat]
  BY <1>1, <1>2, PlusTakes
<1>5. GatedWithinSlots' /\ Covered'
  BY <1>1, <1>2, <1>3, EasesWithin, EasesCovered DEF Drawn, NoFault
<1> QED
  BY <1>1, <1>2, <1>3, <1>4, <1>5 DEF PInv, Shape, Shapes, NoFault

\* What dispatch and the controller do takes coders away.
LEMMA OutsideKeeps ==
    ASSUME PInv, NEW j \in Jobs, Arrive(j) \/ CoderEnds(j) \/ ReviewEnds(j)
    PROVE  PInv'
<1>1. Shapes /\ faults \in Nat
  BY DEF PInv, Shape, Shapes
<1>2. faults' = faults /\ UNCHANGED <<conf, pc, load, own>>
  BY DEF Arrive, CoderEnds, ReviewEnds, NoFault, outside
<1>3. \/ \E w \in {"waiting", "review", "failed"} : Becomes(j, w)
      \/ \E w \in {"over", "parked"} : Leaves(j, w)
  BY DEF Arrive, CoderEnds, ReviewEnds
<1>4. Shapes' /\ Eases
  BY <1>1, <1>3, BecomeEases, LeaveEases
<1> QED
  BY <1>1, <1>2, <1>4, QuietKeeps

\* The invariant is inductive.
LEMMA PoolNext == PInv /\ [Next]_vars => PInv'
<1> SUFFICES ASSUME PInv, [Next]_vars
             PROVE  PInv'
  OBVIOUS
<1>0. faults \in Nat /\ load \in [Agents -> Nat]
  BY DEF PInv, Shape
<1>1. CASE StartTick
  <2>1. Eases /\ Shapes' /\ faults' \in Nat /\ faults' >= faults /\ UNCHANGED <<conf, load, own>>
    BY <1>0, <1>1, IdleEases DEF StartTick, NoFault, Fault, PInv, Shape, Shapes
  <2>2. GatedWithinSlots'
    BY <2>1, EasesWithin
  <2>3. pc' \in Uncounted
    BY <1>1 DEF StartTick, Uncounted
  <2> QED
    BY <2>1, <2>2, <2>3 DEF PInv, Shape, Shapes, Covered
<1>2. CASE CountLoad
  BY <1>2, CountKeeps
<1>3. CASE StartRetry \/ StartRecover \/ StartClaim \/ StartFixes \/ StartDrain
  <2>1. /\ UNCHANGED <<conf, jobVars, load>> /\ faults' = faults
        /\ pc \notin Uncounted \cup {"drain"}
        /\ pc' # "drain" \/ own' = load
    BY <1>3 DEF StartRetry, StartRecover, StartClaim, StartFixes, StartDrain, NoFault, Uncounted
  <2>2. own' \in [Agents -> Nat]
    BY <1>0, <1>3 DEF StartRetry, StartRecover, StartClaim, StartFixes, StartDrain, NoLoad,
                      PInv, Shape
  <2> QED
    BY <1>0, <2>1, <2>2, PassKeeps
<1>4. CASE NextLane
  <2>1. Eases /\ Shapes' /\ faults' = faults /\ UNCHANGED <<conf, pc, load, own>>
    BY <1>4, IdleEases DEF NextLane, NoFault, PInv, Shape, Shapes
  <2> QED
    BY <1>0, <2>1, QuietKeeps
<1>5. CASE FinishTick \/ CrashTick
  BY <1>0, <1>5, EndKeeps DEF FinishTick, CrashTick, NoFault, Fault
<1>6. CASE \E j \in Jobs : RetryJob(j) \/ RedriveJob(j) \/ RetryFix(j)
  BY <1>6, GatedJobKeeps
<1>7. CASE \E j \in Jobs : ClaimJob(j)
  BY <1>7, ClaimKeeps
<1>8. CASE \E j \in Jobs : DrainFix(j)
  BY <1>8, DrainKeeps
<1>9. CASE \E j \in Jobs : Arrive(j) \/ CoderEnds(j) \/ ReviewEnds(j)
  BY <1>9, OutsideKeeps
<1>10. CASE UNCHANGED vars
  <2>1. Eases /\ Shapes' /\ faults' = faults /\ UNCHANGED <<conf, pc, load, own>>
    BY <1>10, IdleEases DEF vars, PInv, Shape, Shapes
  <2> QED
    BY <1>0, <2>1, QuietKeeps
<1> QED
  BY <1>1, <1>2, <1>3, <1>4, <1>5, <1>6, <1>7, <1>8, <1>9, <1>10 DEF Next, TickStep

\* On every behaviour the load covers what runs through the gated passes.
THEOREM PoolInductive == Spec => []PInv
  BY PoolInit, PoolNext, PTL DEF Spec

\* The passes that ask for a free slot never take more than there are, whatever ends,
\* fails, is claimed past them or is deferred meanwhile.
THEOREM SlotsHold == Spec => []GatedWithinSlots
<1>1. PInv => GatedWithinSlots
  BY DEF PInv
<1> QED
  BY <1>1, PoolInductive, PTL

-----------------------------------------------------------------------------
(* The coder that is chosen.                                               *)

LEMMA FreeSlotsInteger ==
    ASSUME NEW d, \A a \in DOMAIN d.slots : d.slots[a] \in Int,
           NEW held \in [Agents -> Nat], NEW a \in Agents
    PROVE  FreeSlots(d, a, held) \in Int
<1>1. SlotsFor(d, a) \in Int
  BY DEF SlotsFor
<1>2. held[a] \in Int
  OBVIOUS
<1> QED
  BY <1>1, <1>2 DEF FreeSlots

\* A value of a map gives one of its coders, or none.
LEMMA ValuePick ==
    ASSUME NEW d, \A a \in DOMAIN d.slots : d.slots[a] \in Int,
           NEW v, IsValue(v) \/ v = Nothing,
           NEW number \in Nat, NEW held \in [Agents -> Nat]
    PROVE  PickCoder(d, v, number, held) \in Agents \cup {NoAgent}
<1>1. CASE v = Nothing
  BY <1>1 DEF PickCoder, Nothing, Name
<1>2. CASE IsName(v)
  BY <1>2 DEF PickCoder, IsName, Name
<1>3. CASE v.agents \in Seq(Agents) /\ v = List(v.agents)
  <2>1. v.list
    BY <1>3 DEF List
  <2>2. \A k \in 1 .. Len(v.agents) : v.agents[k] \in Agents
    BY <1>3
  <2>3. \A k \in 1 .. Len(v.agents) : FreeSlots(d, v.agents[k], held) \in Int
    BY <2>2, FreeSlotsInteger
  <2>4. ASSUME NEW r \in 1 .. Len(v.agents), InRotation(d, v.agents[r], held)
        PROVE  PickCoder(d, v, number, held) \in Agents
    <3>1. v.agents \in Seq(Agents)
      BY <1>3
    <3>2. PICK k \in 1 .. Len(v.agents) :
             /\ PickCoder(d, v, number, held) = v.agents[k]
             /\ InRotation(d, v.agents[k], held)
             /\ Rationed(d) => FreeSlots(d, v.agents[r], held) <= FreeSlots(d, v.agents[k], held)
      BY <2>1, <2>3, <2>4, <3>1, ListPick
    <3> QED
      BY <2>2, <3>2
  <2>5. CASE ~\E r \in 1 .. Len(v.agents) : InRotation(d, v.agents[r], held)
    BY <2>1, <2>5 DEF PickCoder
  <2> QED
    BY <2>4, <2>5
<1> QED
  BY <1>1, <1>2, <1>3 DEF IsValue

\* Every issue gets a coder of the deployment.
LEMMA CoderIsAgent ==
    ASSUME NEW d, \A a \in DOMAIN d.slots : d.slots[a] \in Int,
           \A m \in {d.lanes, d.repos, d.bases} : \A key \in DOMAIN m : IsValue(m[key]),
           NEW roles, NEW i, i.number \in Nat, NEW held \in [Agents -> Nat]
    PROVE  CoderAgentFor(d, roles, i, held) \in Agents
<1> DEFINE pick(v) == PickCoder(d, v, i.number, held)
<1>1. \A m \in {d.lanes, d.repos, d.bases} : \A key :
         IsValue(Get(m, key)) \/ Get(m, key) = Nothing
  BY DEF Get
<1>2. \A v : IsValue(v) \/ v = Nothing => pick(v) \in Agents \cup {NoAgent}
  BY ValuePick
<1>3. LET v == Lookup(d.lanes, roles, i.lane) IN IsValue(v) \/ v = Nothing
  <2>1. \A key \in DOMAIN d.lanes : IsValue(d.lanes[key])
    OBVIOUS
  <2> QED
    BY <1>1, <2>1 DEF Lookup, RoleIn
<1>4. LET v == OrElse(Get(d.bases, i.language), Get(d.bases, Wildcard))
      IN IsValue(v) \/ v = Nothing
  BY <1>1 DEF OrElse
<1>5. /\ pick(Lookup(d.lanes, roles, i.lane)) \in Agents \cup {NoAgent}
      /\ pick(Get(d.repos, i.repo)) \in Agents \cup {NoAgent}
      /\ pick(OrElse(Get(d.bases, i.language), Get(d.bases, Wildcard))) \in Agents \cup {NoAgent}
      /\ pick(Get(d.lanes, Wildcard)) \in Agents \cup {NoAgent}
  <2> HIDE DEF pick
  <2> QED
    BY <1>1, <1>2, <1>3, <1>4
<1> QED
  BY <1>5, PoolAssumption DEF CoderAgentFor, OrNamed

LEMMA PlainCoderIsAgent ==
    ASSUME conf \in Deployments, NEW j \in Jobs
    PROVE  PlainCoder(j) \in Agents
<1>1. /\ DOMAIN Oblivious.slots = {} /\ Oblivious.lanes = conf.lanes
      /\ Oblivious.repos = conf.repos /\ Oblivious.bases = conf.bases
  BY DeploymentAssumption DEF Oblivious, Maps
<1>2. \A m \in {conf.lanes, conf.repos, conf.bases} : \A key \in DOMAIN m : IsValue(m[key])
  BY DeploymentAssumption
<1>3. NoLoad \in [Agents -> Nat] /\ Job[j].number \in Nat
  BY PoolAssumption DEF NoLoad
<1> HIDE DEF Oblivious
<1> QED
  BY <1>1, <1>2, <1>3, CoderIsAgent DEF PlainCoder

LEMMA FixCoderIsAgent ==
    ASSUME conf \in Deployments, NEW lane
    PROVE  PrFixCoderFor(conf, lane) \in Agents
<1>1. \A key : IsName(Get(conf.fix, key)) \/ Get(conf.fix, key) = Nothing
  BY DeploymentAssumption DEF Get
<1> DEFINE v == OrElse(Get(conf.fix, lane), Get(conf.fix, Wildcard))
<1>2. IsName(v) \/ v = Nothing
  BY <1>1 DEF OrElse
<1>3. IsName(v) => v.agents[1] \in Agents
  BY DEF IsName, Name
<1> HIDE DEF v
<1>4. (IF v = Nothing THEN DefaultAgent ELSE v.agents[1]) \in Agents
  BY <1>2, <1>3, PoolAssumption
<1> QED
  BY <1>4 DEF PrFixCoderFor, v

\* Where the claim pass can judge a lane and does not find it saturated, the coder it
\* then chooses has a free slot, and is idle if it is fix-first.
LEMMA ClaimPick ==
    ASSUME Visible, Rationed(conf), laneAt \in Nat \ {0}, own \in [Agents -> Nat],
           Claiming, ~Saturated, NEW j \in Jobs, Job[j].lane = polled[laneAt]
    PROVE  LET c == CoderAgentFor(conf, topology, Job[j], own)
           IN /\ c \in Agents /\ FreeSlots(conf, c, own) > 0
              /\ c \in conf.fixFirst => own[c] = 0
<1> DEFINE l == polled[laneAt]
           v == CandidateValue(conf, l)
           c == CoderAgentFor(conf, topology, Job[j], own)
<1>1. conf \in Deployments
  BY DEF Visible, Judgeable
<1>2. polled \in Seq(STRING)
  BY <1>1, DeploymentAssumption DEF polled, PolledLanes
<1>3. l \in Among(polled)
  <2>1. laneAt \in 1 .. Len(polled)
    BY <1>2 DEF Claiming
  <2> QED
    BY <2>1 DEF Among
<1>4. /\ v.list /\ ~(Among(v.agents) \subseteq conf.fixFirst)
      /\ l \in DOMAIN conf.lanes \/ ~(known /\ RoleIn(conf.lanes, Roles, l))
  <2>1. CASE known
    BY <1>3, <2>1 DEF Visible, Judgeable, polled
  <2>2. CASE ~known
    BY <1>3, <2>2 DEF Visible, Judgeable, polled, PolledLanes
  <2> QED
    BY <2>1, <2>2
<1>5. Lookup(conf.lanes, topology, l) = v
  BY <1>4 DEF Lookup, RoleIn, topology, CandidateValue
<1>6. IsValue(v) /\ v.agents \in Seq(Agents)
  <2>1. v # Nothing
    BY <1>4 DEF Nothing, Name
  <2>2. \A key \in DOMAIN conf.lanes : IsValue(conf.lanes[key])
    BY <1>1, DeploymentAssumption
  <2>3. IsValue(v)
    BY <2>1, <2>2 DEF CandidateValue, Get
  <2> HIDE DEF v
  <2>4. ~IsName(v)
    BY <1>4 DEF IsName, Name
  <2> QED
    BY <2>3, <2>4 DEF IsValue
<1>7. \A k \in 1 .. Len(v.agents) : v.agents[k] \in Agents /\ FreeSlots(conf, v.agents[k], own) \in Int
  <2>1. \A a \in DOMAIN conf.slots : conf.slots[a] \in Int
    BY <1>1, DeploymentAssumption
  <2>2. \A k \in 1 .. Len(v.agents) : v.agents[k] \in Agents
    BY <1>6
  <2> QED
    BY <2>1, <2>2, FreeSlotsInteger
<1>8. \E r \in 1 .. Len(v.agents) :
         InRotation(conf, v.agents[r], own) /\ ~(FreeSlots(conf, v.agents[r], own) <= 0)
  <2> DEFINE cands == CoderCandidates(conf, l, own)
  <2>1. cands = {a \in Among(v.agents) \ {NoAgent} : InRotation(conf, a, own)}
    BY DEF CoderCandidates
  <2>2. PICK a \in Among(v.agents) : a \notin conf.fixFirst
    BY <1>4
  <2>3. a \in Agents /\ a # NoAgent
    BY <1>7, PoolAssumption DEF Among
  <2>4. a \in cands
    BY <2>1, <2>2, <2>3 DEF InRotation
  <2> HIDE DEF cands
  <2>5. ~CodersSaturated(conf, cands, own)
    BY DEF Saturated, cands
  <2>6. PICK b \in cands : ~(FreeSlots(conf, b, own) <= 0)
    BY <2>4, <2>5 DEF CodersSaturated
  <2>7. b \in Among(v.agents) /\ InRotation(conf, b, own)
    BY <2>1
  <2> QED
    BY <2>6, <2>7 DEF Among
<1>9. PICK r \in 1 .. Len(v.agents) :
         InRotation(conf, v.agents[r], own) /\ ~(FreeSlots(conf, v.agents[r], own) <= 0)
  BY <1>8
<1>10. PICK k \in 1 .. Len(v.agents) :
          /\ PickCoder(conf, v, Job[j].number, own) = v.agents[k]
          /\ InRotation(conf, v.agents[k], own)
          /\ FreeSlots(conf, v.agents[r], own) <= FreeSlots(conf, v.agents[k], own)
  <2>1. Job[j].number \in Nat
    BY PoolAssumption
  <2>2. \A m \in 1 .. Len(v.agents) : FreeSlots(conf, v.agents[m], own) \in Int
    BY <1>7
  <2> HIDE DEF v
  <2> QED
    BY <1>4, <1>6, <1>9, <2>1, <2>2, ListPick
<1>11. v.agents[k] \in Agents /\ v.agents[k] # NoAgent /\ FreeSlots(conf, v.agents[k], own) > 0
  BY <1>7, <1>9, <1>10, PoolAssumption
<1>12. c = v.agents[k]
  BY <1>5, <1>10, <1>11 DEF CoderAgentFor, OrNamed
<1> HIDE DEF c, v
<1>13. c \in Agents /\ FreeSlots(conf, c, own) > 0 /\ (c \in conf.fixFirst => own[c] = 0)
  BY <1>10, <1>11, <1>12 DEF InRotation
<1> QED
  BY <1>13 DEF c

-----------------------------------------------------------------------------
(* What a job has been through.                                            *)

JobsTyped ==
    /\ work \in [Jobs -> Works] /\ coder \in [Jobs -> Agents \cup {NoAgent}]
    /\ claimed \in [Jobs -> BOOLEAN] /\ runs \in [Jobs -> 0 .. MaxRuns]

\* A job waits for its first run, is parked only with a run to spare, and has a coder
\* as long as it has a Workload.
Course(j) ==
    /\ work[j] \in {"absent", "waiting"} => runs[j] = 0
    /\ work[j] = "parked" => runs[j] < MaxRuns
    /\ work[j] \in {"coding", "review", "failed"} => coder[j] \in Agents

\* What a pass has listed stays as it was listed until the pass handles it.
Listed ==
    \A j \in todo :
        /\ pc \in {"retry", "fixes"} => work[j] = "failed"
        /\ pc = "recover" => work[j] = "parked"
        /\ pc = "drain" => work[j] = "waiting"

CourseInv == TypeOK /\ (\A j \in Jobs : Course(j)) /\ Listed /\ (pc = "claim" => laneAt # 0)

JobsCourse ==
    JobsTyped /\ \A j \in Jobs : Course(j)

\* Nothing changes but job j.
Only(j) ==
    \A k \in Jobs \ {j} : /\ work'[k] = work[k] /\ coder'[k] = coder[k]
                          /\ claimed'[k] = claimed[k] /\ runs'[k] = runs[k]

LEMMA StartedCourse ==
    ASSUME JobsCourse, NEW j \in Jobs, NEW c \in Agents, NEW byClaim \in BOOLEAN,
           Started(j, c, byClaim), runs[j] < MaxRuns
    PROVE  JobsCourse' /\ Only(j)
<1>1. MaxRuns \in Nat /\ runs[j] \in Nat
  BY PoolAssumption DEF JobsCourse, JobsTyped
<1>2. /\ work' \in [Jobs -> Works] /\ coder' \in [Jobs -> Agents \cup {NoAgent}]
      /\ claimed' \in [Jobs -> BOOLEAN]
  BY DEF JobsCourse, JobsTyped, Started, Works
<1>3. runs[j] + 1 \in 0 .. MaxRuns
  BY <1>1
<1>4. runs' \in [Jobs -> 0 .. MaxRuns]
  BY <1>3 DEF JobsCourse, JobsTyped, Started
<1>5. Only(j) /\ work'[j] = "coding" /\ coder'[j] = c
  BY DEF JobsCourse, JobsTyped, Started, Only
<1>6. \A k \in Jobs : Course(k)'
  BY <1>5 DEF JobsCourse, Course, Only
<1> QED
  BY <1>2, <1>4, <1>5, <1>6 DEF JobsCourse, JobsTyped

LEMMA LeavesCourse ==
    ASSUME JobsCourse, NEW j \in Jobs, NEW w \in {"over", "parked"}, Leaves(j, w),
           w = "parked" => runs[j] < MaxRuns
    PROVE  JobsCourse' /\ Only(j)
<1>1. MaxRuns \in Nat /\ 0 \in 0 .. MaxRuns
  BY PoolAssumption
<1>2. JobsTyped'
  BY <1>1 DEF JobsCourse, JobsTyped, Leaves, Works
<1>3. Only(j) /\ work'[j] = w /\ (w = "parked" => runs'[j] = runs[j])
  BY DEF JobsCourse, JobsTyped, Leaves, Only
<1>4. \A k \in Jobs : Course(k)'
  BY <1>3 DEF JobsCourse, Course, Only
<1> QED
  BY <1>2, <1>3, <1>4 DEF JobsCourse

LEMMA BecomesCourse ==
    ASSUME JobsCourse, NEW j \in Jobs, NEW w \in {"waiting", "review", "failed"},
           Becomes(j, w), IF w = "waiting" THEN work[j] = "absent" ELSE coder[j] \in Agents
    PROVE  JobsCourse' /\ Only(j)
<1>1. JobsTyped'
  BY DEF JobsCourse, JobsTyped, Becomes, Works
<1>2. /\ Only(j) /\ work'[j] = w /\ runs'[j] = runs[j] /\ coder'[j] = coder[j]
  BY DEF JobsCourse, JobsTyped, Becomes, Only
<1>3. \A k \in Jobs : Course(k)'
  BY <1>2 DEF JobsCourse, Course, Only
<1> QED
  BY <1>1, <1>2, <1>3 DEF JobsCourse

LEMMA IdleCourse ==
    ASSUME JobsCourse, UNCHANGED jobVars
    PROVE  JobsCourse' /\ \A j \in Jobs : Only(j)
  BY DEF JobsCourse, JobsTyped, Course, jobVars, Only

\* A pass that handles a job leaves the others listed.
LEMMA HandledListed ==
    ASSUME Listed, NEW j \in Jobs, Only(j), Handled(j), pc' = pc, todo \subseteq Jobs
    PROVE  Listed' /\ todo' \subseteq Jobs
  BY DEF Listed, Only, Handled

Frame == /\ conf \in Deployments /\ pc \in Passes /\ known \in BOOLEAN
         /\ load \in [Agents -> Nat] /\ own \in [Agents -> Nat]
         /\ laneAt \in Nat /\ todo \subseteq Jobs

LEMMA CourseParts == CourseInv <=> /\ Frame /\ JobsCourse /\ Listed
                                   /\ pc = "claim" => laneAt # 0
  BY DEF CourseInv, TypeOK, Frame, JobsCourse, JobsTyped

LEMMA CourseAgain ==
    ASSUME Frame', JobsCourse', Listed', pc' = "claim" => laneAt' # 0
    PROVE  CourseInv'
  BY DEF CourseInv, TypeOK, Frame, JobsCourse, JobsTyped

\* What a launch does, as far as the job's course goes.
LEMMA LaunchCourse ==
    ASSUME JobsCourse, load \in [Agents -> Nat], NEW j \in Jobs, NEW c \in Agents,
           Launch(j, c), runs[j] < MaxRuns
    PROVE  JobsCourse' /\ Only(j) /\ load' \in [Agents -> Nat]
<1>1. CASE Started(j, c, FALSE) /\ load' = Plus(load, c)
  BY <1>1, StartedCourse, PlusTakes
<1>2. CASE UNCHANGED jobVars /\ load' = load
  BY <1>2, IdleCourse
<1>3. CASE Started(j, c, FALSE) /\ load' = load
  BY <1>3, StartedCourse
<1> QED
  BY <1>1, <1>2, <1>3 DEF Launch

LEMMA PassJobCourse ==
    ASSUME CourseInv, NEW j \in Jobs, RetryJob(j) \/ RedriveJob(j) \/ RetryFix(j)
    PROVE  CourseInv'
<1>1. Frame /\ JobsCourse /\ Listed /\ MaxRuns \in Nat /\ runs[j] \in Nat
  BY CourseParts, PoolAssumption DEF JobsCourse, JobsTyped
<1>2. /\ pc' = pc /\ pc \in {"retry", "recover", "fixes"} /\ j \in todo /\ Handled(j)
      /\ UNCHANGED <<conf, known, own, laneAt>>
  BY DEF RetryJob, RedriveJob, RetryFix, InPass
<1>3. CASE GivenUp(j)
  <2>1. JobsCourse' /\ Only(j) /\ load' = load
    BY <1>1, <1>3, LeavesCourse DEF GivenUp
  <2> QED
    BY <1>1, <1>2, <2>1, HandledListed, CourseAgain DEF Frame
<1>4. CASE Deferred
  <2>1. JobsCourse' /\ Only(j) /\ load' = load
    BY <1>1, <1>4, IdleCourse DEF Deferred
  <2> QED
    BY <1>1, <1>2, <2>1, HandledListed, CourseAgain DEF Frame
<1>5. ASSUME NEW c \in Agents, Launch(j, c), runs[j] < MaxRuns
      PROVE  CourseInv'
  <2>1. JobsCourse' /\ Only(j) /\ load' \in [Agents -> Nat]
    BY <1>1, <1>5, LaunchCourse DEF Frame
  <2> QED
    BY <1>1, <1>2, <2>1, HandledListed, CourseAgain DEF Frame
<1>6. PlainCoder(j) \in Agents /\ PrFixCoderFor(conf, "ESCALATED") \in Agents
  BY <1>1, PlainCoderIsAgent, FixCoderIsAgent DEF Frame
<1>7. CASE RetryJob(j)
  BY <1>1, <1>3, <1>4, <1>5, <1>6, <1>7 DEF RetryJob, Spent
<1>8. CASE RedriveJob(j)
  <2>1. work[j] = "parked" /\ runs[j] < MaxRuns
    BY <1>1, <1>2, <1>8 DEF RedriveJob, InPass, Listed, JobsCourse, Course
  <2> QED
    BY <1>4, <1>5, <1>6, <1>8, <2>1 DEF RedriveJob
<1>9. CASE RetryFix(j)
  <2>1. coder[j] \in Agents
    BY <1>1, <1>2, <1>9 DEF RetryFix, InPass, Listed, JobsCourse, Course
  <2> QED
    BY <1>1, <1>3, <1>4, <1>5, <1>6, <1>9, <2>1 DEF RetryFix, Spent
<1> QED
  BY <1>7, <1>8, <1>9

LEMMA ClaimCourse ==
    ASSUME CourseInv, NEW j \in Jobs, ClaimJob(j)
    PROVE  CourseInv'
<1> DEFINE c == CoderAgentFor(conf, topology, Job[j], own)
<1>1. Frame /\ JobsCourse /\ Listed /\ laneAt # 0
  BY CourseParts DEF ClaimJob, Claiming
<1>2. /\ pc' = pc /\ pc = "claim" /\ work[j] = "waiting" /\ Started(j, c, TRUE)
      /\ own' = Plus(own, c) /\ UNCHANGED <<conf, known, load, laneAt, todo>>
  BY DEF ClaimJob, Claiming, Claimable
<1>3. c \in Agents
  <2>1. /\ \A a \in DOMAIN conf.slots : conf.slots[a] \in Int
        /\ \A m \in {conf.lanes, conf.repos, conf.bases} : \A key \in DOMAIN m : IsValue(m[key])
    BY <1>1, DeploymentAssumption DEF Frame
  <2>2. Job[j].number \in Nat
    BY PoolAssumption
  <2> QED
    BY <1>1, <2>1, <2>2, CoderIsAgent DEF Frame
<1> HIDE DEF c
<1>4. runs[j] = 0 /\ runs[j] < MaxRuns
  BY <1>1, <1>2, PoolAssumption DEF JobsCourse, Course
<1>5. JobsCourse'
  BY <1>1, <1>2, <1>3, <1>4, StartedCourse
<1>6. own' \in [Agents -> Nat]
  BY <1>1, <1>2, PlusTakes DEF Frame
<1>7. Listed'
  BY <1>2 DEF Listed
<1> QED
  BY <1>1, <1>2, <1>5, <1>6, <1>7, CourseAgain DEF Frame

LEMMA DrainCourse ==
    ASSUME CourseInv, NEW j \in Jobs, DrainFix(j)
    PROVE  CourseInv'
<1> DEFINE c == PrFixCoderFor(conf, Job[j].lane)
<1>1. Frame /\ JobsCourse /\ Listed
  BY CourseParts
<1>2. /\ pc' = pc /\ pc = "drain" /\ j \in todo /\ Handled(j)
      /\ UNCHANGED <<conf, known, load, laneAt>>
      /\ \/ UNCHANGED jobVars /\ own' = own
         \/ Started(j, c, FALSE) /\ own' = Plus(own, c)
         \/ Started(j, c, FALSE) /\ own' = own
  BY DEF DrainFix, InPass
<1>3. c \in Agents
  BY <1>1, FixCoderIsAgent DEF Frame
<1> HIDE DEF c
<1>4. runs[j] = 0 /\ runs[j] < MaxRuns
  BY <1>1, <1>2, PoolAssumption DEF Listed, JobsCourse, Course
<1>5. JobsCourse' /\ Only(j) /\ own' \in [Agents -> Nat]
  <2>1. CASE UNCHANGED jobVars /\ own' = own
    BY <1>1, <2>1, IdleCourse DEF Frame
  <2>2. CASE Started(j, c, FALSE) /\ own' = Plus(own, c)
    BY <1>1, <1>3, <1>4, <2>2, StartedCourse, PlusTakes DEF Frame
  <2>3. CASE Started(j, c, FALSE) /\ own' = own
    BY <1>1, <1>3, <1>4, <2>3, StartedCourse DEF Frame
  <2> QED
    BY <1>2, <2>1, <2>2, <2>3
<1> QED
  BY <1>1, <1>2, <1>5, HandledListed, CourseAgain DEF Frame

LEMMA OutsideCourse ==
    ASSUME CourseInv, NEW j \in Jobs, Arrive(j) \/ CoderEnds(j) \/ ReviewEnds(j)
    PROVE  CourseInv'
<1>1. Frame /\ JobsCourse /\ Listed /\ (pc = "claim" => laneAt # 0)
      /\ MaxRuns \in Nat /\ runs[j] \in Nat
  BY CourseParts, PoolAssumption DEF JobsCourse, JobsTyped
<1>2. UNCHANGED outside /\ work[j] \in {"absent", "coding", "review"}
  BY DEF Arrive, CoderEnds, ReviewEnds
<1>3. JobsCourse' /\ Only(j)
  <2>1. CASE Arrive(j)
    BY <1>1, <2>1, BecomesCourse DEF Arrive
  <2>2. CASE CoderEnds(j)
    <3>1. coder[j] \in Agents
      BY <1>1, <2>2 DEF CoderEnds, JobsCourse, Course
    <3>2. ~Spent(j) => runs[j] < MaxRuns
      BY <1>1 DEF Spent
    <3> QED
      BY <1>1, <2>2, <3>1, <3>2, BecomesCourse, LeavesCourse DEF CoderEnds
  <2>3. CASE ReviewEnds(j)
    <3>1. coder[j] \in Agents
      BY <1>1, <2>3 DEF ReviewEnds, JobsCourse, Course
    <3> QED
      BY <1>1, <2>3, <3>1, BecomesCourse, LeavesCourse DEF ReviewEnds
  <2> QED
    BY <2>1, <2>2, <2>3
<1>4. Listed'
  <2> SUFFICES ASSUME NEW k \in todo
               PROVE  /\ pc \in {"retry", "fixes"} => work'[k] = "failed"
                      /\ pc = "recover" => work'[k] = "parked"
                      /\ pc = "drain" => work'[k] = "waiting"
    BY <1>2 DEF Listed, outside
  <2>1. k = j \/ work'[k] = work[k]
    BY <1>1, <1>3 DEF Only, Frame
  <2> QED
    BY <1>1, <1>2, <2>1 DEF Listed
<1> QED
  BY <1>1, <1>2, <1>3, <1>4, CourseAgain DEF Frame, outside

LEMMA CourseNext == CourseInv /\ [Next]_vars => CourseInv'
<1> SUFFICES ASSUME CourseInv, [Next]_vars
             PROVE  CourseInv'
  OBVIOUS
<1>0. Frame /\ JobsCourse /\ Listed /\ (pc = "claim" => laneAt # 0)
  BY CourseParts
<1>1. ASSUME UNCHANGED jobVars, Frame', Listed', pc' = "claim" => laneAt' # 0
      PROVE  CourseInv'
  BY <1>0, <1>1, IdleCourse, CourseAgain
<1>2. CASE StartTick
  BY <1>0, <1>1, <1>2 DEF StartTick, Frame, Listed, Passes
<1>3. CASE CountLoad
  <2>1. PICK blind \in BOOLEAN :
           load' = IF Rationed(conf)
                   THEN [a \in Agents |-> Cardinality({j \in Jobs : Busy(j, blind) /\ coder[j] = a})]
                   ELSE NoLoad
    BY <1>3 DEF CountLoad
  <2>2. load' \in [Agents -> Nat]
    BY <2>1, CountCovers DEF NoLoad
  <2> QED
    BY <1>0, <1>1, <1>3, <2>2 DEF CountLoad, Frame, Listed, Passes
<1>4. CASE StartRetry \/ StartRecover \/ StartFixes \/ StartDrain
  <2>1. UNCHANGED jobVars /\ Listed' /\ pc' # "claim"
    BY <1>4 DEF StartRetry, StartRecover, StartFixes, StartDrain, Listed, jobVars
  <2>2. Frame'
    BY <1>0, <1>4 DEF StartRetry, StartRecover, StartFixes, StartDrain, Frame, Passes, NoLoad,
                      Issues, Fixes
  <2> QED
    BY <1>1, <2>1, <2>2
<1>5. CASE StartClaim
  BY <1>0, <1>1, <1>5 DEF StartClaim, Frame, Listed, Passes
<1>6. CASE NextLane
  BY <1>0, <1>1, <1>6 DEF NextLane, Claiming, Frame, Listed
<1>7. CASE FinishTick \/ CrashTick
  <2>1. EndTick
    BY <1>7 DEF FinishTick, CrashTick
  <2>2. UNCHANGED jobVars /\ Listed' /\ pc' # "claim"
    BY <2>1 DEF EndTick, Listed
  <2>3. Frame'
    BY <1>0, <2>1 DEF EndTick, Frame, Passes, NoLoad
  <2> QED
    BY <1>1, <2>2, <2>3
<1>8. CASE \E j \in Jobs : RetryJob(j) \/ RedriveJob(j) \/ RetryFix(j)
  BY <1>8, PassJobCourse
<1>9. CASE \E j \in Jobs : ClaimJob(j)
  BY <1>9, ClaimCourse
<1>10. CASE \E j \in Jobs : DrainFix(j)
  BY <1>10, DrainCourse
<1>11. CASE \E j \in Jobs : Arrive(j) \/ CoderEnds(j) \/ ReviewEnds(j)
  BY <1>11, OutsideCourse
<1>12. CASE UNCHANGED vars
  BY <1>0, <1>1, <1>12 DEF vars, Frame, Listed, jobVars
<1> QED
  BY <1>2, <1>3, <1>4, <1>5, <1>6, <1>7, <1>8, <1>9, <1>10, <1>11, <1>12 DEF Next, TickStep

LEMMA CourseInit == Init => CourseInv
<1> SUFFICES ASSUME Init
             PROVE  CourseInv
  OBVIOUS
<1>1. MaxRuns \in Nat /\ 0 \in 0 .. MaxRuns
  BY PoolAssumption
<1>2. JobsCourse
  BY <1>1 DEF Init, JobsCourse, JobsTyped, Course, Works, Fixes
<1>3. Frame /\ Listed /\ pc # "claim"
  BY DEF Init, Frame, Listed, Passes, NoLoad
<1> QED
  BY <1>2, <1>3, CourseParts

\* The pool is well typed: a job has no more runs than it may, and the load is a count.
THEOREM PoolTyped == Spec => []TypeOK
<1>1. CourseInv => TypeOK
  BY DEF CourseInv
<1> QED
  BY <1>1, CourseInit, CourseNext, PTL DEF Spec

-----------------------------------------------------------------------------
(* What the load knows of.                                                 *)

Claimed(a) == {j \in Coding(a) : claimed[j]}

\* The passes up to the claim pass, and the load they draw on.
Counting == {"counted", "retry", "recover", "claim"}
Known(a) == IF pc = "claim" THEN own[a] ELSE load[a]

\* Up to the claim pass the load knows of every job at work, but for the creates whose
\* reply was lost, and of every one that was claimed.
AllKnown ==
    Rationed(conf) /\ pc \in Counting =>
        \A a \in Agents : /\ Holding(a) <= Known(a) + faults
                          /\ Cardinality(Claimed(a)) <= Known(a)

ClaimInv == CourseInv /\ faults \in Nat /\ AllKnown /\ ClaimsWithinSlots

LEMMA CountsFinite ==
    ASSUME NEW a
    PROVE  /\ IsFiniteSet(Coding(a)) /\ Holding(a) \in Nat
           /\ IsFiniteSet(Claimed(a)) /\ Cardinality(Claimed(a)) \in Nat
<1>1. Coding(a) \subseteq Jobs /\ Claimed(a) \subseteq Jobs
  BY DEF Claimed, Coding
<1> QED
  BY <1>1, PoolAssumption, FS_Subset, FS_CardinalityType DEF Holding

\* No coder gains a job at work, or a claimed one.
Thins == \A a \in Agents : Coding(a)' \subseteq Coding(a) /\ Claimed(a)' \subseteq Claimed(a)

LEMMA IdleThins ==
    ASSUME UNCHANGED jobVars
    PROVE  Thins
  BY DEF Thins, Claimed, Coding, jobVars

\* A job that is not at work afterwards makes nobody's load grow.
LEMMA RestThins ==
    ASSUME NEW j \in Jobs, Only(j), work'[j] # "coding"
    PROVE  Thins
  BY DEF Only, Thins, Claimed, Coding

\* Coder c alone gains job j, and as a claimed one in the claim pass alone.
Gains(j, c) ==
    \A a \in Agents :
        IF a = c THEN /\ Coding(a)' \subseteq Coding(a) \cup {j}
                      /\ Claimed(a)' \subseteq Claimed(a) \cup (IF pc = "claim" THEN {j} ELSE {})
                 ELSE Coding(a)' \subseteq Coding(a) /\ Claimed(a)' \subseteq Claimed(a)

LEMMA StartGains ==
    ASSUME JobsCourse, NEW j \in Jobs, NEW c \in Agents, NEW byClaim \in BOOLEAN,
           Started(j, c, byClaim), Only(j), byClaim => pc = "claim"
    PROVE  Gains(j, c)
<1>1. coder'[j] = c /\ claimed'[j] = byClaim
  BY DEF JobsCourse, JobsTyped, Started
<1> QED
  BY <1>1 DEF Only, Gains, Claimed, Coding

LEMMA SmallerCount ==
    ASSUME NEW S, IsFiniteSet(S), NEW T, T \subseteq S
    PROVE  Cardinality(T) \in Nat /\ Cardinality(T) <= Cardinality(S)
  BY FS_Subset, FS_CardinalityType

\* The slots of a claim are not exceeded while the claimed jobs do not grow.
LEMMA ThinsWithin ==
    ASSUME ClaimInv, Thins, conf' = conf
    PROVE  ClaimsWithinSlots'
<1> SUFFICES ASSUME Rationed(conf), Visible, NEW a \in Agents
             PROVE  Cardinality(Claimed(a)') <= SlotsFor(conf, a)
  BY DEF ClaimsWithinSlots, Claimed, Coding, Visible
<1>1. Cardinality(Claimed(a)) <= SlotsFor(conf, a)
  BY DEF ClaimInv, ClaimsWithinSlots, Claimed
<1>2. Cardinality(Claimed(a)') \in Nat /\ Cardinality(Claimed(a)') <= Cardinality(Claimed(a))
  BY CountsFinite, SmallerCount DEF Thins
<1>3. SlotsFor(conf, a) \in Nat /\ Cardinality(Claimed(a)) \in Nat
  BY CountsFinite, SlotsPositive DEF ClaimInv, CourseInv, TypeOK
<1> QED
  BY <1>1, <1>2, <1>3

\* Nor is what the load knows of overtaken.
LEMMA ThinsKnown ==
    ASSUME ClaimInv, Thins, conf' = conf, faults' \in Nat, faults' >= faults,
           pc \in Counting \/ pc' \notin Counting,
           \A a \in Agents : Known(a)' \in Nat /\ Known(a)' >= Known(a)
    PROVE  AllKnown'
<1> SUFFICES ASSUME Rationed(conf), pc' \in Counting, NEW a \in Agents
             PROVE  /\ Cardinality(Coding(a)') <= Known(a)' + faults'
                    /\ Cardinality(Claimed(a)') <= Known(a)'
  BY DEF AllKnown, Holding, Claimed, Coding, Known
<1>1. Holding(a) <= Known(a) + faults /\ Cardinality(Claimed(a)) <= Known(a)
  BY DEF ClaimInv, AllKnown
<1>2. /\ Cardinality(Coding(a)') \in Nat /\ Cardinality(Coding(a)') <= Holding(a)
      /\ Cardinality(Claimed(a)') \in Nat /\ Cardinality(Claimed(a)') <= Cardinality(Claimed(a))
  BY CountsFinite, SmallerCount DEF Thins, Holding
<1>3. /\ Holding(a) \in Nat /\ Cardinality(Claimed(a)) \in Nat /\ faults \in Nat
      /\ Known(a) \in Nat /\ Known(a)' \in Nat /\ Known(a)' >= Known(a)
  BY CountsFinite DEF ClaimInv, CourseInv, TypeOK, Known
<1> QED
  BY <1>1, <1>2, <1>3

\* A start that is counted, or lost.
LEMMA GainsKnown ==
    ASSUME ClaimInv, NEW j, NEW c \in Agents, Gains(j, c), conf' = conf, pc' = pc,
           faults' \in Nat, faults' >= faults,
           \A a \in Agents : Known(a)' \in Nat /\ Known(a)' >= Known(a),
           Known(c)' + faults' >= Known(c) + faults + 1,
           pc = "claim" => Known(c)' >= Known(c) + 1
    PROVE  AllKnown'
<1> SUFFICES ASSUME Rationed(conf), pc \in Counting, NEW a \in Agents
             PROVE  /\ Cardinality(Coding(a)') <= Known(a)' + faults'
                    /\ Cardinality(Claimed(a)') <= Known(a)'
  BY DEF AllKnown, Holding, Claimed, Coding, Known
<1>1. Holding(a) <= Known(a) + faults /\ Cardinality(Claimed(a)) <= Known(a)
  BY DEF ClaimInv, AllKnown
<1>2. /\ Holding(a) \in Nat /\ Cardinality(Claimed(a)) \in Nat /\ faults \in Nat
      /\ Known(a) \in Nat /\ Known(a)' \in Nat /\ Known(a)' >= Known(a)
  BY CountsFinite DEF ClaimInv, CourseInv, TypeOK, Known
<1>3. CASE a = c
  <2>1. Cardinality(Coding(a)') \in Nat /\ Cardinality(Coding(a)') <= Holding(a) + 1
    BY <1>3, CountsFinite, OneMore DEF Gains, Holding
  <2>2. CASE pc = "claim"
    <3>1. Claimed(a)' \subseteq Claimed(a) \cup {j}
      BY <1>3, <2>2 DEF Gains
    <3>2. /\ Cardinality(Claimed(a)') \in Nat
          /\ Cardinality(Claimed(a)') <= Cardinality(Claimed(a)) + 1
      BY <3>1, CountsFinite, OneMore
    <3> QED
      BY <1>1, <1>2, <1>3, <2>1, <2>2, <3>2
  <2>3. CASE pc # "claim"
    <3>1. /\ Cardinality(Claimed(a)') \in Nat
          /\ Cardinality(Claimed(a)') <= Cardinality(Claimed(a))
      BY <1>3, <2>3, CountsFinite, SmallerCount DEF Gains
    <3> QED
      BY <1>1, <1>2, <1>3, <2>1, <3>1
  <2> QED
    BY <2>2, <2>3
<1>4. CASE a # c
  <2>1. /\ Cardinality(Coding(a)') \in Nat /\ Cardinality(Coding(a)') <= Holding(a)
        /\ Cardinality(Claimed(a)') \in Nat
        /\ Cardinality(Claimed(a)') <= Cardinality(Claimed(a))
    BY <1>4, CountsFinite, SmallerCount DEF Gains, Holding
  <2> QED
    BY <1>1, <1>2, <2>1
<1> QED
  BY <1>3, <1>4

\* Outside the claim pass a start adds to no claim.
LEMMA GainsUnclaimed ==
    ASSUME ClaimInv, NEW j, NEW c, Gains(j, c), pc # "claim", conf' = conf
    PROVE  ClaimsWithinSlots'
<1> SUFFICES ASSUME Rationed(conf), Visible, NEW a \in Agents
             PROVE  Cardinality(Claimed(a)') <= SlotsFor(conf, a)
  BY DEF ClaimsWithinSlots, Claimed, Coding, Visible
<1>1. Cardinality(Claimed(a)) <= SlotsFor(conf, a)
  BY DEF ClaimInv, ClaimsWithinSlots, Claimed
<1>2. Cardinality(Claimed(a)') \in Nat /\ Cardinality(Claimed(a)') <= Cardinality(Claimed(a))
  BY CountsFinite, SmallerCount DEF Gains
<1>3. SlotsFor(conf, a) \in Nat /\ Cardinality(Claimed(a)) \in Nat
  BY CountsFinite, SlotsPositive DEF ClaimInv, CourseInv, TypeOK
<1> QED
  BY <1>1, <1>2, <1>3

\* The count of the tick knows of every job at work.
LEMMA CountKnows ==
    ASSUME NEW a, NEW blind \in BOOLEAN
    PROVE  LET B == {j \in Jobs : Busy(j, blind) /\ coder[j] = a}
           IN /\ Cardinality(B) \in Nat /\ Holding(a) <= Cardinality(B)
              /\ Cardinality(Claimed(a)) <= Cardinality(B)
<1> DEFINE B == {j \in Jobs : Busy(j, blind) /\ coder[j] = a}
<1>1. B \subseteq Jobs /\ Coding(a) \subseteq B /\ Claimed(a) \subseteq B
  BY DEF Claimed, Coding, Busy
<1>2. IsFiniteSet(B)
  BY <1>1, PoolAssumption, FS_Subset
<1> QED
  BY <1>1, <1>2, SmallerCount, FS_CardinalityType DEF Holding

Slotted == AllKnown /\ ClaimsWithinSlots

LEMMA CountSlotted ==
    ASSUME ClaimInv, CountLoad
    PROVE  Slotted'
<1>1. PICK blind \in BOOLEAN :
         /\ IF blind THEN Fault("read") ELSE NoFault
         /\ load' = IF Rationed(conf)
                    THEN [a \in Agents |-> Cardinality({j \in Jobs : Busy(j, blind) /\ coder[j] = a})]
                    ELSE NoLoad
  BY DEF CountLoad
<1>2. faults' \in Nat /\ UNCHANGED jobVars /\ conf' = conf /\ pc' = "counted"
  BY <1>1 DEF CountLoad, ClaimInv, Fault, NoFault
<1>3. ClaimsWithinSlots'
  BY <1>2, IdleThins, ThinsWithin
<1>4. AllKnown'
  <2> SUFFICES ASSUME Rationed(conf), NEW a \in Agents
               PROVE  /\ Holding(a)' <= load'[a] + faults'
                      /\ Cardinality(Claimed(a)') <= load'[a]
    BY <1>2 DEF AllKnown, Known
  <2>1. Coding(a)' = Coding(a) /\ Claimed(a)' = Claimed(a)
    BY <1>2 DEF Coding, Claimed, jobVars
  <2>2. load'[a] = Cardinality({j \in Jobs : Busy(j, blind) /\ coder[j] = a})
    BY <1>1
  <2>3. /\ load'[a] \in Nat /\ Cardinality(Coding(a)) <= load'[a]
        /\ Cardinality(Claimed(a)) <= load'[a] /\ Cardinality(Coding(a)) \in Nat
    BY <2>2, CountKnows, CountsFinite DEF Holding
  <2> QED
    BY <1>2, <2>1, <2>3 DEF Holding
<1> QED
  BY <1>3, <1>4 DEF Slotted

\* A step that starts no job, and takes nothing off the load of the pass.
LEMMA ThinsSlotted ==
    ASSUME ClaimInv, Thins, conf' = conf, faults' \in Nat, faults' >= faults,
           \/ pc' \notin Counting
           \/ pc \in Counting /\ \A a \in Agents : Known(a)' = Known(a)
    PROVE  Slotted'
<1>1. ClaimsWithinSlots'
  BY ThinsWithin
<1>2. CASE pc' \notin Counting
  BY <1>1, <1>2 DEF Slotted, AllKnown
<1>3. CASE pc \in Counting /\ \A a \in Agents : Known(a)' = Known(a)
  <2>1. \A a \in Agents : Known(a) \in Nat
    BY DEF ClaimInv, CourseInv, TypeOK, Known
  <2>2. \A a \in Agents : Known(a)' \in Nat /\ Known(a)' >= Known(a)
    BY <1>3, <2>1
  <2>3. AllKnown'
    BY <1>3, <2>2, ThinsKnown
  <2> QED
    BY <1>1, <2>3 DEF Slotted
<1> QED
  BY <1>2, <1>3

LEMMA LaunchSlotted ==
    ASSUME ClaimInv, NEW j \in Jobs, NEW c \in Agents, Launch(j, c), runs[j] < MaxRuns,
           pc \in Passes \ {"claim"}, pc' = pc, conf' = conf
    PROVE  Slotted'
<1>0. JobsCourse /\ faults \in Nat /\ load \in [Agents -> Nat]
  BY CourseParts DEF ClaimInv, Frame
<1>1. CASE Started(j, c, FALSE) /\ NoFault /\ load' = Plus(load, c)
  <2>1. Gains(j, c)
    BY <1>0, <1>1, StartedCourse, StartGains
  <2>2. \A a \in Agents : load[a] \in Nat /\ load'[a] = Took(load, c, a)
    BY <1>0, <1>1, PlusTakes
  <2>3. \A a \in Agents : Known(a)' \in Nat /\ Known(a)' >= Known(a)
    BY <2>2 DEF Known, Took
  <2>4. Known(c)' = Known(c) + 1 /\ Known(c) \in Nat /\ faults' = faults
    BY <1>1, <2>2 DEF Known, Took, NoFault
  <2>5. AllKnown'
    BY <1>0, <2>1, <2>3, <2>4, GainsKnown
  <2> QED
    BY <2>1, <2>5, GainsUnclaimed DEF Slotted
<1>2. CASE UNCHANGED jobVars /\ Fault("call") /\ load' = load
  <2>1. faults' = faults + 1 /\ Thins
    BY <1>2, IdleThins DEF Fault
  <2>2. pc' \notin Counting \/ (pc \in Counting /\ \A a \in Agents : Known(a)' = Known(a))
    BY <1>2 DEF Known
  <2> QED
    BY <1>0, <2>1, <2>2, ThinsSlotted
<1>3. CASE Started(j, c, FALSE) /\ Fault("lost") /\ load' = load
  <2>1. Gains(j, c) /\ faults' = faults + 1
    BY <1>0, <1>3, StartedCourse, StartGains DEF Fault
  <2>2. \A a \in Agents : Known(a) \in Nat /\ Known(a)' = Known(a)
    BY <1>0, <1>3 DEF Known
  <2>3. AllKnown'
    BY <1>0, <2>1, <2>2, GainsKnown
  <2> QED
    BY <2>1, <2>3, GainsUnclaimed DEF Slotted
<1> QED
  BY <1>1, <1>2, <1>3 DEF Launch

LEMMA PassJobSlotted ==
    ASSUME ClaimInv, NEW j \in Jobs, RetryJob(j) \/ RedriveJob(j) \/ RetryFix(j)
    PROVE  Slotted'
<1>1. Frame /\ JobsCourse /\ Listed /\ runs[j] \in Nat /\ MaxRuns \in Nat /\ faults \in Nat
  BY CourseParts, PoolAssumption DEF ClaimInv, JobsCourse, JobsTyped
<1>2. /\ pc' = pc /\ pc \in Passes \ {"claim"} /\ j \in todo /\ conf' = conf /\ own' = own
  BY DEF RetryJob, RedriveJob, RetryFix, InPass, Passes
<1>3. CASE GivenUp(j) \/ Deferred
  <2>1. Thins
    <3>1. CASE GivenUp(j)
      <4>1. Only(j)
        BY <1>1, <3>1, LeavesCourse DEF GivenUp
      <4>2. work'[j] = "over"
        BY <1>1, <3>1 DEF GivenUp, Leaves, JobsCourse, JobsTyped
      <4> QED
        BY <4>1, <4>2, RestThins
    <3>2. CASE Deferred
      BY <3>2, IdleThins DEF Deferred
    <3> QED
      BY <1>3, <3>1, <3>2
  <2>2. load' = load /\ faults' = faults
    BY <1>3 DEF GivenUp, Deferred, NoFault
  <2>3. pc' \notin Counting \/ (pc \in Counting /\ \A a \in Agents : Known(a)' = Known(a))
    BY <1>2, <2>2 DEF Known
  <2> QED
    BY <1>1, <1>2, <2>1, <2>2, <2>3, ThinsSlotted
<1>4. ASSUME NEW c \in Agents, Launch(j, c), runs[j] < MaxRuns
      PROVE  Slotted'
  BY <1>2, <1>4, LaunchSlotted
<1>5. PlainCoder(j) \in Agents /\ PrFixCoderFor(conf, "ESCALATED") \in Agents
  BY <1>1, PlainCoderIsAgent, FixCoderIsAgent DEF Frame
<1>6. CASE RetryJob(j)
  BY <1>1, <1>3, <1>4, <1>5, <1>6 DEF RetryJob, Spent
<1>7. CASE RedriveJob(j)
  <2>1. runs[j] < MaxRuns
    BY <1>1, <1>2, <1>7 DEF RedriveJob, InPass, Listed, JobsCourse, Course
  <2> QED
    BY <1>3, <1>4, <1>5, <1>7, <2>1 DEF RedriveJob
<1>8. CASE RetryFix(j)
  <2>1. coder[j] \in Agents
    BY <1>1, <1>2, <1>8 DEF RetryFix, InPass, Listed, JobsCourse, Course
  <2> QED
    BY <1>1, <1>3, <1>4, <1>5, <1>8, <2>1 DEF RetryFix, Spent
<1> QED
  BY <1>6, <1>7, <1>8

\* A claim: what the pass itself has counted decides, and it counts every claim.
LEMMA ClaimSlotted ==
    ASSUME ClaimInv, NEW j \in Jobs, ClaimJob(j)
    PROVE  /\ Slotted'
           /\ Rationed(conf) /\ Visible /\ coder'[j] \in conf.fixFirst
              => Holding(coder'[j]) <= faults
<1>1. /\ Frame /\ JobsCourse /\ laneAt \in Nat \ {0} /\ faults \in Nat
      /\ own \in [Agents -> Nat]
  BY CourseParts DEF ClaimInv, ClaimJob, Claiming, Frame
<1>2. CoderAgentFor(conf, topology, Job[j], own) \in Agents
  <2>1. /\ \A a \in DOMAIN conf.slots : conf.slots[a] \in Int
        /\ \A m \in {conf.lanes, conf.repos, conf.bases} : \A key \in DOMAIN m : IsValue(m[key])
    BY <1>1, DeploymentAssumption DEF Frame
  <2>2. Job[j].number \in Nat
    BY PoolAssumption
  <2> QED
    BY <1>1, <2>1, <2>2, CoderIsAgent
<1>3. PICK c \in Agents : c = CoderAgentFor(conf, topology, Job[j], own)
  BY <1>2
<1>4. /\ pc' = pc /\ pc = "claim" /\ work[j] = "waiting" /\ Started(j, c, TRUE)
      /\ own' = Plus(own, c) /\ conf' = conf /\ faults' = faults
      /\ Claiming /\ ~Saturated /\ Job[j].lane = polled[laneAt]
  BY <1>3 DEF ClaimJob, Claiming, Claimable, NoFault
<1>5. Rationed(conf) /\ Visible => FreeSlots(conf, c, own) > 0 /\ (c \in conf.fixFirst => own[c] = 0)
  BY <1>1, <1>3, <1>4, ClaimPick
<1>6. Gains(j, c) /\ coder'[j] = c
  <2>1. runs[j] < MaxRuns
    BY <1>1, <1>4, PoolAssumption DEF JobsCourse, Course
  <2>2. Gains(j, c)
    BY <1>1, <1>4, <1>3, <2>1, StartedCourse, StartGains
  <2> QED
    BY <1>1, <1>4, <2>2 DEF Started, JobsCourse, JobsTyped
<1>7. \A a \in Agents : own[a] \in Nat /\ own'[a] = Took(own, c, a)
  BY <1>1, <1>4, PlusTakes
<1>8. AllKnown'
  <2>1. \A a \in Agents : Known(a)' \in Nat /\ Known(a)' >= Known(a)
    BY <1>4, <1>7 DEF Known, Took
  <2>2. Known(c)' = Known(c) + 1 /\ Known(c) \in Nat
    BY <1>4, <1>3, <1>7 DEF Known, Took
  <2> QED
    BY <1>1, <1>4, <1>3, <1>6, <2>1, <2>2, GainsKnown
<1>9. ASSUME Rationed(conf)
      PROVE  \A a \in Agents : /\ Holding(a) <= own[a] + faults
                               /\ Cardinality(Claimed(a)) <= own[a]
  BY <1>4, <1>9 DEF ClaimInv, AllKnown, Counting, Known
<1>10. ClaimsWithinSlots'
  <2> SUFFICES ASSUME Rationed(conf), Visible, NEW a \in Agents
               PROVE  Cardinality(Claimed(a)') <= SlotsFor(conf, a)
    BY <1>4 DEF ClaimsWithinSlots, Claimed, Coding, Visible
  <2>1. /\ SlotsFor(conf, a) \in Nat /\ Cardinality(Claimed(a)) \in Nat
        /\ Cardinality(Claimed(a)) <= SlotsFor(conf, a)
        /\ IsFiniteSet(Claimed(a))
    BY <1>1, CountsFinite, SlotsPositive DEF Frame, ClaimInv, ClaimsWithinSlots, Claimed
  <2>2. CASE a = c
    <3>1. own[a] \in Nat /\ SlotsFor(conf, a) - own[a] > 0 /\ Cardinality(Claimed(a)) <= own[a]
      BY <1>5, <1>7, <1>9, <2>2 DEF FreeSlots
    <3>2. Claimed(a)' \subseteq Claimed(a) \cup {j}
      BY <1>4, <1>6, <2>2 DEF Gains
    <3>3. /\ Cardinality(Claimed(a)') \in Nat
          /\ Cardinality(Claimed(a)') <= Cardinality(Claimed(a)) + 1
      BY <2>1, <3>2, OneMore
    <3> QED
      BY <2>1, <3>1, <3>3
  <2>3. CASE a # c
    <3>1. Claimed(a)' \subseteq Claimed(a)
      BY <1>6, <2>3 DEF Gains
    <3>2. /\ Cardinality(Claimed(a)') \in Nat
          /\ Cardinality(Claimed(a)') <= Cardinality(Claimed(a))
      BY <2>1, <3>1, SmallerCount
    <3> QED
      BY <2>1, <3>2
  <2> QED
    BY <2>2, <2>3
<1>11. Rationed(conf) /\ Visible /\ c \in conf.fixFirst => Holding(c) <= faults
  <2> SUFFICES ASSUME Rationed(conf), Visible, c \in conf.fixFirst
               PROVE  Holding(c) <= faults
    OBVIOUS
  <2>1. own[c] = 0 /\ Holding(c) <= own[c] + faults /\ Holding(c) \in Nat
    BY <1>3, <1>5, <1>9, CountsFinite
  <2> QED
    BY <1>1, <2>1
<1> QED
  BY <1>6, <1>8, <1>10, <1>11 DEF Slotted

LEMMA DrainSlotted ==
    ASSUME ClaimInv, NEW j \in Jobs, DrainFix(j)
    PROVE  Slotted'
<1> DEFINE c == PrFixCoderFor(conf, Job[j].lane)
<1>1. Frame /\ JobsCourse /\ Listed /\ faults \in Nat
  BY CourseParts DEF ClaimInv
<1>2. /\ pc' = pc /\ pc = "drain" /\ j \in todo /\ conf' = conf
      /\ UNCHANGED jobVars \/ Started(j, c, FALSE)
  BY DEF DrainFix, InPass
<1>3. c \in Agents
  BY <1>1, FixCoderIsAgent DEF Frame
<1> HIDE DEF c
<1>4. pc' \notin Counting
  BY <1>2 DEF Counting
<1>5. AllKnown'
  BY <1>4 DEF AllKnown
<1>6. CASE UNCHANGED jobVars
  BY <1>2, <1>5, <1>6, IdleThins, ThinsWithin DEF Slotted
<1>7. CASE Started(j, c, FALSE)
  <2>1. runs[j] < MaxRuns
    BY <1>1, <1>2, PoolAssumption DEF Listed, JobsCourse, Course
  <2>2. Gains(j, c)
    BY <1>1, <1>3, <1>7, <2>1, StartedCourse, StartGains
  <2> QED
    BY <1>2, <1>5, <2>2, GainsUnclaimed DEF Slotted
<1> QED
  BY <1>2, <1>6, <1>7

LEMMA OutsideSlotted ==
    ASSUME ClaimInv, NEW j \in Jobs, Arrive(j) \/ CoderEnds(j) \/ ReviewEnds(j)
    PROVE  Slotted'
<1>1. JobsCourse /\ faults \in Nat
  BY CourseParts DEF ClaimInv
<1>2. UNCHANGED <<conf, pc, load, own>> /\ faults' = faults
  BY DEF Arrive, CoderEnds, ReviewEnds, NoFault, outside
<1>3. \/ \E w \in {"waiting", "review", "failed"} : Becomes(j, w)
      \/ \E w \in {"over", "parked"} : Leaves(j, w)
  BY DEF Arrive, CoderEnds, ReviewEnds
<1>4. Only(j) /\ work'[j] # "coding"
  BY <1>1, <1>3 DEF Becomes, Leaves, JobsCourse, JobsTyped, Only
<1>5. Thins
  BY <1>4, RestThins
<1>6. pc' \notin Counting \/ (pc \in Counting /\ \A a \in Agents : Known(a)' = Known(a))
  BY <1>2 DEF Known
<1> QED
  BY <1>1, <1>2, <1>5, <1>6, ThinsSlotted

LEMMA SlottedNext == ClaimInv /\ [Next]_vars => Slotted'
<1> SUFFICES ASSUME ClaimInv, [Next]_vars
             PROVE  Slotted'
  OBVIOUS
<1>0. faults \in Nat
  BY DEF ClaimInv
<1>1. ASSUME UNCHANGED jobVars, conf' = conf, faults' \in Nat, faults' >= faults,
             \/ pc' \notin Counting
             \/ pc \in Counting /\ \A a \in Agents : Known(a)' = Known(a)
      PROVE  Slotted'
  BY <1>1, IdleThins, ThinsSlotted
<1>2. CASE StartTick
  BY <1>0, <1>1, <1>2 DEF StartTick, NoFault, Fault, Counting
<1>3. CASE CountLoad
  BY <1>3, CountSlotted
<1>4. CASE StartRetry \/ StartRecover \/ StartClaim \/ NextLane
  BY <1>0, <1>1, <1>4 DEF StartRetry, StartRecover, StartClaim, NextLane, Claiming, NoFault,
                          Counting, Known
<1>5. CASE StartFixes \/ StartDrain
  BY <1>0, <1>1, <1>5 DEF StartFixes, StartDrain, NoFault, Counting
<1>6. CASE FinishTick \/ CrashTick
  <2>1. EndTick /\ faults' \in Nat /\ faults' >= faults
    BY <1>0, <1>6 DEF FinishTick, CrashTick, NoFault, Fault
  <2>2. UNCHANGED jobVars /\ conf' = conf /\ pc' \notin Counting
    BY <2>1 DEF EndTick, Counting
  <2> QED
    BY <1>1, <2>1, <2>2
<1>7. CASE \E j \in Jobs : RetryJob(j) \/ RedriveJob(j) \/ RetryFix(j)
  BY <1>7, PassJobSlotted
<1>8. CASE \E j \in Jobs : ClaimJob(j)
  BY <1>8, ClaimSlotted
<1>9. CASE \E j \in Jobs : DrainFix(j)
  BY <1>9, DrainSlotted
<1>10. CASE \E j \in Jobs : Arrive(j) \/ CoderEnds(j) \/ ReviewEnds(j)
  BY <1>10, OutsideSlotted
<1>11. CASE UNCHANGED vars
  <2>1. UNCHANGED jobVars /\ UNCHANGED <<conf, pc, load, own, faults>>
    BY <1>11 DEF vars
  <2>2. pc' \notin Counting \/ (pc \in Counting /\ \A a \in Agents : Known(a)' = Known(a))
    BY <2>1 DEF Known
  <2> QED
    BY <1>0, <1>1, <2>1, <2>2
<1> QED
  BY <1>2, <1>3, <1>4, <1>5, <1>6, <1>7, <1>8, <1>9, <1>10, <1>11 DEF Next, TickStep

LEMMA FaultsNatural == faults \in Nat /\ [Next]_vars => faults' \in Nat
<1> SUFFICES ASSUME faults \in Nat, [Next]_vars
             PROVE  faults' \in {faults, faults + 1}
  OBVIOUS
<1>1. CASE StartTick \/ CountLoad \/ FinishTick \/ CrashTick
  BY <1>1 DEF StartTick, CountLoad, FinishTick, CrashTick, NoFault, Fault
<1>2. CASE StartRetry \/ StartRecover \/ StartClaim \/ NextLane \/ StartFixes \/ StartDrain
  BY <1>2 DEF StartRetry, StartRecover, StartClaim, NextLane, StartFixes, StartDrain, NoFault
<1>3. ASSUME NEW j \in Jobs, RetryJob(j) \/ RedriveJob(j) \/ RetryFix(j)
      PROVE  faults' \in {faults, faults + 1}
  <2>1. GivenUp(j) \/ Deferred \/ \E c : Launch(j, c)
    BY <1>3 DEF RetryJob, RedriveJob, RetryFix
  <2> QED
    BY <2>1 DEF GivenUp, Deferred, Launch, NoFault, Fault
<1>4. ASSUME NEW j \in Jobs, ClaimJob(j) \/ DrainFix(j)
      PROVE  faults' \in {faults, faults + 1}
  BY <1>4 DEF ClaimJob, DrainFix, NoFault, Fault
<1>5. ASSUME NEW j \in Jobs, Arrive(j) \/ CoderEnds(j) \/ ReviewEnds(j)
      PROVE  faults' = faults
  BY <1>5 DEF Arrive, CoderEnds, ReviewEnds, NoFault
<1>6. CASE UNCHANGED vars
  BY <1>6 DEF vars
<1> QED
  BY <1>1, <1>2, <1>3, <1>4, <1>5, <1>6 DEF Next, TickStep

LEMMA ClaimInit == Init => ClaimInv
<1> SUFFICES ASSUME Init
             PROVE  ClaimInv
  OBVIOUS
<1>1. CourseInv
  BY CourseInit
<1>2. faults \in Nat /\ AllKnown
  BY DEF Init, AllKnown, Counting
<1>3. ClaimsWithinSlots
  <2> SUFFICES ASSUME NEW a \in Agents, conf \in Deployments
               PROVE  Cardinality(Claimed(a)) <= SlotsFor(conf, a)
    BY DEF Init, ClaimsWithinSlots, Claimed
  <2>1. Claimed(a) = {}
    BY DEF Init, Claimed, Coding
  <2> QED
    BY <2>1, SlotsPositive, FS_EmptySet
<1> QED
  BY <1>1, <1>2, <1>3 DEF ClaimInv

LEMMA ClaimNext == ClaimInv /\ [Next]_vars => ClaimInv'
<1> SUFFICES ASSUME ClaimInv, [Next]_vars
             PROVE  ClaimInv'
  OBVIOUS
<1>1. CourseInv'
  BY CourseNext DEF ClaimInv
<1>2. faults' \in Nat
  BY FaultsNatural DEF ClaimInv
<1>3. Slotted'
  BY SlottedNext
<1> QED
  BY <1>1, <1>2, <1>3 DEF ClaimInv, Slotted

\* The claim pass by itself never takes more of a coder than its slots, wherever it can
\* judge the lanes: the pass counts what it takes, and starts from a load that knows of
\* every claim still at work.
THEOREM ClaimsHold == Spec => []ClaimsWithinSlots
<1>1. ClaimInv => ClaimsWithinSlots
  BY DEF ClaimInv
<1> QED
  BY <1>1, ClaimInit, ClaimNext, PTL DEF Spec

\* No other step gives a waiting issue a coder during the claim pass.
LEMMA ClaimsAlone ==
    ASSUME CourseInv, [Next]_vars, pc = "claim", NEW j \in Jobs,
           work[j] = "waiting", work'[j] = "coding"
    PROVE  ClaimJob(j)
<1>1. JobsTyped
  BY CourseParts DEF JobsCourse
<1>2. ~(StartTick \/ CountLoad \/ StartRetry \/ StartRecover \/ StartClaim \/ NextLane
         \/ StartFixes \/ StartDrain)
  BY DEF StartTick, CountLoad, StartRetry, StartRecover, StartClaim, NextLane, StartFixes,
         StartDrain, jobVars
<1>3. ~(FinishTick \/ CrashTick)
  BY DEF FinishTick, CrashTick, EndTick, jobVars
<1>4. ~\E k \in Jobs : RetryJob(k) \/ RedriveJob(k) \/ RetryFix(k) \/ DrainFix(k)
  BY DEF RetryJob, RedriveJob, RetryFix, DrainFix, InPass
<1>5. ~\E k \in Jobs : Arrive(k) \/ CoderEnds(k) \/ ReviewEnds(k)
  BY <1>1 DEF JobsTyped, Arrive, CoderEnds, ReviewEnds, Becomes, Leaves
<1>6. \A k \in Jobs : ClaimJob(k) => k = j
  BY <1>1 DEF JobsTyped, ClaimJob, Started
<1>7. ~UNCHANGED vars
  BY DEF vars, jobVars
<1> QED
  BY <1>2, <1>3, <1>4, <1>5, <1>6, <1>7 DEF Next, TickStep

\* A fix-first coder is left to the fixes: an issue is claimed for it only while it has
\* nothing at all to do.
THEOREM FixFirstHolds == Spec => FixFirstUncontended
<1>1. ClaimInv /\ [Next]_vars =>
        [\A j \in Issues :
           Rationed(conf) /\ Visible /\ pc = "claim" /\ work[j] = "waiting" /\ work'[j] = "coding"
           /\ coder'[j] \in conf.fixFirst
           => Holding(coder'[j]) <= faults]_vars
  BY ClaimsAlone, ClaimSlotted DEF ClaimInv, Issues
<1> QED
  BY <1>1, ClaimInit, ClaimNext, PTL DEF Spec, FixFirstUncontended

=============================================================================
