--------------------------- MODULE RoutingProofs ---------------------------
(***************************************************************************)
(* What the choice of a coder gives, for every deployment, load and issue: *)
(* always a coder of the deployment, and one with a free slot, and idle if *)
(* it is fix-first, where the lane's candidates have one.                  *)
(***************************************************************************)
EXTENDS Routing, TLAPS, FiniteSetTheorems, WellFoundedInduction

-----------------------------------------------------------------------------
(* Numbers.                                                                *)

LEMMA LessIsFounded ==
    \E R : IsWellFoundedOn(R, Nat) /\ \A x, y \in Nat : x < y => <<x, y>> \in R
<1>1. IsWellFoundedOn(OpToRel(<, Nat), Nat)
  BY NatLessThanWellFounded
<1>2. \A x, y \in Nat : x < y => <<x, y>> \in OpToRel(<, Nat)
  BY DEF OpToRel
<1> QED
  BY <1>1, <1>2, Zenon

\* A set of naturals has a least member.
LEMMA LeastNatural ==
    ASSUME NEW S, S \subseteq Nat, S # {}
    PROVE  \E k \in S : \A m \in S : k <= m
<1>1. PICK R : IsWellFoundedOn(R, Nat) /\ \A x, y \in Nat : x < y => <<x, y>> \in R
  BY LessIsFounded
<1>2. IsWellFoundedOn(R, Nat)
  BY <1>1, Zenon
<1>3. \A x, y \in Nat : x < y => <<x, y>> \in R
  BY <1>1, Zenon
<1>4. PICK k \in S : \A m \in S : ~(<<m, k>> \in R)
  BY <1>2, WFMin, Zenon
<1>5. \A m \in S : m \in Nat /\ k \in Nat
  OBVIOUS
<1>6. \A m \in S : ~(m < k)
  BY <1>3, <1>4, <1>5, Zenon
<1>7. \A m \in S : k <= m
  BY <1>5, <1>6
<1> QED
  BY <1>7

\* Of finitely many integers one is the greatest.
LEMMA Greatest ==
    ASSUME NEW N \in Nat, NEW f, \A k \in 1 .. N : f[k] \in Int,
           NEW P \in SUBSET (1 .. N), P # {}
    PROVE  \E k \in P : \A m \in P : f[m] <= f[k]
<1> DEFINE Upto(n) == P \cap (1 .. n)
           Bad == {n \in Nat : /\ Upto(n) # {}
                               /\ ~\E k \in Upto(n) : \A m \in Upto(n) : f[m] <= f[k]}
<1>1. Upto(N) = P
  OBVIOUS
<1>2. SUFFICES ASSUME N \in Bad
               PROVE  FALSE
  BY <1>1
<1>3. PICK n \in Bad : \A m \in Bad : n <= m
  <2> HIDE DEF Bad
  <2>1. Bad \subseteq Nat
    BY DEF Bad
  <2> QED
    BY <1>2, <2>1, LeastNatural
<1>4. n \in Nat /\ n # 0 /\ n - 1 \in Nat /\ n - 1 \notin Bad
  <2>1. n \in Nat /\ n # 0
    BY <1>3
  <2>2. n - 1 \in Nat
    BY <2>1
  <2>3. ~(n <= n - 1)
    BY <2>1
  <2> QED
    BY <1>3, <2>1, <2>2, <2>3
<1>5. Upto(n) = Upto(n - 1) \cup ({n} \cap P)
  BY <1>4
<1>6. CASE n \notin P
  BY <1>3, <1>4, <1>5, <1>6
<1>7. CASE n \in P /\ Upto(n - 1) = {}
  <2>1. Upto(n) = {n}
    BY <1>5, <1>7
  <2>2. f[n] <= f[n]
    BY <1>7
  <2> QED
    BY <1>3, <2>1, <2>2
<1>8. CASE n \in P /\ Upto(n - 1) # {}
  <2>1. PICK k \in Upto(n - 1) : \A m \in Upto(n - 1) : f[m] <= f[k]
    BY <1>4, <1>8
  <2>2. f[k] \in Int /\ f[n] \in Int /\ k \in Upto(n) /\ n \in Upto(n)
    BY <1>4, <1>5, <1>8, <2>1
  <2>3. CASE f[n] <= f[k]
    <3>1. \A m \in Upto(n) : f[m] <= f[k]
      BY <1>5, <2>1, <2>3
    <3> QED
      BY <1>3, <2>2, <3>1
  <2>4. CASE f[k] < f[n]
    <3>1. \A m \in Upto(n) : f[m] <= f[n]
      <4> SUFFICES ASSUME NEW m \in Upto(n)
                   PROVE  f[m] <= f[n]
        OBVIOUS
      <4>1. f[m] \in Int
        OBVIOUS
      <4>2. m = n \/ f[m] <= f[k]
        BY <1>5, <2>1
      <4> QED
        BY <2>2, <2>4, <4>1, <4>2
    <3> QED
      BY <1>3, <2>2, <3>1
  <2> QED
    BY <2>2, <2>3, <2>4
<1> QED
  BY <1>6, <1>7, <1>8

LEMMA OneMoreBelow ==
    ASSUME NEW N \in Nat, NEW S \in SUBSET (1 .. N), NEW k \in 1 .. N
    PROVE  /\ k = 1 => {m \in S : m < k} = {}
           /\ {m \in S : m <= k - 1} = {m \in S : m < k}
           /\ k \notin S => {m \in S : m <= k} = {m \in S : m < k}
           /\ k \in S => /\ {m \in S : m <= k} = {m \in S : m < k} \cup {k}
                         /\ k \notin {m \in S : m < k}
<1>1. k \in Int /\ \A m \in S : m \in Int /\ 1 <= m
  OBVIOUS
<1>2. \A m \in S : k = 1 => ~(m < k)
  <2> TAKE m \in S
  <2>1. m \in Int /\ 1 <= m
    BY <1>1
  <2> QED
    BY <2>1
<1>3. \A m \in S : m <= k - 1 <=> m < k
  <2> TAKE m \in S
  <2>1. m \in Int
    BY <1>1
  <2> QED
    BY <1>1, <2>1
<1>4. \A m \in S : m <= k <=> m < k \/ m = k
  <2> TAKE m \in S
  <2>1. m \in Int
    BY <1>1
  <2> QED
    BY <1>1, <2>1
<1>5. ~(k < k)
  BY <1>1
<1>6. k = 1 => {m \in S : m < k} = {}
  BY <1>2, Zenon
<1>7. {m \in S : m <= k - 1} = {m \in S : m < k}
  BY <1>3, Zenon
<1>8. k \notin S => {m \in S : m <= k} = {m \in S : m < k}
  BY <1>4, Zenon
<1>9. k \in S => /\ {m \in S : m <= k} = {m \in S : m < k} \cup {k}
                /\ k \notin {m \in S : m < k}
  BY <1>4, <1>5, Zenon
<1> QED
  BY <1>6, <1>7, <1>8, <1>9, Zenon

\* The n-th member is one, when there are more than n.
LEMMA NthMember ==
    ASSUME NEW N \in Nat, NEW S \in SUBSET (1 .. N), NEW n \in Nat, n < Cardinality(S)
    PROVE  Nth(S, n) \in S
<1> DEFINE Upto(k) == {m \in S : m <= k}
           Over    == {k \in 1 .. N : n < Cardinality(Upto(k))}
<1>0. IsFiniteSet(S) /\ Cardinality(S) \in Nat
  <2>1. IsFiniteSet(1 .. N)
    BY FS_Interval
  <2> QED
    BY <2>1, FS_Subset, FS_CardinalityType
<1> \A m \in S : m \in Nat /\ 1 <= m /\ m <= N
  OBVIOUS
<1>1. N \in Over
  <2>1. Upto(N) = S
    OBVIOUS
  <2>2. n < Cardinality(Upto(N))
    BY <2>1, Zenon
  <2>3. N # 0
    <3>1. ASSUME N = 0
          PROVE  FALSE
      <4>1. S = {}
        BY <3>1
      <4>2. Cardinality(S) = 0
        BY <4>1, FS_EmptySet
      <4> QED
        BY <1>0, <4>2
    <3> QED
      BY <3>1
  <2>4. N \in 1 .. N
    BY <2>3
  <2> QED
    BY <2>2, <2>4, Zenon
<1>2. PICK k \in Over : \A m \in Over : k <= m
  <2> HIDE DEF Over
  <2>1. Over \subseteq Nat
    BY DEF Over
  <2> QED
    BY <1>1, <2>1, LeastNatural
<1> DEFINE below == {m \in S : m < k}
           upto  == {m \in S : m <= k}
<1>3. k \in 1 .. N /\ n < Cardinality(upto)
  BY <1>2, Zenon
<1>4. IsFiniteSet(below) /\ Cardinality(below) \in Nat
  <2>1. below \subseteq S
    OBVIOUS
  <2> HIDE DEF below
  <2> QED
    BY <1>0, <2>1, FS_Subset, FS_CardinalityType
<1>5. Cardinality(below) <= n
  <2>1. CASE k = 1
    <3>1. below = {}
      BY <1>3, <2>1, OneMoreBelow, Zenon
    <3> HIDE DEF below
    <3> QED
      BY <3>1, FS_EmptySet
  <2>2. CASE k # 1
    <3>1. k - 1 \in 1 .. N /\ ~(k <= k - 1)
      BY <1>3, <2>2
    <3>2. k - 1 \notin Over
      BY <1>2, <3>1, Zenon
    <3>3. ~(n < Cardinality(Upto(k - 1)))
      BY <3>1, <3>2, Zenon
    <3>4. Upto(k - 1) = below
      BY <1>3, OneMoreBelow, Zenon
    <3>5. ~(n < Cardinality(below))
      BY <3>3, <3>4, Zenon
    <3> HIDE DEF below, Over
    <3> QED
      BY <1>4, <3>5
  <2> QED
    BY <2>1, <2>2
<1>6. k \in S
  <2>1. ASSUME k \notin S
        PROVE  FALSE
    <3>1. upto = below
      BY <1>3, <2>1, OneMoreBelow, Zenon
    <3> HIDE DEF upto, below, Over
    <3> QED
      BY <1>3, <1>4, <1>5, <3>1
  <2> QED
    BY <2>1
<1>7. Cardinality(below) = n
  <2>1. upto = below \cup {k} /\ k \notin below
    BY <1>3, <1>6, OneMoreBelow, Zenon
  <2> HIDE DEF upto, below, Over
  <2>2. Cardinality(upto) = Cardinality(below) + 1
    BY <1>4, <2>1, FS_AddElement
  <2> QED
    BY <1>3, <1>4, <1>5, <2>2
<1> HIDE DEF Over
<1> QED
  BY <1>6, <1>7 DEF Nth

-----------------------------------------------------------------------------
(* The coder a list gives.                                                 *)

\* One in the rotation with as many free slots as any, if one is in the rotation.
LEMMA ListPick ==
    ASSUME NEW d, NEW v, v.list, NEW A, v.agents \in Seq(A),
           NEW number \in Nat, NEW load,
           \A k \in 1 .. Len(v.agents) : FreeSlots(d, v.agents[k], load) \in Int,
           NEW r \in 1 .. Len(v.agents), InRotation(d, v.agents[r], load)
    PROVE  \E k \in 1 .. Len(v.agents) :
              /\ PickCoder(d, v, number, load) = v.agents[k]
              /\ InRotation(d, v.agents[k], load)
              /\ Rationed(d) => FreeSlots(d, v.agents[r], load) <= FreeSlots(d, v.agents[k], load)
<1> DEFINE as   == v.agents
           free == [k \in 1 .. Len(as) |-> FreeSlots(d, as[k], load)]
           kept == {k \in 1 .. Len(as) : InRotation(d, as[k], load)}
           tied == {k \in kept : Rationed(d) => \A m \in kept :
                      FreeSlots(d, as[m], load) <= FreeSlots(d, as[k], load)}
<1>1. Len(as) \in Nat /\ r \in kept /\ kept \subseteq 1 .. Len(as) /\ tied \subseteq kept
  OBVIOUS
<1>2. PICK t \in kept : \A m \in kept : free[m] <= free[t]
  <2>1. \A k \in 1 .. Len(as) : free[k] \in Int
    OBVIOUS
  <2> HIDE DEF free, kept, tied, as
  <2> QED
    BY <1>1, <2>1, Greatest
<1>3. t \in tied
  BY <1>1, <1>2
<1>4. IsFiniteSet(tied) /\ Cardinality(tied) \in Nat /\ Cardinality(tied) # 0
  <2>1. tied \subseteq 1 .. Len(as)
    BY <1>1
  <2> HIDE DEF tied, kept, as
  <2>2. IsFiniteSet(1 .. Len(as))
    <3>1. Len(as) \in Int /\ 1 \in Int
      BY <1>1
    <3> QED
      BY <3>1, FS_Interval
  <2>3. IsFiniteSet(tied) /\ Cardinality(tied) \in Nat
    BY <2>1, <2>2, FS_Subset, FS_CardinalityType
  <2> QED
    BY <1>3, <2>3, FS_EmptySet
<1> DEFINE n == number % Cardinality(tied)
<1>5. n \in Nat /\ n < Cardinality(tied)
  <2> HIDE DEF tied
  <2> QED
    BY <1>4
<1>6. Nth(tied, n) \in tied
  <2>1. tied \in SUBSET (1 .. Len(as))
    BY <1>1
  <2> HIDE DEF tied, n, as
  <2> QED
    BY <1>1, <1>5, <2>1, NthMember
<1>7. PickCoder(d, v, number, load) = as[Nth(tied, n)]
  BY <1>1 DEF PickCoder
<1> DEFINE k == Nth(tied, n)
<1>8. k \in kept /\ (Rationed(d) => FreeSlots(d, as[r], load) <= FreeSlots(d, as[k], load))
  <2> HIDE DEF k
  <2>1. k \in tied
    BY <1>6 DEF k
  <2> QED
    BY <1>1, <2>1
<1> HIDE DEF n, tied
<1> QED
  BY <1>7, <1>8

=============================================================================
