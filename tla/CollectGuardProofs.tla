------------------------- MODULE CollectGuardProofs -------------------------
(***************************************************************************)
(* Proofs about CollectGuard, for any inventory, CIDR lists and limits.    *)
(***************************************************************************)
EXTENDS CollectGuard, FiniteSetTheorems, WellFoundedInduction, TLAPS

\* Every non-empty set of naturals, finite or not, has a least member.
LEMMA LeastElement ==
  ASSUME NEW S, S \subseteq Nat, S # {}
  PROVE  \E i \in S : \A j \in S : i <= j
<1> DEFINE R == {ss \in Nat \X Nat : ss[1] < ss[2]}
<1>1. IsWellFoundedOn(R, Nat)
  BY NatLessThanWellFounded DEF OpToRel
<1> HIDE DEF R
<1>2. PICK x \in S : \A y \in S : ~(<<y, x>> \in R)
  BY <1>1, WFMin
<1>3. ASSUME NEW y \in S
      PROVE  x <= y
  <2>1. ~(<<y, x>> \in R) /\ x \in Nat /\ y \in Nat
    BY <1>2
  <2>2. QED
    BY <2>1 DEF R
<1>4. QED
  BY <1>3

\* The CIDR CheckTarget records contains the address.
LEMMA MatchedContains ==
  ASSUME NEW ip
  PROVE  /\ MatchedAllow(ip) \in 0..Len(AllowCIDRs)
         /\ MatchedAllow(ip) # 0 => ip \in AllowCIDRs[MatchedAllow(ip)]
<1>0. Len(AllowCIDRs) \in Nat
  BY CollectGuardAssumption
<1>1. CASE Containing(ip) = {}
  BY <1>0, <1>1 DEF MatchedAllow
<1>2. CASE Containing(ip) # {}
  <2>1. Containing(ip) \subseteq Nat
    BY <1>0 DEF Containing
  <2>2. \E i \in Containing(ip) : \A j \in Containing(ip) : i <= j
    BY <1>2, <2>1, LeastElement
  <2>3. MatchedAllow(ip) \in Containing(ip)
    BY <1>2, <2>2 DEF MatchedAllow
  <2>4. QED
    BY <1>0, <2>3 DEF Containing
<1>3. QED
  BY <1>1, <1>2

-----------------------------------------------------------------------------
(***************************************************************************)
(* The stable sort loses no decision: Rank is a bijection that follows the *)
(* keys.                                                                   *)
(***************************************************************************)
LEMMA RankBijective ==
  ASSUME NEW ds, NEW n \in Nat, Len(ds) = n,
         \A k \in 1..n : ds[k].target.key \in Nat
  PROVE  /\ \A k \in 1..n : Rank(ds, k) \in 1..n
         /\ \A j, k \in 1..n : Rank(ds, j) = Rank(ds, k) => j = k
         /\ \A j, k \in 1..n :
              ds[j].target.key < ds[k].target.key => Rank(ds, j) < Rank(ds, k)
         /\ \A place \in 1..n : \E k \in 1..n : Rank(ds, k) = place
<1> DEFINE key(k) == ds[k].target.key
           Before(k) == {j \in 1..n : key(j) < key(k) \/ (key(j) = key(k) /\ j < k)}
           r == [k \in 1..n |-> Rank(ds, k)]
<1>0. IsFiniteSet(1..n) /\ Cardinality(1..n) = n
  <2>1. 1 \in Int /\ n \in Int
    OBVIOUS
  <2> HIDE DEF key, Before, r
  <2>2. IsFiniteSet(1..n) /\ Cardinality(1..n) = IF 1 > n THEN 0 ELSE n - 1 + 1
    BY <2>1, FS_Interval
  <2>3. QED
    BY <2>2
<1>1. ASSUME NEW k \in 1..n
      PROVE  /\ IsFiniteSet(Before(k)) /\ Before(k) \subseteq 1..n /\ k \notin Before(k)
             /\ Rank(ds, k) = 1 + Cardinality(Before(k))
  <2>1. IsFiniteSet(1..n) /\ Before(k) \subseteq 1..n
    BY <1>0
  <2>2. IsFiniteSet(Before(k))
    BY <2>1, FS_Subset
  <2>3. k \notin Before(k)
    OBVIOUS
  <2>4. Rank(ds, k) = 1 + Cardinality(Before(k))
    BY DEF Rank
  <2>5. QED
    BY <2>1, <2>2, <2>3, <2>4
<1>2. ASSUME NEW j \in 1..n, NEW k \in 1..n, j \in Before(k)
      PROVE  Before(j) \subseteq Before(k) /\ Rank(ds, j) < Rank(ds, k)
  <2>1. Before(j) \cup {j} \subseteq Before(k)
    BY <1>2
  <2>2. /\ IsFiniteSet(Before(j)) /\ IsFiniteSet(Before(k)) /\ j \notin Before(j)
        /\ Cardinality(Before(j)) \in Nat /\ Cardinality(Before(k)) \in Nat
    BY <1>1, FS_CardinalityType
  <2> HIDE DEF Before
  <2>3. Cardinality(Before(j) \cup {j}) = Cardinality(Before(j)) + 1
    BY <2>2, FS_AddElement
  <2>4. Cardinality(Before(j) \cup {j}) <= Cardinality(Before(k))
    BY <2>1, <2>2, FS_Subset
  <2>5. QED
    BY <1>1, <2>1, <2>2, <2>3, <2>4
<1>3. ASSUME NEW j \in 1..n, NEW k \in 1..n, j # k
      PROVE  Rank(ds, j) # Rank(ds, k)
  <2>1. j \in Before(k) \/ k \in Before(j)
    BY <1>3
  <2>2. /\ IsFiniteSet(Before(j)) /\ Rank(ds, j) = 1 + Cardinality(Before(j))
        /\ IsFiniteSet(Before(k)) /\ Rank(ds, k) = 1 + Cardinality(Before(k))
    BY <1>1
  <2> HIDE DEF Before
  <2>3. Rank(ds, j) \in Nat /\ Rank(ds, k) \in Nat
    BY <2>2, FS_CardinalityType
  <2>4. QED
    BY <1>2, <2>1, <2>3
<1>4. ASSUME NEW k \in 1..n
      PROVE  Rank(ds, k) \in 1..n
  <2>1. /\ Cardinality(Before(k)) \in Nat /\ Before(k) \cup {k} \subseteq 1..n
        /\ IsFiniteSet(Before(k)) /\ k \notin Before(k)
    BY <1>1, FS_CardinalityType
  <2> HIDE DEF Before
  <2>2. Cardinality(Before(k) \cup {k}) = Cardinality(Before(k)) + 1
    BY <2>1, FS_AddElement
  <2>3. Cardinality(Before(k) \cup {k}) <= Cardinality(1..n) /\ Cardinality(1..n) = n
    BY <1>0, <2>1, FS_Subset
  <2>4. QED
    BY <1>1, <2>1, <2>2, <2>3
<1>a. ASSUME NEW j \in 1..n, NEW k \in 1..n, key(j) < key(k)
      PROVE  Rank(ds, j) < Rank(ds, k)
  <2>1. j \in Before(k)
    BY <1>a
  <2> HIDE DEF Before
  <2>2. QED
    BY <1>2, <2>1
<1>b. \A j, k \in 1..n : ds[j].target.key < ds[k].target.key => Rank(ds, j) < Rank(ds, k)
  BY <1>a
<1> HIDE DEF key, Before
<1>5. r \in Injection(1..n, 1..n)
  <2>1. r \in [1..n -> 1..n]
    BY <1>4
  <2>2. \A a, b \in 1..n : r[a] = r[b] => a = b
    BY <1>3
  <2>3. QED
    BY <2>1, <2>2 DEF Injection, IsInjective
<1>6. r \in Surjection(1..n, 1..n)
  <2> HIDE DEF r
  <2>1. QED
    BY <1>0, <1>5, FS_Injection
<1>7. \A place \in 1..n : \E k \in 1..n : r[k] = place
  BY <1>6 DEF Surjection
<1>8. QED
  BY <1>3, <1>4, <1>7, <1>b

-----------------------------------------------------------------------------
\* Every round of the loop and every other step, one of six cases.
LEMMA DecisionTyped ==
  ASSUME NEW t \in AllTargets
  PROVE  CheckTarget(t) \in Decision
<1>1. MatchedAllow(t.ip) \in 0..Len(AllowCIDRs)
  BY MatchedContains
<1>2. Acceptable(t) \in BOOLEAN
  BY DEF Acceptable
<1>3. QED
  BY <1>1, <1>2 DEF CheckTarget, Decision

LEMMA KeysAreNat ==
  ASSUME decisions \in Seq(Decision)
  PROVE  \A k \in 1..Len(decisions) : decisions[k].target.key \in Nat
<1>1. \A t \in AllTargets : t.key \in Nat
  BY CollectGuardAssumption DEF AllTargets, TargetsIn
<1>2. \A k \in 1..Len(decisions) : decisions[k] \in Decision
  OBVIOUS
<1>3. \A d \in Decision : d.target \in AllTargets
  BY DEF Decision
<1>4. QED
  BY <1>1, <1>2, <1>3

LEMMA GuardTypeStep ==
  ASSUME GuardTypeOK, [GuardNext]_guardVars
  PROVE  GuardTypeOK'
<1> USE DEF GuardTypeOK
<1>0. decisions \in Seq(Decision) /\ Len(decisions) \in Nat
  OBVIOUS
<1>1. ASSUME NEW inv \in Inventories, ReadTargets(inv)
      PROVE  GuardTypeOK'
  BY <1>1 DEF ReadTargets
<1>2. CASE CheckTargets
  <2>1. \A k \in 1..Len(inventory) : inventory[k] \in AllTargets
    BY CollectGuardAssumption DEF AllTargets, TargetsIn
  <2>2. Len(inventory) \in Nat
    BY CollectGuardAssumption
  <2>3. /\ decisions' \in Seq(Decision) /\ Len(decisions') = Len(inventory)
    BY <1>2, <2>1, <2>2, DecisionTyped DEF CheckTargets
  <2>4. cursor = 1
    BY <1>2 DEF CheckTargets
  <2>5. QED
    BY <1>2, <2>2, <2>3, <2>4 DEF CheckTargets
<1>3. CASE LimitAllowed
  <2>1. cursor \in 1..Len(decisions) /\ decisions[cursor] \in Decision
    BY <1>0, <1>3 DEF LimitAllowed
  <2>2. ASSUME Reject(cursor)
        PROVE  decisions' \in Seq(Decision) /\ Len(decisions') = Len(decisions)
    BY <1>0, <2>1, <2>2 DEF Reject, Decision
  <2>3. decisions' \in Seq(Decision) /\ Len(decisions') = Len(decisions)
    BY <1>3, <2>2 DEF LimitAllowed, OverRun, OverCIDR, Kept
  <2>4. perCIDR' \in [1..Len(AllowCIDRs) -> Nat]
    <3>1. decisions[cursor].cidr # 0 => decisions[cursor].cidr \in 1..Len(AllowCIDRs)
      BY <2>1, CollectGuardAssumption DEF Decision
    <3>2. QED
      BY <1>3, <3>1 DEF LimitAllowed, OverRun, OverCIDR, Kept
  <2>5. QED
    BY <1>0, <1>3, <2>1, <2>3, <2>4 DEF LimitAllowed
<1>4. CASE SkipRejected
  BY <1>0, <1>4 DEF SkipRejected
<1>5. CASE WritePlan
  <2>1. ASSUME NEW place \in 1..Len(decisions)
        PROVE  (CHOOSE k \in 1..Len(decisions) : Rank(decisions, k) = place)
                 \in 1..Len(decisions)
    <3>1. \A k \in 1..Len(decisions) : decisions[k].target.key \in Nat
      BY <1>0, KeysAreNat
    <3>2. \E k \in 1..Len(decisions) : Rank(decisions, k) = place
      BY <1>0, <3>1, RankBijective
    <3>3. QED
      BY <3>2
  <2>2. plan' \in Seq(Decision)
    <3> DEFINE at(place) == CHOOSE k \in 1..Len(decisions) : Rank(decisions, k) = place
    <3>1. plan' = [place \in 1..Len(decisions) |-> decisions[at(place)]]
      BY <1>5 DEF WritePlan, Sorted
    <3>2. \A place \in 1..Len(decisions) : at(place) \in 1..Len(decisions)
      BY <2>1
    <3> HIDE DEF at
    <3>3. \A place \in 1..Len(decisions) : decisions[at(place)] \in Decision
      BY <1>0, <3>2
    <3>4. QED
      BY <1>0, <3>1, <3>3
  <2>3. QED
    BY <1>5, <2>2 DEF WritePlan
<1>6. CASE UNCHANGED guardVars
  BY <1>6 DEF guardVars
<1>7. QED
  BY <1>1, <1>2, <1>3, <1>4, <1>5, <1>6 DEF GuardNext

\* Every state of a run of netc collect plan has the declared types: the cursor
\* stays in the decisions and the sort yields decisions.
THEOREM GuardTypeCorrect == GuardSpec => []GuardTypeOK
<1>1. GuardInit => GuardTypeOK
  BY CollectGuardAssumption DEF GuardInit, GuardTypeOK
<1>2. GuardTypeOK /\ [GuardNext]_guardVars => GuardTypeOK'
  BY GuardTypeStep
<1>3. QED
  BY <1>1, <1>2, PTL DEF GuardSpec

-----------------------------------------------------------------------------
\* What CheckTarget found still holds of every decision the plan allows.
Sound(d) == d.allowed => d = CheckTarget(d.target) /\ Acceptable(d.target)

ScopeInv ==
  /\ \A k \in 1..Len(decisions) : Sound(decisions[k])
  /\ \A k \in 1..Len(plan) : Sound(plan[k])

LEMMA SoundInScope ==
  ASSUME NEW d, Sound(d), d.allowed
  PROVE  /\ d.cidr # 0 /\ d.target.ip \in AllowCIDRs[d.cidr]
         /\ ~MatchedDeny(d.target.ip)
         /\ ~d.target.neighbor
         /\ \A i \in DOMAIN d.commands :
              d.commands[i].allowed /\ d.commands[i].command \notin DenyPatterns
<1>1. /\ d.cidr = MatchedAllow(d.target.ip) /\ d.commands = Commands(d.target)
      /\ Acceptable(d.target)
  BY DEF Sound, CheckTarget
<1>2. d.cidr # 0 /\ d.target.ip \in AllowCIDRs[d.cidr]
  BY <1>1, MatchedContains DEF Acceptable
<1>3. ASSUME NEW i \in DOMAIN d.commands
      PROVE  d.commands[i].allowed /\ d.commands[i].command \notin DenyPatterns
  <2> DEFINE cs == CommandsOf(d.target)
  <2>1. d.commands = [j \in 1..Len(cs) |-> CheckCommand(cs[j])]
    BY <1>1 DEF Commands
  <2>2. d.commands[i].allowed
    BY <1>1, <1>3 DEF Acceptable
  <2>3. i \in 1..Len(cs)
    BY <2>1, <1>3
  <2>4. QED
    BY <2>1, <2>2, <2>3 DEF CheckCommand
<1>4. QED
  BY <1>1, <1>2, <1>3 DEF Acceptable

LEMMA ScopeStep ==
  ASSUME GuardTypeOK, ScopeInv, [GuardNext]_guardVars
  PROVE  ScopeInv'
<1> USE DEF ScopeInv
<1>0. decisions \in Seq(Decision) /\ Len(decisions) \in Nat
  BY DEF GuardTypeOK
<1>1. ASSUME NEW inv \in Inventories, ReadTargets(inv)
      PROVE  ScopeInv'
  BY <1>1 DEF ReadTargets, Sound
<1>2. CASE CheckTargets
  <2>1. Len(inventory) \in Nat /\ plan' = plan
    BY <1>2, CollectGuardAssumption DEF GuardTypeOK, CheckTargets
  <2>2. decisions' = [k \in 1..Len(inventory) |-> CheckTarget(inventory[k])]
    BY <1>2 DEF CheckTargets
  <2>3. \A t : Sound(CheckTarget(t))
    BY DEF Sound, CheckTarget
  <2>4. QED
    BY <2>1, <2>2, <2>3
<1>3. CASE LimitAllowed
  <2>1. cursor \in 1..Len(decisions) /\ plan' = plan
    BY <1>0, <1>3 DEF LimitAllowed, GuardTypeOK
  <2>2. CASE Reject(cursor)
    <3>1. Len(decisions') = Len(decisions) /\ ~decisions'[cursor].allowed
      BY <1>0, <2>1, <2>2 DEF Reject
    <3>2. \A k \in 1..Len(decisions) : k # cursor => decisions'[k] = decisions[k]
      BY <1>0, <2>2 DEF Reject
    <3>3. QED
      BY <2>1, <3>1, <3>2 DEF Sound
  <2>3. CASE decisions' = decisions
    BY <2>1, <2>3
  <2>4. QED
    BY <1>3, <2>2, <2>3 DEF LimitAllowed, OverRun, OverCIDR, Kept
<1>4. CASE SkipRejected \/ UNCHANGED guardVars
  BY <1>4 DEF SkipRejected, guardVars
<1>5. CASE WritePlan
  <2> DEFINE at(place) == CHOOSE k \in 1..Len(decisions) : Rank(decisions, k) = place
  <2>1. plan' = [place \in 1..Len(decisions) |-> decisions[at(place)]]
    BY <1>5 DEF WritePlan, Sorted
  <2>2. \A place \in 1..Len(decisions) : at(place) \in 1..Len(decisions)
    BY <1>0, KeysAreNat, RankBijective
  <2> HIDE DEF at
  <2>3. \A place \in 1..Len(decisions) : Sound(decisions[at(place)])
    BY <2>2
  <2>4. Len(plan') = Len(decisions) /\ decisions' = decisions
    BY <1>0, <1>5, <2>1 DEF WritePlan
  <2>5. QED
    BY <2>1, <2>3, <2>4
<1>6. QED
  BY <1>1, <1>2, <1>3, <1>4, <1>5 DEF GuardNext

\* A plan allows only targets and commands that CheckTarget found in scope, for
\* any inventory and configuration: the limits and the sort re-admit nothing.
THEOREM PlanAlwaysInScope == GuardSpec => []PlanInScope
<1>1. GuardInit => ScopeInv
  BY DEF GuardInit, ScopeInv
<1>2. GuardTypeOK /\ ScopeInv /\ [GuardNext]_guardVars => ScopeInv'
  BY ScopeStep
<1>3. ScopeInv => PlanInScope
  BY SoundInScope DEF ScopeInv, PlanInScope
<1>4. QED
  BY <1>1, <1>2, <1>3, GuardTypeCorrect, PTL DEF GuardSpec

-----------------------------------------------------------------------------
\* The counters of the pass bound what it has let through.
CountInv ==
  /\ Cardinality(Passed) <= allowedSeen
  /\ \A c \in 1..Len(AllowCIDRs) : Cardinality(PassedIn(c)) <= perCIDR[c]
  /\ LimitsRespected

LEMMA PassedFinite ==
  ASSUME GuardTypeOK
  PROVE  /\ IsFiniteSet(Passed) /\ Cardinality(Passed) \in Nat /\ cursor \notin Passed
         /\ \A c : IsFiniteSet(PassedIn(c)) /\ Cardinality(PassedIn(c)) \in Nat
                 /\ cursor \notin PassedIn(c)
<1>1. cursor - 1 \in Int /\ Passed \subseteq 1..cursor - 1 /\ cursor \in Nat
  BY DEF GuardTypeOK, Passed
<1>2. IsFiniteSet(1..cursor - 1)
  BY <1>1, FS_Interval
<1>3. IsFiniteSet(Passed) /\ cursor \notin Passed
  <2>1. cursor \notin Passed
    BY <1>1
  <2>2. Passed \in SUBSET (1..cursor - 1)
    BY <1>1
  <2>3. QED
    BY <1>2, <2>1, <2>2, FS_Subset
<1>4. \A c : IsFiniteSet(PassedIn(c)) /\ cursor \notin PassedIn(c)
  BY <1>3, FS_Subset DEF PassedIn
<1>5. Cardinality(Passed) \in Nat
  BY <1>3, FS_CardinalityType
<1>6. \A c : Cardinality(PassedIn(c)) \in Nat
  BY <1>4, FS_CardinalityType
<1>7. QED
  BY <1>3, <1>4, <1>5, <1>6

\* A round that lets the decision at the cursor through adds it to Passed, one
\* that does not leaves Passed alone.
LEMMA PassRound ==
  ASSUME GuardTypeOK, cursor \in 1..Len(decisions), cursor' = cursor + 1,
         \A k \in 1..Len(decisions) : k # cursor => decisions'[k] = decisions[k]
  PROVE  /\ ~decisions'[cursor].allowed =>
              Passed' = Passed /\ \A c : PassedIn(c)' = PassedIn(c)
         /\ decisions'[cursor].allowed =>
              /\ Cardinality(Passed)' = Cardinality(Passed) + 1
              /\ \A c : Cardinality(PassedIn(c))' =
                         Cardinality(PassedIn(c)) + IF decisions'[cursor].cidr = c THEN 1 ELSE 0
<1>0. cursor \in Nat /\ Len(decisions) \in Nat
  BY DEF GuardTypeOK
<1>1. \A k \in 1..cursor - 1 : decisions'[k] = decisions[k]
  BY <1>0
<1>2. 1..cursor' - 1 = (1..cursor - 1) \cup {cursor}
  BY <1>0
<1>3. CASE ~decisions'[cursor].allowed
  <2>1. Passed' = Passed
    BY <1>1, <1>2, <1>3 DEF Passed
  <2>2. \A k \in Passed : decisions'[k] = decisions[k]
    BY <1>1 DEF Passed
  <2>3. \A c : PassedIn(c)' = PassedIn(c)
    BY <2>1, <2>2 DEF PassedIn
  <2>4. QED
    BY <1>3, <2>1, <2>3
<1>4. CASE decisions'[cursor].allowed
  <2>1. Passed' = Passed \cup {cursor}
    BY <1>1, <1>2, <1>4 DEF Passed
  <2>2. \A k \in Passed : decisions'[k] = decisions[k]
    BY <1>1 DEF Passed
  <2>3. Cardinality(Passed') = Cardinality(Passed) + 1
    BY <2>1, PassedFinite, FS_AddElement
  <2>4. ASSUME NEW c
        PROVE  Cardinality(PassedIn(c)') =
                 Cardinality(PassedIn(c)) + IF decisions'[cursor].cidr = c THEN 1 ELSE 0
    <3>1. IsFiniteSet(PassedIn(c)) /\ cursor \notin PassedIn(c) /\ Cardinality(PassedIn(c)) \in Nat
      BY PassedFinite
    <3>2. CASE decisions'[cursor].cidr = c
      <4>1. PassedIn(c)' = PassedIn(c) \cup {cursor}
        BY <2>1, <2>2, <3>2 DEF PassedIn
      <4>2. QED
        BY <3>1, <3>2, <4>1, FS_AddElement
    <3>3. CASE decisions'[cursor].cidr # c
      <4>1. PassedIn(c)' = PassedIn(c)
        BY <2>1, <2>2, <3>3 DEF PassedIn
      <4>2. QED
        BY <3>1, <3>3, <4>1
    <3>4. QED
      BY <3>2, <3>3
  <2>5. QED
    BY <1>4, <2>3, <2>4
<1>5. QED
  BY <1>3, <1>4

LEMMA CountStep ==
  ASSUME GuardTypeOK, GuardTypeOK', CountInv, [GuardNext]_guardVars
  PROVE  CountInv'
<1> USE DEF CountInv, LimitsRespected
<1>0. /\ decisions \in Seq(Decision) /\ Len(decisions) \in Nat /\ cursor \in Nat
      /\ allowedSeen \in Nat /\ perCIDR \in [1..Len(AllowCIDRs) -> Nat]
      /\ RunLimit \in Int /\ CIDRLimit \in Int
  BY CollectGuardAssumption DEF GuardTypeOK, RunLimit, CIDRLimit
<1>1. ASSUME UNCHANGED <<decisions, cursor, allowedSeen, perCIDR>>
      PROVE  CountInv'
  BY <1>1 DEF Passed, PassedIn
<1>2. CASE CheckTargets
  <2>1. cursor = 1 /\ cursor' = 1 /\ allowedSeen' = allowedSeen /\ perCIDR' = perCIDR
    BY <1>2 DEF CheckTargets, GuardTypeOK
  <2>2. /\ Passed = {} /\ Passed' = {}
        /\ \A c : PassedIn(c) = {} /\ PassedIn(c)' = {}
    BY <2>1 DEF Passed, PassedIn
  <2>3. QED
    BY <2>1, <2>2
<1>3. CASE SkipRejected
  <2>1. /\ cursor \in 1..Len(decisions) /\ cursor' = cursor + 1 /\ decisions' = decisions
        /\ ~decisions'[cursor].allowed /\ allowedSeen' = allowedSeen /\ perCIDR' = perCIDR
    BY <1>0, <1>3 DEF SkipRejected, GuardTypeOK
  <2>2. Passed' = Passed /\ \A c : PassedIn(c)' = PassedIn(c)
    BY <2>1, PassRound
  <2>3. QED
    BY <2>1, <2>2
<1>4. CASE LimitAllowed
  <2>1. /\ cursor \in 1..Len(decisions) /\ cursor' = cursor + 1
        /\ allowedSeen' = allowedSeen + 1 /\ decisions[cursor].allowed
        /\ decisions[cursor] \in Decision
    BY <1>0, <1>4 DEF LimitAllowed, GuardTypeOK
  <2>2. /\ Cardinality(Passed) \in Nat
        /\ \A c : Cardinality(PassedIn(c)) \in Nat
    BY PassedFinite
  <2>3. ASSUME Reject(cursor),
               \A c \in 1..Len(AllowCIDRs) : perCIDR'[c] \in Nat /\ perCIDR'[c] >= perCIDR[c]
        PROVE  CountInv'
    <3>1. \A k \in 1..Len(decisions) : k # cursor => decisions'[k] = decisions[k]
      BY <1>0, <2>3 DEF Reject
    <3>2. ~decisions'[cursor].allowed
      BY <1>0, <2>1, <2>3 DEF Reject
    <3>3. Passed' = Passed /\ \A c : PassedIn(c)' = PassedIn(c)
      BY <2>1, <3>1, <3>2, PassRound
    <3>4. Cardinality(Passed') <= allowedSeen'
      BY <1>0, <2>1, <2>2, <3>3
    <3>5. \A c \in 1..Len(AllowCIDRs) : Cardinality(PassedIn(c)') <= perCIDR'[c]
      BY <1>0, <2>2, <2>3, <3>3
    <3>6. LimitsRespected'
      BY <3>3
    <3>7. QED
      BY <3>4, <3>5, <3>6
  <2>4. CASE OverRun
    BY <1>0, <2>3, <2>4 DEF OverRun
  <2>5. CASE OverCIDR
    <3>1. decisions[cursor].cidr \in 1..Len(AllowCIDRs)
      BY <2>1, <2>5, CollectGuardAssumption DEF OverCIDR, Decision
    <3>2. Reject(cursor)
      BY <2>5 DEF OverCIDR
    <3>3. perCIDR' = [perCIDR EXCEPT ![decisions[cursor].cidr] = @ + 1]
      BY <2>5 DEF OverCIDR
    <3>4. QED
      BY <1>0, <2>3, <3>1, <3>2, <3>3
  <2>6. CASE Kept
    <3> DEFINE here == decisions[cursor].cidr
    <3>1. decisions' = decisions /\ here \in 0..Len(AllowCIDRs)
      BY <2>1, <2>6 DEF Kept, Decision
    <3>2. /\ Cardinality(Passed)' = Cardinality(Passed) + 1
          /\ \A c : Cardinality(PassedIn(c))' =
                     Cardinality(PassedIn(c)) + IF here = c THEN 1 ELSE 0
      BY <2>1, <3>1, PassRound
    <3>3. RunLimit > 0 => allowedSeen + 1 <= RunLimit
      BY <1>0, <2>6 DEF Kept, Over
    <3>4. ASSUME NEW c \in 1..Len(AllowCIDRs)
          PROVE  /\ Cardinality(PassedIn(c))' <= perCIDR'[c]
                 /\ CIDRLimit > 0 => Cardinality(PassedIn(c))' <= CIDRLimit
      <4>1. CASE here = c
        <5>1. /\ perCIDR'[c] = perCIDR[c] + 1
              /\ CIDRLimit > 0 => perCIDR[c] + 1 <= CIDRLimit
          BY <1>0, <2>6, <4>1, CollectGuardAssumption DEF Kept, Over
        <5>2. QED
          BY <1>0, <2>2, <3>2, <4>1, <5>1
      <4>2. CASE here # c
        <5>1. perCIDR'[c] = perCIDR[c]
          BY <1>0, <2>6, <4>2 DEF Kept
        <5>2. QED
          BY <1>0, <2>2, <3>2, <4>2, <5>1
      <4>3. QED
        BY <4>1, <4>2
    <3>5. QED
      BY <1>0, <2>1, <2>2, <3>2, <3>3, <3>4
  <2>7. QED
    BY <1>4, <2>4, <2>5, <2>6 DEF LimitAllowed
<1>5. QED
  BY <1>1, <1>2, <1>3, <1>4 DEF GuardNext, ReadTargets, WritePlan, guardVars

\* Whatever the order of the inventory and the overlap of the CIDRs, a plan never
\* allows more targets than the limits of the guard (guard.go: applyRunLimits).
THEOREM LimitsAlwaysRespected == GuardSpec => []LimitsRespected
<1>1. GuardInit => CountInv
  <2> SUFFICES ASSUME GuardInit PROVE CountInv
    OBVIOUS
  <2>1. Passed = {} /\ \A c : PassedIn(c) = {}
    BY DEF GuardInit, Passed, PassedIn
  <2>2. RunLimit \in Int /\ CIDRLimit \in Int
    BY CollectGuardAssumption DEF RunLimit, CIDRLimit
  <2>3. /\ Cardinality(Passed) = 0
        /\ \A c : Cardinality(PassedIn(c)) = 0
    BY <2>1, FS_EmptySet
  <2>4. QED
    BY <2>2, <2>3 DEF GuardInit, CountInv, LimitsRespected
<1>2. GuardTypeOK /\ GuardTypeOK' /\ CountInv /\ [GuardNext]_guardVars => CountInv'
  BY CountStep
<1>3. CountInv => LimitsRespected
  BY DEF CountInv
<1>4. QED
  BY <1>1, <1>2, <1>3, GuardTypeCorrect, PTL DEF GuardSpec

-----------------------------------------------------------------------------
(***************************************************************************)
(* The pass of applyRunLimits against the definition of the limits. At     *)
(* every round the two counters are the sizes of the sets the definition   *)
(* speaks of, cut off at the cursor.                                       *)
(***************************************************************************)
AcceptableUpTo(inv, m) == {j \in 1..m : Acceptable(inv[j])}
CountedIn(inv, c, m)   == {j \in Counted(inv) : j <= m /\ MatchedAllow(inv[j].ip) = c}

LimitInv ==
  pc \in {"limit", "done"} =>
    /\ \A k \in DOMAIN inventory :
         /\ decisions[k].cidr = MatchedAllow(inventory[k].ip)
         /\ decisions[k].allowed <=> IF k < cursor THEN k \in ShouldPass(inventory)
                                                  ELSE Acceptable(inventory[k])
    /\ allowedSeen = Cardinality(AcceptableUpTo(inventory, cursor - 1))
    /\ \A c \in 1..Len(AllowCIDRs) :
         perCIDR[c] = Cardinality(CountedIn(inventory, c, cursor - 1))

\* One target more: the acceptable ones up to it
LEMMA NextAcceptable ==
  ASSUME NEW inv \in Inventories, NEW n \in DOMAIN inv
  PROVE  /\ Cardinality(AcceptableUpTo(inv, n - 1)) \in Nat
         /\ Cardinality(AcceptableUpTo(inv, n)) =
              Cardinality(AcceptableUpTo(inv, n - 1))
                + (IF Acceptable(inv[n]) THEN 1 ELSE 0)
<1> DEFINE Before == AcceptableUpTo(inv, n - 1)
<1>1. n \in Nat /\ n - 1 \in Nat
  BY CollectGuardAssumption
<1>2. IsFiniteSet(Before) /\ n \notin Before
  <2>1. IsFiniteSet(1..(n - 1))
    BY <1>1, FS_Interval
  <2>2. Before \in SUBSET (1..(n - 1))
    BY DEF AcceptableUpTo
  <2>3. IsFiniteSet(Before)
    BY <2>1, <2>2, FS_Subset
  <2>4. QED
    BY <1>1, <2>2, <2>3
<1>3. 1..n = (1..(n - 1)) \cup {n}
  BY <1>1
<1>4. AcceptableUpTo(inv, n) = IF Acceptable(inv[n]) THEN Before \cup {n} ELSE Before
  BY <1>3 DEF AcceptableUpTo
<1> HIDE DEF Before
<1>5. Cardinality(Before) \in Nat /\ Cardinality(Before \cup {n}) = Cardinality(Before) + 1
  BY <1>2, FS_CardinalityType, FS_AddElement
<1>6. QED
  BY <1>4, <1>5 DEF Before

\* ... and the counted ones in every CIDR
LEMMA NextCounted ==
  ASSUME NEW inv \in Inventories, NEW n \in DOMAIN inv, NEW c
  PROVE  /\ Cardinality(CountedIn(inv, c, n - 1)) \in Nat
         /\ Cardinality(CountedIn(inv, c, n)) =
              Cardinality(CountedIn(inv, c, n - 1))
                + (IF n \in Counted(inv) /\ MatchedAllow(inv[n].ip) = c THEN 1 ELSE 0)
<1> DEFINE Before == CountedIn(inv, c, n - 1)
           here   == n \in Counted(inv) /\ MatchedAllow(inv[n].ip) = c
<1>1. /\ n \in Nat /\ n - 1 \in Nat
      /\ \A j \in Counted(inv) : j \in Nat /\ j >= 1
  BY CollectGuardAssumption DEF Counted
<1>2. IsFiniteSet(Before) /\ n \notin Before
  <2>1. IsFiniteSet(1..(n - 1))
    BY <1>1, FS_Interval
  <2>2. Before \in SUBSET (1..(n - 1))
    BY <1>1 DEF CountedIn
  <2>3. IsFiniteSet(Before)
    BY <2>1, <2>2, FS_Subset
  <2>4. QED
    BY <1>1, <2>2, <2>3
<1>3. \A j \in Counted(inv) : j <= n <=> j <= n - 1 \/ j = n
  BY <1>1
<1>4. CountedIn(inv, c, n) = IF here THEN Before \cup {n} ELSE Before
  <2>1. ASSUME NEW j
        PROVE  j \in CountedIn(inv, c, n) <=> j \in Before \/ (j = n /\ here)
    BY <1>1, <1>3 DEF CountedIn
  <2> HIDE DEF here, Before
  <2>2. QED
    BY <2>1
<1> HIDE DEF Before, here
<1>5. Cardinality(Before) \in Nat /\ Cardinality(Before \cup {n}) = Cardinality(Before) + 1
  BY <1>2, FS_CardinalityType, FS_AddElement
<1>6. QED
  BY <1>4, <1>5 DEF Before, here

\* The two tests of a round are the two conditions of the definition.
LEMMA LimitTests ==
  ASSUME NEW inv \in Inventories, NEW n \in DOMAIN inv
  PROVE  /\ n \in Counted(inv) <=>
              /\ Acceptable(inv[n])
              /\ ~Over(Cardinality(AcceptableUpTo(inv, n)), RunLimit)
         /\ n \in ShouldPass(inv) <=>
              /\ n \in Counted(inv)
              /\ ~Over(Cardinality(CountedIn(inv, MatchedAllow(inv[n].ip), n)), CIDRLimit)
<1>1. RunLimit \in Int /\ CIDRLimit \in Int
  BY CollectGuardAssumption DEF RunLimit, CIDRLimit
<1>2. n \in Counted(inv) <=>
        /\ Acceptable(inv[n])
        /\ RunLimit > 0 => Cardinality(AcceptableUpTo(inv, n)) <= RunLimit
  BY DEF Counted, AcceptableUpTo
<1>3. Cardinality(AcceptableUpTo(inv, n)) \in Nat
  BY NextAcceptable
<1>4. n \in ShouldPass(inv) <=>
        /\ n \in Counted(inv)
        /\ CIDRLimit > 0 =>
             Cardinality(CountedIn(inv, MatchedAllow(inv[n].ip), n)) <= CIDRLimit
  BY DEF ShouldPass, CountedIn
<1>5. Cardinality(CountedIn(inv, MatchedAllow(inv[n].ip), n)) \in Nat
  BY NextCounted
<1>6. QED
  BY <1>1, <1>2, <1>3, <1>4, <1>5 DEF Over

LEMMA LimitStep ==
  ASSUME GuardTypeOK, LimitInv, [GuardNext]_guardVars
  PROVE  LimitInv'
<1>0. /\ decisions \in Seq(Decision) /\ Len(decisions) \in Nat /\ cursor \in Nat
      /\ DOMAIN decisions = 1..Len(decisions) /\ cursor >= 1
      /\ perCIDR \in [1..Len(AllowCIDRs) -> Nat]
      /\ Len(inventory) \in Nat /\ DOMAIN inventory = 1..Len(inventory)
  BY CollectGuardAssumption DEF GuardTypeOK
<1>1. ASSUME NEW inv \in Inventories, ReadTargets(inv)
      PROVE  LimitInv'
  BY <1>1 DEF ReadTargets, LimitInv
<1>2. CASE CheckTargets
  <2>1. /\ inventory' = inventory /\ cursor' = 1
        /\ allowedSeen' = 0 /\ \A c \in 1..Len(AllowCIDRs) : perCIDR'[c] = 0
    BY <1>0, <1>2 DEF CheckTargets, GuardTypeOK
  <2>2. \A k \in DOMAIN inventory : decisions'[k] = CheckTarget(inventory[k])
    BY <1>0, <1>2 DEF CheckTargets
  <2>3. /\ AcceptableUpTo(inventory, 0) = {}
        /\ \A c : CountedIn(inventory, c, 0) = {}
    BY <1>0 DEF AcceptableUpTo, CountedIn, Counted
  <2>4. \A k \in DOMAIN inventory : k \in Nat /\ ~(k < 1)
    BY <1>0
  <2>5. cursor' - 1 = 0
    BY <2>1
  <2>6. /\ allowedSeen' = Cardinality(AcceptableUpTo(inventory', cursor' - 1))
        /\ \A c \in 1..Len(AllowCIDRs) :
             perCIDR'[c] = Cardinality(CountedIn(inventory', c, cursor' - 1))
    BY <2>1, <2>3, <2>5, FS_EmptySet
  <2>7. \A k \in DOMAIN inventory' :
          /\ decisions'[k].cidr = MatchedAllow(inventory'[k].ip)
          /\ decisions'[k].allowed <=> IF k < cursor' THEN k \in ShouldPass(inventory')
                                                      ELSE Acceptable(inventory'[k])
    <3>1. \A t : /\ CheckTarget(t).cidr = MatchedAllow(t.ip)
                  /\ CheckTarget(t).allowed = Acceptable(t)
      BY DEF CheckTarget
    <3>2. \A t : Acceptable(t) \in BOOLEAN
      BY DEF Acceptable
    <3>3. ASSUME NEW k \in DOMAIN inventory
          PROVE  /\ decisions'[k].cidr = MatchedAllow(inventory[k].ip)
                 /\ decisions'[k].allowed <=> Acceptable(inventory[k])
                 /\ ~(k < cursor')
      BY <2>1, <2>2, <2>4, <3>1, <3>2
    <3>4. QED
      BY <2>1, <3>3
  <2>8. QED
    BY <2>6, <2>7 DEF LimitInv
<1>3. CASE SkipRejected \/ LimitAllowed
  <2> DEFINE inv == inventory
             c   == MatchedAllow(inv[cursor].ip)
  <2>1. /\ pc = "limit" /\ pc' = "limit" /\ inventory' = inventory
        /\ cursor <= Len(decisions) /\ cursor' = cursor + 1
    BY <1>3 DEF SkipRejected, LimitAllowed
  <2>2. /\ inventory \in Inventories /\ cursor \in DOMAIN inventory
        /\ cursor \in DOMAIN decisions /\ Len(decisions) = Len(inventory)
    BY <1>0, <2>1 DEF GuardTypeOK
  <2>3. /\ \A k \in DOMAIN inventory :
             /\ decisions[k].cidr = MatchedAllow(inventory[k].ip)
             /\ decisions[k].allowed <=> IF k < cursor THEN k \in ShouldPass(inventory)
                                                      ELSE Acceptable(inventory[k])
        /\ allowedSeen = Cardinality(AcceptableUpTo(inventory, cursor - 1))
        /\ \A x \in 1..Len(AllowCIDRs) :
             perCIDR[x] = Cardinality(CountedIn(inventory, x, cursor - 1))
    BY <2>1 DEF LimitInv
  <2>4. decisions[cursor].cidr = c /\ (decisions[cursor].allowed <=> Acceptable(inv[cursor]))
    BY <1>0, <2>2, <2>3
  <2>5. Cardinality(AcceptableUpTo(inv, cursor)) =
          allowedSeen + (IF Acceptable(inv[cursor]) THEN 1 ELSE 0)
    BY <2>2, <2>3, NextAcceptable
  <2>6. \A x \in 1..Len(AllowCIDRs) :
          Cardinality(CountedIn(inv, x, cursor)) =
            perCIDR[x] + (IF cursor \in Counted(inv) /\ c = x THEN 1 ELSE 0)
    <3>1. ASSUME NEW x \in 1..Len(AllowCIDRs)
          PROVE  Cardinality(CountedIn(inv, x, cursor)) =
                   Cardinality(CountedIn(inv, x, cursor - 1))
                     + (IF cursor \in Counted(inv) /\ c = x THEN 1 ELSE 0)
      BY <2>2, NextCounted
    <3>2. QED
      BY <2>3, <3>1
  <2>7. /\ cursor \in Counted(inv) <=>
             /\ Acceptable(inv[cursor])
             /\ ~Over(Cardinality(AcceptableUpTo(inv, cursor)), RunLimit)
        /\ cursor \in ShouldPass(inv) <=>
             /\ cursor \in Counted(inv)
             /\ ~Over(Cardinality(CountedIn(inv, c, cursor)), CIDRLimit)
    BY <2>2, LimitTests
  <2>8. SUFFICES /\ \A k \in DOMAIN inventory \ {cursor} : decisions'[k] = decisions[k]
                 /\ decisions'[cursor].cidr = c
                 /\ decisions'[cursor].allowed <=> cursor \in ShouldPass(inv)
                 /\ allowedSeen' = allowedSeen + (IF Acceptable(inv[cursor]) THEN 1 ELSE 0)
                 /\ \A x \in 1..Len(AllowCIDRs) :
                      perCIDR'[x] =
                        perCIDR[x] + (IF cursor \in Counted(inv) /\ c = x THEN 1 ELSE 0)
    <3>1. cursor' - 1 = cursor
      BY <1>0, <2>1
    <3>2. ASSUME NEW k \in DOMAIN inventory
          PROVE  k \in Nat /\ (k < cursor' <=> k < cursor \/ k = cursor) /\ ~(cursor < cursor)
      BY <1>0, <2>1
    <3> HIDE DEF c
    <3>3. ASSUME NEW k \in DOMAIN inventory,
                 \A j \in DOMAIN inventory \ {cursor} : decisions'[j] = decisions[j],
                 decisions'[cursor].cidr = c,
                 decisions'[cursor].allowed <=> cursor \in ShouldPass(inv)
          PROVE  /\ decisions'[k].cidr = MatchedAllow(inventory[k].ip)
                 /\ decisions'[k].allowed <=> IF k < cursor' THEN k \in ShouldPass(inventory)
                                                            ELSE Acceptable(inventory[k])
      <4>1. CASE k = cursor
        BY <3>2, <3>3, <4>1 DEF c
      <4>2. CASE k # cursor
        BY <2>3, <3>2, <3>3, <4>2
      <4>3. QED
        BY <4>1, <4>2
    <3>4. QED
      BY <2>1, <2>5, <2>6, <3>1, <3>3 DEF LimitInv
  <2>9. CASE SkipRejected
    <3>1. /\ decisions' = decisions /\ allowedSeen' = allowedSeen /\ perCIDR' = perCIDR
          /\ ~Acceptable(inv[cursor])
      BY <2>4, <2>9 DEF SkipRejected
    <3>2. cursor \notin Counted(inv) /\ cursor \notin ShouldPass(inv)
      BY <2>7, <3>1
    <3>3. allowedSeen \in Nat
      BY DEF GuardTypeOK
    <3>4. QED
      BY <1>0, <2>4, <3>1, <3>2, <3>3
  <2>10. CASE LimitAllowed
    <3>1. Acceptable(inv[cursor]) /\ allowedSeen' = allowedSeen + 1
      BY <2>4, <2>10 DEF LimitAllowed
    <3>2. c \in 1..Len(AllowCIDRs) /\ c # 0
      BY <3>1, MatchedContains, CollectGuardAssumption DEF Acceptable
    <3>3. ASSUME Reject(cursor)
          PROVE  /\ \A k \in DOMAIN inventory \ {cursor} : decisions'[k] = decisions[k]
                 /\ decisions'[cursor].cidr = c /\ ~decisions'[cursor].allowed
      BY <1>0, <2>2, <2>4, <3>3 DEF Reject
    <3>4. cursor \in Counted(inv) <=> ~Over(allowedSeen + 1, RunLimit)
      BY <2>5, <2>7, <3>1
    <3>5. cursor \in Counted(inv) => Cardinality(CountedIn(inv, c, cursor)) = perCIDR[c] + 1
      BY <2>6, <3>2
    <3> HIDE DEF c
    <3>6. CASE OverRun
      <4>1. cursor \notin Counted(inv) /\ perCIDR' = perCIDR /\ Reject(cursor)
        BY <3>4, <3>6 DEF OverRun
      <4>2. QED
        BY <1>0, <2>7, <3>1, <3>3, <4>1
    <3>7. CASE OverCIDR
      <4>1. /\ cursor \in Counted(inv) /\ Reject(cursor)
            /\ perCIDR' = [perCIDR EXCEPT ![c] = @ + 1]
            /\ Over(perCIDR[c] + 1, CIDRLimit)
        BY <2>4, <3>4, <3>7 DEF OverCIDR
      <4>2. cursor \notin ShouldPass(inv)
        BY <2>7, <3>5, <4>1
      <4>3. \A x \in 1..Len(AllowCIDRs) : perCIDR'[x] = perCIDR[x] + (IF c = x THEN 1 ELSE 0)
        BY <1>0, <4>1
      <4>4. QED
        BY <3>1, <3>3, <4>1, <4>2, <4>3
    <3>8. CASE Kept
      <4>1. /\ cursor \in Counted(inv) /\ decisions' = decisions
            /\ perCIDR' = [perCIDR EXCEPT ![c] = @ + 1]
            /\ ~Over(perCIDR[c] + 1, CIDRLimit)
        BY <2>4, <3>2, <3>4, <3>8 DEF Kept
      <4>2. cursor \in ShouldPass(inv)
        BY <2>7, <3>5, <4>1
      <4>3. QED
        BY <1>0, <2>4, <3>1, <3>2, <4>1, <4>2
    <3>9. QED
      BY <2>10, <3>6, <3>7, <3>8 DEF LimitAllowed
  <2>11. QED
    BY <1>3, <2>9, <2>10
<1>4. CASE WritePlan
  BY <1>4 DEF WritePlan, LimitInv
<1>5. CASE UNCHANGED guardVars
  BY <1>5 DEF guardVars, LimitInv
<1>6. QED
  BY <1>1, <1>2, <1>3, <1>4, <1>5 DEF GuardNext

-----------------------------------------------------------------------------
SortInv == pc = "done" => cursor = Len(decisions) + 1 /\ plan = Sorted(decisions)

\* The decision that the sort puts in every place
Origin(ds) == [place \in 1..Len(ds) |-> CHOOSE k \in 1..Len(ds) : Rank(ds, k) = place]

\* Every decision has one place, and the places follow the keys.
LEMMA SortedPermutes ==
  ASSUME NEW ds, NEW n \in Nat, Len(ds) = n, \A k \in 1..n : ds[k].target.key \in Nat
  PROVE  /\ Origin(ds) \in Bijection(1..n, 1..n)
         /\ Sorted(ds) = [place \in 1..n |-> ds[Origin(ds)[place]]]
         /\ \A i, j \in 1..n :
              i < j => ds[Origin(ds)[i]].target.key <= ds[Origin(ds)[j]].target.key
<1> DEFINE at == Origin(ds)
<1>0. at = [place \in 1..n |-> CHOOSE k \in 1..n : Rank(ds, k) = place]
  BY DEF Origin
<1> HIDE DEF at
<1>1. /\ \A k \in 1..n : Rank(ds, k) \in 1..n
      /\ \A j, k \in 1..n : Rank(ds, j) = Rank(ds, k) => j = k
      /\ \A j, k \in 1..n : ds[j].target.key < ds[k].target.key => Rank(ds, j) < Rank(ds, k)
      /\ \A place \in 1..n : \E k \in 1..n : Rank(ds, k) = place
  BY RankBijective
<1>2. \A place \in 1..n : at[place] \in 1..n /\ Rank(ds, at[place]) = place
  BY <1>0, <1>1
<1>3. at \in [1..n -> 1..n]
  BY <1>0, <1>2
<1>4. \A k \in 1..n : at[Rank(ds, k)] = k
  BY <1>1, <1>2
<1>5. at \in Bijection(1..n, 1..n)
  <2>1. \A i, j \in 1..n : at[i] = at[j] => i = j
    BY <1>2
  <2>2. \A k \in 1..n : \E place \in 1..n : at[place] = k
    BY <1>1, <1>4
  <2>3. QED
    BY <1>3, <2>1, <2>2 DEF Bijection, Injection, Surjection, IsInjective
<1>6. Sorted(ds) = [place \in 1..n |-> ds[at[place]]]
  BY <1>0 DEF Sorted
<1>7. ASSUME NEW i \in 1..n, NEW j \in 1..n, i < j
      PROVE  ds[at[i]].target.key <= ds[at[j]].target.key
  <2>1. /\ at[i] \in 1..n /\ Rank(ds, at[i]) = i
        /\ at[j] \in 1..n /\ Rank(ds, at[j]) = j
    BY <1>2
  <2>2. ds[at[j]].target.key < ds[at[i]].target.key => Rank(ds, at[j]) < Rank(ds, at[i])
    BY <1>1, <2>1
  <2>3. ~(ds[at[j]].target.key < ds[at[i]].target.key)
    BY <1>7, <2>1, <2>2
  <2>4. ds[at[i]].target.key \in Nat /\ ds[at[j]].target.key \in Nat
    BY <2>1
  <2>5. QED
    BY <2>3, <2>4
<1>8. QED
  BY <1>5, <1>6, <1>7 DEF at

Occurrences(s, n, d) == Cardinality({k \in 1..n : s[k] = d})

\* As many places of a permuted list hold a decision as places of the list do.
LEMMA SortedCounts ==
  ASSUME NEW n \in Nat, NEW at \in Bijection(1..n, 1..n), NEW s, NEW t,
         \A k \in 1..n : t[k] = s[at[k]], NEW d
  PROVE  Occurrences(s, n, d) = Occurrences(t, n, d)
<1> DEFINE In  == {k \in 1..n : s[k] = d}
           Out == {k \in 1..n : t[k] = d}
           f   == [k \in Out |-> at[k]]
<1>1. /\ \A k \in 1..n : at[k] \in 1..n
      /\ \A i, j \in 1..n : at[i] = at[j] => i = j
      /\ \A k \in 1..n : \E i \in 1..n : at[i] = k
  BY DEF Bijection, Injection, Surjection, IsInjective
<1>2. f \in Bijection(Out, In)
  <2>1. f \in [Out -> In]
    BY <1>1
  <2>2. \A i, j \in Out : f[i] = f[j] => i = j
    BY <1>1
  <2>3. ASSUME NEW k \in In
        PROVE  \E i \in Out : f[i] = k
    <3>1. PICK i \in 1..n : at[i] = k
      BY <1>1
    <3>2. i \in Out
      BY <3>1
    <3>3. QED
      BY <3>1, <3>2
  <2>4. QED
    BY <2>1, <2>2, <2>3 DEF Bijection, Injection, Surjection, IsInjective
<1>3. IsFiniteSet(Out)
  <2>1. Out \in SUBSET (1..n) /\ n \in Int /\ 1 \in Int
    OBVIOUS
  <2> HIDE DEF Out
  <2>2. IsFiniteSet(1..n)
    BY <2>1, FS_Interval
  <2>3. QED
    BY <2>1, <2>2, FS_Subset
<1> HIDE DEF In, Out, f
<1>4. Cardinality(In) = Cardinality(Out)
  BY <1>2, <1>3, FS_Bijection DEF ExistsBijection
<1>5. QED
  BY <1>4 DEF In, Out, Occurrences

LEMMA DonePlan ==
  ASSUME GuardTypeOK, LimitInv, SortInv
  PROVE  PlanMatchesLimits
<1> SUFFICES ASSUME pc = "done"
             PROVE  PlanMatchesLimits
  BY DEF PlanMatchesLimits
<1> DEFINE n  == Len(decisions)
           at == Origin(decisions)
<1>1. /\ n \in Nat /\ decisions \in Seq(Decision) /\ cursor = n + 1 /\ plan = Sorted(decisions)
      /\ Len(inventory) = n /\ DOMAIN inventory = 1..n
  BY CollectGuardAssumption DEF GuardTypeOK, SortInv
<1>2. \A k \in 1..n : decisions[k].target.key \in Nat
  BY <1>1, KeysAreNat
<1>3. Passed = ShouldPass(inventory)
  <2>1. \A k \in 1..n : decisions[k].allowed <=> k \in ShouldPass(inventory)
    BY <1>1 DEF LimitInv
  <2>2. ShouldPass(inventory) \subseteq 1..n /\ cursor - 1 = n
    BY <1>1 DEF ShouldPass, Counted
  <2>3. QED
    BY <2>1, <2>2 DEF Passed
<1>4. /\ at \in Bijection(1..n, 1..n)
      /\ plan = [place \in 1..n |-> decisions[at[place]]]
      /\ \A i, j \in 1..n : i < j => decisions[at[i]].target.key <= decisions[at[j]].target.key
  BY <1>1, <1>2, SortedPermutes
<1> HIDE DEF at
<1>5. Len(plan) = n /\ \A k \in 1..n : plan[k] = decisions[at[k]]
  BY <1>1, <1>4
<1>6. ASSUME NEW d
      PROVE  Cardinality({k \in 1..n : decisions[k] = d})
               = Cardinality({k \in 1..Len(plan) : plan[k] = d})
  <2>1. Occurrences(decisions, n, d) = Occurrences(plan, n, d)
    <3>1. n \in Nat /\ at \in Bijection(1..n, 1..n) /\ \A k \in 1..n : plan[k] = decisions[at[k]]
      BY <1>1, <1>4, <1>5
    <3> HIDE DEF n
    <3>2. QED
      BY <3>1, SortedCounts
  <2>2. QED
    BY <1>5, <2>1 DEF Occurrences
<1>7. QED
  BY <1>3, <1>4, <1>5, <1>6 DEF PlanMatchesLimits

\* The plan written is exactly what the limits call for, for any inventory, CIDR lists and
\* limits: the one pass with its two counters allows the targets of the definition, and the
\* sort by key neither loses nor doubles a decision (guard.go: applyRunLimits, BuildPlan).
THEOREM PlanAlwaysMatchesLimits == GuardSpec => []PlanMatchesLimits
<1>1. GuardInit => LimitInv /\ SortInv
  BY DEF GuardInit, LimitInv, SortInv
<1>2. GuardTypeOK /\ LimitInv /\ [GuardNext]_guardVars => LimitInv'
  BY LimitStep
<1>3. GuardTypeOK /\ SortInv /\ [GuardNext]_guardVars => SortInv'
  <2> SUFFICES ASSUME GuardTypeOK, SortInv, [GuardNext]_guardVars
               PROVE  SortInv'
    OBVIOUS
  <2>1. CASE WritePlan
    <3>1. cursor = Len(decisions) + 1
      BY <2>1 DEF WritePlan, GuardTypeOK
    <3>2. QED
      BY <2>1, <3>1 DEF WritePlan, SortInv
  <2>2. CASE ~WritePlan
    BY <2>2 DEF GuardNext, ReadTargets, CheckTargets, LimitAllowed, SkipRejected, guardVars, SortInv
  <2>3. QED
    BY <2>1, <2>2
<1>4. GuardTypeOK /\ LimitInv /\ SortInv => PlanMatchesLimits
  BY DonePlan
<1>5. QED
  BY <1>1, <1>2, <1>3, <1>4, GuardTypeCorrect, PTL DEF GuardSpec
=============================================================================
