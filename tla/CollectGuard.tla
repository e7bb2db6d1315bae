---------------------------- MODULE CollectGuard ----------------------------
(***************************************************************************)
(* netc collect plan (internal/guard): BuildPlan checks every target of    *)
(* the inventory, walks through them in the order of the file to apply the *)
(* limits of a run, sorts the decisions and writes the plan.               *)
(*                                                                         *)
(* An address stands for itself, a CIDR is the set of its addresses, and a *)
(* target's key for what decisionKey compares (device and address).        *)
(***************************************************************************)
EXTENDS Integers, Sequences, FiniteSets

CONSTANTS
  Inventories,        \* the target files a plan may be built from
  AllowCIDRs,         \* Config.AllowCIDRs: a sequence of sets of addresses
  DenyCIDRs,          \* Config.DenyCIDRs: a sequence of sets of addresses
  AllowCommands,      \* Config.Commands.Allow, a sequence
  DenyPatterns,       \* Config.Commands.DenyPatterns: the commands they match
  Mode,               \* Config.Targets.Mode
  MaxTargetsPerRun,   \* Config.Limits; 0 means the default, < 0 no limit
  MaxTargetsPerCIDR,
  DefaultPerRun,      \* the defaults of DefaultConfig: 50 and 20 in the code
  DefaultPerCIDR,
  Blank,              \* an empty device id or management address
  Malformed           \* a management address that does not parse

ASSUME CollectGuardAssumption ==
  /\ MaxTargetsPerRun \in Int /\ MaxTargetsPerCIDR \in Int
  /\ DefaultPerRun \in Nat \ {0} /\ DefaultPerCIDR \in Nat \ {0}
  /\ Len(AllowCIDRs) \in Nat
  /\ \A inv \in Inventories : /\ Len(inv) \in Nat /\ DOMAIN inv = 1..Len(inv)
                              /\ \A k \in DOMAIN inv : inv[k].key \in Nat

\* withDefaults
RunLimit  == IF MaxTargetsPerRun = 0 THEN DefaultPerRun ELSE MaxTargetsPerRun
CIDRLimit == IF MaxTargetsPerCIDR = 0 THEN DefaultPerCIDR ELSE MaxTargetsPerCIDR

-----------------------------------------------------------------------------
\* CheckCommand: a deny pattern wins over the allowlist
CheckCommand(c) ==
  [command |-> c, allowed |-> /\ c \notin DenyPatterns
                              /\ \E i \in 1..Len(AllowCommands) : AllowCommands[i] = c]

Parses(ip) == ip \notin {Blank, Malformed}

\* the first allow CIDR that contains the address, 0 if none does
Containing(ip) == {i \in 1..Len(AllowCIDRs) : Parses(ip) /\ ip \in AllowCIDRs[i]}
MatchedAllow(ip) ==
  IF Containing(ip) = {} THEN 0
  ELSE CHOOSE i \in Containing(ip) : \A j \in Containing(ip) : i <= j

MatchedDeny(ip) == \E i \in 1..Len(DenyCIDRs) : ip \in DenyCIDRs[i]

\* a target without commands gets the whole allowlist
CommandsOf(t) == IF t.commands = << >> THEN AllowCommands ELSE t.commands

Commands(t) == [i \in 1..Len(CommandsOf(t)) |-> CheckCommand(CommandsOf(t)[i])]

\* Mutant of Acceptable: denied addresses are not looked at
AcceptableDenied(t) ==
  /\ t.device # Blank
  /\ ~t.neighbor
  /\ Mode = "inventory_only"
  /\ Parses(t.ip)
  /\ MatchedAllow(t.ip) # 0
  /\ \A i \in DOMAIN Commands(t) : Commands(t)[i].allowed

\* CheckTarget finds no reason to reject the target. withDefaults makes every
\* one of these checks unconditional.
Acceptable(t) ==
  /\ t.device # Blank
  /\ ~t.neighbor
  /\ Mode = "inventory_only"
  /\ Parses(t.ip)
  /\ ~MatchedDeny(t.ip)
  /\ MatchedAllow(t.ip) # 0
  /\ \A i \in DOMAIN Commands(t) : Commands(t)[i].allowed

CheckTarget(t) ==
  [target |-> t, cidr |-> MatchedAllow(t.ip), commands |-> Commands(t),
   allowed |-> Acceptable(t)]

\* Mutant of Rank: the comparison turned round
RankDescending(decisions, k) ==
  LET key(j) == decisions[j].target.key
  IN  1 + Cardinality({j \in 1..Len(decisions) : \/ key(j) > key(k)
                                                 \/ key(j) = key(k) /\ j < k})

\* decisions[k] goes to place Rank(decisions, k) of the sorted plan: a stable
\* sort by decisionKey
Rank(decisions, k) ==
  LET key(j) == decisions[j].target.key
  IN  1 + Cardinality({j \in 1..Len(decisions) : \/ key(j) < key(k)
                                                 \/ key(j) = key(k) /\ j < k})

Sorted(decisions) ==
  [place \in 1..Len(decisions) |->
     decisions[CHOOSE k \in 1..Len(decisions) : Rank(decisions, k) = place]]

-----------------------------------------------------------------------------
VARIABLES
  pc,           \* "read", "check", "limit" or "done"
  inventory,    \* the targets read
  decisions,    \* BuildPlan's decisions, in the order of the inventory
  cursor,       \* applyRunLimits: the decision looked at next
  allowedSeen,  \* applyRunLimits: the locals of that name
  perCIDR,
  plan          \* the plan written: the decisions sorted

guardVars == <<pc, inventory, decisions, cursor, allowedSeen, perCIDR, plan>>

GuardInit ==
  /\ pc = "read"
  /\ inventory = << >>
  /\ decisions = << >>
  /\ cursor = 1
  /\ allowedSeen = 0
  /\ perCIDR = [c \in 1..Len(AllowCIDRs) |-> 0]
  /\ plan = << >>

ReadTargets(inv) ==
  /\ pc = "read"
  /\ inventory' = inv
  /\ pc' = "check"
  /\ UNCHANGED <<decisions, cursor, allowedSeen, perCIDR, plan>>

\* Mutant of CheckTargets: rejected targets are left out of the plan
CheckTargetsAllowed ==
  /\ pc = "check"
  /\ decisions' = SelectSeq([k \in 1..Len(inventory) |-> CheckTarget(inventory[k])],
                            LAMBDA d : d.allowed)
  /\ pc' = "limit"
  /\ UNCHANGED <<inventory, cursor, allowedSeen, perCIDR, plan>>

CheckTargets ==
  /\ pc = "check"
  /\ decisions' = [k \in 1..Len(inventory) |-> CheckTarget(inventory[k])]
  /\ pc' = "limit"
  /\ UNCHANGED <<inventory, cursor, allowedSeen, perCIDR, plan>>

Reject(k) == decisions' = [decisions EXCEPT ![k] = [target |-> decisions[k].target,
                                                   cidr |-> decisions[k].cidr,
                                                   commands |-> decisions[k].commands,
                                                   allowed |-> FALSE]]

\* Mutant of Over: off by one
OverByTwo(count, limit) == limit > 0 /\ count > limit + 1

Over(count, limit) == limit > 0 /\ count > limit

\* One round of applyRunLimits, for an allowed decision. One that the limit of
\* its CIDR rejects has been counted against the limit of the run.
OverRun ==
  /\ Over(allowedSeen + 1, RunLimit)
  /\ Reject(cursor)
  /\ UNCHANGED perCIDR

OverCIDR ==
  LET c == decisions[cursor].cidr
  IN  /\ ~Over(allowedSeen + 1, RunLimit)
      /\ c # 0
      /\ perCIDR' = [perCIDR EXCEPT ![c] = @ + 1]
      /\ Over(perCIDR[c] + 1, CIDRLimit)
      /\ Reject(cursor)

Kept ==
  LET c == decisions[cursor].cidr
  IN  /\ ~Over(allowedSeen + 1, RunLimit)
      /\ IF c = 0 THEN UNCHANGED perCIDR
                  ELSE /\ perCIDR' = [perCIDR EXCEPT ![c] = @ + 1]
                       /\ ~Over(perCIDR[c] + 1, CIDRLimit)
      /\ UNCHANGED decisions

LimitAllowed ==
  /\ pc = "limit"
  /\ cursor <= Len(decisions)
  /\ decisions[cursor].allowed
  /\ allowedSeen' = allowedSeen + 1
  /\ cursor' = cursor + 1
  /\ OverRun \/ OverCIDR \/ Kept
  /\ UNCHANGED <<pc, inventory, plan>>

SkipRejected ==
  /\ pc = "limit"
  /\ cursor <= Len(decisions)
  /\ ~decisions[cursor].allowed
  /\ cursor' = cursor + 1
  /\ UNCHANGED <<pc, inventory, decisions, allowedSeen, perCIDR, plan>>

\* sort.SliceStable, the hash, and the file
WritePlan ==
  /\ pc = "limit"
  /\ cursor > Len(decisions)
  /\ plan' = Sorted(decisions)
  /\ pc' = "done"
  /\ UNCHANGED <<inventory, decisions, cursor, allowedSeen, perCIDR>>

GuardNext ==
  \/ \E inv \in Inventories : ReadTargets(inv)
  \/ CheckTargets
  \/ LimitAllowed
  \/ SkipRejected
  \/ WritePlan

GuardSpec == GuardInit /\ [][GuardNext]_guardVars

-----------------------------------------------------------------------------
TargetsIn(inv) == {inv[k] : k \in DOMAIN inv}
AllTargets     == UNION {TargetsIn(inv) : inv \in Inventories}

Decision == [target : AllTargets, cidr : 0..Len(AllowCIDRs),
             commands : {Commands(t) : t \in AllTargets}, allowed : BOOLEAN]

GuardTypeOK ==
  /\ pc \in {"read", "check", "limit", "done"}
  /\ inventory \in Inventories \cup {<< >>}
  /\ decisions \in Seq(Decision)
  /\ cursor \in 1..Len(decisions) + 1
  /\ allowedSeen \in Nat
  /\ perCIDR \in [1..Len(AllowCIDRs) -> Nat]
  /\ plan \in Seq(Decision)
  /\ pc = "read" => inventory = << >>
  /\ pc \in {"read", "check"} =>
       decisions = << >> /\ allowedSeen = 0 /\ \A c \in DOMAIN perCIDR : perCIDR[c] = 0
  /\ pc \in {"limit", "done"} => Len(decisions) = Len(inventory)

\* the decisions the run limits have let through so far
Passed         == {k \in 1..cursor - 1 : decisions[k].allowed}
PassedIn(cidr) == {k \in Passed : decisions[k].cidr = cidr}

\* Neither limit is ever exceeded, however the inventory is ordered and whatever
\* CIDRs overlap (applyRunLimits counts in one pass, with early continues).
LimitsRespected ==
  /\ RunLimit > 0 => Cardinality(Passed) <= RunLimit
  /\ CIDRLimit > 0 =>
       \A c \in 1..Len(AllowCIDRs) : Cardinality(PassedIn(c)) <= CIDRLimit

\* What the plan allows is in scope: an address in an allowed and in no denied
\* CIDR, not a neighbour, and commands of the read-only list alone. The limits
\* and the sort come after the checks and may not mix decisions up.
PlanInScope ==
  \A k \in 1..Len(plan) : plan[k].allowed =>
    /\ plan[k].cidr # 0 /\ plan[k].target.ip \in AllowCIDRs[plan[k].cidr]
    /\ ~MatchedDeny(plan[k].target.ip)
    /\ ~plan[k].target.neighbor
    /\ \A i \in DOMAIN plan[k].commands :
         /\ plan[k].commands[i].allowed
         /\ plan[k].commands[i].command \notin DenyPatterns

\* The limits as a definition: of the acceptable targets the first RunLimit
\* count, and of these the first CIDRLimit of every CIDR are allowed.
Counted(inv) ==
  {k \in DOMAIN inv : /\ Acceptable(inv[k])
                      /\ RunLimit > 0 =>
                           Cardinality({j \in 1..k : Acceptable(inv[j])}) <= RunLimit}

ShouldPass(inv) ==
  {k \in Counted(inv) :
     CIDRLimit > 0 =>
       Cardinality({j \in Counted(inv) : /\ j <= k
                                         /\ MatchedAllow(inv[j].ip) = MatchedAllow(inv[k].ip)})
         <= CIDRLimit}

\* The pass with its two counters allows exactly those, and the written plan is
\* a permutation of the decisions: no target is lost, doubled or re-admitted.
PlanMatchesLimits ==
  pc = "done" =>
    /\ Passed = ShouldPass(inventory)
    /\ \A d \in {decisions[k] : k \in 1..Len(decisions)} :
         Cardinality({k \in 1..Len(decisions) : decisions[k] = d})
           = Cardinality({k \in 1..Len(plan) : plan[k] = d})
    /\ \A j, k \in 1..Len(plan) : j < k => plan[j].target.key <= plan[k].target.key
=============================================================================
