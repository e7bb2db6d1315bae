--------------------------- MODULE PathTraceProofs ---------------------------
(***************************************************************************)
(* Proofs about PathTrace, for any inventories, flows and hop limit.       *)
(***************************************************************************)
EXTENDS PathTrace, WellFoundedInduction, TLAPS

\* Every non-empty set of naturals, finite or not, has a least member.
LEMMA LeastElement ==
  ASSUME NEW S, S \subseteq Nat, S # {}
  PROVE  \E i \in S : \A j \in S : i <= j
<1> DEFINE R == {ss \in Nat \X Nat : ss[1] < ss[2]}
<1>1. IsWellFoundedOn(R, Nat)
  BY NatLessThanWellFounded DEF OpToRel
<1> HIDE DEF R
<1>2. PICK x \in S : \A y \in S : ~(<<y, x>> \in R)
  BY <1>1, WFMin
<1>3. ASSUME NEW y \in S
      PROVE  x <= y
  <2>1. ~(<<y, x>> \in R) /\ x \in Nat /\ y \in Nat
    BY <1>2
  <2>2. QED
    BY <2>1 DEF R
<1>4. QED
  BY <1>3

\* A search of a list in its order: 0 if nothing was found, else the first.
LEMMA FirstOfFound ==
  ASSUME NEW S, S \subseteq Nat \ {0}
  PROVE  /\ FirstOf(S) \in Nat
         /\ FirstOf(S) = 0 <=> S = {}
         /\ S # {} => FirstOf(S) \in S /\ \A j \in S : FirstOf(S) <= j
<1>1. CASE S = {}
  BY <1>1 DEF FirstOf
<1>2. CASE S # {}
  <2>1. \E i \in S : \A j \in S : i <= j
    BY <1>2, LeastElement
  <2>2. FirstOf(S) \in S /\ \A j \in S : FirstOf(S) <= j
    BY <1>2, <2>1 DEF FirstOf
  <2>3. QED
    BY <1>2, <2>2
<1>3. QED
  BY <1>1, <1>2

\* Among finitely or infinitely many keys of four numbers, some key is least.
LEMMA LeastFound ==
  ASSUME NEW key, DOMAIN key # {},
         \A s \in DOMAIN key : /\ key[s][1] \in Nat /\ key[s][2] \in Nat
                               /\ key[s][3] \in Nat /\ key[s][4] \in Nat
  PROVE  /\ Least(key) \in DOMAIN key
         /\ \A t \in DOMAIN key : LexLE(key[Least(key)], key[t])
<1> DEFINE A == DOMAIN key
<1>1. PICK a \in A : \A t \in A : key[a][1] <= key[t][1]
  <2> DEFINE V == {key[s][1] : s \in A}
  <2>1. PICK v \in V : \A w \in V : v <= w
    BY LeastElement
  <2>2. QED
    BY <2>1
<1> DEFINE B == {s \in A : key[s][1] = key[a][1]}
<1>2. PICK b \in B : \A t \in B : key[b][2] <= key[t][2]
  <2> DEFINE V == {key[s][2] : s \in B}
  <2>1. V # {} /\ V \subseteq Nat
    OBVIOUS
  <2>2. PICK v \in V : \A w \in V : v <= w
    BY <2>1, LeastElement
  <2>3. QED
    BY <2>2
<1> DEFINE C == {s \in B : key[s][2] = key[b][2]}
<1>3. PICK c \in C : \A t \in C : key[c][3] <= key[t][3]
  <2> DEFINE V == {key[s][3] : s \in C}
  <2>1. V # {} /\ V \subseteq Nat
    OBVIOUS
  <2>2. PICK v \in V : \A w \in V : v <= w
    BY <2>1, LeastElement
  <2>3. QED
    BY <2>2
<1> DEFINE D == {s \in C : key[s][3] = key[c][3]}
<1>4. PICK d \in D : \A t \in D : key[d][4] <= key[t][4]
  <2> DEFINE V == {key[s][4] : s \in D}
  <2>1. V # {} /\ V \subseteq Nat
    OBVIOUS
  <2>2. PICK v \in V : \A w \in V : v <= w
    BY <2>1, LeastElement
  <2>3. QED
    BY <2>2
<1>5. d \in A /\ key[d][1] = key[a][1] /\ key[d][2] = key[b][2] /\ key[d][3] = key[c][3]
  OBVIOUS
<1>6. ASSUME NEW t \in A
      PROVE  LexLE(key[d], key[t])
  <2>1. CASE t \notin B
    BY <1>1, <1>5, <2>1 DEF LexLE
  <2>2. CASE t \in B /\ t \notin C
    <3>1. key[d][1] = key[t][1] /\ key[d][2] <= key[t][2] /\ key[d][2] # key[t][2]
      BY <1>2, <1>5, <2>2
    <3>2. key[d][2] < key[t][2]
      BY <3>1, <1>5
    <3>3. QED
      BY <3>1, <3>2 DEF LexLE
  <2>3. CASE t \in C /\ t \notin D
    <3>1. /\ key[d][1] = key[t][1] /\ key[d][2] = key[t][2]
          /\ key[d][3] <= key[t][3] /\ key[d][3] # key[t][3]
      BY <1>3, <1>5, <2>3
    <3>2. key[d][3] < key[t][3]
      BY <3>1, <1>5
    <3>3. QED
      BY <3>1, <3>2 DEF LexLE
  <2>4. CASE t \in D
    BY <1>4, <1>5, <2>4 DEF LexLE
  <2>5. QED
    BY <2>1, <2>2, <2>3, <2>4
<1>7. QED
  BY <1>5, <1>6 DEF Least

-----------------------------------------------------------------------------
(***************************************************************************)
(* The searches of the interface index.                                    *)
(***************************************************************************)
LEMMA RefFacts ==
  ASSUME NEW n \in DOMAIN Inventories, NEW r \in Refs(Inventories[n])
  PROVE  /\ r = <<r[1], r[2]>>
         /\ r[1] \in DOMAIN Inventories[n] /\ r[1] \in Nat \ {0}
         /\ r[2] \in DOMAIN Inventories[n][r[1]].ifaces /\ r[2] \in Nat \ {0}
         /\ Iface(Inventories[n], r) = Inventories[n][r[1]].ifaces[r[2]]
         /\ Iface(Inventories[n], r).name \in Nat
         /\ Inventories[n][r[1]].host \in Nat
         /\ r # NoRef
<1>1. /\ r = <<r[1], r[2]>>
      /\ r[1] \in DOMAIN Inventories[n]
      /\ r[2] \in DOMAIN Inventories[n][r[1]].ifaces
  BY DEF Refs, Ref
<1>2. Iface(Inventories[n], r) = Inventories[n][r[1]].ifaces[r[2]]
  BY DEF Iface
<1>3. DOMAIN Inventories[n][r[1]].ifaces \subseteq Nat \ {0}
  BY <1>1, PathTraceAssumption DEF Lists
<1>4. r[1] \in Nat \ {0} /\ r[2] \in Nat \ {0}
  BY <1>1, <1>3, PathTraceAssumption
<1>5. Iface(Inventories[n], r).name \in Nat /\ Inventories[n][r[1]].host \in Nat
  BY <1>1, <1>2, PathTraceAssumption
<1>6. r # NoRef
  BY <1>1, <1>4 DEF NoRef
<1>7. QED
  BY <1>1, <1>2, <1>4, <1>5, <1>6

LEMMA FirstRefIn ==
  ASSUME NEW n \in DOMAIN Inventories, NEW S, S \subseteq Refs(Inventories[n]), S # {}
  PROVE  FirstRef(Inventories[n], S) \in S
<1> DEFINE inv == Inventories[n]
           key == [r \in S |-> <<inv[r[1]].host, Iface(inv, r).name, r[1], r[2]>>]
<1>1. ASSUME NEW r \in S
      PROVE  /\ inv[r[1]].host \in Nat /\ Iface(inv, r).name \in Nat
             /\ r[1] \in Nat /\ r[2] \in Nat
  BY RefFacts
<1>2. \A r \in S : /\ key[r][1] \in Nat /\ key[r][2] \in Nat
                   /\ key[r][3] \in Nat /\ key[r][4] \in Nat
  BY <1>1
<1>3. DOMAIN key = S /\ FirstRef(inv, S) = Least(key)
  BY DEF FirstRef
<1> HIDE DEF key, inv
<1>4. QED
  BY <1>2, <1>3, LeastFound DEF inv

LEMMA ContainingFound ==
  ASSUME NEW n \in DOMAIN Inventories, NEW addr,
         ContainingInterface(Inventories[n], addr) # NoRef
  PROVE  LET r == ContainingInterface(Inventories[n], addr)
         IN  r \in Refs(Inventories[n]) /\ addr \in Iface(Inventories[n], r).net
<1> DEFINE S == {r \in Refs(Inventories[n]) : addr \in Iface(Inventories[n], r).net}
<1>1. S # {} /\ ContainingInterface(Inventories[n], addr) = FirstRef(Inventories[n], S)
  BY DEF ContainingInterface
<1>2. FirstRef(Inventories[n], S) \in S
  BY <1>1, FirstRefIn
<1>3. QED
  BY <1>1, <1>2

\* The next hop is resolved to another device; by a subnet only if no other
\* device owns the address.
LEMMA NextHopFound ==
  ASSUME NEW n \in DOMAIN Inventories, NEW cur, NEW next,
         ResolveNextHop(Inventories[n], cur, next) # NoRef
  PROVE  LET inv == Inventories[n]
             r   == ResolveNextHop(inv, cur, next)
         IN  /\ r \in Refs(inv) /\ r[1] # cur
             /\ \/ Iface(inv, r).net # {} /\ Iface(inv, r).addr = next
                \/ /\ next \in Iface(inv, r).net
                   /\ \A q \in Refs(inv) : q[1] # cur =>
                        ~(Iface(inv, q).net # {} /\ Iface(inv, q).addr = next)
<1> DEFINE inv    == Inventories[n]
           others == {r \in Refs(inv) : r[1] # cur}
           owners == {r \in others : Iface(inv, r).net # {} /\ Iface(inv, r).addr = next}
           nets   == {r \in others : next \in Iface(inv, r).net}
<1>1. CASE owners # {}
  <2>1. ResolveNextHop(inv, cur, next) = FirstRef(inv, owners)
    BY <1>1 DEF ResolveNextHop
  <2>2. FirstRef(inv, owners) \in owners
    BY <1>1, FirstRefIn
  <2>3. QED
    BY <2>1, <2>2
<1>2. CASE owners = {}
  <2>1. nets # {} /\ ResolveNextHop(inv, cur, next) = FirstRef(inv, nets)
    BY <1>2 DEF ResolveNextHop
  <2>2. FirstRef(inv, nets) \in nets
    BY <2>1, FirstRefIn
  <2>3. QED
    BY <1>2, <2>1, <2>2
<1>3. QED
  BY <1>1, <1>2

-----------------------------------------------------------------------------
(***************************************************************************)
(* The searches of one device's lists.                                     *)
(***************************************************************************)
LEMMA ListPlaces ==
  ASSUME NEW n \in DOMAIN Inventories, NEW d \in DOMAIN Inventories[n],
         NEW list \in Lists(Inventories[n][d]), NEW S, S \subseteq DOMAIN list
  PROVE  /\ FirstOf(S) \in Nat
         /\ FirstOf(S) = 0 <=> S = {}
         /\ S # {} => FirstOf(S) \in S /\ \A j \in S : FirstOf(S) <= j
         /\ \A j \in S : j \in Nat
<1>1. S \subseteq Nat \ {0}
  BY PathTraceAssumption
<1>2. QED
  BY <1>1, FirstOfFound

LEMMA RouteFound ==
  ASSUME NEW n \in DOMAIN Inventories, NEW d \in DOMAIN Inventories[n], NEW dst
  PROVE  LET dev    == Inventories[n][d]
             best   == LongestPrefixRoute(dev, dst)
             Covers == {i \in DOMAIN dev.routes : dst \in dev.routes[i].dest}
         IN  /\ best \in Nat
             /\ best # 0 => /\ best \in Covers
                            /\ \A i \in Covers :
                                 \/ dev.routes[i].bits < dev.routes[best].bits
                                 \/ /\ dev.routes[i].bits = dev.routes[best].bits
                                    /\ dev.routes[i].ad >= dev.routes[best].ad
<1> DEFINE dev    == Inventories[n][d]
           best   == LongestPrefixRoute(dev, dst)
           Covers == {i \in DOMAIN dev.routes : dst \in dev.routes[i].dest}
           key    == [i \in Covers |-> <<32 - dev.routes[i].bits, dev.routes[i].ad, i, 0>>]
<1>1. CASE Covers = {}
  BY <1>1 DEF LongestPrefixRoute
<1>2. CASE Covers # {}
  <2>1. best = Least(key)
    BY <1>2 DEF LongestPrefixRoute
  <2>2. ASSUME NEW i \in Covers
        PROVE  /\ i \in Nat \ {0} /\ dev.routes[i].bits \in 0..32 /\ dev.routes[i].ad \in Nat
               /\ key[i][1] = 32 - dev.routes[i].bits /\ key[i][2] = dev.routes[i].ad
               /\ key[i][3] = i /\ key[i][4] = 0
    <3>1. dev.routes \in Lists(dev)
      BY DEF Lists
    <3>2. i \in Nat \ {0}
      BY <3>1, PathTraceAssumption
    <3>3. dev.routes[i].bits \in 0..32 /\ dev.routes[i].ad \in Nat
      BY PathTraceAssumption
    <3>4. QED
      BY <3>2, <3>3
  <2>3. DOMAIN key = Covers
    OBVIOUS
  <2> HIDE DEF key
  <2>4. ASSUME NEW i \in Covers
        PROVE  key[i][1] \in Nat /\ key[i][2] \in Nat /\ key[i][3] \in Nat /\ key[i][4] \in Nat
    BY <2>2
  <2>5. Least(key) \in Covers /\ \A i \in Covers : LexLE(key[Least(key)], key[i])
    BY <1>2, <2>3, <2>4, LeastFound
  <2>6. best \in Covers /\ \A i \in Covers : LexLE(key[best], key[i])
    BY <2>1, <2>5
  <2> HIDE DEF best, Covers, dev
  <2>7. ASSUME NEW i \in Covers
        PROVE  \/ dev.routes[i].bits < dev.routes[best].bits
               \/ /\ dev.routes[i].bits = dev.routes[best].bits
                  /\ dev.routes[i].ad >= dev.routes[best].ad
    <3>1. /\ key[best][1] = 32 - dev.routes[best].bits /\ key[best][2] = dev.routes[best].ad
          /\ dev.routes[best].bits \in Int /\ dev.routes[best].ad \in Int
      BY <2>2, <2>6
    <3>2. /\ key[i][1] = 32 - dev.routes[i].bits /\ key[i][2] = dev.routes[i].ad
          /\ dev.routes[i].bits \in Int /\ dev.routes[i].ad \in Int
      BY <2>2
    <3>3. \/ key[best][1] < key[i][1]
          \/ key[best][1] = key[i][1] /\ (key[best][2] < key[i][2] \/ key[best][2] = key[i][2])
      BY <2>6 DEF LexLE
    <3>4. QED
      BY <3>1, <3>2, <3>3
  <2>8. QED
    BY <2>2, <2>6, <2>7 DEF best, Covers, dev
<1>3. QED
  BY <1>1, <1>2

-----------------------------------------------------------------------------
(***************************************************************************)
(* The types.                                                              *)
(***************************************************************************)

\* What a step that searches the current device finds is in its lists.
LEMMA DeviceFacts ==
  ASSUME PathTypeOK, current \in DOMAIN inventory
  PROVE  /\ Acl \in Nat /\ Local \in Nat /\ Route \in Nat /\ Policy \in Nat
         /\ Acl # 0 => Acl \in DOMAIN Dev.acls
         /\ Local # 0 => Local \in DOMAIN Dev.ifaces /\ flow.dst \in Dev.ifaces[Local].net
         /\ Local = 0 => \A i \in DOMAIN Dev.ifaces : flow.dst \notin Dev.ifaces[i].net
         /\ Route # 0 => Route \in DOMAIN Dev.routes
         /\ Policy # 0 => Policy \in DOMAIN Dev.policies
<1>1. /\ Dev.acls \in Lists(Dev) /\ Dev.ifaces \in Lists(Dev)
      /\ Dev.policies \in Lists(Dev)
  BY DEF Lists
<1>2. net \in DOMAIN Inventories /\ Dev = Inventories[net][current]
      /\ current \in DOMAIN Inventories[net]
  BY DEF PathTypeOK, Dev, inventory
<1>3. Acl \in Nat /\ (Acl # 0 => Acl \in DOMAIN Dev.acls)
  BY <1>1, <1>2, ListPlaces DEF Acl, FirstACLMatch
<1>4. /\ Local \in Nat
      /\ Local # 0 => Local \in DOMAIN Dev.ifaces /\ flow.dst \in Dev.ifaces[Local].net
      /\ Local = 0 => \A i \in DOMAIN Dev.ifaces : flow.dst \notin Dev.ifaces[i].net
  <2> DEFINE S == {i \in DOMAIN Dev.ifaces : flow.dst \in Dev.ifaces[i].net}
  <2>1. /\ FirstOf(S) \in Nat /\ (FirstOf(S) = 0 <=> S = {})
        /\ S # {} => FirstOf(S) \in S
    BY <1>1, <1>2, ListPlaces
  <2>2. Local = FirstOf(S)
    BY DEF Local, DeviceContainsDst
  <2>3. QED
    BY <2>1, <2>2
<1>5. Route \in Nat /\ (Route # 0 => Route \in DOMAIN Dev.routes)
  BY <1>2, RouteFound DEF Route
<1>6. Policy \in Nat /\ (Policy # 0 => Policy \in DOMAIN Dev.policies)
  BY <1>1, <1>2, ListPlaces DEF Policy, FirstPolicy
<1>7. QED
  BY <1>3, <1>4, <1>5, <1>6

LEMMA HopTypes ==
  ASSUME PathTypeOK, current \in DOMAIN inventory
  PROVE  /\ EmptyHop \in Hop(inventory, flow.dst)
         /\ Local # 0 \/ Route # 0 => ExitHop \in Hop(inventory, flow.dst)
<1>1. /\ Acl \in Nat /\ Local \in Nat /\ Route \in Nat /\ Policy \in Nat
      /\ Local # 0 => Local \in DOMAIN Dev.ifaces
      /\ Route # 0 => Route \in DOMAIN Dev.routes
  BY DeviceFacts
<1>2. /\ net \in DOMAIN Inventories /\ Dev = Inventories[net][current]
      /\ current \in DOMAIN Inventories[net] /\ inventory = Inventories[net]
      /\ ingress \in Nat
  BY DEF PathTypeOK, Dev, inventory
<1>3. EmptyHop \in Hop(inventory, flow.dst)
  BY <1>1, <1>2 DEF EmptyHop, Hop, NoName, NextHops
<1>4. ASSUME Local # 0 \/ Route # 0
      PROVE  ExitHop \in Hop(inventory, flow.dst)
  <2>1. \A i \in DOMAIN Dev.ifaces : Dev.ifaces[i].name \in Nat
    BY <1>2, PathTraceAssumption
  <2>2. Egress \in Nat
    <3>1. CASE Local # 0
      BY <1>1, <2>1, <3>1 DEF Egress
    <3>2. CASE Local = 0
      <4> DEFINE S == {j \in DOMAIN Dev.ifaces : Dev.routes[Route].via \in Dev.ifaces[j].net}
      <4>1. Dev.routes[Route].iface \in Nat
        BY <1>1, <1>2, <1>4, <3>2, PathTraceAssumption
      <4>2. Dev.ifaces \in Lists(Dev)
        BY DEF Lists
      <4>3. FirstOf(S) # 0 => FirstOf(S) \in DOMAIN Dev.ifaces
        BY <1>2, <4>2, ListPlaces
      <4>4. Egress = IF Dev.routes[Route].iface # NoName THEN Dev.routes[Route].iface
                     ELSE IF FirstOf(S) = 0 THEN NoName ELSE Dev.ifaces[FirstOf(S)].name
        BY <3>2 DEF Egress, EgressInterface
      <4>5. QED
        BY <2>1, <4>1, <4>3, <4>4 DEF NoName
    <3>3. QED
      BY <3>1, <3>2
  <2>3. NextHop \in NextHops(inventory, flow.dst)
    BY <1>1, <1>2, <1>4 DEF NextHop, NextHops
  <2>4. FirstNAT(Dev, From, To) \in Nat
    <3>1. Dev.nats \in Lists(Dev)
      BY DEF Lists
    <3>2. QED
      BY <1>2, <3>1, ListPlaces DEF FirstNAT
  <2>5. QED
    BY <1>1, <1>2, <2>2, <2>3, <2>4 DEF ExitHop, Hop
<1>5. QED
  BY <1>3, <1>4

LEMMA TypeStep ==
  ASSUME PathTypeOK, [PathNext]_pathVars
  PROVE  PathTypeOK'
<1>0. /\ pc \in {"start", "hop", "done", "error"} /\ net \in DOMAIN Inventories
      /\ flow \in Flows /\ (pc = "hop" => current \in DOMAIN inventory) /\ ingress \in Nat
      /\ visited \subseteq DOMAIN inventory /\ verdict \in Verdicts
      /\ hops \in Seq(Hop(inventory, flow.dst))
      /\ reason \in {"none", "device", "acl", "policy", "route", "iface"} \X Nat \X Nat
  BY DEF PathTypeOK
<1>1. /\ net' = net => inventory' = inventory
      /\ net' = net /\ flow' = flow =>
           Hop(inventory, flow.dst)' = Hop(inventory, flow.dst)
  <2>1. net' = net => inventory' = inventory
    BY DEF inventory
  <2>2. ASSUME net' = net, flow' = flow
        PROVE  Hop(inventory', flow'.dst) = Hop(inventory, flow.dst)
    BY <2>1, <2>2
  <2>3. QED
    BY <2>1, <2>2
<1>2. DOMAIN inventory \subseteq Nat
  BY <1>0, PathTraceAssumption DEF inventory
<1>3. CASE RefuseFlow
  BY <1>0, <1>1, <1>3 DEF RefuseFlow, PathTypeOK
<1>4. CASE NoSource
  BY <1>0, <1>1, <1>4 DEF NoSource, Conclude, PathTypeOK, Verdicts, NoReason
<1>5. CASE Begin
  <2> DEFINE start == ContainingInterface(inventory, flow.src)
  <2>1. start \in Refs(inventory) /\ inventory = Inventories[net]
    BY <1>0, <1>5, ContainingFound DEF Begin, inventory
  <2>2. start[1] \in DOMAIN inventory /\ Iface(inventory, start).name \in Nat
    BY <1>0, <2>1, RefFacts
  <2>3. QED
    BY <1>0, <1>1, <1>5, <2>2 DEF Begin, PathTypeOK
<1>6. CASE TooManyHops
  <2>1. Len(hops) \in DOMAIN hops
    BY <1>0, <1>6, PathTraceAssumption DEF TooManyHops
  <2>2. hops[Len(hops)] \in Hop(inventory, flow.dst)
    BY <1>0, <2>1
  <2>3. hops[Len(hops)].device \in Nat /\ hops[Len(hops)].route \in Nat
    BY <1>2, <2>2 DEF Hop
  <2>4. QED
    BY <1>0, <1>1, <1>6, <2>3 DEF TooManyHops, Conclude, PathTypeOK, Verdicts
<1>7. CASE Revisit
  BY <1>0, <1>1, <1>2, <1>7 DEF Revisit, Conclude, PathTypeOK, Verdicts
<1>8. ASSUME Visit
      PROVE  /\ current \in Nat /\ Acl \in Nat /\ Local \in Nat /\ Route \in Nat
             /\ Policy \in Nat /\ EmptyHop \in Hop(inventory, flow.dst)
             /\ Local # 0 \/ Route # 0 => ExitHop \in Hop(inventory, flow.dst)
             /\ visited' \subseteq DOMAIN inventory
  <2>1. current \in DOMAIN inventory
    BY <1>0, <1>8 DEF Visit
  <2>2. QED
    BY <1>0, <1>2, <1>8, <2>1, DeviceFacts, HopTypes DEF Visit
<1>9. CASE DropACL
  <2>1. Append(hops, EmptyHop) \in Seq(Hop(inventory, flow.dst))
    BY <1>0, <1>8, <1>9 DEF DropACL
  <2>2. QED
    BY <1>0, <1>1, <1>8, <1>9, <2>1 DEF DropACL, Conclude, PathTypeOK, Verdicts
<1>10. CASE NoRoute
  <2>1. Append(hops, EmptyHop) \in Seq(Hop(inventory, flow.dst))
    BY <1>0, <1>8, <1>10 DEF NoRoute
  <2>2. QED
    BY <1>0, <1>1, <1>8, <1>10, <2>1 DEF NoRoute, Conclude, PathTypeOK, Verdicts
<1>11. CASE DropPolicy
  <2>1. Append(hops, ExitHop) \in Seq(Hop(inventory, flow.dst))
    BY <1>0, <1>8, <1>11 DEF DropPolicy
  <2>2. QED
    BY <1>0, <1>1, <1>8, <1>11, <2>1 DEF DropPolicy, Conclude, PathTypeOK, Verdicts
<1>12. CASE Deliver
  <2>1. Append(hops, ExitHop) \in Seq(Hop(inventory, flow.dst))
    BY <1>0, <1>8, <1>12 DEF Deliver
  <2>2. QED
    BY <1>0, <1>1, <1>8, <1>12, <2>1 DEF Deliver, Conclude, PathTypeOK, Verdicts
<1>13. CASE Unresolved
  <2>1. Append(hops, ExitHop) \in Seq(Hop(inventory, flow.dst))
    BY <1>0, <1>8, <1>13 DEF Unresolved, Leaves
  <2>2. QED
    BY <1>0, <1>1, <1>8, <1>13, <2>1 DEF Unresolved, Leaves, Conclude, PathTypeOK, Verdicts
<1>14. CASE Forward
  <2>1. Append(hops, ExitHop) \in Seq(Hop(inventory, flow.dst))
    BY <1>0, <1>8, <1>14 DEF Forward, Leaves
  <2>2. Next \in Refs(inventory) /\ inventory = Inventories[net]
    BY <1>0, <1>14, NextHopFound DEF Forward, Next, inventory
  <2>3. Next[1] \in DOMAIN inventory /\ Iface(inventory, Next).name \in Nat
    BY <1>0, <2>2, RefFacts
  <2>4. QED
    BY <1>0, <1>1, <1>8, <1>14, <2>1, <2>3 DEF Forward, Leaves, PathTypeOK
<1>15. CASE UNCHANGED pathVars
  BY <1>0, <1>1, <1>15 DEF pathVars, PathTypeOK
<1>16. QED
  BY <1>3, <1>4, <1>5, <1>6, <1>7, <1>9, <1>10, <1>11, <1>12, <1>13, <1>14, <1>15 DEF PathNext

\* PathTypeOK is an invariant: every place a hop or a reason names is a place in
\* the inventory's lists or 0, and the current device is one of the inventory.
THEOREM PathTypeCorrect == PathSpec => []PathTypeOK
<1>1. ASSUME PathInit
      PROVE  PathTypeOK
  BY <1>1 DEF PathInit, PathTypeOK, NoName, Verdicts, NoReason
<1>2. QED
  BY <1>1, TypeStep, PTL DEF PathSpec

-----------------------------------------------------------------------------
(***************************************************************************)
(* What one visit establishes.                                             *)
(***************************************************************************)
LEMMA PassLetsThrough ==
  ASSUME PathTypeOK, current \in DOMAIN inventory, ~AclDenies, ~PolicyDrops
  PROVE  LetsThrough(inventory, flow, ExitHop)
<1>1. /\ net \in DOMAIN Inventories /\ Dev = Inventories[net][current]
      /\ current \in DOMAIN Inventories[net] /\ Dev = inventory[current]
  BY DEF PathTypeOK, Dev, inventory
<1>2. Permits(Dev, flow)
  <2> DEFINE S == {i \in DOMAIN Dev.acls : AclEntryMatches(Dev.acls[i], flow)}
  <2>1. Dev.acls \in Lists(Dev)
    BY DEF Lists
  <2>2. /\ S # {} => Acl \in S /\ \A j \in S : Acl <= j
        /\ Acl = 0 <=> S = {}
        /\ \A j \in S : j \in Nat
    BY <1>1, <2>1, ListPlaces DEF Acl, FirstACLMatch
  <2>3. ASSUME NEW i \in S, Dev.acls[i].deny
        PROVE  \E j \in S : j < i /\ ~Dev.acls[j].deny
    <3>1. Acl \in S /\ Acl <= i /\ Acl # 0 /\ Acl \in Nat /\ i \in Nat
      BY <2>2, <2>3
    <3>2. ~Dev.acls[Acl].deny
      BY <3>1 DEF AclDenies
    <3>3. Acl # i
      BY <2>3, <3>2
    <3>4. QED
      BY <3>1, <3>2, <3>3
  <2>4. QED
    BY <2>3 DEF Permits
<1>3. Allows(Dev, From, To, flow)
  <2> DEFINE S == {i \in DOMAIN Dev.policies : Applies(Dev.policies[i], From, To, flow)}
  <2>1. CASE Dev.policies = << >>
    BY <2>1 DEF Allows
  <2>2. CASE Dev.policies # << >>
    <3>1. Policy # 0 /\ ~Dev.policies[Policy].deny
      BY <2>2 DEF PolicyDrops
    <3>2. Policy = FirstOf(S)
      BY DEF Policy, FirstPolicy, Applies
    <3>3. Dev.policies \in Lists(Dev)
      BY DEF Lists
    <3>4. Policy \in S /\ (\A j \in S : Policy <= j) /\ (\A j \in S : j \in Nat)
      BY <1>1, <3>1, <3>2, <3>3, ListPlaces
    <3>5. ASSUME NEW j \in DOMAIN Dev.policies, j < Policy
          PROVE  ~Applies(Dev.policies[j], From, To, flow)
      BY <3>4, <3>5
    <3>6. QED
      BY <3>1, <3>4, <3>5 DEF Allows
  <2>3. QED
    BY <2>1, <2>2
<1>4. /\ ExitHop.device = current /\ ExitHop.ingress = ingress /\ ExitHop.egress = Egress
  BY DEF ExitHop
<1>5. QED
  BY <1>1, <1>2, <1>3, <1>4 DEF LetsThrough, From, To

LEMMA RouteIsBest ==
  ASSUME PathTypeOK, current \in DOMAIN inventory, Local = 0, Route # 0
  PROVE  TakesBestRoute(inventory, flow, ExitHop)
<1>1. /\ net \in DOMAIN Inventories /\ Dev = Inventories[net][current]
      /\ current \in DOMAIN Inventories[net] /\ Dev = inventory[current]
  BY DEF PathTypeOK, Dev, inventory
<1>2. \A i \in DOMAIN Dev.ifaces : flow.dst \notin Dev.ifaces[i].net
  BY DeviceFacts
<1> DEFINE Covers(dev) == {i \in DOMAIN dev.routes : flow.dst \in dev.routes[i].dest}
<1>3. /\ Route \in Covers(Dev)
      /\ \A i \in Covers(Dev) :
           \/ Dev.routes[i].bits < Dev.routes[Route].bits
           \/ /\ Dev.routes[i].bits = Dev.routes[Route].bits
              /\ Dev.routes[i].ad >= Dev.routes[Route].ad
  <2> DEFINE dev == Inventories[net][current]
  <2>1. Route = LongestPrefixRoute(dev, flow.dst) /\ Route # 0
    BY <1>1 DEF Route
  <2>2. LET best == LongestPrefixRoute(dev, flow.dst)
        IN  best # 0 => /\ best \in Covers(dev)
                        /\ \A i \in Covers(dev) :
                             \/ dev.routes[i].bits < dev.routes[best].bits
                             \/ /\ dev.routes[i].bits = dev.routes[best].bits
                                /\ dev.routes[i].ad >= dev.routes[best].ad
    BY <1>1, RouteFound
  <2>3. QED
    BY <1>1, <2>1, <2>2
<1>4. ExitHop.device = current /\ ExitHop.route = Route
  BY DEF ExitHop
<1>5. QED
  BY <1>1, <1>2, <1>3, <1>4 DEF TakesBestRoute

LEMMA HandedOn ==
  ASSUME PathTypeOK, Next # NoRef
  PROVE  Reaches(inventory, ExitHop, Next[1], Iface(inventory, Next).name)
<1>1. net \in DOMAIN Inventories /\ inventory = Inventories[net]
  BY DEF PathTypeOK, inventory
<1>2. /\ Next \in Refs(inventory) /\ Next[1] # current
      /\ \/ Iface(inventory, Next).net # {} /\ Iface(inventory, Next).addr = NextHop
         \/ /\ NextHop \in Iface(inventory, Next).net
            /\ \A q \in Refs(inventory) : q[1] # current =>
                 ~(Iface(inventory, q).net # {} /\ Iface(inventory, q).addr = NextHop)
  BY <1>1, NextHopFound DEF Next
<1>3. /\ Next[1] \in DOMAIN inventory /\ Next[2] \in DOMAIN inventory[Next[1]].ifaces
      /\ Iface(inventory, Next) = inventory[Next[1]].ifaces[Next[2]]
  BY <1>1, <1>2, RefFacts
<1>4. ASSUME NEW d \in DOMAIN inventory, d # current, Owns(inventory, d, NextHop)
      PROVE  \E q \in Refs(inventory) : q[1] # current
               /\ Iface(inventory, q).net # {} /\ Iface(inventory, q).addr = NextHop
  <2>1. PICK i \in DOMAIN inventory[d].ifaces :
          inventory[d].ifaces[i].net # {} /\ inventory[d].ifaces[i].addr = NextHop
    BY <1>4 DEF Owns
  <2>2. <<d, i>> \in Ref(inventory)
    BY DEF Ref
  <2>3. <<d, i>> \in Refs(inventory)
    BY <2>1, <2>2 DEF Refs
  <2>4. QED
    BY <1>4, <2>1, <2>3 DEF Iface
<1>5. ExitHop.device = current /\ ExitHop.next = NextHop
  BY DEF ExitHop
<1>6. QED
  BY <1>2, <1>3, <1>4, <1>5 DEF Reaches

-----------------------------------------------------------------------------
(***************************************************************************)
(* The path so far. A step concludes without a new hop, concludes with one *)
(* or goes on with one; a new hop is on a device not visited before.       *)
(***************************************************************************)
PathInv == PathTypeOK /\ OnTheWay /\ NoDeviceTwice /\ HopsJustified /\ DeliveredArrives

LEMMA NoNewHop ==
  ASSUME PathInv, UNCHANGED <<net, flow, hops, visited>>, pc' # "start", pc' # "hop",
         verdict' # "delivered"
  PROVE  (OnTheWay /\ NoDeviceTwice /\ HopsJustified /\ DeliveredArrives)'
<1>1. inventory' = inventory
  BY DEF inventory
<1>2. /\ OnTheWay /\ NoDeviceTwice /\ HopsJustified
  BY DEF PathInv
<1>3. NoDeviceTwice'
  BY <1>2 DEF NoDeviceTwice
<1>4. HopsJustified'
  BY <1>1, <1>2 DEF HopsJustified
<1>5. DeliveredArrives'
  BY DEF DeliveredArrives
<1>6. OnTheWay'
  BY <1>2 DEF OnTheWay
<1>7. QED
  BY <1>3, <1>4, <1>5, <1>6

LEMMA NewHop ==
  ASSUME PathInv, Visit, NEW h \in Hop(inventory, flow.dst), h.device = current,
         h.ingress = ingress, hops' = Append(hops, h), net' = net, flow' = flow,
         pc' # "start",
         pc' = "hop" \/ verdict' = "delivered" => LetsThrough(inventory, flow, h),
         pc' = "hop" => /\ TakesBestRoute(inventory, flow, h)
                        /\ Reaches(inventory, h, current', ingress'),
         verdict' = "delivered" => /\ pc' = "done"
                                   /\ Connected(inventory, current, h.egress, flow.dst)
  PROVE  (OnTheWay /\ NoDeviceTwice /\ HopsJustified /\ DeliveredArrives)'
<1>1. inventory' = inventory
  BY DEF inventory
<1>2. /\ pc = "hop" /\ Len(hops) < MaxHops /\ current \notin visited
      /\ visited' = visited \cup {current}
  BY DEF Visit
<1>3. hops \in Seq(Hop(inventory, flow.dst)) /\ Len(hops) \in Nat /\ MaxHops \in Nat
  BY PathTraceAssumption DEF PathInv, PathTypeOK
<1>4. /\ Len(hops') = Len(hops) + 1 /\ DOMAIN hops' = 1..(Len(hops) + 1)
      /\ DOMAIN hops = 1..Len(hops)
      /\ \A n \in DOMAIN hops : hops'[n] = hops[n]
      /\ hops'[Len(hops) + 1] = h
      /\ hops' # << >>
  BY <1>3
<1>5. /\ \A n \in DOMAIN hops : hops[n].device \in visited
      /\ hops = << >> => Connected(inventory, current, ingress, flow.src)
      /\ hops # << >> => /\ LetsThrough(inventory, flow, hops[Len(hops)])
                         /\ TakesBestRoute(inventory, flow, hops[Len(hops)])
                         /\ Reaches(inventory, hops[Len(hops)], current, ingress)
  BY <1>2 DEF PathInv, OnTheWay
<1>6. NoDeviceTwice'
  <2>1. ASSUME NEW m \in DOMAIN hops', NEW n \in DOMAIN hops', m # n
        PROVE  hops'[m].device # hops'[n].device
    <3>1. CASE m \in DOMAIN hops /\ n \in DOMAIN hops
      BY <1>4, <2>1, <3>1 DEF PathInv, NoDeviceTwice
    <3>2. CASE m = Len(hops) + 1 /\ n \in DOMAIN hops
      BY <1>2, <1>4, <1>5, <3>2
    <3>3. CASE m \in DOMAIN hops /\ n = Len(hops) + 1
      BY <1>2, <1>4, <1>5, <3>3
    <3>4. QED
      BY <1>3, <1>4, <2>1, <3>1, <3>2, <3>3
  <2>2. Len(hops') <= MaxHops
    BY <1>2, <1>3, <1>4
  <2>3. QED
    BY <2>1, <2>2 DEF NoDeviceTwice
<1>7. HopsJustified'
  <2>1. Connected(inventory, hops'[1].device, hops'[1].ingress, flow.src)
    <3>1. CASE hops = << >>
      BY <1>3, <1>4, <1>5, <3>1
    <3>2. CASE hops # << >>
      <4>1. 1 \in DOMAIN hops
        BY <1>3, <1>4, <3>2
      <4>2. QED
        BY <1>4, <3>2, <4>1 DEF PathInv, HopsJustified
    <3>3. QED
      BY <3>1, <3>2
  <2>2. ASSUME NEW n \in DOMAIN hops', n + 1 \in DOMAIN hops'
        PROVE  /\ LetsThrough(inventory, flow, hops'[n])
               /\ TakesBestRoute(inventory, flow, hops'[n])
               /\ Reaches(inventory, hops'[n], hops'[n + 1].device, hops'[n + 1].ingress)
    <3>1. n \in DOMAIN hops /\ hops'[n] = hops[n] /\ (n + 1 \in DOMAIN hops \/ n = Len(hops))
      BY <1>3, <1>4, <2>2
    <3>2. CASE n + 1 \in DOMAIN hops
      BY <1>4, <3>1, <3>2 DEF PathInv, HopsJustified
    <3>3. CASE n = Len(hops)
      <4>1. hops # << >> /\ hops'[n + 1] = h
        BY <1>3, <1>4, <3>1, <3>3
      <4>2. QED
        BY <1>5, <3>1, <3>3, <4>1
    <3>4. QED
      BY <3>1, <3>2, <3>3
  <2>3. QED
    BY <1>1, <2>1, <2>2 DEF HopsJustified
<1>8. DeliveredArrives'
  BY <1>1, <1>4 DEF DeliveredArrives
<1>9. OnTheWay'
  <2>1. \A n \in DOMAIN hops' : hops'[n].device \in visited'
    BY <1>2, <1>3, <1>4, <1>5
  <2>2. QED
    BY <1>1, <1>4, <2>1 DEF OnTheWay
<1>10. QED
  BY <1>6, <1>7, <1>8, <1>9

LEMMA PathInvInit == PathInit => PathInv
<1> SUFFICES ASSUME PathInit
             PROVE  PathInv
  OBVIOUS
<1>1. PathTypeOK
  BY DEF PathInit, PathTypeOK, NoName, Verdicts, NoReason
<1>2. Len(hops) = 0 /\ DOMAIN hops = {} /\ MaxHops \in Nat
  BY PathTraceAssumption DEF PathInit
<1>3. NoDeviceTwice
  BY <1>2 DEF NoDeviceTwice
<1>4. OnTheWay /\ HopsJustified /\ DeliveredArrives
  BY <1>2 DEF PathInit, OnTheWay, HopsJustified, DeliveredArrives
<1>5. QED
  BY <1>1, <1>3, <1>4 DEF PathInv

LEMMA PathInvStep ==
  ASSUME PathInv, [PathNext]_pathVars
  PROVE  PathInv'
<1>0. PathTypeOK /\ PathTypeOK'
  BY TypeStep DEF PathInv
<1> SUFFICES (OnTheWay /\ NoDeviceTwice /\ HopsJustified /\ DeliveredArrives)'
  BY <1>0 DEF PathInv
<1>1. CASE RefuseFlow
  <2>1. pc = "start" /\ verdict' = verdict
    BY <1>1 DEF RefuseFlow
  <2>2. verdict' # "delivered"
    BY <2>1 DEF PathInv, OnTheWay
  <2>3. QED
    BY <1>1, <2>2, NoNewHop DEF RefuseFlow
<1>2. CASE NoSource
  BY <1>2, NoNewHop DEF NoSource, Conclude
<1>3. CASE Begin
  <2> DEFINE start == ContainingInterface(inventory, flow.src)
  <2>1. /\ net \in DOMAIN Inventories /\ inventory = Inventories[net] /\ inventory' = inventory
    BY <1>0, <1>3 DEF PathTypeOK, inventory, Begin
  <2>2. start \in Refs(inventory) /\ flow.src \in Iface(inventory, start).net
    BY <1>3, <2>1, ContainingFound DEF Begin
  <2>3. /\ start[1] \in DOMAIN inventory /\ start[2] \in DOMAIN inventory[start[1]].ifaces
        /\ Iface(inventory, start) = inventory[start[1]].ifaces[start[2]]
    BY <2>1, <2>2, RefFacts
  <2>4. Connected(inventory, current', ingress', flow.src)
    BY <1>3, <2>2, <2>3 DEF Begin, Connected
  <2>5. /\ hops = << >> /\ hops' = hops /\ verdict # "delivered" /\ verdict' = verdict
        /\ visited' = visited /\ flow' = flow /\ pc' = "hop" /\ Len(hops) = 0
        /\ DOMAIN hops = {} /\ MaxHops \in Nat
    BY <1>3, PathTraceAssumption DEF Begin, PathInv, OnTheWay
  <2>6. OnTheWay'
    BY <2>1, <2>4, <2>5 DEF OnTheWay
  <2>7. (NoDeviceTwice /\ HopsJustified /\ DeliveredArrives)'
    BY <2>5 DEF NoDeviceTwice, HopsJustified, DeliveredArrives
  <2>8. QED
    BY <2>6, <2>7
<1>4. CASE TooManyHops
  BY <1>4, NoNewHop DEF TooManyHops, Conclude
<1>5. CASE Revisit
  BY <1>5, NoNewHop DEF Revisit, Conclude
<1>6. ASSUME Visit
      PROVE  /\ current \in DOMAIN inventory
             /\ EmptyHop \in Hop(inventory, flow.dst)
             /\ Local # 0 \/ Route # 0 => ExitHop \in Hop(inventory, flow.dst)
             /\ EmptyHop.device = current /\ EmptyHop.ingress = ingress
             /\ ExitHop.device = current /\ ExitHop.ingress = ingress
  <2>1. current \in DOMAIN inventory
    BY <1>0, <1>6 DEF Visit, PathTypeOK
  <2>2. QED
    BY <1>0, <2>1, HopTypes DEF EmptyHop, ExitHop
<1>7. CASE DropACL
  <2>1. Visit /\ pc' = "done" /\ verdict' = "dropped_acl" /\ net' = net /\ flow' = flow
        /\ hops' = Append(hops, EmptyHop)
    BY <1>7 DEF DropACL, Conclude
  <2>2. QED
    BY <1>6, <2>1, NewHop
<1>8. CASE NoRoute
  <2>1. Visit /\ pc' = "done" /\ verdict' = "no_route" /\ net' = net /\ flow' = flow
        /\ hops' = Append(hops, EmptyHop)
    BY <1>8 DEF NoRoute, Conclude
  <2>2. QED
    BY <1>6, <2>1, NewHop
<1>9. CASE DropPolicy
  <2>1. Visit /\ pc' = "done" /\ verdict' = "dropped_policy" /\ net' = net /\ flow' = flow
        /\ hops' = Append(hops, ExitHop) /\ (Local # 0 \/ Route # 0)
    BY <1>9 DEF DropPolicy, Conclude
  <2>2. QED
    BY <1>6, <2>1, NewHop
<1>10. CASE Deliver
  <2>1. Visit /\ pc' = "done" /\ net' = net /\ flow' = flow
        /\ hops' = Append(hops, ExitHop) /\ Local # 0 /\ ~AclDenies /\ ~PolicyDrops
    BY <1>10 DEF Deliver, Conclude
  <2>2. LetsThrough(inventory, flow, ExitHop)
    BY <1>0, <1>6, <2>1, PassLetsThrough
  <2>3. Local \in DOMAIN Dev.ifaces /\ flow.dst \in Dev.ifaces[Local].net
    BY <1>0, <1>6, <2>1, DeviceFacts
  <2>4. Connected(inventory, current, ExitHop.egress, flow.dst)
    BY <2>1, <2>3 DEF Connected, ExitHop, Egress, Dev
  <2>5. QED
    BY <1>6, <2>1, <2>2, <2>4, NewHop
<1>11. CASE Unresolved
  <2>1. Visit /\ pc' = "done" /\ verdict' = "no_route" /\ net' = net /\ flow' = flow
        /\ hops' = Append(hops, ExitHop) /\ Route # 0
    BY <1>11 DEF Unresolved, Leaves, Conclude
  <2>2. QED
    BY <1>6, <2>1, NewHop
<1>12. CASE Forward
  <2>1. Visit /\ net' = net /\ flow' = flow /\ hops' = Append(hops, ExitHop)
        /\ Local = 0 /\ Route # 0 /\ ~AclDenies /\ ~PolicyDrops /\ Next # NoRef
        /\ pc' = "hop" /\ verdict' = verdict
        /\ current' = Next[1] /\ ingress' = Iface(inventory, Next).name
    BY <1>12 DEF Forward, Leaves, Visit
  <2>2. verdict' # "delivered"
    BY <2>1 DEF PathInv, OnTheWay, Visit
  <2>3. LetsThrough(inventory, flow, ExitHop)
    BY <1>0, <1>6, <2>1, PassLetsThrough
  <2>4. TakesBestRoute(inventory, flow, ExitHop)
    BY <1>0, <1>6, <2>1, RouteIsBest
  <2>5. Reaches(inventory, ExitHop, current', ingress')
    BY <1>0, <2>1, HandedOn
  <2>6. QED
    BY <1>6, <2>1, <2>2, <2>3, <2>4, <2>5, NewHop
<1>13. CASE UNCHANGED pathVars
  <2>1. inventory' = inventory
    BY <1>13 DEF pathVars, inventory
  <2>2. QED
    BY <1>13, <2>1 DEF pathVars, PathInv, OnTheWay, NoDeviceTwice, HopsJustified, DeliveredArrives
<1>14. QED
  BY <1>1, <1>2, <1>3, <1>4, <1>5, <1>7, <1>8, <1>9, <1>10, <1>11, <1>12, <1>13 DEF PathNext

LEMMA PathInvariant == PathSpec => []PathInv
<1>1. QED
  BY PathInvInit, PathInvStep, PTL DEF PathSpec

\* A trace visits no device twice and ends within the limit of hops, whatever
\* the routes of the inventory.
THEOREM NeverTwice == PathSpec => []NoDeviceTwice
<1>1. PathInv => NoDeviceTwice
  BY DEF PathInv
<1>2. QED
  BY <1>1, PathInvariant, PTL

\* For every inventory and flow, each hop of a path but the last lets the flow
\* through and sends it, by a best route, into the next one.
THEOREM HopsAlwaysJustified == PathSpec => []HopsJustified
<1>1. PathInv => HopsJustified
  BY DEF PathInv
<1>2. QED
  BY <1>1, PathInvariant, PTL

\* For every inventory and flow, "delivered" ends at a device that lets the flow
\* through to a subnet with the destination.
THEOREM DeliveredAlwaysArrives == PathSpec => []DeliveredArrives
<1>1. PathInv => DeliveredArrives
  BY DEF PathInv
<1>2. QED
  BY <1>1, PathInvariant, PTL

-----------------------------------------------------------------------------
(***************************************************************************)
(* The answer, as a function of the inventory and the flow.                *)
(***************************************************************************)
\* What a device decides of a flow that comes in by an interface: a matching
\* ACL entry, the destination on a subnet, a route, the exit, the policy.
Denied(dev, f)   == LET acl == FirstACLMatch(dev, f) IN acl # 0 /\ dev.acls[acl].deny
LocalTo(dev, f)  == DeviceContainsDst(dev, f.dst)
RouteTo(dev, f)  == LongestPrefixRoute(dev, f.dst)
HasExit(dev, f)  == LocalTo(dev, f) # 0 \/ RouteTo(dev, f) # 0

ExitBy(dev, f) ==
  IF LocalTo(dev, f) # 0 THEN dev.ifaces[LocalTo(dev, f)].name
  ELSE EgressInterface(dev, dev.routes[RouteTo(dev, f)])

ExitTo(dev, f) ==
  IF LocalTo(dev, f) # 0 \/ dev.routes[RouteTo(dev, f)].via = Unset THEN f.dst
  ELSE dev.routes[RouteTo(dev, f)].via

PolicyOn(dev, f, in) ==
  FirstPolicy(dev, ZoneForInterface(dev, in), ZoneForInterface(dev, ExitBy(dev, f)), f)

Dropped(dev, f, in) ==
  dev.policies # << >> /\ (PolicyOn(dev, f, in) # 0 => dev.policies[PolicyOn(dev, f, in)].deny)

\* the hop shown of the device at a place
HopShown(dev, f, in, place) ==
  IF Denied(dev, f) \/ ~HasExit(dev, f)
  THEN [device |-> place, ingress |-> in, acl |-> FirstACLMatch(dev, f), route |-> 0, policy |-> 0,
        nat |-> 0, egress |-> NoName, next |-> Unset]
  ELSE [device |-> place, ingress |-> in, acl |-> FirstACLMatch(dev, f),
        route |-> IF LocalTo(dev, f) # 0 THEN 0 ELSE RouteTo(dev, f),
        policy |-> PolicyOn(dev, f, in),
        nat |-> IF Dropped(dev, f, in) THEN 0
                ELSE FirstNAT(dev, ZoneForInterface(dev, in),
                              ZoneForInterface(dev, ExitBy(dev, f))),
        egress |-> ExitBy(dev, f), next |-> ExitTo(dev, f)]

\* the device passes the flow on along a route, and to whom
PassesOn(dev, f, in) ==
  ~Denied(dev, f) /\ LocalTo(dev, f) = 0 /\ RouteTo(dev, f) # 0 /\ ~Dropped(dev, f, in)

Receiver(inv, f, h) == ResolveNextHop(inv, h.device, ExitTo(inv[h.device], f))
GoesOn(inv, f, h)   == PassesOn(inv[h.device], f, h.ingress) /\ Receiver(inv, f, h) # NoRef

\* how a trace ends at a device the flow does not go on from
EndVerdict(dev, f, in) ==
  IF Denied(dev, f) THEN "dropped_acl"
  ELSE IF ~HasExit(dev, f) THEN "no_route"
  ELSE IF Dropped(dev, f, in) THEN "dropped_policy"
  ELSE IF LocalTo(dev, f) # 0 THEN "delivered" ELSE "no_route"

EndReason(dev, f, in, place) ==
  IF Denied(dev, f) THEN <<"acl", place, FirstACLMatch(dev, f)>>
  ELSE IF ~HasExit(dev, f) THEN <<"device", place, 0>>
  ELSE IF Dropped(dev, f, in)
       THEN IF PolicyOn(dev, f, in) = 0 THEN <<"device", place, 0>>
            ELSE <<"policy", place, PolicyOn(dev, f, in)>>
  ELSE IF LocalTo(dev, f) # 0 THEN <<"iface", place, LocalTo(dev, f)>>
  ELSE <<"route", place, RouteTo(dev, f)>>

EntersAt(inv, r, device, iface) == r # NoRef /\ device = r[1] /\ iface = Iface(inv, r).name

\* the hops a flow takes, from the interface of its source on
Way(inv, f, hs) ==
  /\ Len(hs) <= MaxHops
  /\ \A m, n \in DOMAIN hs : m # n => hs[m].device # hs[n].device
  /\ \A n \in DOMAIN hs :
       /\ hs[n].device \in DOMAIN inv
       /\ hs[n] = HopShown(inv[hs[n].device], f, hs[n].ingress, hs[n].device)
  /\ hs # << >> => EntersAt(inv, ContainingInterface(inv, f.src), hs[1].device, hs[1].ingress)
  /\ \A n \in DOMAIN hs : n + 1 \in DOMAIN hs =>
       /\ PassesOn(inv[hs[n].device], f, hs[n].ingress)
       /\ EntersAt(inv, Receiver(inv, f, hs[n]), hs[n + 1].device, hs[n + 1].ingress)

\* where it is after them
Arrived(inv, f, hs, device, iface) ==
  IF hs = << >> THEN EntersAt(inv, ContainingInterface(inv, f.src), device, iface)
  ELSE /\ PassesOn(inv[hs[Len(hs)].device], f, hs[Len(hs)].ingress)
       /\ EntersAt(inv, Receiver(inv, f, hs[Len(hs)]), device, iface)

\* how the trace ends after the last hop
Ending(inv, f, hs, v, why) ==
  LET last == hs[Len(hs)]
      next == Receiver(inv, f, last)[1]
  IN  \/ /\ ~GoesOn(inv, f, last)
         /\ v = EndVerdict(inv[last.device], f, last.ingress)
         /\ why = EndReason(inv[last.device], f, last.ingress, last.device)
      \/ /\ GoesOn(inv, f, last)
         /\ Len(hs) >= MaxHops
         /\ v = "loop" /\ why = <<"route", last.device, last.route>>
      \/ /\ GoesOn(inv, f, last)
         /\ Len(hs) < MaxHops
         /\ \E n \in DOMAIN hs : hs[n].device = next
         /\ v = "loop" /\ why = <<"device", next, 0>>

AnswerOf(inv, f, hs, v, why) ==
  /\ Way(inv, f, hs)
  /\ IF hs = << >>
     THEN ContainingInterface(inv, f.src) = NoRef /\ v = "no_route" /\ why = NoReason
     ELSE Ending(inv, f, hs, v, why)

\* Traces are answers in the making.
Walked ==
  /\ visited = {hops[n].device : n \in DOMAIN hops}
  /\ pc \in {"start", "error"} => hops = << >> /\ verdict = "none" /\ reason = NoReason
  /\ pc = "error" => BadFlow
  /\ pc \in {"hop", "done"} => ~BadFlow
  /\ pc = "hop" => /\ Way(inventory, flow, hops)
                   /\ Arrived(inventory, flow, hops, current, ingress)
  /\ pc = "done" => AnswerOf(inventory, flow, hops, verdict, reason)

\* The tracer's decisions on the current device are these.
LEMMA DecisionsAre ==
  /\ AclDenies <=> Denied(Dev, flow)
  /\ Local # 0 \/ Route # 0 <=> HasExit(Dev, flow)
  /\ Local = LocalTo(Dev, flow) /\ Route = RouteTo(Dev, flow)
  /\ Policy = PolicyOn(Dev, flow, ingress)
  /\ PolicyDrops <=> Dropped(Dev, flow, ingress)
  /\ NextHop = ExitTo(Dev, flow)
  /\ AclDenies \/ (Local = 0 /\ Route = 0) => EmptyHop = HopShown(Dev, flow, ingress, current)
  /\ ~AclDenies /\ (Local # 0 \/ Route # 0) => ExitHop = HopShown(Dev, flow, ingress, current)
<1>1. AclDenies <=> Denied(Dev, flow)
  BY DEF AclDenies, Denied, Acl
<1>2. Local = LocalTo(Dev, flow) /\ Route = RouteTo(Dev, flow)
  BY DEF Local, Route, LocalTo, RouteTo
<1>3. Egress = ExitBy(Dev, flow) /\ NextHop = ExitTo(Dev, flow)
  BY <1>2 DEF Egress, NextHop, ExitBy, ExitTo
<1>4. From = ZoneForInterface(Dev, ingress) /\ To = ZoneForInterface(Dev, ExitBy(Dev, flow))
  BY <1>3 DEF From, To
<1>5. Policy = PolicyOn(Dev, flow, ingress)
  BY <1>4 DEF Policy, PolicyOn
<1>6. PolicyDrops <=> Dropped(Dev, flow, ingress)
  BY <1>5 DEF PolicyDrops, Dropped
<1>7. Local # 0 \/ Route # 0 <=> HasExit(Dev, flow)
  BY <1>2 DEF HasExit
<1>8. AclDenies \/ (Local = 0 /\ Route = 0) => EmptyHop = HopShown(Dev, flow, ingress, current)
  BY <1>1, <1>2, <1>7 DEF EmptyHop, HopShown, Acl
<1>9. ASSUME ~AclDenies, Local # 0 \/ Route # 0
      PROVE  ExitHop = HopShown(Dev, flow, ingress, current)
  BY <1>1, <1>2, <1>3, <1>4, <1>5, <1>6, <1>7, <1>9 DEF ExitHop, HopShown, Acl
<1>10. QED
  BY <1>1, <1>2, <1>3, <1>5, <1>6, <1>7, <1>8, <1>9

\* The hop of the device the flow has arrived at makes the way longer.
LEMMA WayLonger ==
  ASSUME NEW inv, NEW f, NEW T, NEW hs \in Seq(T), NEW d \in DOMAIN inv, NEW in, NEW h \in T,
         Way(inv, f, hs), Arrived(inv, f, hs, d, in), Len(hs) < MaxHops,
         \A n \in DOMAIN hs : hs[n].device # d,
         h = HopShown(inv[d], f, in, d)
  PROVE  /\ Way(inv, f, Append(hs, h))
         /\ Append(hs, h) # << >>
         /\ Append(hs, h)[Len(Append(hs, h))] = h
         /\ h.device = d /\ h.ingress = in
<1> DEFINE longer == Append(hs, h)
<1>1. /\ longer \in Seq(T) /\ Len(longer) = Len(hs) + 1 /\ DOMAIN longer = 1..(Len(hs) + 1)
      /\ DOMAIN hs = 1..Len(hs) /\ Len(hs) \in Nat /\ MaxHops \in Nat
      /\ \A n \in DOMAIN hs : longer[n] = hs[n]
      /\ longer[Len(hs) + 1] = h /\ longer # << >>
  BY PathTraceAssumption
<1>2. h.device = d /\ h.ingress = in
  BY DEF HopShown
<1> HIDE DEF longer
<1>3. Len(longer) <= MaxHops
  BY <1>1
<1>4. ASSUME NEW m \in DOMAIN longer, NEW n \in DOMAIN longer, m # n
      PROVE  longer[m].device # longer[n].device
  <2>1. CASE m \in DOMAIN hs /\ n \in DOMAIN hs
    BY <1>1, <1>4, <2>1 DEF Way
  <2>2. CASE m \in DOMAIN hs /\ n = Len(hs) + 1
    BY <1>1, <1>2, <2>2
  <2>3. CASE m = Len(hs) + 1 /\ n \in DOMAIN hs
    BY <1>1, <1>2, <2>3
  <2>4. QED
    BY <1>1, <1>4, <2>1, <2>2, <2>3
<1>5. ASSUME NEW n \in DOMAIN longer
      PROVE  /\ longer[n].device \in DOMAIN inv
             /\ longer[n] = HopShown(inv[longer[n].device], f, longer[n].ingress, longer[n].device)
  <2>1. CASE n \in DOMAIN hs
    BY <1>1, <2>1 DEF Way
  <2>2. CASE n = Len(hs) + 1
    BY <1>1, <1>2, <2>2
  <2>3. QED
    BY <1>1, <2>1, <2>2
<1>6. EntersAt(inv, ContainingInterface(inv, f.src), longer[1].device, longer[1].ingress)
  <2>1. CASE hs = << >>
    BY <1>1, <1>2, <2>1 DEF Arrived
  <2>2. CASE hs # << >>
    <3>1. 1 \in DOMAIN hs
      BY <1>1, <2>2
    <3>2. QED
      BY <1>1, <2>2, <3>1 DEF Way
  <2>3. QED
    BY <2>1, <2>2
<1>7. ASSUME NEW n \in DOMAIN longer, n + 1 \in DOMAIN longer
      PROVE  /\ PassesOn(inv[longer[n].device], f, longer[n].ingress)
             /\ EntersAt(inv, Receiver(inv, f, longer[n]),
                         longer[n + 1].device, longer[n + 1].ingress)
  <2>1. n \in DOMAIN hs /\ longer[n] = hs[n] /\ n \in Nat
    BY <1>1, <1>7
  <2>2. CASE n + 1 \in DOMAIN hs
    BY <1>1, <2>1, <2>2 DEF Way
  <2>3. CASE n = Len(hs)
    <3>1. hs # << >> /\ longer[n + 1] = h
      BY <1>1, <2>1, <2>3
    <3>2. QED
      BY <1>2, <2>1, <2>3, <3>1 DEF Arrived
  <2>4. QED
    BY <1>1, <2>1, <2>2, <2>3
<1>8. Way(inv, f, longer)
  BY <1>3, <1>4, <1>5, <1>6, <1>7 DEF Way
<1>9. QED
  BY <1>1, <1>2, <1>8 DEF longer

\* No hop has been made at the start.
LEMMA WalkedInit == PathInit => Walked
<1> SUFFICES ASSUME PathInit
             PROVE  Walked
  OBVIOUS
<1>1. DOMAIN hops = {}
  BY DEF PathInit
<1>2. QED
  BY <1>1 DEF PathInit, Walked

\* A step makes the way longer by one hop, or ends it where the answer ends.
LEMMA WalkedStep ==
  ASSUME PathInv, PathTypeOK', Walked, [PathNext]_pathVars
  PROVE  Walked'
<1>0. /\ PathTypeOK /\ hops \in Seq(Hop(inventory, flow.dst))
      /\ Len(hops) \in Nat /\ DOMAIN hops = 1..Len(hops) /\ MaxHops \in Nat \ {0}
      /\ net \in DOMAIN Inventories /\ inventory = Inventories[net]
  BY PathTraceAssumption DEF PathInv, PathTypeOK, inventory
<1>1. CASE RefuseFlow
  <2>1. pc = "start" /\ pc' = "error" /\ BadFlow'
    BY <1>1 DEF RefuseFlow, BadFlow
  <2>2. QED
    BY <1>1, <2>1 DEF RefuseFlow, Walked
<1>2. CASE NoSource
  <2>1. /\ hops = << >> /\ DOMAIN hops = {} /\ Len(hops) = 0 /\ inventory' = inventory
        /\ UNCHANGED <<flow, hops, visited>> /\ pc' = "done"
        /\ ~BadFlow /\ BadFlow' = BadFlow
        /\ ContainingInterface(inventory, flow.src) = NoRef
        /\ verdict' = "no_route" /\ reason' = NoReason
    BY <1>0, <1>2 DEF NoSource, Conclude, Walked, inventory, BadFlow
  <2>2. Way(inventory, flow, hops)
    BY <1>0, <2>1 DEF Way
  <2>3. AnswerOf(inventory, flow, hops, verdict', reason')
    BY <2>1, <2>2 DEF AnswerOf
  <2>4. QED
    BY <2>1, <2>3 DEF Walked
<1>3. CASE Begin
  <2>1. /\ hops = << >> /\ DOMAIN hops = {} /\ Len(hops) = 0 /\ inventory' = inventory
        /\ UNCHANGED <<flow, hops, visited>> /\ pc' = "hop"
        /\ ~BadFlow /\ BadFlow' = BadFlow
        /\ EntersAt(inventory, ContainingInterface(inventory, flow.src), current', ingress')
    BY <1>0, <1>3 DEF Begin, Walked, inventory, BadFlow, EntersAt
  <2>2. Way(inventory, flow, hops)
    BY <1>0, <2>1 DEF Way
  <2>3. Arrived(inventory, flow, hops, current', ingress')
    BY <2>1 DEF Arrived
  <2>4. QED
    BY <2>1, <2>2, <2>3 DEF Walked
<1>4. ASSUME pc = "hop"
      PROVE  /\ Way(inventory, flow, hops)
             /\ Arrived(inventory, flow, hops, current, ingress)
             /\ visited = {hops[n].device : n \in DOMAIN hops}
             /\ ~BadFlow
             /\ hops # << >> => /\ GoesOn(inventory, flow, hops[Len(hops)])
                                /\ Receiver(inventory, flow, hops[Len(hops)])[1] = current
  BY <1>4 DEF Walked, Arrived, GoesOn, EntersAt
<1>5. CASE TooManyHops \/ Revisit
  <2>1. /\ pc = "hop" /\ pc' = "done" /\ UNCHANGED <<net, flow, hops, visited>>
        /\ inventory' = inventory /\ BadFlow' = BadFlow
    BY <1>5 DEF TooManyHops, Revisit, Conclude, inventory, BadFlow
  <2>2. hops # << >>
    BY <1>0, <1>4, <1>5 DEF TooManyHops, Revisit
  <2>3. Ending(inventory, flow, hops, verdict', reason')
    <3>1. CASE TooManyHops
      BY <1>4, <2>1, <2>2, <3>1 DEF TooManyHops, Conclude, Ending
    <3>2. CASE Revisit
      <4>1. \E n \in DOMAIN hops : hops[n].device = current
        BY <1>4, <2>1, <3>2 DEF Revisit
      <4>2. Len(hops) < MaxHops /\ verdict' = "loop" /\ reason' = <<"device", current, 0>>
        BY <3>2 DEF Revisit, Conclude
      <4>3. QED
        BY <1>4, <2>1, <2>2, <4>1, <4>2 DEF Ending
    <3>3. QED
      BY <1>5, <3>1, <3>2
  <2>4. AnswerOf(inventory, flow, hops, verdict', reason')
    BY <1>4, <2>1, <2>2, <2>3 DEF AnswerOf
  <2>5. QED
    BY <1>4, <2>1, <2>4 DEF Walked
<1>6. ASSUME Visit, NEW h, hops' = Append(hops, h), net' = net, flow' = flow,
             h = HopShown(Dev, flow, ingress, current), h \in Hop(inventory, flow.dst)
      PROVE  /\ Way(inventory, flow, hops') /\ hops' # << >> /\ hops'[Len(hops')] = h
             /\ h.device = current /\ h.ingress = ingress
             /\ visited' = {hops'[n].device : n \in DOMAIN hops'}
             /\ inventory' = inventory /\ ~BadFlow'
  <2>1. /\ pc = "hop" /\ Len(hops) < MaxHops /\ current \notin visited
        /\ visited' = visited \cup {current} /\ current \in DOMAIN inventory
        /\ inventory' = inventory /\ BadFlow' = BadFlow
    BY <1>0, <1>6 DEF Visit, PathTypeOK, inventory, BadFlow
  <2>2. /\ Way(inventory, flow, hops) /\ Arrived(inventory, flow, hops, current, ingress)
        /\ \A n \in DOMAIN hops : hops[n].device # current
        /\ h = HopShown(inventory[current], flow, ingress, current)
    BY <1>4, <1>6, <2>1 DEF Dev
  <2>3. /\ Way(inventory, flow, hops') /\ hops' # << >> /\ hops'[Len(hops')] = h
        /\ h.device = current /\ h.ingress = ingress
    BY <1>0, <1>6, <2>1, <2>2, WayLonger
  <2>4. /\ DOMAIN hops' = 1..(Len(hops) + 1) /\ hops'[Len(hops) + 1] = h
        /\ \A n \in DOMAIN hops : hops'[n] = hops[n]
    BY <1>0, <1>6
  <2>5. \A n \in DOMAIN hops' : n \in DOMAIN hops \/ n = Len(hops) + 1
    BY <1>0, <2>4
  <2>6. visited' = {hops'[n].device : n \in DOMAIN hops'}
    BY <1>0, <1>4, <2>1, <2>3, <2>4, <2>5
  <2>7. QED
    BY <1>4, <2>1, <2>3, <2>6
<1>7. ASSUME Visit
      PROVE  /\ current \in DOMAIN inventory /\ Dev = inventory[current]
             /\ EmptyHop \in Hop(inventory, flow.dst)
             /\ Local # 0 \/ Route # 0 => ExitHop \in Hop(inventory, flow.dst)
  <2>1. current \in DOMAIN inventory
    BY <1>0, <1>7 DEF Visit, PathTypeOK
  <2>2. QED
    BY <1>0, <2>1, HopTypes DEF Dev
<1>8. ASSUME Visit, NEW v, NEW why, Conclude(v, why),
             NEW h \in Hop(inventory, flow.dst), hops' = Append(hops, h),
             h = HopShown(Dev, flow, ingress, current),
             PassesOn(Dev, flow, ingress) => Next = NoRef,
             v = EndVerdict(Dev, flow, ingress), why = EndReason(Dev, flow, ingress, current)
      PROVE  Walked'
  <2>1. pc' = "done" /\ verdict' = v /\ reason' = why /\ net' = net /\ flow' = flow
    BY <1>8 DEF Conclude
  <2>2. /\ Way(inventory, flow, hops') /\ hops' # << >> /\ hops'[Len(hops')] = h
        /\ h.device = current /\ h.ingress = ingress
        /\ visited' = {hops'[n].device : n \in DOMAIN hops'}
        /\ inventory' = inventory /\ ~BadFlow'
    BY <1>6, <1>8, <2>1
  <2>3. Dev = inventory[h.device]
    BY <2>2 DEF Dev
  <2>4. Receiver(inventory, flow, h) = Next
    BY <2>2, <2>3, DecisionsAre DEF Receiver, Next
  <2>5. Ending(inventory, flow, hops', verdict', reason')
    BY <1>8, <2>1, <2>2, <2>3, <2>4 DEF Ending, GoesOn
  <2>6. AnswerOf(inventory, flow, hops', verdict', reason')
    BY <2>2, <2>5 DEF AnswerOf
  <2>7. QED
    BY <2>1, <2>2, <2>6 DEF Walked
<1>9. CASE DropACL
  <2>1. /\ Visit /\ AclDenies /\ hops' = Append(hops, EmptyHop)
        /\ Conclude("dropped_acl", <<"acl", current, Acl>>)
    BY <1>9 DEF DropACL
  <2>2. /\ Denied(Dev, flow) /\ EmptyHop = HopShown(Dev, flow, ingress, current)
        /\ Acl = FirstACLMatch(Dev, flow)
    BY <2>1, DecisionsAre DEF Acl
  <2>3. /\ ~PassesOn(Dev, flow, ingress)
        /\ EndVerdict(Dev, flow, ingress) = "dropped_acl"
        /\ EndReason(Dev, flow, ingress, current) = <<"acl", current, Acl>>
    BY <2>2 DEF PassesOn, EndVerdict, EndReason
  <2>4. QED
    BY <1>7, <1>8, <2>1, <2>2, <2>3
<1>10. CASE NoRoute
  <2>1. /\ Visit /\ ~AclDenies /\ Local = 0 /\ Route = 0 /\ hops' = Append(hops, EmptyHop)
        /\ Conclude("no_route", <<"device", current, 0>>)
    BY <1>10 DEF NoRoute
  <2>2. /\ ~Denied(Dev, flow) /\ ~HasExit(Dev, flow) /\ RouteTo(Dev, flow) = 0
        /\ EmptyHop = HopShown(Dev, flow, ingress, current)
    BY <2>1, DecisionsAre
  <2>3. /\ ~PassesOn(Dev, flow, ingress)
        /\ EndVerdict(Dev, flow, ingress) = "no_route"
        /\ EndReason(Dev, flow, ingress, current) = <<"device", current, 0>>
    BY <2>2 DEF PassesOn, EndVerdict, EndReason
  <2>4. QED
    BY <1>7, <1>8, <2>1, <2>2, <2>3
<1>11. ASSUME Visit, ~AclDenies, Local # 0 \/ Route # 0, hops' = Append(hops, ExitHop)
       PROVE  /\ ~Denied(Dev, flow) /\ HasExit(Dev, flow)
              /\ ExitHop = HopShown(Dev, flow, ingress, current)
              /\ ExitHop \in Hop(inventory, flow.dst)
  BY <1>7, <1>11, DecisionsAre
<1>12. CASE DropPolicy
  <2> DEFINE why == IF Policy = 0 THEN <<"device", current, 0>> ELSE <<"policy", current, Policy>>
  <2>1. /\ Visit /\ ~AclDenies /\ (Local # 0 \/ Route # 0) /\ PolicyDrops
        /\ hops' = Append(hops, ExitHop) /\ Conclude("dropped_policy", why)
    BY <1>12 DEF DropPolicy
  <2>2. ~Denied(Dev, flow) /\ HasExit(Dev, flow) /\ Dropped(Dev, flow, ingress)
    BY <1>11, <1>12, <2>1, DecisionsAre DEF DropPolicy
  <2>3. /\ ~PassesOn(Dev, flow, ingress)
        /\ EndVerdict(Dev, flow, ingress) = "dropped_policy"
        /\ EndReason(Dev, flow, ingress, current) = why
    BY <2>2, DecisionsAre DEF PassesOn, EndVerdict, EndReason
  <2> HIDE DEF why
  <2>4. QED
    BY <1>8, <1>11, <1>12, <2>1, <2>3 DEF DropPolicy
<1>13. CASE Deliver
  <2>1. /\ Visit /\ ~AclDenies /\ Local # 0 /\ ~PolicyDrops
        /\ hops' = Append(hops, ExitHop)
        /\ Conclude("delivered", <<"iface", current, Local>>)
    BY <1>13 DEF Deliver
  <2>2. /\ ~Denied(Dev, flow) /\ HasExit(Dev, flow) /\ ~Dropped(Dev, flow, ingress)
        /\ LocalTo(Dev, flow) = Local
    BY <1>11, <2>1, DecisionsAre
  <2>3. /\ ~PassesOn(Dev, flow, ingress)
        /\ EndVerdict(Dev, flow, ingress) = "delivered"
        /\ EndReason(Dev, flow, ingress, current) = <<"iface", current, Local>>
    BY <2>1, <2>2 DEF PassesOn, EndVerdict, EndReason
  <2>4. QED
    BY <1>8, <1>11, <2>1, <2>3
<1>14. CASE Unresolved
  <2>1. /\ Visit /\ ~AclDenies /\ Local = 0 /\ Route # 0 /\ ~PolicyDrops /\ Next = NoRef
        /\ hops' = Append(hops, ExitHop)
        /\ Conclude("no_route", <<"route", current, Route>>)
    BY <1>14 DEF Unresolved, Leaves
  <2>2. /\ ~Denied(Dev, flow) /\ HasExit(Dev, flow) /\ ~Dropped(Dev, flow, ingress)
        /\ LocalTo(Dev, flow) = 0 /\ RouteTo(Dev, flow) = Route
    BY <1>11, <2>1, DecisionsAre
  <2>3. /\ EndVerdict(Dev, flow, ingress) = "no_route"
        /\ EndReason(Dev, flow, ingress, current) = <<"route", current, Route>>
    BY <2>1, <2>2 DEF EndVerdict, EndReason
  <2>4. QED
    BY <1>8, <1>11, <2>1, <2>3
<1>15. CASE Forward
  <2>1. /\ Visit /\ ~AclDenies /\ Local = 0 /\ Route # 0 /\ ~PolicyDrops /\ Next # NoRef
        /\ hops' = Append(hops, ExitHop) /\ net' = net /\ flow' = flow
        /\ pc = "hop" /\ pc' = "hop"
        /\ current' = Next[1] /\ ingress' = Iface(inventory, Next).name
    BY <1>15 DEF Forward, Leaves, Visit
  <2>2. PassesOn(Dev, flow, ingress)
    BY <2>1, DecisionsAre DEF PassesOn
  <2>3. /\ Way(inventory, flow, hops') /\ hops' # << >> /\ hops'[Len(hops')] = ExitHop
        /\ ExitHop.device = current /\ ExitHop.ingress = ingress
        /\ visited' = {hops'[n].device : n \in DOMAIN hops'}
        /\ inventory' = inventory /\ ~BadFlow'
    BY <1>6, <1>11, <2>1
  <2>4. Receiver(inventory, flow, ExitHop) = Next
    BY <2>3, DecisionsAre DEF Receiver, Next, Dev
  <2>5. Arrived(inventory, flow, hops', current', ingress')
    BY <2>1, <2>2, <2>3, <2>4 DEF Arrived, EntersAt, Dev
  <2>6. QED
    BY <2>1, <2>3, <2>5 DEF Walked
<1>16. CASE UNCHANGED pathVars
  BY <1>16 DEF pathVars, Walked, inventory, BadFlow
<1>17. QED
  BY <1>1, <1>2, <1>3, <1>5, <1>9, <1>10, <1>12, <1>13, <1>14, <1>15, <1>16 DEF PathNext

LEMMA WalkedInvariant == PathSpec => []Walked
<1>1. QED
  BY PathInvariant, WalkedInit, WalkedStep, PTL DEF PathSpec, PathInv

\* What is answered is the one answer that the inventory and the flow have: the
\* hops, the verdict and the reason are a function of the two.
THEOREM TraceAnswers ==
  PathSpec => [](pc = "done" => AnswerOf(inventory, flow, hops, verdict, reason))
<1>1. Walked => (pc = "done" => AnswerOf(inventory, flow, hops, verdict, reason))
  BY DEF Walked
<1>2. QED
  BY <1>1, WalkedInvariant, PTL
=============================================================================
