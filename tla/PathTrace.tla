------------------------------ MODULE PathTrace ------------------------------
(***************************************************************************)
(* netc path (internal/path/path.go): Trace follows one flow through the   *)
(* parsed inventory, a hop at a time, and reports the hops, a verdict and  *)
(* the piece of configuration that decided it.                             *)
(*                                                                         *)
(* A prefix is the set of its addresses and a length, a host or interface  *)
(* name the number of its place in the order of names. An interface        *)
(* without a usable IPv4 address has an empty net. What portMatches reads  *)
(* in a text is the numbers in it and whether it has a word like "eq" or   *)
(* "port". Lists are sequences.                                            *)
(*                                                                         *)
(*   device: [host, ifaces, routes, acls, zones, policies, nats]           *)
(*   iface:  [name, addr, net]        route:  [dest, bits, ad, via, iface] *)
(*   acl entry: [proto, ports, text, deny]                                 *)
(*   policy: [from, to, service, deny]                                     *)
(*   zone:   [name, ifaces]           nat:    [from, to]                   *)
(*   flow:   [src, dst, proto, dport] text:   [numbers, portWord]          *)
(*                                                                         *)
(* An entry's ports are those its ACL limits it to, none for every port;   *)
(* Trace never sees them, only the text.                                   *)
(***************************************************************************)
EXTENDS Integers, Sequences, FiniteSets

CONSTANTS
  Inventories,  \* a function to the inventories, sequences of devices
  Flows,
  Malformed,    \* an address that does not parse
  MaxHops       \* 16 in the code

NoName == 0     \* an empty interface name
Unset  == ""    \* an empty next hop, protocol or zone

Lists(dev) == {dev.ifaces, dev.routes, dev.acls, dev.zones, dev.policies, dev.nats}

ASSUME PathTraceAssumption ==
  /\ MaxHops \in Nat \ {0}
  /\ \A n \in DOMAIN Inventories : DOMAIN Inventories[n] \subseteq Nat \ {0}
  /\ \A n \in DOMAIN Inventories : \A d \in DOMAIN Inventories[n] :
       LET inv == Inventories[n] IN
       /\ inv[d].host \in Nat
       /\ \A list \in Lists(inv[d]) : DOMAIN list \subseteq Nat \ {0}
       /\ \A i \in DOMAIN inv[d].ifaces : inv[d].ifaces[i].name \in Nat
       /\ \A i \in DOMAIN inv[d].routes : /\ inv[d].routes[i].bits \in 0..32
                                          /\ inv[d].routes[i].ad \in Nat
                                          /\ inv[d].routes[i].iface \in Nat

-----------------------------------------------------------------------------
\* Choosing the first of several

LexLE(a, b) ==
  \/ a[1] < b[1]
  \/ a[1] = b[1] /\ a[2] < b[2]
  \/ a[1] = b[1] /\ a[2] = b[2] /\ a[3] < b[3]
  \/ a[1] = b[1] /\ a[2] = b[2] /\ a[3] = b[3] /\ a[4] <= b[4]

Least(key) == CHOOSE s \in DOMAIN key : \A t \in DOMAIN key : LexLE(key[s], key[t])

\* the first of a set of positions, 0 if there is none
FirstOf(S) == IF S = {} THEN 0 ELSE CHOOSE i \in S : \A j \in S : i <= j

\* indexInterfaces sorts interfaces by host and name, stably
Ref(inv) == {<<d, i>> : d \in DOMAIN inv, i \in UNION {DOMAIN inv[e].ifaces : e \in DOMAIN inv}}
Refs(inv) == {r \in Ref(inv) : r[2] \in DOMAIN inv[r[1]].ifaces}
Iface(inv, r) == inv[r[1]].ifaces[r[2]]

\* Mutant of FirstRef: the index is not sorted by host
FirstRefUnsorted(inv, S) ==
  Least([r \in S |-> <<0, Iface(inv, r).name, r[1], r[2]>>])

FirstRef(inv, S) ==
  Least([r \in S |-> <<inv[r[1]].host, Iface(inv, r).name, r[1], r[2]>>])

NoRef == <<0, 0>>

ContainingInterface(inv, addr) ==
  LET S == {r \in Refs(inv) : addr \in Iface(inv, r).net}
  IN  IF S = {} THEN NoRef ELSE FirstRef(inv, S)

\* resolveNextHop: the owner of the address, else a subnet that contains it, on
\* another device
ResolveNextHop(inv, current, next) ==
  LET others == {r \in Refs(inv) : r[1] # current}
      owners == {r \in others : Iface(inv, r).net # {} /\ Iface(inv, r).addr = next}
      nets   == {r \in others : next \in Iface(inv, r).net}
  IN  IF owners # {} THEN FirstRef(inv, owners)
      ELSE IF nets # {} THEN FirstRef(inv, nets)
      ELSE NoRef

-----------------------------------------------------------------------------
\* One device's decisions about the flow; lists are searched in their order

PortMatches(text, flow) ==
  \/ flow.dport <= 0
  \/ flow.dport \in text.numbers
  \/ text.numbers = {} /\ ~text.portWord

AclEntryMatches(e, flow) ==
  e.proto \in {Unset, "ip", "any", flow.proto} /\ PortMatches(e.text, flow)

\* the entries of all the device's ACLs, in order
FirstACLMatch(dev, flow) ==
  FirstOf({i \in DOMAIN dev.acls : AclEntryMatches(dev.acls[i], flow)})

DeviceContainsDst(dev, dst) == FirstOf({i \in DOMAIN dev.ifaces : dst \in dev.ifaces[i].net})

\* Mutant of LongestPrefixRoute: the distance before the prefix's length
LowestDistanceRoute(dev, dst) ==
  LET S == {i \in DOMAIN dev.routes : dst \in dev.routes[i].dest}
  IN  IF S = {} THEN 0
      ELSE Least([i \in S |-> <<dev.routes[i].ad, 32 - dev.routes[i].bits, i, 0>>])

\* longest prefix, then lowest administrative distance, then first in order
LongestPrefixRoute(dev, dst) ==
  LET S == {i \in DOMAIN dev.routes : dst \in dev.routes[i].dest}
  IN  IF S = {} THEN 0
      ELSE Least([i \in S |-> <<32 - dev.routes[i].bits, dev.routes[i].ad, i, 0>>])

EgressInterface(dev, route) ==
  LET i == FirstOf({j \in DOMAIN dev.ifaces : route.via \in dev.ifaces[j].net})
  IN  IF route.iface # NoName THEN route.iface
      ELSE IF i = 0 THEN NoName ELSE dev.ifaces[i].name

ZoneForInterface(dev, name) ==
  LET i == FirstOf({j \in DOMAIN dev.zones : name \in dev.zones[j].ifaces})
  IN  IF i = 0 THEN Unset ELSE dev.zones[i].name

ZoneMatches(rule, actual) == rule \in {Unset, "any", actual}

ServiceMatches(service, flow) ==
  CASE service.kind = "any"   -> TRUE
    [] service.kind = "http"  -> flow.proto = "tcp" /\ flow.dport = 80
    [] service.kind = "https" -> flow.proto = "tcp" /\ flow.dport = 443
    [] service.kind = "text"  -> PortMatches(service.text, flow)

FirstPolicy(dev, from, to, flow) ==
  FirstOf({i \in DOMAIN dev.policies :
             /\ ZoneMatches(dev.policies[i].from, from)
             /\ ZoneMatches(dev.policies[i].to, to)
             /\ ServiceMatches(dev.policies[i].service, flow)})

Translates(nat, from, to) == ZoneMatches(nat.from, from) /\ ZoneMatches(nat.to, to)

\* Mutant of FirstNAT: -1 for none
FirstNATOrMinus(dev, from, to) ==
  LET S == {i \in DOMAIN dev.nats : Translates(dev.nats[i], from, to)}
  IN  IF S = {} THEN -1 ELSE FirstOf(S)

FirstNAT(dev, from, to) == FirstOf({i \in DOMAIN dev.nats : Translates(dev.nats[i], from, to)})

-----------------------------------------------------------------------------
VARIABLES
  pc,         \* "start", "hop", "done", or "error" for an invalid flow
  net,        \* which inventory
  flow,
  current,    \* currentDevice
  ingress,    \* ingressIface
  visited,
  hops,       \* Path.Hops
  verdict,    \* Path.Verdict
  reason      \* Path.Reason: <<what, device, place in its list>>

pathVars == <<pc, net, flow, current, ingress, visited, hops, verdict, reason>>

inventory == Inventories[net]

Verdicts == {"delivered", "dropped_acl", "dropped_policy", "no_route", "loop", "none"}
NoReason == <<"none", 0, 0>>

PathInit ==
  /\ pc = "start"
  /\ net \in DOMAIN Inventories
  /\ flow \in Flows
  /\ current = 0
  /\ ingress = NoName
  /\ visited = {}
  /\ hops = << >>
  /\ verdict = "none"
  /\ reason = NoReason

Conclude(v, why) ==
  /\ pc' = "done"
  /\ verdict' = v
  /\ reason' = why
  /\ UNCHANGED <<net, flow, current, ingress>>

BadFlow == flow.src = Malformed \/ flow.dst = Malformed \/ flow.proto = Unset

RefuseFlow ==
  /\ pc = "start"
  /\ BadFlow
  /\ pc' = "error"
  /\ UNCHANGED <<net, flow, current, ingress, visited, hops, verdict, reason>>

NoSource ==
  /\ pc = "start"
  /\ ~BadFlow
  /\ ContainingInterface(inventory, flow.src) = NoRef
  /\ Conclude("no_route", NoReason)
  /\ UNCHANGED <<visited, hops>>

Begin ==
  LET start == ContainingInterface(inventory, flow.src)
  IN  /\ pc = "start"
      /\ ~BadFlow
      /\ start # NoRef
      /\ pc' = "hop"
      /\ current' = start[1]
      /\ ingress' = Iface(inventory, start).name
      /\ UNCHANGED <<net, flow, visited, hops, verdict, reason>>

\* the loop's condition fails
TooManyHops ==
  /\ pc = "hop"
  /\ Len(hops) >= MaxHops
  /\ Conclude("loop", <<"route", hops[Len(hops)].device, hops[Len(hops)].route>>)
  /\ UNCHANGED <<visited, hops>>

Revisit ==
  /\ pc = "hop"
  /\ Len(hops) < MaxHops
  /\ current \in visited
  /\ Conclude("loop", <<"device", current, 0>>)
  /\ UNCHANGED <<visited, hops>>

-----------------------------------------------------------------------------
\* A hop on a device not seen before

Dev   == inventory[current]
Acl   == FirstACLMatch(Dev, flow)
Local == DeviceContainsDst(Dev, flow.dst)
Route == LongestPrefixRoute(Dev, flow.dst)

\* where the flow leaves: the interface and the next hop
Egress  == IF Local # 0 THEN Dev.ifaces[Local].name ELSE EgressInterface(Dev, Dev.routes[Route])
NextHop == IF Local # 0 \/ Dev.routes[Route].via = Unset THEN flow.dst ELSE Dev.routes[Route].via

From == ZoneForInterface(Dev, ingress)
To   == ZoneForInterface(Dev, Egress)

Policy == FirstPolicy(Dev, From, To, flow)
\* Mutant of PolicyDrops: no match permits
PolicyDropsMatched == Policy # 0 /\ Dev.policies[Policy].deny

\* policies exist, and none matches or the first that does denies
PolicyDrops == Dev.policies # << >> /\ (Policy # 0 => Dev.policies[Policy].deny)

\* Mutant of Visit: the device is not noted
VisitUnnoted ==
  /\ pc = "hop"
  /\ Len(hops) < MaxHops
  /\ current \notin visited
  /\ visited' = visited

Visit ==
  /\ pc = "hop"
  /\ Len(hops) < MaxHops
  /\ current \notin visited
  /\ visited' = visited \cup {current}

AclDenies == Acl # 0 /\ Dev.acls[Acl].deny

EmptyHop == [device |-> current, ingress |-> ingress, acl |-> Acl, route |-> 0, policy |-> 0,
             nat |-> 0, egress |-> NoName, next |-> Unset]

\* a hop with its exit decided, for a local destination or along the route
ExitHop == [device |-> current, ingress |-> ingress, acl |-> Acl,
            route |-> IF Local # 0 THEN 0 ELSE Route, policy |-> Policy,
            nat |-> IF PolicyDrops THEN 0 ELSE FirstNAT(Dev, From, To),
            egress |-> Egress, next |-> NextHop]

DropACL ==
  /\ Visit
  /\ AclDenies
  /\ hops' = Append(hops, EmptyHop)
  /\ Conclude("dropped_acl", <<"acl", current, Acl>>)

NoRoute ==
  /\ Visit
  /\ ~AclDenies
  /\ Local = 0 /\ Route = 0
  /\ hops' = Append(hops, EmptyHop)
  /\ Conclude("no_route", <<"device", current, 0>>)

DropPolicy ==
  /\ Visit
  /\ ~AclDenies
  /\ Local # 0 \/ Route # 0
  /\ PolicyDrops
  /\ hops' = Append(hops, ExitHop)
  /\ Conclude("dropped_policy", IF Policy = 0 THEN <<"device", current, 0>>
                                              ELSE <<"policy", current, Policy>>)

Deliver ==
  /\ Visit
  /\ ~AclDenies
  /\ Local # 0
  /\ ~PolicyDrops
  /\ hops' = Append(hops, ExitHop)
  /\ Conclude("delivered", <<"iface", current, Local>>)

Next == ResolveNextHop(inventory, current, NextHop)

Leaves ==
  /\ Visit
  /\ ~AclDenies
  /\ Local = 0 /\ Route # 0
  /\ ~PolicyDrops
  /\ hops' = Append(hops, ExitHop)

Unresolved ==
  /\ Leaves
  /\ Next = NoRef
  /\ Conclude("no_route", <<"route", current, Route>>)

Forward ==
  /\ Leaves
  /\ Next # NoRef
  /\ current' = Next[1]
  /\ ingress' = Iface(inventory, Next).name
  /\ UNCHANGED <<pc, net, flow, verdict, reason>>

PathNext ==
  \/ RefuseFlow \/ NoSource \/ Begin
  \/ TooManyHops \/ Revisit
  \/ DropACL \/ NoRoute \/ DropPolicy \/ Deliver
  \/ Unresolved \/ Forward

PathSpec == PathInit /\ [][PathNext]_pathVars

-----------------------------------------------------------------------------
NextHops(inv, dst) ==
  {Unset, dst} \cup UNION {{inv[d].routes[i].via : i \in DOMAIN inv[d].routes} : d \in DOMAIN inv}

Hop(inv, dst) ==
  [device : DOMAIN inv, ingress : Nat, acl : Nat, route : Nat, policy : Nat, nat : Nat,
   egress : Nat, next : NextHops(inv, dst)]

PathTypeOK ==
  /\ pc \in {"start", "hop", "done", "error"}
  /\ net \in DOMAIN Inventories
  /\ flow \in Flows
  /\ pc = "hop" => current \in DOMAIN inventory
  /\ ingress \in Nat
  /\ visited \subseteq DOMAIN inventory
  /\ hops \in Seq(Hop(inventory, flow.dst))
  /\ verdict \in Verdicts
  /\ reason \in {"none", "device", "acl", "policy", "route", "iface"} \X Nat \X Nat

-----------------------------------------------------------------------------
\* What a path claims, said without the searches that found it: of an inventory
\* inv, a flow f and a hop h

\* a deny that matches comes after a permit that matches
Permits(dev, f) ==
  \A i \in DOMAIN dev.acls : AclEntryMatches(dev.acls[i], f) /\ dev.acls[i].deny =>
    \E j \in DOMAIN dev.acls : j < i /\ AclEntryMatches(dev.acls[j], f) /\ ~dev.acls[j].deny

\* without policies, or some policy allows and none before it applies
Applies(policy, from, to, f) ==
  ZoneMatches(policy.from, from) /\ ZoneMatches(policy.to, to) /\ ServiceMatches(policy.service, f)

Allows(dev, from, to, f) ==
  \/ dev.policies = << >>
  \/ \E i \in DOMAIN dev.policies :
       /\ Applies(dev.policies[i], from, to, f) /\ ~dev.policies[i].deny
       /\ \A j \in DOMAIN dev.policies : j < i => ~Applies(dev.policies[j], from, to, f)

LetsThrough(inv, f, h) ==
  LET dev == inv[h.device]
  IN  /\ Permits(dev, f)
      /\ Allows(dev, ZoneForInterface(dev, h.ingress), ZoneForInterface(dev, h.egress), f)

\* no connected subnet has the destination, and no route to it is better
TakesBestRoute(inv, f, h) ==
  LET dev    == inv[h.device]
      Covers == {i \in DOMAIN dev.routes : f.dst \in dev.routes[i].dest}
  IN  /\ \A i \in DOMAIN dev.ifaces : f.dst \notin dev.ifaces[i].net
      /\ h.route \in Covers
      /\ \A i \in Covers :
           \/ dev.routes[i].bits < dev.routes[h.route].bits
           \/ /\ dev.routes[i].bits = dev.routes[h.route].bits
              /\ dev.routes[i].ad >= dev.routes[h.route].ad

Owns(inv, d, addr) == \E i \in DOMAIN inv[d].ifaces :
  inv[d].ifaces[i].net # {} /\ inv[d].ifaces[i].addr = addr

\* the flow leaves h for another device, by an interface of it that owns the
\* next hop or, if no other device owns it, is on its subnet
Reaches(inv, h, device, iface) ==
  /\ device \in DOMAIN inv \ {h.device}
  /\ \E i \in DOMAIN inv[device].ifaces :
       LET into == inv[device].ifaces[i]
       IN  /\ into.name = iface
           /\ \/ into.net # {} /\ into.addr = h.next
              \/ /\ h.next \in into.net
                 /\ \A d \in DOMAIN inv \ {h.device} : ~Owns(inv, d, h.next)

Connected(inv, device, iface, addr) == \E i \in DOMAIN inv[device].ifaces :
  inv[device].ifaces[i].name = iface /\ addr \in inv[device].ifaces[i].net

\* No device appears twice in a path, nor more hops than the limit: the visited
\* set and the loop's condition (path.go:93-98) end a trace before.
NoDeviceTwice ==
  /\ Len(hops) <= MaxHops
  /\ \A m, n \in DOMAIN hops : m # n => hops[m].device # hops[n].device

\* Whatever the verdict, the hops before the last are a path the configuration
\* supports: it starts at an interface with the source, and each of them lets
\* the flow through and hands it, along its best route, to the next one.
HopsJustified ==
  /\ hops # << >> => Connected(inventory, hops[1].device, hops[1].ingress, flow.src)
  /\ \A n \in DOMAIN hops : n + 1 \in DOMAIN hops =>
       /\ LetsThrough(inventory, flow, hops[n])
       /\ TakesBestRoute(inventory, flow, hops[n])
       /\ Reaches(inventory, hops[n], hops[n + 1].device, hops[n + 1].ingress)

\* "delivered" is said only at a device that lets the flow through, out of an
\* interface whose subnet has the destination.
DeliveredArrives ==
  verdict = "delivered" =>
    /\ hops # << >>
    /\ LET last == hops[Len(hops)]
       IN  /\ LetsThrough(inventory, flow, last)
           /\ Connected(inventory, last.device, last.egress, flow.dst)

\* Makes the two inductive: where the flow is while Trace runs follows from the
\* last hop, as in HopsJustified.
OnTheWay ==
  /\ \A n \in DOMAIN hops : hops[n].device \in visited
  /\ pc = "start" => hops = << >>
  /\ pc = "hop" /\ hops = << >> => Connected(inventory, current, ingress, flow.src)
  /\ pc = "hop" /\ hops # << >> =>
       /\ LetsThrough(inventory, flow, hops[Len(hops)])
       /\ TakesBestRoute(inventory, flow, hops[Len(hops)])
       /\ Reaches(inventory, hops[Len(hops)], current, ingress)
  /\ verdict = "delivered" => pc = "done"

\* The ACL entry a hop reports is the device's first that matches the flow's
\* protocol and port (docs/path-json-schema.md:95).
FirstEntryUsed ==
  \A n \in DOMAIN hops :
    LET dev == inventory[hops[n].device]
    IN  hops[n].acl = FirstOf({i \in DOMAIN dev.acls :
          /\ dev.acls[i].proto \in {Unset, "ip", "any", flow.proto}
          /\ flow.dport <= 0 \/ dev.acls[i].ports = {} \/ flow.dport \in dev.acls[i].ports})
=============================================================================
