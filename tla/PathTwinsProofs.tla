--------------------------- MODULE PathTwinsProofs ---------------------------
(***************************************************************************)
(* Proofs about PathTwins, for any inventories, flows, limit of hops and   *)
(* order of the devices.                                                   *)
(*                                                                         *)
(* Neither trace is compared with the other while it runs. Each is shown   *)
(* to give the answer of its inventory (TraceAnswers), and inventories of  *)
(* the same devices to have the same answer (SameAnswers).                 *)
(***************************************************************************)
EXTENDS PathTwins, PathTraceProofs

\* the second trace, for what PathTraceProofs shows of a trace
Twin == INSTANCE PathTraceProofs WITH
  Inventories <- Reordered, pc <- pc2, net <- net2, flow <- flow2, current <- current2,
  ingress <- ingress2, visited <- visited2, hops <- hops2, verdict <- verdict2, reason <- reason2

-----------------------------------------------------------------------------
(***************************************************************************)
(* The instances differ from PathTrace in the inventories and the variables *)
(* alone: the operators on a device, an address or a list are the same.     *)
(***************************************************************************)
\* The searches of the lists of a device.
LEMMA TwinLists ==
  /\ \A S : Twin!FirstOf(S) = FirstOf(S)
  /\ \A dev, f : Twin!FirstACLMatch(dev, f) = FirstACLMatch(dev, f)
  /\ \A dev, f : Twin!LocalTo(dev, f) = LocalTo(dev, f)
  /\ \A dev, f : Twin!RouteTo(dev, f) = RouteTo(dev, f)
  /\ \A dev, route : Twin!EgressInterface(dev, route) = EgressInterface(dev, route)
  /\ \A dev, in : Twin!ZoneForInterface(dev, in) = ZoneForInterface(dev, in)
  /\ \A dev, from, to, f : Twin!FirstPolicy(dev, from, to, f) = FirstPolicy(dev, from, to, f)
  /\ \A dev, from, to : Twin!FirstNAT(dev, from, to) = FirstNAT(dev, from, to)
<1>1. \A S : Twin!FirstOf(S) = FirstOf(S)
  BY DEF Twin!FirstOf, FirstOf
<1>2. \A dev, f : Twin!FirstACLMatch(dev, f) = FirstACLMatch(dev, f)
  BY <1>1 DEF Twin!FirstACLMatch, FirstACLMatch, Twin!AclEntryMatches, AclEntryMatches,
    Twin!PortMatches, PortMatches, Twin!Unset, Unset
<1>3. \A dev, f : Twin!LocalTo(dev, f) = LocalTo(dev, f)
  BY <1>1 DEF Twin!LocalTo, LocalTo, Twin!DeviceContainsDst, DeviceContainsDst
<1>4. \A dev, f : Twin!RouteTo(dev, f) = RouteTo(dev, f)
  BY DEF Twin!RouteTo, RouteTo, Twin!LongestPrefixRoute, LongestPrefixRoute, Twin!Least, Least,
    Twin!LexLE, LexLE
<1>5. \A dev, route : Twin!EgressInterface(dev, route) = EgressInterface(dev, route)
  BY <1>1 DEF Twin!EgressInterface, EgressInterface, Twin!NoName, NoName
<1>6. \A dev, in : Twin!ZoneForInterface(dev, in) = ZoneForInterface(dev, in)
  BY <1>1 DEF Twin!ZoneForInterface, ZoneForInterface, Twin!Unset, Unset
<1>7. \A dev, from, to, f : Twin!FirstPolicy(dev, from, to, f) = FirstPolicy(dev, from, to, f)
  <2>1. \A rule, actual : Twin!ZoneMatches(rule, actual) <=> ZoneMatches(rule, actual)
    BY DEF Twin!ZoneMatches, ZoneMatches, Twin!Unset, Unset
  <2>2. \A text, f : Twin!PortMatches(text, f) <=> PortMatches(text, f)
    BY DEF Twin!PortMatches, PortMatches
  <2>3. \A service, f : Twin!ServiceMatches(service, f) = ServiceMatches(service, f)
    BY <2>2 DEF Twin!ServiceMatches, ServiceMatches
  <2>4. QED
    BY <1>1, <2>1, <2>3 DEF Twin!FirstPolicy, FirstPolicy
<1>8. \A dev, from, to : Twin!FirstNAT(dev, from, to) = FirstNAT(dev, from, to)
  BY <1>1 DEF Twin!FirstNAT, FirstNAT, Twin!Translates, Translates, Twin!ZoneMatches, ZoneMatches,
    Twin!Unset, Unset
<1>9. QED
  BY <1>1, <1>2, <1>3, <1>4, <1>5, <1>6, <1>7, <1>8

\* Its decisions.
LEMMA TwinDecisions ==
  /\ \A dev, f : Twin!Denied(dev, f) <=> Denied(dev, f)
  /\ \A dev, f : Twin!HasExit(dev, f) <=> HasExit(dev, f)
  /\ \A dev, f : Twin!ExitBy(dev, f) = ExitBy(dev, f)
  /\ \A dev, f : Twin!ExitTo(dev, f) = ExitTo(dev, f)
  /\ \A dev, f, in : Twin!PolicyOn(dev, f, in) = PolicyOn(dev, f, in)
  /\ \A dev, f, in : Twin!Dropped(dev, f, in) <=> Dropped(dev, f, in)
  /\ \A dev, f, in : Twin!PassesOn(dev, f, in) <=> PassesOn(dev, f, in)
<1>1. \A dev, f : Twin!Denied(dev, f) <=> Denied(dev, f)
  BY TwinLists DEF Twin!Denied, Denied
<1>2. \A dev, f : Twin!HasExit(dev, f) <=> HasExit(dev, f)
  BY TwinLists DEF Twin!HasExit, HasExit
<1>3. \A dev, f : Twin!ExitBy(dev, f) = ExitBy(dev, f)
  BY TwinLists DEF Twin!ExitBy, ExitBy
<1>4. \A dev, f : Twin!ExitTo(dev, f) = ExitTo(dev, f)
  BY TwinLists DEF Twin!ExitTo, ExitTo, Twin!Unset, Unset
<1>5. \A dev, f, in : Twin!PolicyOn(dev, f, in) = PolicyOn(dev, f, in)
  BY <1>3, TwinLists DEF Twin!PolicyOn, PolicyOn
<1>6. \A dev, f, in : Twin!Dropped(dev, f, in) <=> Dropped(dev, f, in)
  BY <1>5 DEF Twin!Dropped, Dropped
<1>7. \A dev, f, in : Twin!PassesOn(dev, f, in) <=> PassesOn(dev, f, in)
  BY <1>1, <1>6, TwinLists DEF Twin!PassesOn, PassesOn
<1>8. QED
  BY <1>1, <1>2, <1>3, <1>4, <1>5, <1>6, <1>7

\* The answers.
LEMMA TwinAnswers ==
  ASSUME NEW inv, NEW f, NEW hs, NEW v, NEW why
  PROVE  Twin!AnswerOf(inv, f, hs, v, why) <=> AnswerOf(inv, f, hs, v, why)
<1>1. ASSUME NEW dev, NEW in, NEW d
      PROVE  Twin!HopShown(dev, f, in, d) = HopShown(dev, f, in, d)
  <2>1. /\ Twin!NoName = NoName /\ Twin!Unset = Unset
        /\ Twin!FirstACLMatch(dev, f) = FirstACLMatch(dev, f)
        /\ Twin!LocalTo(dev, f) = LocalTo(dev, f) /\ Twin!RouteTo(dev, f) = RouteTo(dev, f)
        /\ Twin!ExitBy(dev, f) = ExitBy(dev, f) /\ Twin!ExitTo(dev, f) = ExitTo(dev, f)
        /\ Twin!PolicyOn(dev, f, in) = PolicyOn(dev, f, in)
        /\ Twin!ZoneForInterface(dev, in) = ZoneForInterface(dev, in)
        /\ Twin!ZoneForInterface(dev, ExitBy(dev, f)) = ZoneForInterface(dev, ExitBy(dev, f))
        /\ \A from, to : Twin!FirstNAT(dev, from, to) = FirstNAT(dev, from, to)
    BY TwinLists, TwinDecisions DEF Twin!NoName, NoName, Twin!Unset, Unset
  <2>2. /\ Twin!Denied(dev, f) <=> Denied(dev, f)
        /\ Twin!HasExit(dev, f) <=> HasExit(dev, f)
        /\ Twin!Dropped(dev, f, in) <=> Dropped(dev, f, in)
    BY TwinDecisions
  <2>3. QED
    BY <2>1, <2>2 DEF Twin!HopShown, HopShown
<1>2. \A dev, in : Twin!EndVerdict(dev, f, in) = EndVerdict(dev, f, in)
  BY TwinLists, TwinDecisions DEF Twin!EndVerdict, EndVerdict
<1>3. \A dev, in, d : Twin!EndReason(dev, f, in, d) = EndReason(dev, f, in, d)
  BY TwinLists, TwinDecisions DEF Twin!EndReason, EndReason
<1>4. \A addr : Twin!ContainingInterface(inv, addr) = ContainingInterface(inv, addr)
  BY DEF Twin!ContainingInterface, ContainingInterface, Twin!FirstRef, FirstRef, Twin!Least, Least,
    Twin!LexLE, LexLE, Twin!Refs, Refs, Twin!Ref, Ref, Twin!Iface, Iface, Twin!NoRef, NoRef
<1>5. \A d, addr : Twin!ResolveNextHop(inv, d, addr) = ResolveNextHop(inv, d, addr)
  BY DEF Twin!ResolveNextHop, ResolveNextHop, Twin!FirstRef, FirstRef, Twin!Least, Least,
    Twin!LexLE, LexLE, Twin!Refs, Refs, Twin!Ref, Ref, Twin!Iface, Iface, Twin!NoRef, NoRef
<1>6. \A h : Twin!Receiver(inv, f, h) = Receiver(inv, f, h)
  BY <1>5, TwinDecisions DEF Twin!Receiver, Receiver
<1>7. \A h : Twin!GoesOn(inv, f, h) <=> GoesOn(inv, f, h)
  BY <1>6, TwinDecisions DEF Twin!GoesOn, GoesOn, Twin!NoRef, NoRef
<1>8. \A r, d, in : Twin!EntersAt(inv, r, d, in) <=> EntersAt(inv, r, d, in)
  BY DEF Twin!EntersAt, EntersAt, Twin!NoRef, NoRef, Twin!Iface, Iface
<1>9. Twin!Way(inv, f, hs) <=> Way(inv, f, hs)
  BY <1>1, <1>4, <1>6, <1>8, TwinDecisions DEF Twin!Way, Way
<1>10. Twin!Ending(inv, f, hs, v, why) <=> Ending(inv, f, hs, v, why)
  BY <1>2, <1>3, <1>6, <1>7 DEF Twin!Ending, Ending
<1>11. QED
  BY <1>4, <1>9, <1>10 DEF Twin!AnswerOf, AnswerOf, Twin!NoRef, NoRef, Twin!NoReason, NoReason

\* Again, of which TwinSpec speaks, and Twin are the same trace.
LEMMA AgainLists ==
  /\ \A dev, f : Again!FirstACLMatch(dev, f) = Twin!FirstACLMatch(dev, f)
  /\ \A dev, dst : Again!DeviceContainsDst(dev, dst) = Twin!DeviceContainsDst(dev, dst)
  /\ \A dev, dst : Again!LongestPrefixRoute(dev, dst) = Twin!LongestPrefixRoute(dev, dst)
  /\ \A dev, route : Again!EgressInterface(dev, route) = Twin!EgressInterface(dev, route)
  /\ \A dev, in : Again!ZoneForInterface(dev, in) = Twin!ZoneForInterface(dev, in)
  /\ \A dev, from, to, f : Again!FirstPolicy(dev, from, to, f) = Twin!FirstPolicy(dev, from, to, f)
  /\ \A dev, from, to : Again!FirstNAT(dev, from, to) = Twin!FirstNAT(dev, from, to)
  /\ \A inv, addr : Again!ContainingInterface(inv, addr) = Twin!ContainingInterface(inv, addr)
  /\ \A inv, d, addr : Again!ResolveNextHop(inv, d, addr) = Twin!ResolveNextHop(inv, d, addr)
  /\ \A inv, r : Again!Iface(inv, r) = Twin!Iface(inv, r)
<1>1. \A S : Again!FirstOf(S) = Twin!FirstOf(S)
  BY DEF Again!FirstOf, Twin!FirstOf
<1>2. \A text, f : Again!PortMatches(text, f) <=> Twin!PortMatches(text, f)
  BY DEF Again!PortMatches, Twin!PortMatches
<1>3. \A rule, actual : Again!ZoneMatches(rule, actual) <=> Twin!ZoneMatches(rule, actual)
  BY DEF Again!ZoneMatches, Twin!ZoneMatches, Again!Unset, Twin!Unset
<1>4. \A service, f : Again!ServiceMatches(service, f) = Twin!ServiceMatches(service, f)
  BY <1>2 DEF Again!ServiceMatches, Twin!ServiceMatches
<1>5. \A dev, f : Again!FirstACLMatch(dev, f) = Twin!FirstACLMatch(dev, f)
  BY <1>1, <1>2 DEF Again!FirstACLMatch, Twin!FirstACLMatch, Again!AclEntryMatches,
    Twin!AclEntryMatches, Again!Unset, Twin!Unset
<1>6. \A dev, dst : Again!DeviceContainsDst(dev, dst) = Twin!DeviceContainsDst(dev, dst)
  BY <1>1 DEF Again!DeviceContainsDst, Twin!DeviceContainsDst
<1>7. \A dev, dst : Again!LongestPrefixRoute(dev, dst) = Twin!LongestPrefixRoute(dev, dst)
  BY DEF Again!LongestPrefixRoute, Twin!LongestPrefixRoute, Again!Least, Twin!Least, Again!LexLE,
    Twin!LexLE
<1>8. \A dev, route : Again!EgressInterface(dev, route) = Twin!EgressInterface(dev, route)
  BY <1>1 DEF Again!EgressInterface, Twin!EgressInterface, Again!NoName, Twin!NoName
<1>9. \A dev, in : Again!ZoneForInterface(dev, in) = Twin!ZoneForInterface(dev, in)
  BY <1>1 DEF Again!ZoneForInterface, Twin!ZoneForInterface, Again!Unset, Twin!Unset
<1>10. \A dev, from, to, f : Again!FirstPolicy(dev, from, to, f) = Twin!FirstPolicy(dev, from, to, f)
  BY <1>1, <1>3, <1>4 DEF Again!FirstPolicy, Twin!FirstPolicy
<1>11. \A dev, from, to : Again!FirstNAT(dev, from, to) = Twin!FirstNAT(dev, from, to)
  BY <1>1, <1>3 DEF Again!FirstNAT, Twin!FirstNAT, Again!Translates, Twin!Translates
<1>12. \A inv, addr : Again!ContainingInterface(inv, addr) = Twin!ContainingInterface(inv, addr)
  BY DEF Again!ContainingInterface, Twin!ContainingInterface, Again!FirstRef, Twin!FirstRef,
    Again!Least, Twin!Least, Again!LexLE, Twin!LexLE, Again!Refs, Twin!Refs, Again!Ref, Twin!Ref,
    Again!Iface, Twin!Iface, Again!NoRef, Twin!NoRef
<1>13. \A inv, d, addr : Again!ResolveNextHop(inv, d, addr) = Twin!ResolveNextHop(inv, d, addr)
  BY DEF Again!ResolveNextHop, Twin!ResolveNextHop, Again!FirstRef, Twin!FirstRef,
    Again!Least, Twin!Least, Again!LexLE, Twin!LexLE, Again!Refs, Twin!Refs, Again!Ref, Twin!Ref,
    Again!Iface, Twin!Iface, Again!NoRef, Twin!NoRef
<1>14. \A inv, r : Again!Iface(inv, r) = Twin!Iface(inv, r)
  BY DEF Again!Iface, Twin!Iface
<1>15. QED
  BY <1>5, <1>6, <1>7, <1>8, <1>9, <1>10, <1>11, <1>12, <1>13, <1>14

\* What they decide on a device.
LEMMA AgainDecisions ==
  /\ Again!inventory = Twin!inventory
  /\ Again!NoRef = Twin!NoRef /\ Again!NoReason = Twin!NoReason
  /\ Again!Acl = Twin!Acl /\ Again!Local = Twin!Local /\ Again!Route = Twin!Route
  /\ Again!Policy = Twin!Policy
  /\ Again!AclDenies <=> Twin!AclDenies
  /\ Again!PolicyDrops <=> Twin!PolicyDrops
  /\ Again!EmptyHop = Twin!EmptyHop /\ Again!ExitHop = Twin!ExitHop
  /\ Again!Next = Twin!Next
  /\ Again!BadFlow <=> Twin!BadFlow
<1>1. Again!inventory = Twin!inventory /\ Again!Dev = Twin!Dev
  BY DEF Again!inventory, Twin!inventory, Again!Dev, Twin!Dev
<1>2. Again!Acl = Twin!Acl /\ Again!Local = Twin!Local /\ Again!Route = Twin!Route
  BY <1>1, AgainLists DEF Again!Acl, Twin!Acl, Again!Local, Twin!Local, Again!Route, Twin!Route
<1>3. Again!Egress = Twin!Egress /\ Again!NextHop = Twin!NextHop
  BY <1>1, <1>2, AgainLists DEF Again!Egress, Twin!Egress, Again!NextHop, Twin!NextHop,
    Again!Unset, Twin!Unset
<1>4. Again!From = Twin!From /\ Again!To = Twin!To
  BY <1>1, <1>3, AgainLists DEF Again!From, Twin!From, Again!To, Twin!To
<1>5. Again!Policy = Twin!Policy
  BY <1>1, <1>4, AgainLists DEF Again!Policy, Twin!Policy
<1>6. Again!PolicyDrops <=> Twin!PolicyDrops
  BY <1>1, <1>5 DEF Again!PolicyDrops, Twin!PolicyDrops
<1>7. Again!AclDenies <=> Twin!AclDenies
  BY <1>1, <1>2 DEF Again!AclDenies, Twin!AclDenies
<1>8. Again!EmptyHop = Twin!EmptyHop
  BY <1>2 DEF Again!EmptyHop, Twin!EmptyHop, Again!NoName, Twin!NoName, Again!Unset, Twin!Unset
<1>9. Again!ExitHop = Twin!ExitHop
  BY <1>1, <1>2, <1>3, <1>4, <1>5, <1>6, AgainLists DEF Again!ExitHop, Twin!ExitHop
<1>10. Again!Next = Twin!Next
  BY <1>1, <1>3, AgainLists DEF Again!Next, Twin!Next
<1>11. Again!BadFlow <=> Twin!BadFlow
  BY DEF Again!BadFlow, Twin!BadFlow, Again!Unset, Twin!Unset
<1>12. QED
  BY <1>1, <1>2, <1>5, <1>6, <1>7, <1>8, <1>9, <1>10, <1>11
    DEF Again!NoRef, Twin!NoRef, Again!NoReason, Twin!NoReason

\* Their steps.
LEMMA AgainSteps ==
  /\ Again!PathInit => Twin!PathInit
  /\ [Again!PathNext]_Again!pathVars => [Twin!PathNext]_Twin!pathVars
<1>1. Again!PathInit => Twin!PathInit
  BY DEF Again!PathInit, Twin!PathInit, Again!NoName, Twin!NoName, Again!NoReason, Twin!NoReason
<1>2. ASSUME NEW v, NEW why
      PROVE  Again!Conclude(v, why) <=> Twin!Conclude(v, why)
  BY DEF Again!Conclude, Twin!Conclude
<1>3. Again!Visit <=> Twin!Visit
  BY DEF Again!Visit, Twin!Visit
<1>4. Again!Leaves <=> Twin!Leaves
  BY <1>3, AgainDecisions DEF Again!Leaves, Twin!Leaves
<1>5. Again!RefuseFlow => Twin!RefuseFlow
  BY AgainDecisions DEF Again!RefuseFlow, Twin!RefuseFlow
<1>6. Again!NoSource => Twin!NoSource
  BY <1>2, AgainDecisions, AgainLists DEF Again!NoSource, Twin!NoSource
<1>7. Again!Begin => Twin!Begin
  BY AgainDecisions, AgainLists DEF Again!Begin, Twin!Begin
<1>8. Again!TooManyHops => Twin!TooManyHops
  BY <1>2 DEF Again!TooManyHops, Twin!TooManyHops
<1>9. Again!Revisit => Twin!Revisit
  BY <1>2 DEF Again!Revisit, Twin!Revisit
<1>10. Again!DropACL => Twin!DropACL
  BY <1>2, <1>3, AgainDecisions DEF Again!DropACL, Twin!DropACL
<1>11. Again!NoRoute => Twin!NoRoute
  BY <1>2, <1>3, AgainDecisions DEF Again!NoRoute, Twin!NoRoute
<1>12. Again!DropPolicy => Twin!DropPolicy
  BY <1>2, <1>3, AgainDecisions DEF Again!DropPolicy, Twin!DropPolicy
<1>13. Again!Deliver => Twin!Deliver
  BY <1>2, <1>3, AgainDecisions DEF Again!Deliver, Twin!Deliver
<1>14. Again!Unresolved => Twin!Unresolved
  BY <1>2, <1>4, AgainDecisions DEF Again!Unresolved, Twin!Unresolved
<1>15. Again!Forward => Twin!Forward
  BY <1>4, AgainDecisions, AgainLists DEF Again!Forward, Twin!Forward
<1>16. QED
  BY <1>1, <1>5, <1>6, <1>7, <1>8, <1>9, <1>10, <1>11, <1>12, <1>13, <1>14, <1>15
    DEF Again!PathNext, Twin!PathNext, Again!pathVars, Twin!pathVars
-----------------------------------------------------------------------------
(***************************************************************************)
(* Two inventories of the same devices, in any places.                     *)
(***************************************************************************)
WellFormed(inv) ==
  /\ DOMAIN inv \subseteq Nat \ {0}
  /\ \A d \in DOMAIN inv :
       /\ inv[d].host \in Nat
       /\ DOMAIN inv[d].ifaces \subseteq Nat \ {0}
       /\ \A i \in DOMAIN inv[d].ifaces : inv[d].ifaces[i].name \in Nat
  /\ \A d, e \in DOMAIN inv : d # e => inv[d].host # inv[e].host

SameDevices(inv, inw) ==
  /\ WellFormed(inv) /\ WellFormed(inw)
  /\ \A d \in DOMAIN inv : \E e \in DOMAIN inw : inv[d] = inw[e]
  /\ \A e \in DOMAIN inw : \E d \in DOMAIN inv : inv[d] = inw[e]

\* references to one interface
SameRef(inv, inw, r, s) == inv[r[1]] = inw[s[1]] /\ r[2] = s[2]

\* what a search finds in each
Corresponds(inv, inw, r, s) ==
  /\ r = NoRef <=> s = NoRef
  /\ r # NoRef => r \in Refs(inv) /\ s \in Refs(inw) /\ SameRef(inv, inw, r, s)

\* A reference is to an interface of a device, and no reference is NoRef.
LEMMA RefParts ==
  ASSUME NEW inv, WellFormed(inv), NEW r \in Refs(inv)
  PROVE  /\ r = <<r[1], r[2]>>
         /\ r[1] \in DOMAIN inv /\ r[1] \in Nat /\ r[1] # 0
         /\ r[2] \in DOMAIN inv[r[1]].ifaces /\ r[2] \in Nat
         /\ Iface(inv, r) = inv[r[1]].ifaces[r[2]]
         /\ Iface(inv, r).name \in Nat /\ inv[r[1]].host \in Nat
         /\ r # NoRef
<1>1. /\ r = <<r[1], r[2]>> /\ r[1] \in DOMAIN inv /\ r[2] \in DOMAIN inv[r[1]].ifaces
  BY DEF Refs, Ref
<1>2. r[1] \in Nat \ {0} /\ r[2] \in Nat \ {0}
  BY <1>1 DEF WellFormed
<1>3. Iface(inv, r) = inv[r[1]].ifaces[r[2]]
  BY DEF Iface
<1>4. Iface(inv, r).name \in Nat /\ inv[r[1]].host \in Nat
  BY <1>1, <1>3 DEF WellFormed
<1>5. r # NoRef
  BY <1>2 DEF NoRef
<1>6. QED
  BY <1>1, <1>2, <1>3, <1>4, <1>5

\* Each interface of one is an interface of the other.
LEMMA Counterpart ==
  ASSUME NEW inv, NEW inw, SameDevices(inv, inw), NEW r \in Refs(inv)
  PROVE  \E s \in Refs(inw) : SameRef(inv, inw, r, s) /\ Iface(inw, s) = Iface(inv, r)
<1>1. /\ r[1] \in DOMAIN inv /\ r[2] \in DOMAIN inv[r[1]].ifaces
      /\ Iface(inv, r) = inv[r[1]].ifaces[r[2]]
  BY RefParts DEF SameDevices
<1>2. PICK e \in DOMAIN inw : inv[r[1]] = inw[e]
  BY <1>1 DEF SameDevices
<1> DEFINE s == <<e, r[2]>>
<1>3. s \in Refs(inw)
  BY <1>1, <1>2 DEF Refs, Ref
<1>4. SameRef(inv, inw, r, s) /\ Iface(inw, s) = Iface(inv, r)
  BY <1>1, <1>2 DEF SameRef, Iface
<1>5. QED
  BY <1>3, <1>4

\* Neither inventory is the first.
LEMMA DevicesBack ==
  ASSUME NEW inv, NEW inw, SameDevices(inv, inw)
  PROVE  SameDevices(inw, inv)
<1>1. \A e \in DOMAIN inw : \E d \in DOMAIN inv : inw[e] = inv[d]
  BY DEF SameDevices
<1>2. \A d \in DOMAIN inv : \E e \in DOMAIN inw : inw[e] = inv[d]
  BY DEF SameDevices
<1>3. QED
  BY <1>1, <1>2 DEF SameDevices

\* The first reference of a set has the least host, name and place.
LEMMA FirstRefLeast ==
  ASSUME NEW inv, WellFormed(inv), NEW S, S \subseteq Refs(inv), S # {}
  PROVE  /\ FirstRef(inv, S) \in S
         /\ \A t \in S :
              LET r == FirstRef(inv, S)
              IN  LexLE(<<inv[r[1]].host, Iface(inv, r).name, r[1], r[2]>>,
                        <<inv[t[1]].host, Iface(inv, t).name, t[1], t[2]>>)
<1> DEFINE key == [r \in S |-> <<inv[r[1]].host, Iface(inv, r).name, r[1], r[2]>>]
<1>1. ASSUME NEW r \in S
      PROVE  /\ key[r] = <<inv[r[1]].host, Iface(inv, r).name, r[1], r[2]>>
             /\ key[r][1] \in Nat /\ key[r][2] \in Nat /\ key[r][3] \in Nat /\ key[r][4] \in Nat
  BY RefParts
<1>2. DOMAIN key = S /\ FirstRef(inv, S) = Least(key)
  BY DEF FirstRef
<1> HIDE DEF key
<1>3. Least(key) \in S /\ \A t \in S : LexLE(key[Least(key)], key[t])
  BY <1>1, <1>2, LeastFound
<1>4. QED
  BY <1>1, <1>2, <1>3

\* Hosts and names are compared before places, so the first of corresponding
\* sets is the same interface.
LEMMA SameFirstRef ==
  ASSUME NEW inv, NEW inw, SameDevices(inv, inw),
         NEW S, S \subseteq Refs(inv), S # {}, NEW T, T \subseteq Refs(inw), T # {},
         \A r \in S : \E s \in T : SameRef(inv, inw, r, s) /\ Iface(inw, s) = Iface(inv, r),
         \A s \in T : \E r \in S : SameRef(inv, inw, r, s) /\ Iface(inw, s) = Iface(inv, r)
  PROVE  Corresponds(inv, inw, FirstRef(inv, S), FirstRef(inw, T))
<1> DEFINE r == FirstRef(inv, S)
           s == FirstRef(inw, T)
<1>1. r \in S /\ s \in T /\ r \in Refs(inv) /\ s \in Refs(inw) /\ WellFormed(inv) /\ WellFormed(inw)
  BY FirstRefLeast DEF SameDevices
<1>2. PICK q \in T : SameRef(inv, inw, r, q) /\ Iface(inw, q) = Iface(inv, r)
  BY <1>1
<1>3. PICK p \in S : SameRef(inv, inw, p, s) /\ Iface(inw, s) = Iface(inv, p)
  BY <1>1
<1>4. LexLE(<<inv[r[1]].host, Iface(inv, r).name, r[1], r[2]>>,
            <<inv[p[1]].host, Iface(inv, p).name, p[1], p[2]>>)
  BY <1>1, <1>3, FirstRefLeast
<1>5. LexLE(<<inw[s[1]].host, Iface(inw, s).name, s[1], s[2]>>,
            <<inw[q[1]].host, Iface(inw, q).name, q[1], q[2]>>)
  BY <1>1, <1>2, FirstRefLeast
<1>6. /\ r[1] \in DOMAIN inv /\ p[1] \in DOMAIN inv /\ s[1] \in DOMAIN inw /\ q[1] \in DOMAIN inw
      /\ r[1] \in Nat /\ p[1] \in Nat /\ s[1] \in Nat /\ q[1] \in Nat
      /\ r[2] \in Nat /\ p[2] \in Nat /\ s[2] \in Nat /\ q[2] \in Nat
      /\ inv[r[1]].host \in Nat /\ inv[p[1]].host \in Nat
      /\ inw[s[1]].host \in Nat /\ inw[q[1]].host \in Nat
      /\ Iface(inv, r).name \in Nat /\ Iface(inv, p).name \in Nat
      /\ Iface(inw, s).name \in Nat /\ Iface(inw, q).name \in Nat
      /\ r # NoRef /\ s # NoRef
  BY <1>1, <1>2, <1>3, RefParts
<1>7. /\ inv[r[1]].host = inw[q[1]].host /\ Iface(inw, q).name = Iface(inv, r).name /\ q[2] = r[2]
      /\ inv[p[1]].host = inw[s[1]].host /\ Iface(inw, s).name = Iface(inv, p).name /\ p[2] = s[2]
      /\ inv[p[1]] = inw[s[1]]
  BY <1>2, <1>3 DEF SameRef
<1> HIDE DEF r, s
<1>8. inv[r[1]].host = inv[p[1]].host /\ inw[s[1]].host = inw[q[1]].host
  BY <1>4, <1>5, <1>6, <1>7 DEF LexLE
<1>9. r[1] = p[1] /\ s[1] = q[1]
  BY <1>1, <1>6, <1>8 DEF WellFormed
<1>10. r[2] = s[2]
  BY <1>4, <1>5, <1>6, <1>7, <1>8, <1>9 DEF LexLE
<1>11. SameRef(inv, inw, r, s)
  BY <1>7, <1>9, <1>10 DEF SameRef
<1>12. QED
  BY <1>1, <1>6, <1>11 DEF Corresponds, r, s

\* An address is found on the same interface.
LEMMA SameContaining ==
  ASSUME NEW inv, NEW inw, SameDevices(inv, inw), NEW addr
  PROVE  Corresponds(inv, inw, ContainingInterface(inv, addr), ContainingInterface(inw, addr))
<1> DEFINE S == {r \in Refs(inv) : addr \in Iface(inv, r).net}
           T == {s \in Refs(inw) : addr \in Iface(inw, s).net}
<1>1. \A r \in S : \E s \in T : SameRef(inv, inw, r, s) /\ Iface(inw, s) = Iface(inv, r)
  BY Counterpart
<1>2. ASSUME NEW s \in T
      PROVE  \E r \in S : SameRef(inv, inw, r, s) /\ Iface(inw, s) = Iface(inv, r)
  <2>1. PICK r \in Refs(inv) : SameRef(inw, inv, s, r) /\ Iface(inv, r) = Iface(inw, s)
    BY Counterpart, DevicesBack
  <2>2. QED
    BY <2>1 DEF SameRef
<1>3. CASE S = {}
  <2>1. T = {}
    BY <1>2, <1>3
  <2>2. QED
    BY <1>3, <2>1 DEF ContainingInterface, Corresponds
<1>4. CASE S # {}
  <2>1. T # {}
    BY <1>1, <1>4
  <2>2. Corresponds(inv, inw, FirstRef(inv, S), FirstRef(inw, T))
    BY <1>1, <1>2, <1>4, <2>1, SameFirstRef
  <2>3. QED
    BY <1>4, <2>1, <2>2 DEF ContainingInterface
<1>5. QED
  BY <1>3, <1>4

\* A next hop is resolved to the same interface, by its owner or by a subnet.
LEMMA SameNextHop ==
  ASSUME NEW inv, NEW inw, SameDevices(inv, inw),
         NEW d \in DOMAIN inv, NEW e \in DOMAIN inw, inv[d] = inw[e], NEW addr
  PROVE  Corresponds(inv, inw, ResolveNextHop(inv, d, addr), ResolveNextHop(inw, e, addr))
<1> DEFINE ownersV == {r \in Refs(inv) :
                         r[1] # d /\ Iface(inv, r).net # {} /\ Iface(inv, r).addr = addr}
           ownersW == {s \in Refs(inw) :
                         s[1] # e /\ Iface(inw, s).net # {} /\ Iface(inw, s).addr = addr}
           netsV   == {r \in Refs(inv) : r[1] # d /\ addr \in Iface(inv, r).net}
           netsW   == {s \in Refs(inw) : s[1] # e /\ addr \in Iface(inw, s).net}
<1>1. ASSUME NEW r \in Refs(inv), NEW s \in Refs(inw), SameRef(inv, inw, r, s)
      PROVE  r[1] = d <=> s[1] = e
  <2>1. r[1] \in DOMAIN inv /\ s[1] \in DOMAIN inw /\ inv[r[1]] = inw[s[1]]
    BY <1>1, RefParts DEF SameDevices, SameRef
  <2>2. QED
    BY <2>1 DEF SameDevices, WellFormed
<1>2. ASSUME NEW r \in Refs(inv)
      PROVE  \E s \in Refs(inw) : /\ SameRef(inv, inw, r, s) /\ Iface(inw, s) = Iface(inv, r)
                                  /\ r[1] = d <=> s[1] = e
  BY <1>1, Counterpart
<1>3. ASSUME NEW s \in Refs(inw)
      PROVE  \E r \in Refs(inv) : /\ SameRef(inv, inw, r, s) /\ Iface(inw, s) = Iface(inv, r)
                                  /\ r[1] = d <=> s[1] = e
  <2>1. PICK r \in Refs(inv) : SameRef(inw, inv, s, r) /\ Iface(inv, r) = Iface(inw, s)
    BY Counterpart, DevicesBack
  <2>2. SameRef(inv, inw, r, s)
    BY <2>1 DEF SameRef
  <2>3. QED
    BY <1>1, <2>1, <2>2
<1>4. /\ \A r \in ownersV : \E s \in ownersW :
           SameRef(inv, inw, r, s) /\ Iface(inw, s) = Iface(inv, r)
      /\ \A r \in netsV : \E s \in netsW :
           SameRef(inv, inw, r, s) /\ Iface(inw, s) = Iface(inv, r)
  BY <1>2
<1>5. /\ \A s \in ownersW : \E r \in ownersV :
           SameRef(inv, inw, r, s) /\ Iface(inw, s) = Iface(inv, r)
      /\ \A s \in netsW : \E r \in netsV :
           SameRef(inv, inw, r, s) /\ Iface(inw, s) = Iface(inv, r)
  BY <1>3
<1>6. /\ ResolveNextHop(inv, d, addr) = IF ownersV # {} THEN FirstRef(inv, ownersV)
                                        ELSE IF netsV # {} THEN FirstRef(inv, netsV) ELSE NoRef
      /\ ResolveNextHop(inw, e, addr) = IF ownersW # {} THEN FirstRef(inw, ownersW)
                                        ELSE IF netsW # {} THEN FirstRef(inw, netsW) ELSE NoRef
  <2>1. /\ ownersV = {r \in {r \in Refs(inv) : r[1] # d} :
                        Iface(inv, r).net # {} /\ Iface(inv, r).addr = addr}
        /\ netsV = {r \in {r \in Refs(inv) : r[1] # d} : addr \in Iface(inv, r).net}
        /\ ownersW = {r \in {r \in Refs(inw) : r[1] # e} :
                        Iface(inw, r).net # {} /\ Iface(inw, r).addr = addr}
        /\ netsW = {r \in {r \in Refs(inw) : r[1] # e} : addr \in Iface(inw, r).net}
    OBVIOUS
  <2> HIDE DEF ownersV, ownersW, netsV, netsW
  <2>2. QED
    BY <2>1 DEF ResolveNextHop
<1>7. /\ ownersV \subseteq Refs(inv) /\ netsV \subseteq Refs(inv)
      /\ ownersW \subseteq Refs(inw) /\ netsW \subseteq Refs(inw)
  OBVIOUS
<1> HIDE DEF ownersV, ownersW, netsV, netsW
<1>8. CASE ownersV # {}
  <2>1. ownersW # {}
    BY <1>4, <1>8
  <2>2. Corresponds(inv, inw, FirstRef(inv, ownersV), FirstRef(inw, ownersW))
    BY <1>4, <1>5, <1>7, <1>8, <2>1, SameFirstRef
  <2>3. QED
    BY <1>6, <1>8, <2>1, <2>2
<1>9. CASE ownersV = {} /\ netsV # {}
  <2>1. ownersW = {} /\ netsW # {}
    BY <1>4, <1>5, <1>9
  <2>2. Corresponds(inv, inw, FirstRef(inv, netsV), FirstRef(inw, netsW))
    BY <1>4, <1>5, <1>7, <1>9, <2>1, SameFirstRef
  <2>3. QED
    BY <1>6, <1>9, <2>1, <2>2
<1>10. CASE ownersV = {} /\ netsV = {}
  <2>1. ownersW = {} /\ netsW = {}
    BY <1>5, <1>10
  <2>2. QED
    BY <1>6, <1>10, <2>1 DEF Corresponds
<1>11. QED
  BY <1>8, <1>9, <1>10
-----------------------------------------------------------------------------
(***************************************************************************)
(* Their answers.                                                          *)
(***************************************************************************)
SameHop(inv, inw, h, g) ==
  /\ h.device \in DOMAIN inv /\ g.device \in DOMAIN inw
  /\ inv[h.device] = inw[g.device]
  /\ h.ingress = g.ingress

\* Corresponding references lead to the same device and interface name.
LEMMA SameEntry ==
  ASSUME NEW inv, NEW inw, SameDevices(inv, inw), NEW r, NEW s, Corresponds(inv, inw, r, s),
         NEW d, NEW in, NEW e, NEW into, EntersAt(inv, r, d, in), EntersAt(inw, s, e, into)
  PROVE  d \in DOMAIN inv /\ e \in DOMAIN inw /\ inv[d] = inw[e] /\ in = into
<1>1. r \in Refs(inv) /\ s \in Refs(inw) /\ inv[r[1]] = inw[s[1]] /\ r[2] = s[2]
  BY DEF Corresponds, EntersAt, SameRef
<1>2. /\ r[1] \in DOMAIN inv /\ Iface(inv, r) = inv[r[1]].ifaces[r[2]]
      /\ s[1] \in DOMAIN inw /\ Iface(inw, s) = inw[s[1]].ifaces[s[2]]
  BY <1>1, RefParts DEF SameDevices
<1>3. QED
  BY <1>1, <1>2 DEF EntersAt

\* The same device sends the flow to the same interface.
LEMMA SameReceiver ==
  ASSUME NEW inv, NEW inw, SameDevices(inv, inw), NEW f, NEW h, NEW g, SameHop(inv, inw, h, g)
  PROVE  /\ Corresponds(inv, inw, Receiver(inv, f, h), Receiver(inw, f, g))
         /\ PassesOn(inv[h.device], f, h.ingress) <=> PassesOn(inw[g.device], f, g.ingress)
         /\ GoesOn(inv, f, h) <=> GoesOn(inw, f, g)
<1>1. Corresponds(inv, inw, Receiver(inv, f, h), Receiver(inw, f, g))
  BY SameNextHop DEF SameHop, Receiver
<1>2. PassesOn(inv[h.device], f, h.ingress) <=> PassesOn(inw[g.device], f, g.ingress)
  BY DEF SameHop
<1>3. GoesOn(inv, f, h) <=> GoesOn(inw, f, g)
  BY <1>1, <1>2 DEF GoesOn, Corresponds
<1>4. QED
  BY <1>1, <1>2, <1>3

\* As far as both ways go they are on the same devices.
LEMMA SameSteps ==
  ASSUME NEW inv, NEW inw, SameDevices(inv, inw), NEW f,
         NEW H, NEW hs \in Seq(H), NEW G, NEW gs \in Seq(G), Way(inv, f, hs), Way(inw, f, gs)
  PROVE  \A n \in DOMAIN hs \cap DOMAIN gs : SameHop(inv, inw, hs[n], gs[n])
<1> DEFINE Bad == {n \in DOMAIN hs \cap DOMAIN gs : ~SameHop(inv, inw, hs[n], gs[n])}
<1>1. /\ DOMAIN hs = 1..Len(hs) /\ Len(hs) \in Nat /\ (1 \in DOMAIN hs => hs # << >>)
      /\ DOMAIN gs = 1..Len(gs) /\ Len(gs) \in Nat /\ (1 \in DOMAIN gs => gs # << >>)
  OBVIOUS
<1>2. SUFFICES ASSUME Bad # {}
               PROVE  FALSE
  OBVIOUS
<1>3. Bad \subseteq Nat
  BY <1>1
<1>4. PICK n \in Bad : \A m \in Bad : n <= m
  BY <1>2, <1>3, LeastElement
<1>5. n \in DOMAIN hs /\ n \in DOMAIN gs /\ ~SameHop(inv, inw, hs[n], gs[n]) /\ n \in Nat
  BY <1>3, <1>4
<1>6. hs[n].device \in DOMAIN inv /\ gs[n].device \in DOMAIN inw
  BY <1>5 DEF Way
<1>7. CASE n = 1
  <2>1. /\ EntersAt(inv, ContainingInterface(inv, f.src), hs[1].device, hs[1].ingress)
        /\ EntersAt(inw, ContainingInterface(inw, f.src), gs[1].device, gs[1].ingress)
    BY <1>1, <1>5, <1>7 DEF Way
  <2>2. Corresponds(inv, inw, ContainingInterface(inv, f.src), ContainingInterface(inw, f.src))
    BY SameContaining
  <2>3. inv[hs[1].device] = inw[gs[1].device] /\ hs[1].ingress = gs[1].ingress
    BY <2>1, <2>2, SameEntry
  <2>4. QED
    BY <1>5, <1>6, <1>7, <2>3 DEF SameHop
<1>8. CASE n # 1
  <2> DEFINE m == n - 1
  <2>1. /\ m \in DOMAIN hs /\ m \in DOMAIN gs /\ m \notin Bad
        /\ m + 1 = n /\ m + 1 \in DOMAIN hs /\ m + 1 \in DOMAIN gs
    BY <1>1, <1>4, <1>5, <1>8
  <2>2. SameHop(inv, inw, hs[m], gs[m])
    BY <2>1
  <2>3. Corresponds(inv, inw, Receiver(inv, f, hs[m]), Receiver(inw, f, gs[m]))
    BY <2>2, SameReceiver
  <2> HIDE DEF m
  <2>4. EntersAt(inv, Receiver(inv, f, hs[m]), hs[n].device, hs[n].ingress)
    BY <2>1 DEF Way
  <2>5. EntersAt(inw, Receiver(inw, f, gs[m]), gs[n].device, gs[n].ingress)
    BY <2>1 DEF Way
  <2>6. inv[hs[n].device] = inw[gs[n].device] /\ hs[n].ingress = gs[n].ingress
    BY <2>3, <2>4, <2>5, SameEntry
  <2>7. QED
    BY <1>5, <1>6, <2>6 DEF SameHop
<1>9. QED
  BY <1>7, <1>8

\* An answer ends where the flow stops, and it stops at the same place.
LEMMA NoLonger ==
  ASSUME NEW inv, NEW inw, SameDevices(inv, inw), NEW f,
         NEW H, NEW hs \in Seq(H), NEW G, NEW gs \in Seq(G), NEW v, NEW why,
         AnswerOf(inv, f, hs, v, why), Way(inw, f, gs)
  PROVE  Len(gs) <= Len(hs)
<1>1. /\ DOMAIN hs = 1..Len(hs) /\ Len(hs) \in Nat
      /\ DOMAIN gs = 1..Len(gs) /\ Len(gs) \in Nat
      /\ hs = << >> <=> Len(hs) = 0
      /\ gs = << >> <=> Len(gs) = 0
      /\ MaxHops \in Nat
  BY PathTraceAssumption
<1>2. SUFFICES ASSUME Len(hs) < Len(gs)
               PROVE  FALSE
  BY <1>1
<1>3. CASE hs = << >>
  <2>1. ContainingInterface(inv, f.src) = NoRef
    BY <1>3 DEF AnswerOf
  <2>2. ContainingInterface(inw, f.src) = NoRef
    BY <2>1, SameContaining DEF Corresponds
  <2>3. EntersAt(inw, ContainingInterface(inw, f.src), gs[1].device, gs[1].ingress)
    BY <1>1, <1>2 DEF Way
  <2>4. QED
    BY <2>2, <2>3 DEF EntersAt
<1>4. CASE hs # << >>
  <2> DEFINE L == Len(hs)
  <2>1. L \in DOMAIN hs /\ L \in DOMAIN gs /\ L + 1 \in DOMAIN gs /\ Len(hs) < MaxHops
    <3>1. Len(gs) <= MaxHops
      BY DEF Way
    <3>2. QED
      BY <1>1, <1>2, <1>4, <3>1
  <2>2. Way(inv, f, hs) /\ Ending(inv, f, hs, v, why)
    BY <1>4 DEF AnswerOf
  <2>3. \A n \in DOMAIN hs \cap DOMAIN gs : SameHop(inv, inw, hs[n], gs[n])
    BY <2>2, SameSteps
  <2>4. /\ PassesOn(inw[gs[L].device], f, gs[L].ingress)
        /\ EntersAt(inw, Receiver(inw, f, gs[L]), gs[L + 1].device, gs[L + 1].ingress)
    BY <2>1 DEF Way
  <2>5. GoesOn(inw, f, gs[L]) /\ Receiver(inw, f, gs[L])[1] = gs[L + 1].device
    BY <2>4 DEF GoesOn, EntersAt
  <2>6. /\ GoesOn(inv, f, hs[L])
        /\ Corresponds(inv, inw, Receiver(inv, f, hs[L]), Receiver(inw, f, gs[L]))
    BY <2>1, <2>3, <2>5, SameReceiver
  <2>7. PICK n \in DOMAIN hs : hs[n].device = Receiver(inv, f, hs[L])[1]
    BY <1>1, <2>1, <2>2, <2>6 DEF Ending
  <2>8. n \in DOMAIN gs /\ n # L + 1
    BY <1>1, <1>2
  <2>9. inw[gs[n].device] = inw[gs[L + 1].device]
    <3>1. inv[hs[n].device] = inw[gs[n].device]
      BY <2>3, <2>8 DEF SameHop
    <3>2. inv[Receiver(inv, f, hs[L])[1]] = inw[Receiver(inw, f, gs[L])[1]]
      BY <2>6 DEF Corresponds, SameRef, GoesOn
    <3>3. QED
      BY <2>5, <2>7, <3>1, <3>2
  <2>10. gs[n].device \in DOMAIN inw /\ gs[L + 1].device \in DOMAIN inw
    BY <2>1, <2>8 DEF Way
  <2>11. gs[n].device = gs[L + 1].device
    BY <2>9, <2>10 DEF SameDevices, WellFormed
  <2>12. QED
    BY <2>1, <2>8, <2>11 DEF Way
<1>5. QED
  BY <1>3, <1>4

\* One answer, whatever the places: the same hops on the same devices, the same
\* verdict, and a reason at the same place of the same device.
Agree(inv, inw, f, hs, gs, v, w, why, wherefore) ==
  /\ DOMAIN hs = DOMAIN gs
  /\ \A n \in DOMAIN hs :
       /\ SameHop(inv, inw, hs[n], gs[n])
       /\ hs[n] = HopShown(inv[hs[n].device], f, hs[n].ingress, hs[n].device)
       /\ gs[n] = HopShown(inv[hs[n].device], f, hs[n].ingress, gs[n].device)
  /\ v = w
  /\ \/ why = NoReason /\ wherefore = NoReason
     \/ \E what, d, e, i : /\ why = <<what, d, i>> /\ wherefore = <<what, e, i>>
                           /\ d \in DOMAIN inv /\ e \in DOMAIN inw /\ inv[d] = inw[e]

LEMMA SameAnswers ==
  ASSUME NEW inv, NEW inw, SameDevices(inv, inw), NEW f,
         NEW H, NEW hs \in Seq(H), NEW G, NEW gs \in Seq(G),
         NEW v, NEW why, NEW w, NEW wherefore,
         AnswerOf(inv, f, hs, v, why), AnswerOf(inw, f, gs, w, wherefore)
  PROVE  Agree(inv, inw, f, hs, gs, v, w, why, wherefore)
<1>1. Way(inv, f, hs) /\ Way(inw, f, gs) /\ SameDevices(inw, inv)
  BY DevicesBack DEF AnswerOf
<1>2. /\ DOMAIN hs = 1..Len(hs) /\ Len(hs) \in Nat
      /\ DOMAIN gs = 1..Len(gs) /\ Len(gs) \in Nat
      /\ hs = << >> <=> Len(hs) = 0
      /\ gs = << >> <=> Len(gs) = 0
      /\ MaxHops \in Nat
  BY PathTraceAssumption
<1>3. Len(gs) <= Len(hs) /\ Len(hs) <= Len(gs)
  BY <1>1, NoLonger
<1>4. Len(hs) = Len(gs) /\ DOMAIN hs = DOMAIN gs
  <2>1. Len(hs) \in Int /\ Len(gs) \in Int
    BY <1>2
  <2>2. Len(hs) = Len(gs)
    BY <1>3, <2>1
  <2>3. QED
    BY <1>2, <2>2
<1>5. \A n \in DOMAIN hs : SameHop(inv, inw, hs[n], gs[n])
  BY <1>1, <1>4, SameSteps
<1>6. ASSUME NEW n \in DOMAIN hs
      PROVE  /\ hs[n] = HopShown(inv[hs[n].device], f, hs[n].ingress, hs[n].device)
             /\ gs[n] = HopShown(inv[hs[n].device], f, hs[n].ingress, gs[n].device)
  BY <1>1, <1>4, <1>5 DEF Way, SameHop
<1>7. CASE hs = << >>
  <2>1. gs = << >>
    BY <1>2, <1>4, <1>7
  <2>2. v = "no_route" /\ why = NoReason /\ w = "no_route" /\ wherefore = NoReason
    BY <1>7, <2>1 DEF AnswerOf
  <2>3. QED
    BY <1>4, <1>5, <1>6, <2>2 DEF Agree
<1>8. CASE hs # << >>
  <2> DEFINE L == Len(hs)
             h == hs[L]
             g == gs[L]
             r == Receiver(inv, f, h)
             s == Receiver(inw, f, g)
  <2>1. gs # << >> /\ L \in DOMAIN hs /\ Len(gs) = L
    BY <1>2, <1>4, <1>8
  <2>2. Ending(inv, f, hs, v, why) /\ Ending(inw, f, gs, w, wherefore)
    BY <1>8, <2>1 DEF AnswerOf
  <2>3. SameHop(inv, inw, h, g)
    BY <1>5, <2>1
  <2>4. Corresponds(inv, inw, r, s) /\ (GoesOn(inv, f, h) <=> GoesOn(inw, f, g))
    BY <2>3, SameReceiver
  <2>5. g = gs[Len(gs)] /\ h = hs[Len(hs)]
    BY <2>1
  <2>6. h.route = g.route
    <3>1. \A dev, in, d, e : HopShown(dev, f, in, d).route = HopShown(dev, f, in, e).route
      BY DEF HopShown
    <3>2. QED
      BY <1>6, <2>1, <3>1
  <2> HIDE DEF L, h, g, r, s
  <2>7. CASE ~GoesOn(inv, f, h)
    <3>1. /\ v = EndVerdict(inv[h.device], f, h.ingress)
          /\ why = EndReason(inv[h.device], f, h.ingress, h.device)
      BY <2>2, <2>5, <2>7 DEF Ending
    <3>2. /\ w = EndVerdict(inw[g.device], f, g.ingress)
          /\ wherefore = EndReason(inw[g.device], f, g.ingress, g.device)
      BY <2>2, <2>4, <2>5, <2>7 DEF Ending
    <3>3. v = w
      BY <2>3, <3>1, <3>2 DEF SameHop
    <3>4. wherefore = EndReason(inv[h.device], f, h.ingress, g.device)
      BY <2>3, <3>2 DEF SameHop
    <3>5. \E what, i : \A d : EndReason(inv[h.device], f, h.ingress, d) = <<what, d, i>>
      BY DEF EndReason
    <3>6. QED
      BY <1>4, <1>5, <1>6, <2>3, <3>1, <3>3, <3>4, <3>5 DEF SameHop, Agree
  <2>8. CASE GoesOn(inv, f, h) /\ L >= MaxHops
    <3>1. v = "loop" /\ why = <<"route", h.device, h.route>>
      BY <1>2, <2>2, <2>5, <2>8 DEF Ending, L
    <3>2. w = "loop" /\ wherefore = <<"route", g.device, g.route>>
      BY <1>2, <2>1, <2>2, <2>4, <2>5, <2>8 DEF Ending
    <3>3. QED
      BY <1>4, <1>5, <1>6, <2>3, <2>6, <3>1, <3>2 DEF SameHop, Agree
  <2>9. CASE GoesOn(inv, f, h) /\ L < MaxHops
    <3>1. v = "loop" /\ why = <<"device", r[1], 0>>
      BY <1>2, <2>2, <2>5, <2>9 DEF Ending, L, r
    <3>2. w = "loop" /\ wherefore = <<"device", s[1], 0>>
      BY <1>2, <2>1, <2>2, <2>4, <2>5, <2>9 DEF Ending, s
    <3>3. r \in Refs(inv) /\ s \in Refs(inw) /\ inv[r[1]] = inw[s[1]]
      BY <2>4, <2>9 DEF Corresponds, SameRef, GoesOn, r
    <3>4. r[1] \in DOMAIN inv /\ s[1] \in DOMAIN inw
      BY <3>3, RefParts DEF SameDevices
    <3>5. QED
      BY <1>4, <1>5, <1>6, <3>1, <3>2, <3>3, <3>4 DEF Agree
  <2>10. L >= MaxHops \/ L < MaxHops
    BY <1>2 DEF L
  <2>11. QED
    BY <2>7, <2>8, <2>9, <2>10
<1>9. QED
  BY <1>7, <1>8
-----------------------------------------------------------------------------
(***************************************************************************)
(* The two traces.                                                         *)
(***************************************************************************)
\* An inventory and its reordering are of the same devices.
LEMMA ReorderedSame ==
  ASSUME NEW n \in DOMAIN Inventories,
         \A d, e \in DOMAIN Inventories[n] :
           d # e => Inventories[n][d].host # Inventories[n][e].host
  PROVE  SameDevices(Inventories[n], Reordered[n])
<1> DEFINE inv == Inventories[n]
           inw == Reordered[n]
<1>1. /\ DOMAIN Order = DOMAIN inv /\ {Order[i] : i \in DOMAIN Order} = DOMAIN Order
      /\ \A i, j \in DOMAIN Order : i # j => Order[i] # Order[j]
  BY TwinAssumption
<1>2. /\ DOMAIN inw = DOMAIN inv
      /\ \A e \in DOMAIN inv : inw[e] = inv[Order[e]] /\ Order[e] \in DOMAIN inv
  BY <1>1 DEF Reordered
<1>3. \A d \in DOMAIN inv : \E e \in DOMAIN inv : d = Order[e]
  BY <1>1
<1>4. /\ DOMAIN inv \subseteq Nat \ {0}
      /\ \A d \in DOMAIN inv :
           /\ inv[d].host \in Nat
           /\ DOMAIN inv[d].ifaces \subseteq Nat \ {0}
           /\ \A i \in DOMAIN inv[d].ifaces : inv[d].ifaces[i].name \in Nat
  BY PathTraceAssumption DEF Lists
<1> HIDE DEF inw
<1>5. WellFormed(inv)
  BY <1>4 DEF WellFormed
<1> HIDE DEF inv
<1>6. WellFormed(inw)
  <2>1. \A d, e \in DOMAIN inw : d # e => inw[d].host # inw[e].host
    BY <1>1, <1>2, <1>5 DEF WellFormed
  <2>2. QED
    BY <1>2, <1>4, <2>1 DEF WellFormed
<1>7. SameDevices(inv, inw)
  BY <1>2, <1>3, <1>5, <1>6 DEF SameDevices
<1>8. QED
  BY <1>7 DEF inv, inw

\* Hosts in the place of places make the answers one.
LEMMA SameReports ==
  ASSUME NEW inv, NEW inw, SameDevices(inv, inw), NEW f,
         NEW H, NEW hs \in Seq(H), NEW G, NEW gs \in Seq(G),
         NEW v, NEW why, NEW w, NEW wherefore,
         AnswerOf(inv, f, hs, v, why), AnswerOf(inw, f, gs, w, wherefore)
  PROVE  Report(inw, gs, w, wherefore) = Report(inv, hs, v, why)
<1>0. Agree(inv, inw, f, hs, gs, v, w, why, wherefore)
  BY SameAnswers
<1>1. ASSUME NEW d \in DOMAIN inv, NEW e \in DOMAIN inw, inv[d] = inw[e]
      PROVE  HostAt(inv, d) = HostAt(inw, e)
  BY <1>1 DEF HostAt, SameDevices, WellFormed
<1>2. ASSUME NEW n \in DOMAIN hs
      PROVE  [hs[n] EXCEPT !.device = HostAt(inv, @)] = [gs[n] EXCEPT !.device = HostAt(inw, @)]
  <2> DEFINE dev == inv[hs[n].device]
             in  == hs[n].ingress
             d   == hs[n].device
             e   == gs[n].device
             x   == HostAt(inv, d)
  <2>1. /\ SameHop(inv, inw, hs[n], gs[n])
        /\ hs[n] = HopShown(dev, f, in, d) /\ gs[n] = HopShown(dev, f, in, e)
    BY <1>0, <1>2 DEF Agree
  <2>2. HostAt(inw, e) = x
    BY <1>1, <2>1 DEF SameHop
  <2> HIDE DEF dev, in, x
  <2>3. [HopShown(dev, f, in, d) EXCEPT !.device = x]
        = [HopShown(dev, f, in, e) EXCEPT !.device = x]
    BY DEF HopShown
  <2>4. /\ [hs[n] EXCEPT !.device = x] = [HopShown(dev, f, in, d) EXCEPT !.device = x]
        /\ [gs[n] EXCEPT !.device = x] = [HopShown(dev, f, in, e) EXCEPT !.device = x]
    BY <2>1
  <2>5. /\ [hs[n] EXCEPT !.device = HostAt(inv, @)] = [hs[n] EXCEPT !.device = x]
        /\ [gs[n] EXCEPT !.device = HostAt(inw, @)] = [gs[n] EXCEPT !.device = x]
    BY <2>2 DEF x
  <2>6. QED
    BY <2>3, <2>4, <2>5
<1>3. [n \in DOMAIN gs |-> [gs[n] EXCEPT !.device = HostAt(inw, @)]]
      = [n \in DOMAIN hs |-> [hs[n] EXCEPT !.device = HostAt(inv, @)]]
  <2> DEFINE A(n) == [hs[n] EXCEPT !.device = HostAt(inv, @)]
             B(n) == [gs[n] EXCEPT !.device = HostAt(inw, @)]
  <2>1. DOMAIN hs = DOMAIN gs
    BY <1>0 DEF Agree
  <2>2. \A n \in DOMAIN hs : A(n) = B(n)
    BY <1>2
  <2> HIDE DEF A, B
  <2>3. [n \in DOMAIN gs |-> B(n)] = [n \in DOMAIN hs |-> A(n)]
    BY <2>1, <2>2
  <2>4. QED
    BY <2>3 DEF A, B
<1>4. /\ why[1] = wherefore[1] /\ why[3] = wherefore[3]
      /\ HostAt(inv, why[2]) = HostAt(inw, wherefore[2])
  <2>1. CASE why = NoReason /\ wherefore = NoReason
    BY <2>1 DEF NoReason, HostAt
  <2>2. CASE ~(why = NoReason /\ wherefore = NoReason)
    <3>1. PICK what, d, e, i : /\ why = <<what, d, i>> /\ wherefore = <<what, e, i>>
                               /\ d \in DOMAIN inv /\ e \in DOMAIN inw /\ inv[d] = inw[e]
      BY <1>0, <2>2 DEF Agree
    <3>2. HostAt(inv, d) = HostAt(inw, e)
      BY <1>1, <3>1
    <3>3. QED
      BY <3>1, <3>2
  <2>3. QED
    BY <2>1, <2>2
<1>5. QED
  BY <1>0, <1>3, <1>4 DEF Agree, Report

\* The first trace is a trace of the inventories, ...
LEMMA FirstTrace == TwinSpec => PathSpec
<1>1. TwinInit => PathInit
  BY DEF TwinInit
<1>2. [TwinNext]_<<pathVars, againVars>> => [PathNext]_pathVars
  BY DEF TwinNext
<1>3. QED
  BY <1>1, <1>2, PTL DEF TwinSpec, PathSpec

\* ... the second one of their reorderings.
LEMMA SecondTrace == TwinSpec => Twin!PathSpec
<1>1. TwinInit => Twin!PathInit
  BY AgainSteps DEF TwinInit
<1>2. [TwinNext]_<<pathVars, againVars>> => [Twin!PathNext]_Twin!pathVars
  <2>1. againVars = Twin!pathVars /\ againVars = Again!pathVars
    BY DEF againVars, Twin!pathVars, Again!pathVars
  <2>2. [TwinNext]_<<pathVars, againVars>> => [Again!PathNext]_Again!pathVars
    BY <2>1 DEF TwinNext, againVars, Again!pathVars
  <2>3. QED
    BY <2>2, AgainSteps
<1>3. QED
  BY <1>1, <1>2, PTL DEF TwinSpec, Twin!PathSpec

\* Both traces are of the same flow through the same devices.
SameQuestion == net2 = net /\ flow2 = flow

\* No step changes the question.
LEMMA QuestionStays == TwinSpec => []SameQuestion
<1>1. TwinInit => SameQuestion
  BY DEF TwinInit, SameQuestion
<1>2. PathNext => UNCHANGED <<net, flow>>
  BY DEF PathNext, RefuseFlow, NoSource, Begin, TooManyHops, Revisit, DropACL, NoRoute, DropPolicy,
    Deliver, Unresolved, Forward, Conclude
<1>3. Again!PathNext => UNCHANGED <<net2, flow2>>
  BY DEF Again!PathNext, Again!RefuseFlow, Again!NoSource, Again!Begin, Again!TooManyHops,
    Again!Revisit, Again!DropACL, Again!NoRoute, Again!DropPolicy, Again!Deliver,
    Again!Unresolved, Again!Forward, Again!Conclude
<1>4. SameQuestion /\ [TwinNext]_<<pathVars, againVars>> => SameQuestion'
  BY <1>2, <1>3 DEF SameQuestion, TwinNext, pathVars, againVars
<1>5. QED
  BY <1>1, <1>4, PTL DEF TwinSpec

\* For any inventories and flows, and any order of the devices: the answer does
\* not change, to the last interface and rule of its hops, when their hostnames differ.
THEOREM SameAnswerAlways == TwinSpec => []SameAnswer
<1>1. Twin!PathTraceAssumption
  <2>1. ASSUME NEW n \in DOMAIN Reordered
        PROVE  /\ n \in DOMAIN Inventories
               /\ DOMAIN Reordered[n] = DOMAIN Inventories[n]
               /\ \A d \in DOMAIN Reordered[n] : \E e \in DOMAIN Inventories[n] :
                    Reordered[n][d] = Inventories[n][e]
    BY TwinAssumption DEF Reordered
  <2>2. \A dev : Twin!Lists(dev) = Lists(dev)
    BY DEF Twin!Lists, Lists
  <2>3. MaxHops \in Nat \ {0}
    BY PathTraceAssumption
  <2>4. \A n \in DOMAIN Reordered : DOMAIN Reordered[n] \subseteq Nat \ {0}
    BY <2>1, PathTraceAssumption
  <2>5. ASSUME NEW n \in DOMAIN Reordered, NEW d \in DOMAIN Reordered[n]
        PROVE  LET inv == Reordered[n]
               IN  /\ inv[d].host \in Nat
                   /\ \A list \in Twin!Lists(inv[d]) : DOMAIN list \subseteq Nat \ {0}
                   /\ \A i \in DOMAIN inv[d].ifaces : inv[d].ifaces[i].name \in Nat
                   /\ \A i \in DOMAIN inv[d].routes : /\ inv[d].routes[i].bits \in 0..32
                                                      /\ inv[d].routes[i].ad \in Nat
                                                      /\ inv[d].routes[i].iface \in Nat
    <3>1. PICK e \in DOMAIN Inventories[n] : Reordered[n][d] = Inventories[n][e]
      BY <2>1
    <3>2. n \in DOMAIN Inventories
      BY <2>1
    <3>3. QED
      BY <2>2, <3>1, <3>2, PathTraceAssumption
  <2>6. QED
    BY <2>3, <2>4, <2>5 DEF Twin!PathTraceAssumption
<1>2. ASSUME PathTypeOK, Walked, Twin!PathTypeOK, Twin!Walked, SameQuestion, DistinctHosts,
             Ended(pc), Ended(pc2)
      PROVE  /\ pc2 = pc
             /\ Report(Again!inventory, hops2, verdict2, reason2)
                = Report(inventory, hops, verdict, reason)
  <2>1. /\ net \in DOMAIN Inventories /\ inventory = Inventories[net]
        /\ Again!inventory = Reordered[net] /\ Twin!inventory = Reordered[net]
        /\ Twin!BadFlow <=> BadFlow
    <3>1. net \in DOMAIN Inventories /\ net2 = net /\ flow2 = flow
      BY <1>2 DEF PathTypeOK, SameQuestion
    <3>2. Twin!BadFlow <=> BadFlow
      BY <3>1 DEF BadFlow, Twin!BadFlow, Unset, Twin!Unset
    <3>3. QED
      BY <3>1, <3>2 DEF inventory, Again!inventory, Twin!inventory
  <2>2. pc \in {"done", "error"} /\ pc2 \in {"done", "error"}
    BY <1>2 DEF Ended
  <2>3. pc2 = pc
    BY <1>2, <2>1, <2>2 DEF Walked, Twin!Walked
  <2>4. CASE pc = "error"
    <3>1. /\ hops = << >> /\ verdict = "none" /\ reason = NoReason
          /\ hops2 = << >> /\ verdict2 = "none" /\ reason2 = NoReason
      BY <1>2, <2>3, <2>4 DEF Walked, Twin!Walked, NoReason, Twin!NoReason
    <3>2. \A inv : HostAt(inv, NoReason[2]) = 0
      BY DEF NoReason, HostAt
    <3>3. QED
      BY <2>3, <3>1, <3>2 DEF Report
  <2>5. CASE pc = "done"
    <3>1. /\ AnswerOf(inventory, flow, hops, verdict, reason)
          /\ Twin!AnswerOf(Twin!inventory, flow2, hops2, verdict2, reason2)
      BY <1>2, <2>3, <2>5 DEF Walked, Twin!Walked
    <3>2. AnswerOf(Again!inventory, flow, hops2, verdict2, reason2)
      BY <1>2, <2>1, <3>1, TwinAnswers DEF SameQuestion
    <3>3. \E H, G : hops \in Seq(H) /\ hops2 \in Seq(G)
      BY <1>2 DEF PathTypeOK, Twin!PathTypeOK
    <3>4. SameDevices(inventory, Again!inventory)
      BY <1>2, <2>1, ReorderedSame DEF DistinctHosts
    <3>5. QED
      BY <2>3, <3>1, <3>2, <3>3, <3>4, SameReports
  <2>6. QED
    BY <2>2, <2>4, <2>5
<1>3. PathTypeOK /\ Walked /\ Twin!PathTypeOK /\ Twin!Walked /\ SameQuestion => SameAnswer
  BY <1>2 DEF SameAnswer
<1>4. PathSpec => [](PathTypeOK /\ Walked)
  BY PathInvariant, WalkedInvariant, PTL DEF PathInv
<1>5. Twin!PathSpec => [](Twin!PathTypeOK /\ Twin!Walked)
  <2>1. Twin!PathInv => Twin!PathTypeOK
    BY DEF Twin!PathInv
  <2>2. QED
    BY <1>1, <2>1, Twin!PathInvariant, Twin!WalkedInvariant, PTL
<1>6. QED
  BY <1>3, <1>4, <1>5, FirstTrace, SecondTrace, QuestionStays, PTL
=============================================================================
