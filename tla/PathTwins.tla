------------------------------ MODULE PathTwins ------------------------------
(***************************************************************************)
(* Trace run twice on the same devices, the second time with the inventory *)
(* in another order, as when the configuration files are renamed. The      *)
(* second trace starts when the first has ended.                           *)
(***************************************************************************)
EXTENDS PathTrace

CONSTANT Order  \* where each place of the second inventory is in the first

ASSUME TwinAssumption ==
  \A n \in DOMAIN Inventories :
    /\ DOMAIN Order = DOMAIN Inventories[n]
    /\ {Order[i] : i \in DOMAIN Order} = DOMAIN Order
    /\ \A i, j \in DOMAIN Order : i # j => Order[i] # Order[j]

Reordered == [n \in DOMAIN Inventories |-> [i \in DOMAIN Order |-> Inventories[n][Order[i]]]]

VARIABLES pc2, net2, flow2, current2, ingress2, visited2, hops2, verdict2, reason2

Again == INSTANCE PathTrace WITH
  Inventories <- Reordered, pc <- pc2, net <- net2, flow <- flow2, current <- current2,
  ingress <- ingress2, visited <- visited2, hops <- hops2, verdict <- verdict2, reason <- reason2

againVars == <<pc2, net2, flow2, current2, ingress2, visited2, hops2, verdict2, reason2>>

Ended(p) == p \in {"done", "error"}

TwinInit == PathInit /\ net2 = net /\ flow2 = flow /\ Again!PathInit

TwinNext ==
  \/ PathNext /\ UNCHANGED againVars
  \/ Ended(pc) /\ Again!PathNext /\ UNCHANGED pathVars

TwinSpec == TwinInit /\ [][TwinNext]_<<pathVars, againVars>>

-----------------------------------------------------------------------------
DistinctHosts ==
  \A d, e \in DOMAIN inventory : d # e => inventory[d].host # inventory[e].host

HostAt(inv, d) == IF d = 0 THEN 0 ELSE inv[d].host

\* what is printed of a path: hostnames, not places in the inventory
Report(inv, hs, v, why) ==
  [hops    |-> [n \in DOMAIN hs |-> [hs[n] EXCEPT !.device = HostAt(inv, @)]],
   verdict |-> v,
   reason  |-> <<why[1], HostAt(inv, why[2]), why[3]>>]

\* The order in which devices are read changes nothing in the answer, down to
\* each hop's interfaces and rules, when their hostnames differ: candidates are
\* sorted by hostname and interface name (path.go:183-188, and the rules at
\* docs/path-json-schema.md:91-92).
SameAnswer ==
  DistinctHosts /\ Ended(pc) /\ Ended(pc2) =>
    /\ pc2 = pc
    /\ Report(Again!inventory, hops2, verdict2, reason2) = Report(inventory, hops, verdict, reason)
=============================================================================
