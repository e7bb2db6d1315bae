----------------------------- MODULE MCPathTrace -----------------------------
(***************************************************************************)
(* Four devices on one LAN, each with a subnet of its own, with the        *)
(* routes, ACLs and policies below. The flow goes from the first device's  *)
(* subnet to the fourth's. "c9" is on the LAN and no device owns it;       *)
(* "null" is a next hop that is not an address.                            *)
(***************************************************************************)
EXTENDS PathTrace

LAN  == {"c1", "c2", "c3", "c4", "c9"}
LanAddr == << "c1", "c2", "c3", "c4" >>
Stub == << "s1", "s2", "s3", "s4" >>
Host == << 3, 1, 4, 2 >>
Lan  == 1   \* the interfaces' names
Own  == 2

Peer == << "c2", "c3", "c2" >>

Route1(bits, ad, via, iface) ==
  [dest |-> {"s4"}, bits |-> bits, ad |-> ad, via |-> via, iface |-> iface]

RouteLists(d) ==
  LET others == {LanAddr[i] : i \in 1..3} \ {LanAddr[d]}
  IN  {<< >>} \cup {<< Route1(24, 0, v, NoName) >> : v \in others \cup {"c9"}}
        \cup {<< Route1(16, 0, Peer[d], NoName), Route1(24, 5, "c4", NoName) >>,
              << Route1(24, 5, Peer[d], NoName), Route1(24, 1, "c4", Lan) >>}
        \cup {<< Route1(24, 0, v, Lan) >> : v \in {Unset, "null"}}

Text(numbers, word) == [numbers |-> numbers, portWord |-> word]
Entry(proto, port, deny) ==
  [proto |-> proto, ports |-> port, text |-> Text(port, port # {}), deny |-> deny]

AclLists ==
  << << >>,
     << Entry("ip", {}, TRUE) >>,
     << Entry("tcp", {443}, FALSE), Entry("ip", {}, TRUE) >>,
     << Entry("udp", {}, TRUE), Entry("tcp", {80}, FALSE) >> >>

Policy1(from, to, kind, deny) ==
  [from |-> from, to |-> to, service |-> [kind |-> kind, text |-> Text({}, TRUE)], deny |-> deny]

PolicyLists ==
  << << >>,
     << Policy1("lan", "own", "any", TRUE), Policy1("lan", "lan", "https", FALSE) >>,
     << Policy1("lan", "any", "http", FALSE), Policy1("", "lan", "any", TRUE) >>,
     << Policy1("own", "", "text", FALSE) >> >>

\* the fourth device lets https in and has no rule for anything else
LastPolicies == << Policy1("lan", "own", "https", FALSE), Policy1("own", "any", "any", TRUE) >>

Zoned == << [name |-> "lan", ifaces |-> {Lan}], [name |-> "own", ifaces |-> {Own}] >>

Device(d, routes, acls, zones, policies) ==
  [host |-> Host[d],
   ifaces |-> << [name |-> Lan, addr |-> LanAddr[d], net |-> LAN],
                 [name |-> Own, addr |-> Stub[d], net |-> {Stub[d]}] >>,
   routes |-> routes, acls |-> acls, zones |-> zones, policies |-> policies,
   nats |-> << [from |-> "lan", to |-> "lan"] >>]

Flow(src, port) == [src |-> src, dst |-> "s4", proto |-> "tcp", dport |-> port]

MCFlows == {Flow("s1", 443), Flow("s1", 80), Flow("c9", 443), Flow("x", 443), Flow("bad", 443)}

\* "access-list 101 permit ip any any" on the second device, before a deny
Labelled(entries) ==
  [i \in DOMAIN entries |-> [entries[i] EXCEPT !.text.numbers = @ \cup {101}]]

LabelledAcls == {Labelled(AclLists[i]) : i \in DOMAIN AclLists}
  \cup {Labelled(<< Entry("ip", {}, FALSE), Entry("tcp", {443}, TRUE) >>)}

LabelledInventories == [c \in RouteLists(1) \X LabelledAcls |->
  << Device(1, c[1], << >>, << >>, << >>),
     Device(2, << Route1(24, 0, "c4", NoName) >>, c[2], << >>, << >>),
     Device(3, << >>, << >>, << >>, << >>), Device(4, << >>, << >>, << >>, << >>) >>]
=============================================================================
