---------------------------- MODULE MCCollectGuard ----------------------------
(***************************************************************************)
(* Two overlapping allowed CIDRs, one denied address in the first of them, *)
(* and every inventory of up to four of the targets below. The limits of a *)
(* run and of a CIDR are both reached, in either order.                    *)
(***************************************************************************)
EXTENDS CollectGuard

MCAllowCIDRs  == << {"a1", "a2", "a3"}, {"a3", "b1", "b2"} >>
MCDenyCIDRs   == << {"a2"} >>
MCAllow       == << "show arp", "show vlan" >>
MCDeny        == {"clear arp", "show vlan"}     \* a deny pattern hits the allowlist too

Target(device, key, ip, neighbor, commands) ==
  [device |-> device, key |-> key, ip |-> ip, neighbor |-> neighbor, commands |-> commands]

MCTargets ==
  { Target("d1", 1, "a1", FALSE, << "show arp" >>),
    Target("d3", 3, "a3", FALSE, << "show arp" >>),   \* in both CIDRs
    Target("d4", 4, "b1", FALSE, << "show arp" >>),
    Target("d2", 2, "a2", FALSE, << "show arp" >>),   \* denied
    Target("d5", 5, "b2", TRUE,  << "show arp" >>),   \* a neighbour
    Target("d6", 6, "b2", FALSE, << >>) }             \* gets the denied "show vlan"

Oddities ==
  { << Target("d1", 1, "a1", FALSE, << "show arp", "clear arp" >>),
       Target("", 0, "a1", FALSE, << "show arp" >>) >>,
    << Target("d7", 7, "", FALSE, << "show arp" >>),
       Target("d8", 8, "bad", FALSE, << "show arp" >>),
       Target("d9", 9, "out", FALSE, << "show arp" >>),
       Target("d1", 1, "a1", FALSE, << "show arp" >>) >> }

MCInventories == UNION {[1..n -> MCTargets] : n \in 0..4} \cup Oddities
=============================================================================
