------------------------------ MODULE FortiText ------------------------------
(***************************************************************************)
(* The FortiOS parser (internal/parser/fortios/fortios.go): sections nest  *)
(* on a stack, "edit" names the object the "set" lines after it are about, *)
(* and a policy's interfaces become zones once the whole file is read.     *)
(***************************************************************************)
EXTENDS ConfigText

\* currentSection
Section(s) == IF s.stack = << >> THEN None ELSE Last(s.stack)

\* the object a section's "edit" opens, first seen on line i
Item(section, name, i) ==
  LET known == [name |-> name, evidence |-> << >>] IN
  CASE section = "system interface" -> NewInterface(name, << >>)
    [] section = "router static"    -> [destination |-> << >>, nexthop |-> None, interface |-> None,
                                        distance |-> None, vrf |-> None] @@ known
    [] section = "system zone"      -> [interfaces |-> << >>] @@ known
    [] section = "firewall policy"  -> [title |-> name, src |-> << >>, dst |-> << >>, action |-> None] @@ known

Sections == {"system interface", "router static", "system zone", "firewall policy"}

\* appendUniqueAll
Union(names, more) ==
  FoldLeft(LAMBDA all, name : IF name \in ToSet(all) THEN all ELSE Append(all, name), names, more)

\* parseSet, on the object the line is about; key and values are the fields after "set"
SetField(section, item, ln) ==
  LET key    == ln.args[1]
      values == Tail(ln.args)
  IN CASE section = "system interface" /\ key = "alias"  -> [item EXCEPT !.description = values[1]]
       [] section = "system interface" /\ key = "ip" /\ Len(values) > 1 -> [item EXCEPT !.mode = "routed", !.ipv4 = values[1]]
       [] section = "system interface" /\ key = "status" -> [item EXCEPT !.shutdown = values[1] = "down"]
       [] section = "system interface" /\ key = "type" /\ values[1] = "vlan" -> [item EXCEPT !.mode = "routed"]
       [] section = "system interface" /\ key = "vlanid" -> [item EXCEPT !.access = NumberIn(ln.ids)]
       [] section = "router static" /\ key = "dst"       -> [item EXCEPT !.destination = ln.ids]
       [] section = "router static" /\ key = "gateway"   -> [item EXCEPT !.nexthop = values[1]]
       [] section = "router static" /\ key = "device"    -> [item EXCEPT !.interface = values[1]]
       [] section = "system zone" /\ key = "interface"   -> [item EXCEPT !.interfaces = Union(@, values)]
       [] section = "firewall policy" /\ key = "name"    -> [item EXCEPT !.title = values[1]]
       [] section = "firewall policy" /\ key = "srcintf" -> [item EXCEPT !.src = Union(@, values)]
       [] section = "firewall policy" /\ key = "dstintf" -> [item EXCEPT !.dst = Union(@, values)]
       [] section = "firewall policy" /\ key = "action"  -> [item EXCEPT !.action = values[1]]
       [] OTHER -> item

\* parseSet, on the device itself
SetDevice(section, dev, ln, i) ==
  LET target == Target(ln.args[2], <<i>>) IN
  CASE section = "system global" /\ ln.args[1] = "hostname" -> [dev EXCEPT !.hostname = ln.args[2], !.evidence = <<i>>]
    [] section = "ntpserver" /\ ln.args[1] = "server"       -> Adding(dev, "ntp", target)
    [] section = "system snmp community" /\ ln.args[1] = "name" -> Adding(dev, "communities", target)
    [] section = "hosts" /\ ln.args[1] = "ip"               -> Adding(dev, "hosts", target)
    [] OTHER -> dev

\* the VLAN an interface is tagged with: the last line that says so is its evidence
SetVLAN(section, vlans, ln, i) ==
  IF section # "system interface" \/ ln.args[1] # "vlanid" \/ NumberIn(ln.ids) = 0 THEN vlans
  ELSE {v \in vlans : v.id # NumberIn(ln.ids)} \cup {[id |-> NumberIn(ln.ids), name |-> None, evidence |-> <<i>>]}

SetLine(s, ln, i) ==
  LET section == Section(s)
      item    == SetField(section, Named(s.items[section], s.edit, Item(section, s.edit, i)), ln)
  IN IF Len(ln.args) < 2 THEN s
     ELSE IF section \in Sections
     THEN [s EXCEPT !.items[section] = Put(@, [item EXCEPT !.evidence = Append(@, i)]),
                    !.vlans = SetVLAN(section, @, ln, i)]
     ELSE [s EXCEPT !.dev = SetDevice(section, @, ln, i)]

-----------------------------------------------------------------------------
Opened(s, name, i) ==
  [s EXCEPT !.edit = name,
            !.items = IF Section(s) \in Sections
                      THEN [@ EXCEPT ![Section(s)] = Put(@, Named(@, name, Item(Section(s), name, i)))] ELSE @]

\* Mutant of Closed: "end" keeps the object of the section inside it
ClosedKeepsEdit(s) == [s EXCEPT !.stack = IF @ = << >> THEN @ ELSE Front(@)]

\* "end" forgets the object, also where the section it closes was nested in it
Closed(s) == [s EXCEPT !.stack = IF @ = << >> THEN @ ELSE Front(@), !.edit = None]

\* one line of ParseFile's loop
FortiStep(text, s, i) ==
  LET ln == text[i] IN
  CASE ln.word = "config" -> [s EXCEPT !.stack = Append(@, ln.args[1]), !.edit = None]
    [] ln.word = "edit"   -> Opened(s, ln.args[1], i)
    [] ln.word = "set"    -> SetLine(s, ln, i)
    [] ln.word = "next"   -> [s EXCEPT !.edit = None]
    [] ln.word = "end"    -> Closed(s)
    [] OTHER              -> s

-----------------------------------------------------------------------------
\* ifaceToZone ranges over a map: of the zones of an interface, the one that comes last in
\* order is its zone
Zoned(zones, name) == {n \in DOMAIN zones : name \in ToSet(zones[n].interfaces)}

ZoneOf(zones, order, name) ==
  zones[CHOOSE n \in Zoned(zones, name) : \A m \in Zoned(zones, name) : order[m] <= order[n]].name

\* zoneForInterfaces: the zone of the first interface that has one
ZoneFor(zones, order, names) ==
  LET zoned == SelectSeq(names, LAMBDA name : Zoned(zones, name) # {})
  IN IF zoned = << >> THEN None ELSE ZoneOf(zones, order, zoned[1])

\* sortedPolicies: one without an action is left out
Policies(items, order) ==
  LET complete == SelectSeq(items["firewall policy"], LAMBDA p : p.action # None)
      zones    == items["system zone"]
  IN [n \in DOMAIN complete |->
        [name |-> complete[n].title, action |-> complete[n].action, evidence |-> complete[n].evidence,
         from |-> ZoneFor(zones, order, complete[n].src), to |-> ZoneFor(zones, order, complete[n].dst)]]

\* the devices ParseFile may return
FortiDevices(text) ==
  LET end == FoldLeft(LAMBDA s, i : FortiStep(text, s, i),
                      [dev |-> NoDevice, stack |-> << >>, edit |-> None, vlans |-> {},
                       items |-> [section \in Sections |-> << >>]], Lines(1, Len(text)))
  IN {[end.dev EXCEPT !.vlans = SetToSortSeq(end.vlans, LAMBDA v, w : v.id < w.id),
                      !.interfaces = end.items["system interface"],
                      !.routes = end.items["router static"],
                      !.zones = end.items["system zone"],
                      !.policies = Policies(end.items, order)] :
        order \in Permutations(DOMAIN end.items["system zone"])}
=============================================================================
