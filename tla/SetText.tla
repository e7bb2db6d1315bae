------------------------------- MODULE SetText -------------------------------
(***************************************************************************)
(* The parsers of the dialects that are one "set" line after another:      *)
(* Junos (internal/parser/juniper/juniper.go), and VyOS, EdgeOS and PAN-OS *)
(* (internal/parser/setform/setform.go). Each line adds to the object it   *)
(* names; names are resolved when the file is read, so that a line may     *)
(* come before the one it refers to.                                       *)
(***************************************************************************)
EXTENDS ConfigText

NewObject(kind, name) ==
  CASE kind = "interface" -> [refs |-> << >>] @@ NewInterface(name, << >>)
    [] kind = "vlan"      -> [name |-> name, id |-> 0, evidence |-> << >>]
    [] kind = "route"     -> [name |-> name, destination |-> << >>, nexthop |-> None, interface |-> None,
                                 distance |-> None, vrf |-> None, evidence |-> << >>]
    [] kind = "zone"      -> [name |-> name, interfaces |-> << >>, evidence |-> << >>]
    [] kind = "policy"    -> [name |-> name, from |-> None, to |-> None, action |-> None, evidence |-> << >>]
    [] kind = "nat"       -> [name |-> name, from |-> None, to |-> None, kind |-> None, translated |-> None,
                                 evidence |-> << >>]

Kinds == {"interface", "vlan", "route", "zone", "policy", "nat"}

VyattaWords == {"interfaces ethernet", "interfaces ethernet description", "interfaces ethernet disable",
                "interfaces ethernet address"}

SetStart == [dev |-> NoDevice, items |-> [kind \in Kinds |-> << >>]]

\* the object of that name with one more line of evidence
Grown(s, kind, name, i) ==
  LET item == Named(s.items[kind], name, NewObject(kind, name)) IN [item EXCEPT !.evidence = Append(@, i)]

Keep(s, kind, item) == [s EXCEPT !.items[kind] = Put(@, item)]

\* What concerns the device as a whole, under the words of each dialect
Naming    == {"system host-name", "deviceconfig system hostname"}
Targets   == ("system ntp server" :> "ntp") @@ ("deviceconfig system ntp-servers" :> "ntp")
             @@ ("system syslog host" :> "syslog") @@ ("shared log-settings syslog" :> "syslog")
             @@ ("snmp community" :> "communities") @@ ("service snmp community" :> "communities")
             @@ ("deviceconfig system snmp-setting" :> "communities")
Spoken(vendor) ==
  CASE vendor = "juniper" -> {"system host-name", "system ntp server", "system syslog host", "snmp community",
                              "routing-options static route"}
    [] vendor = "paloalto-panos" ->
         {"deviceconfig system hostname", "deviceconfig system ntp-servers", "shared log-settings syslog",
          "deviceconfig system snmp-setting"}
    [] OTHER -> {"system host-name", "system ntp server", "system syslog host", "service snmp community",
                 "protocols static route"}

SystemLine(vendor, s, ln, i) ==
  IF ln.word \notin Spoken(vendor) THEN s
  ELSE [s EXCEPT !.dev =
          IF ln.word \in Naming THEN [@ EXCEPT !.hostname = ln.args[1], !.evidence = <<i>>]
          ELSE IF ln.word \in DOMAIN Targets THEN Adding(@, Targets[ln.word], Target(ln.args[1], <<i>>))
          ELSE Adding(@, "routes", [NewRoute(ln.ids, <<i>>) EXCEPT !.nexthop = ln.args[1]])]

-----------------------------------------------------------------------------
\* Junos: parseInterfaceLine; args are the interface, and the value. A VLAN member is a
\* name, or a number.
Members(ln) ==
  [n \in DOMAIN Tail(ln.args) |-> [name |-> Tail(ln.args)[n], id |-> 0]]
  \o [n \in DOMAIN ln.ids |-> [name |-> None, id |-> NumberIn(<<ln.ids[n]>>)]]

JunosInterface(s, ln, i) ==
  LET item == Grown(s, "interface", ln.args[1], i) IN
  Keep(s, "interface",
    CASE ln.word = "interfaces description" -> [item EXCEPT !.description = ln.args[2]]
      [] ln.word = "interfaces disable"     -> [item EXCEPT !.shutdown = TRUE]
      [] ln.word = "interfaces interface-mode" -> [item EXCEPT !.mode = ln.args[2]]
      [] ln.word = "interfaces vlan members"   -> [item EXCEPT !.refs = @ \o Members(ln)]
      [] ln.word = "interfaces address"     -> [item EXCEPT !.mode = "routed", !.ipv4 = ln.args[2]]
      [] OTHER                              -> item)

\* parseVLANLine: the last line that numbers a VLAN is all there is of it
JunosVLAN(s, ln, i) ==
  IF ~IsNumber(ln.ids) THEN s
  ELSE Keep(s, "vlan", [name |-> ln.args[1], id |-> NumberIn(ln.ids), evidence |-> <<i>>])

\* one line of the Junos parser's loop. Of a VyOS interface it makes one called "ethernet".
JunosStep(s, ln, i) ==
  IF ln.word \in {"interfaces", "interfaces description", "interfaces disable", "interfaces interface-mode",
                  "interfaces vlan members", "interfaces address"}
  THEN JunosInterface(s, ln, i)
  ELSE IF ln.word \in VyattaWords THEN Keep(s, "interface", Grown(s, "interface", "ethernet", i))
  ELSE IF ln.word = "vlans vlan-id" THEN JunosVLAN(s, ln, i) ELSE SystemLine("juniper", s, ln, i)

\* Mutant of Resolved: a name is looked up among the VLANs written above it
ResolvedAbove(vlans, ref, evidence) ==
  LET named == {n \in DOMAIN vlans : vlans[n].name = ref.name /\ vlans[n].evidence[1] < Last(evidence)}
  IN IF ref.id # 0 THEN ref.id ELSE IF named = {} THEN 0 ELSE vlans[CHOOSE n \in named : TRUE].id

\* resolveVLAN: the number, or that of the name; 0 for none
Resolved(vlans, ref, evidence) == IF ref.id # 0 THEN ref.id ELSE Named(vlans, ref.name, [id |-> 0]).id

Built(item) == [field \in DOMAIN NewInterface(None, << >>) |-> item[field]]

\* finalizeInterface: a port without a mode keeps no VLAN
FinalInterface(item, vlans) ==
  LET Number(ref) == Resolved(vlans, ref, item.evidence)
      numbers     == [n \in DOMAIN item.refs |-> Number(item.refs[n])]
      IsKnown(id) == id # 0
  IN [Built(item) EXCEPT !.access = IF item.mode = "access" /\ numbers # << >> THEN numbers[1] ELSE @,
                         !.trunk = IF item.mode = "trunk" THEN SelectSeq(numbers, IsKnown) ELSE @]

JunosDevice(text) ==
  LET end   == FoldLeft(LAMBDA s, i : JunosStep(s, text[i], i), SetStart, Lines(1, Len(text)))
      vlans == end.items["vlan"]
  IN [end.dev EXCEPT
        !.vlans = SortSeq(vlans, LAMBDA v, w : v.evidence[1] < w.evidence[1]),
        !.interfaces = [n \in DOMAIN end.items["interface"] |-> FinalInterface(end.items["interface"][n], vlans)]]

-----------------------------------------------------------------------------
\* VyOS and EdgeOS: parseVyattaInterface; a line's number is its "vif"
VifName(base, id) == base \o "." \o ToString(id)

\* it indexes past the end of a line on which nothing follows "address"
Panics(ln) ==
  /\ ln.word = "interfaces ethernet address" /\ Len(ln.args) = 1
  /\ ln.ids = << >> \/ IsNumber(ln.ids)

VyattaInterface(s, ln, i) ==
  LET vif    == ln.ids # << >>
      name   == IF vif THEN VifName(ln.args[1], NumberIn(ln.ids)) ELSE ln.args[1]
      item   == Grown(s, "interface", name, i)
      vlan   == [name |-> ToString(NumberIn(ln.ids)), id |-> NumberIn(ln.ids), evidence |-> <<i>>]
      listed == IF vif THEN Keep(s, "vlan", Named(s.items["vlan"], vlan.name, vlan)) ELSE s
  IN IF vif /\ ~IsNumber(ln.ids) THEN s
     ELSE Keep(listed, "interface",
            CASE ln.word = "interfaces ethernet description" -> [item EXCEPT !.description = ln.args[2]]
              [] ln.word = "interfaces ethernet disable" -> [item EXCEPT !.shutdown = TRUE]
              [] ln.word = "interfaces ethernet address" -> [item EXCEPT !.mode = "routed", !.ipv4 = ln.args[2]]
              [] ln.word = "interfaces ethernet" /\ vif -> [item EXCEPT !.mode = "vlan"]
              [] OTHER                            -> item)

\* parseVyatta
VyattaStep(vendor, s, ln, i) ==
  IF ln.word \in VyattaWords THEN VyattaInterface(s, ln, i) ELSE SystemLine(vendor, s, ln, i)

-----------------------------------------------------------------------------
\* PAN-OS: parsePANOSInterface; a unit is an interface of its own, named with a dot
IsUnit(name) == name = "u1"

PanosInterface(s, ln, i) ==
  LET item   == Grown(s, "interface", ln.args[1], i)
      vlan   == [name |-> ToString(NumberIn(ln.ids)), id |-> NumberIn(ln.ids), evidence |-> <<i>>]
      tagged == ln.word = "network interface tag" /\ IsNumber(ln.ids)
      set    == CASE ln.word = "network interface comment" -> [item EXCEPT !.description = ln.args[2]]
                  [] ln.word = "network interface ip"      -> [item EXCEPT !.mode = "routed", !.ipv4 = ln.args[2]]
                  [] tagged                                -> [item EXCEPT !.access = NumberIn(ln.ids)]
                  [] OTHER                                 -> item
      moded  == IF set.mode = "unknown" /\ IsUnit(set.name) THEN [set EXCEPT !.mode = "vlan"] ELSE set
  IN Keep(IF tagged THEN Keep(s, "vlan", vlan) ELSE s, "interface", moded)

\* parsePANOSRoute; args are the virtual router, the route, and the value. Routes are known by
\* their names alone, in whatever virtual router.
PanosRoute(s, ln, i) ==
  LET item == [Grown(s, "route", ln.args[2], i) EXCEPT !.vrf = ln.args[1]] IN
  Keep(s, "route", CASE ln.word = "static-route destination" -> [item EXCEPT !.destination = ln.ids]
                     [] ln.word = "static-route nexthop"     -> [item EXCEPT !.nexthop = ln.args[3]]
                     [] OTHER                                -> item)

\* parsePANOSZone: the interfaces a zone has and those of the line
PanosZone(s, ln, i) ==
  LET item == Grown(s, "zone", ln.args[1], i)
      more == SelectSeq(Tail(ln.args), LAMBDA name : name \notin ToSet(item.interfaces))
  IN Keep(s, "zone", [item EXCEPT !.interfaces = @ \o more])

\* parsePANOSPolicy and parsePANOSNAT: of a key, the last line that has it
PanosPolicy(s, ln, i) ==
  LET item == Grown(s, "policy", ln.args[1], i) IN
  Keep(s, "policy", IF ln.args[2] \in {"from", "to", "action"} THEN [item EXCEPT ![ln.args[2]] = ln.args[3]] ELSE item)

PanosNAT(s, ln, i) ==
  LET item == Grown(s, "nat", ln.args[1], i) IN
  Keep(s, "nat",
    CASE ln.args[2] \in {"from", "to"} -> [item EXCEPT ![ln.args[2]] = ln.args[3]]
      [] ln.args[2] \in {"source", "destination"} ->
           [item EXCEPT !.kind = ln.args[2], !.translated = IF Len(ln.args) = 3 THEN ln.args[3] ELSE @]
      [] OTHER -> item)

\* parsePANOS
PanosStep(s, ln, i) ==
  CASE ln.word \in {"network interface", "network interface comment", "network interface ip",
                    "network interface tag"} -> PanosInterface(s, ln, i)
    [] ln.word \in {"static-route destination", "static-route nexthop"} -> PanosRoute(s, ln, i)
    [] ln.word = "zone"           -> PanosZone(s, ln, i)
    [] ln.word = "security rules" -> PanosPolicy(s, ln, i)
    [] ln.word = "nat rules"      -> PanosNAT(s, ln, i)
    [] OTHER                      -> SystemLine("paloalto-panos", s, ln, i)

\* what the sorted... functions leave out: an object that was never completed
Complete(kind, item) ==
  CASE kind = "route"  -> item.destination # << >> /\ item.nexthop # None
    [] kind = "policy" -> item.action # None
    [] kind = "nat"    -> item.kind # None
    [] OTHER           -> TRUE

Completed(s, kind) == SelectSeq(s.items[kind], LAMBDA item : Complete(kind, item))

SetStep(vendor, s, ln, i) == IF vendor = "paloalto-panos" THEN PanosStep(s, ln, i) ELSE VyattaStep(vendor, s, ln, i)

VendorDevice(vendor, text) ==
  LET end   == FoldLeft(LAMBDA s, i : SetStep(vendor, s, text[i], i), SetStart, Lines(1, Len(text)))
      vlans == SortSeq(end.items["vlan"], LAMBDA v, w : v.id < w.id)
  IN [end.dev EXCEPT !.vlans = [n \in DOMAIN vlans |-> [vlans[n] EXCEPT !.name = None]],
                     !.interfaces = [n \in DOMAIN end.items["interface"] |-> Built(end.items["interface"][n])],
                     !.routes = @ \o Completed(end, "route"),
                     !.zones = end.items["zone"],
                     !.policies = Completed(end, "policy"),
                     !.nats = Completed(end, "nat")]

\* what ParseFile may return: nothing, where a line makes it panic
VendorDevices(vendor, text) ==
  IF vendor # "paloalto-panos" /\ \E i \in DOMAIN text : Panics(text[i]) THEN {} ELSE {VendorDevice(vendor, text)}
=============================================================================
