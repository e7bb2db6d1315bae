--------------------------- MODULE VlanCentricText ---------------------------
(***************************************************************************)
(* The parsers of the dialects that list the ports of a VLAN               *)
(* (internal/parser/vlancentric/vlancentric.go): ProCurve and AOS-Switch,  *)
(* in blocks, and EXOS, in commands. They turn the lists round: a port's   *)
(* VLANs are those that list it. Ports come in the order of their first    *)
(* lines, and those of one line in the order of a Go map.                  *)
(***************************************************************************)
EXTENDS ConfigText

PortName(n) == ToString(n)
SVIName(id) == "Vlan" \o ToString(id)

\* parsePortList: numbers, ranges of numbers, and names
Ports(ln) == ToSet(ln.args) \cup {PortName(n) : n \in ToSet(VLANList(ln.ids))}

\* ensureInterface
Port(ports, name, i) ==
  Named(ports, name, [name |-> name, description |-> None, routed |-> FALSE, access |-> 0, tagged |-> {},
                      ipv4 |-> None, shutdown |-> FALSE, first |-> i, evidence |-> << >>])

Shown(port, i) == [port EXCEPT !.evidence = Append(@, i)]

\* every port line i lists, in some order
ForPorts(ports, ln, i, Change(_)) ==
  FoldSet(LAMBDA name, ps : Put(ps, Shown(Change(Port(ps, name, i)), i)), ports, Ports(ln))

Untag(ports, ln, id, i) == ForPorts(ports, ln, i, LAMBDA port : [port EXCEPT !.access = id])

\* Mutant of Tag: the last VLAN that lists a port replaces those before
TagLast(ports, ln, id, i) == ForPorts(ports, ln, i, LAMBDA port : [port EXCEPT !.tagged = {id}])

Tag(ports, ln, id, i) == ForPorts(ports, ln, i, LAMBDA port : [port EXCEPT !.tagged = @ \cup {id}])

\* the VLAN's own interface
Route(ports, name, ln, i) ==
  Put(ports, Shown([Port(ports, name, i) EXCEPT !.routed = TRUE, !.ipv4 = ln.args[1]], i))

\* finalizeInterfaces
PortMode(port) ==
  IF port.routed THEN "routed" ELSE IF port.tagged # {} THEN "trunk"
  ELSE IF port.access # 0 THEN "access" ELSE "unknown"

Finalized(port) ==
  [NewInterface(port.name, port.evidence) EXCEPT
     !.description = port.description, !.mode = PortMode(port), !.access = port.access,
     !.trunk = Ascending(port.tagged), !.ipv4 = port.ipv4, !.shutdown = port.shutdown]

PortOrders(ports) ==
  {[n \in DOMAIN ports |-> Finalized(order[n])] :
     order \in Sorted(ports, LAMBDA i, j : ports[i].first <= ports[j].first)}

-----------------------------------------------------------------------------
\* collectExitBlock: as collectBlock, to an "exit"
ExitBlockEnd(text, start) ==
  LET closing == {i \in start + 1 .. Len(text) :
                    text[i].word = "exit" \/ (text[i].word # None /\ ~text[i].indented)}
  IN IF closing = {} THEN Len(text) + 1
     ELSE Min(closing) + (IF text[Min(closing)].word = "exit" THEN 1 ELSE 0)

\* parseVLANBlock's loop over the lines of the VLAN
VLANStatement(text, id, ports, i) ==
  CASE text[i].word = "untagged"   -> Untag(ports, text[i], id, i)
    [] text[i].word = "tagged"     -> Tag(ports, text[i], id, i)
    [] text[i].word = "ip address" -> Route(ports, SVIName(id), text[i], i)
    [] OTHER                       -> ports

VLANBlock(text, s, start) ==
  LET id    == NumberIn(text[start].ids)
      after == ExitBlockEnd(text, start)
      names == SelectSeq(SubSeq(text, start + 1, after - 1), LAMBDA ln : ln.word = "name")
      vlan  == [id |-> id, name |-> IF names = << >> THEN None ELSE Last(names).args[1],
                evidence |-> Lines(start, after - 1)]
      seen  == \E n \in DOMAIN s.dev.vlans : s.dev.vlans[n].id = id
  IN IF ~IsNumber(text[start].ids) THEN [s EXCEPT !.next = after]
     ELSE [dev   |-> IF seen THEN s.dev ELSE Adding(s.dev, "vlans", vlan),
           ports |-> FoldLeft(LAMBDA ports, i : VLANStatement(text, id, ports, i), s.ports,
                              Lines(start + 1, after - 1)),
           next  |-> after]

\* parseInterfaceBlock
InterfaceBlock(text, s, start) ==
  LET after == ExitBlockEnd(text, start)
      Statement(port, i) ==
        CASE text[i].word = "name"    -> Shown([port EXCEPT !.description = text[i].args[1]], i)
          [] text[i].word = "disable" -> Shown([port EXCEPT !.shutdown = TRUE], i)
          [] text[i].word # None      -> Shown(port, i)
          [] OTHER                    -> port
      port == Shown(Port(s.ports, text[start].args[1], start), start)
  IN [s EXCEPT !.ports = Put(@, FoldLeft(Statement, port, Lines(start + 1, after - 1))), !.next = after]

\* one turn of parseProCurveLike
ProCurveStep(text, s, i) ==
  LET ln        == text[i]
      Line(dev) == [s EXCEPT !.dev = dev, !.next = i + 1]
  IN CASE ln.word = "hostname"  -> Line([s.dev EXCEPT !.hostname = ln.args[1], !.evidence = <<i>>])
       [] ln.word = "snmp-server community" -> Line(Adding(s.dev, "communities", Target(ln.args[1], <<i>>)))
       [] ln.word = "ntp server"  -> Line(Adding(s.dev, "ntp", Target(ln.args[1], <<i>>)))
       [] ln.word = "sntp server" -> Line(Adding(s.dev, "ntp", Target(Last(ln.args), <<i>>)))
       [] ln.word = "logging"     -> Line(Adding(s.dev, "syslog", Target(ln.args[1], <<i>>)))
       [] ln.word = "vlan"        -> VLANBlock(text, s, i)
       [] ln.word = "interface"   -> InterfaceBlock(text, s, i)
       [] ln.word = "ip route"    -> Line(Adding(s.dev, "routes", [NewRoute(ln.ids, <<i>>) EXCEPT !.nexthop = ln.args[1]]))
       [] OTHER                   -> Line(s.dev)

-----------------------------------------------------------------------------
\* vlanIDByName: 0 for a name that was not created yet
VLANOf(dev, name) ==
  LET named == {n \in DOMAIN dev.vlans : dev.vlans[n].name = name}
  IN IF named = {} THEN 0 ELSE dev.vlans[Max(named)].id

\* "configure vlan": ports are added to a VLAN created before, and dropped otherwise
ConfigureVLAN(s, ln, i) ==
  LET id    == VLANOf(s.dev, Head(ln.args))
      ports == [ln EXCEPT !.args = Tail(@)]
  IN CASE ln.word = "configure vlan ipaddress" ->
            Route(s.ports, IF id = 0 THEN "Vlan" \o Head(ln.args) ELSE SVIName(id), ports, i)
       [] ln.word = "configure vlan untagged" /\ id # 0 -> Untag(s.ports, ports, id, i)
       [] ln.word = "configure vlan tagged" /\ id # 0   -> Tag(s.ports, ports, id, i)
       [] OTHER -> s.ports

\* one turn of parseEXOS
EXOSStep(text, s, i) ==
  LET ln              == text[i]
      Line(dev)       == [s EXCEPT !.dev = dev, !.next = i + 1]
      PortLine(ports) == [s EXCEPT !.ports = ports, !.next = i + 1]
  IN CASE ln.word = "configure snmp sysName" -> Line([s.dev EXCEPT !.hostname = ln.args[1], !.evidence = <<i>>])
       [] ln.word = "configure ntp server add" -> Line(Adding(s.dev, "ntp", Target(ln.args[1], <<i>>)))
       [] ln.word = "configure syslog add"     -> Line(Adding(s.dev, "syslog", Target(ln.args[1], <<i>>)))
       [] ln.word = "configure snmp add community" -> Line(Adding(s.dev, "communities", Target(ln.args[1], <<i>>)))
       [] ln.word = "create vlan" /\ IsNumber(ln.ids) ->
            Line(Adding(s.dev, "vlans", [id |-> NumberIn(ln.ids), name |-> ln.args[1], evidence |-> <<i>>]))
       [] ln.word \in {"configure vlan untagged", "configure vlan tagged", "configure vlan ipaddress"} ->
            PortLine(ConfigureVLAN(s, ln, i))
       [] ln.word = "configure ports description-string" ->
            PortLine(Put(s.ports, Shown([Port(s.ports, ln.args[1], i) EXCEPT !.description = ln.args[2]], i)))
       [] ln.word = "disable ports" ->
            PortLine(Put(s.ports, Shown([Port(s.ports, ln.args[1], i) EXCEPT !.shutdown = TRUE], i)))
       [] ln.word = "configure iproute add" ->
            Line(Adding(s.dev, "routes", [NewRoute(ln.ids, <<i>>) EXCEPT !.nexthop = ln.args[1]]))
       [] OTHER -> Line(s.dev)

VlanCentricStep(flavor, text, s, i) ==
  IF i < s.next THEN s ELSE IF flavor = "extreme-exos" THEN EXOSStep(text, s, i) ELSE ProCurveStep(text, s, i)

\* the devices ParseFile may return
VlanCentricDevices(flavor, text) ==
  LET end == FoldLeft(LAMBDA s, i : VlanCentricStep(flavor, text, s, i),
                      [dev |-> NoDevice, ports |-> << >>, next |-> 1], Lines(1, Len(text)))
  IN {[end.dev EXCEPT !.interfaces = order] : order \in PortOrders(end.ports)}
=============================================================================
