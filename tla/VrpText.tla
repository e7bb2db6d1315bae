------------------------------- MODULE VrpText -------------------------------
(***************************************************************************)
(* The parser of Huawei VRP and HPE Comware (internal/parser/vrp/vrp.go).  *)
(* A block ends at "#": an interface's, at nothing else, so that one left  *)
(* unclosed takes in whatever follows it.                                  *)
(***************************************************************************)
EXTENDS ConfigText

\* parseVLANIDs: it takes "to" inside a field for a range, but "10 to 20" is three fields, of
\* which "to" is dropped
VLANIDs(ids) == ToSet(VLANList(ids))

\* Mutant of Ended: an interface's block stops at the next header too
EndedAtHeader(text, start, headers) ==
  LET closing == {i \in start + 1 .. Len(text) :
                    text[i].word \in {"#", "vlan", "interface", "ip route-static"} \cup headers}
  IN IF closing = {} THEN Len(text) + 1 ELSE Min(closing)

\* the line a block ends before: a "#", or one of the headers
Ended(text, start, headers) ==
  LET closing == {i \in start + 1 .. Len(text) : text[i].word \in {"#"} \cup headers}
  IN IF closing = {} THEN Len(text) + 1 ELSE Min(closing)

\* the line to go on with, past the "#"
Resumed(text, end) == IF end \in DOMAIN text /\ text[end].word = "#" THEN end + 1 ELSE end

\* collectHashBlock and collectVLANBlock
HashBlockEnd(text, start) == Ended(text, start, {})
VLANBlockEnd(text, start) == Ended(text, start, {"vlan", "vlan batch", "interface", "ip route-static"})

-----------------------------------------------------------------------------
\* "vlan batch": those the device has not are added
Batch(dev, ids, i) ==
  FoldLeft(LAMBDA d, id : IF \E n \in DOMAIN d.vlans : d.vlans[n].id = id THEN d
                          ELSE Adding(d, "vlans", [id |-> id, name |-> None, evidence |-> <<i>>]),
           dev, Ascending(VLANIDs(ids)))

\* parseVLANBlock: it replaces what the device had of that VLAN
VrpVLAN(dev, text, start) ==
  LET lines == Lines(start, VLANBlockEnd(text, start) - 1)
      Names(i) == text[i].word \in {"description", "name"}
      names == SelectSeq(Tail(lines), Names)
      vlan  == [id |-> NumberIn(text[start].ids), evidence |-> lines,
                name |-> IF names = << >> THEN None ELSE text[Last(names)].args[1]]
  IN IF ~IsNumber(text[start].ids) THEN dev
     ELSE IF \E n \in DOMAIN dev.vlans : dev.vlans[n].id = vlan.id
     THEN [dev EXCEPT !.vlans = [n \in DOMAIN @ |-> IF @[n].id = vlan.id THEN vlan ELSE @[n]]]
     ELSE Adding(dev, "vlans", vlan)

VrpStatement(intf, ln) ==
  CASE ln.word = "description"   -> [intf EXCEPT !.description = ln.args[1]]
    [] ln.word = "shutdown"      -> [intf EXCEPT !.shutdown = TRUE]
    [] ln.word = "port link-type" -> [intf EXCEPT !.mode = ln.args[1]]
    [] ln.word \in {"port default vlan", "port access vlan"} ->
         [intf EXCEPT !.mode = "access", !.access = NumberIn(ln.ids)]
    [] ln.word \in {"port trunk allow-pass vlan", "port trunk permit vlan"} ->
         [intf EXCEPT !.mode = "trunk", !.trunk = Ascending(ToSet(@) \cup VLANIDs(ln.ids))]
    [] ln.word = "ip address"    -> [intf EXCEPT !.mode = "routed", !.ipv4 = ln.args[1]]
    [] OTHER                     -> intf

\* parseInterfaceBlock: a second block of an interface adds to the first
VrpInterface(interfaces, text, start) ==
  LET name     == text[start].args[1]
      opened   == Named(interfaces, name, NewInterface(name, << >>))
      lines    == SelectSeq(Tail(Lines(start, HashBlockEnd(text, start) - 1)), LAMBDA i : text[i].word # None)
      Add(intf, i) == [VrpStatement(intf, text[i]) EXCEPT !.evidence = Append(@, i)]
  IN Put(interfaces, FoldLeft(Add, [opened EXCEPT !.evidence = Append(@, start)], lines))

\* one turn of ParseFile's loop
VrpStep(text, s, i) ==
  LET ln == text[i] IN
  CASE ln.word = "sysname"   -> AfterLine(i, [s.dev EXCEPT !.hostname = ln.args[1], !.evidence = <<i>>])
    [] ln.word = "snmp-agent community" -> AfterLine(i, Adding(s.dev, "communities", Target(Last(ln.args), <<i>>)))
    [] ln.word = "ntp-service unicast-server" -> AfterLine(i, Adding(s.dev, "ntp", Target(ln.args[1], <<i>>)))
    [] ln.word = "info-center loghost" -> AfterLine(i, Adding(s.dev, "syslog", Target(ln.args[1], <<i>>)))
    [] ln.word = "vlan batch" -> AfterLine(i, Batch(s.dev, ln.ids, i))
    [] ln.word = "vlan"       -> [dev |-> VrpVLAN(s.dev, text, i), next |-> Resumed(text, VLANBlockEnd(text, i))]
    [] ln.word = "interface"  -> [dev  |-> [s.dev EXCEPT !.interfaces = VrpInterface(@, text, i)],
                                  next |-> Resumed(text, HashBlockEnd(text, i))]
    [] ln.word = "ip route-static" ->
         AfterLine(i, Adding(s.dev, "routes", [NewRoute(ln.ids, <<i>>) EXCEPT !.nexthop = ln.args[1]]))
    [] OTHER -> AfterLine(i, s.dev)

VrpDevice(text) ==
  FoldLeft(LAMBDA s, i : IF i < s.next THEN s ELSE VrpStep(text, s, i), Start, Lines(1, Len(text))).dev
=============================================================================
