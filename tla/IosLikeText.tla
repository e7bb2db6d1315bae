----------------------------- MODULE IosLikeText -----------------------------
(***************************************************************************)
(* The parser of the IOS-like dialects (internal/parser/ioslike/           *)
(* ioslike.go): EOS, AOS-CX, IOS XR, NX-OS and FSOS. It shares the shape   *)
(* of a block with the Cisco parser, which it otherwise differs from: a    *)
(* VLAN statement sets the mode, and a VLAN is listed once.                *)
(***************************************************************************)
EXTENDS CiscoText

IosBlockLines(text, start) == BlockLines(text, start)

IosStatement(intf, ln) ==
  CASE ln.word \in {"switchport access vlan", "vlan access"} ->
         [intf EXCEPT !.mode = "access", !.access = NumberIn(ln.ids)]
    [] ln.word \in {"switchport trunk allowed vlan", "vlan trunk allowed"} ->
         [intf EXCEPT !.mode = "trunk", !.trunk = VLANList(ln.ids)]
    [] ln.word \in {"ip address", "ipv4 address"} ->
         [intf EXCEPT !.mode = "routed", !.ipv4 = ln.args[1]]
    [] ln.word = "encapsulation dot1q" ->
         IF NumberIn(ln.ids) > 0 THEN [intf EXCEPT !.access = NumberIn(ln.ids)] ELSE intf
    [] ln.word \in {"description", "shutdown", "no shutdown", "switchport mode"} -> CiscoStatement(intf, ln)
    [] OTHER -> intf

IosInterface(text, i) ==
  FoldLeft(IosStatement, NewInterface(text[i].args[1], IosBlockLines(text, i)), Body(text, i))

-----------------------------------------------------------------------------
\* Mutant of NewVLANs: a VLAN the device has already is listed again
NewVLANsAll(dev, vlans) == AddingAll(dev, "vlans", vlans)

\* seenVLANs: of each number, the first declaration found
NewVLANs(dev, vlans) ==
  FoldLeft(LAMBDA d, vlan : IF \E n \in DOMAIN d.vlans : d.vlans[n].id = vlan.id THEN d
                            ELSE Adding(d, "vlans", vlan), dev, vlans)

\* the VLANs of the lines of a block whose word is word, each line its evidence
VLANsAt(text, start, word) ==
  LET Declares(i) == /\ text[i].word = word
                     /\ IF word = "vlan" THEN IsNumber(text[i].ids) ELSE NumberIn(text[i].ids) > 0
  IN [n \in DOMAIN SelectSeq(Tail(BlockLines(text, start)), Declares) |->
        LET i == SelectSeq(Tail(BlockLines(text, start)), Declares)[n]
        IN [id |-> NumberIn(text[i].ids), name |-> Field(text[i].args, 1), evidence |-> <<i>>]]

\* a subinterface declares the VLAN it is tagged with, without a name
Subinterfaces(text, i) == VLANsAt(text, i, "encapsulation dot1q")

VLANDatabase(text, i) == VLANsAt(text, i, "vlan")

IosVLANs(text, i) == CiscoVLANs(text, i)

\* parseIPRoute: a destination with its length takes a next hop only
IosRoutes(ln, i) ==
  IF ln.word = "ip route cidr" /\ ln.args # << >>
  THEN <<[NewRoute(ln.ids, <<i>>) EXCEPT !.nexthop = ln.args[1], !.distance = Field(ln.args, 2)]>>
  ELSE CiscoRoutes(ln, i)

\* parseRouterStatic
StaticRoutes(text, start) ==
  LET IsRoute(i) == text[i].word = "prefix" /\ text[i].args # << >> /\ IsIPv4(text[i].args[1])
      at         == SelectSeq(Tail(BlockLines(text, start)), IsRoute)
  IN [n \in DOMAIN at |-> [NewRoute(text[at[n]].ids, <<at[n]>>) EXCEPT !.nexthop = text[at[n]].args[1]]]

\* parseSNMP: a community, which may follow its type 0
IosSNMP(dev, ln, i) ==
  LET known == Adding(dev, "statements", [kind |-> ln.args[1], evidence |-> <<i>>])
      at    == IF Len(ln.args) >= 3 /\ ln.args[2] = "0" THEN 3 ELSE 2
  IN IF ln.args[1] # "community" \/ Len(ln.args) < 2 THEN known
     ELSE Adding(known, "communities", Target(ln.args[at], <<i>>))

-----------------------------------------------------------------------------
\* one turn of ParseFile's loop
IosStep(text, s, i) ==
  LET ln == text[i] IN
  CASE ln.word = "hostname" -> AfterLine(i, [s.dev EXCEPT !.hostname = ln.args[1], !.evidence = <<i>>])
    [] ln.word = "interface" ->
         AfterBlock(text, i, NewVLANs(Adding(s.dev, "interfaces", IosInterface(text, i)), Subinterfaces(text, i)))
    [] ln.word = "vlan database" -> AfterBlock(text, i, NewVLANs(s.dev, VLANDatabase(text, i)))
    [] ln.word = "vlan"          -> AfterBlock(text, i, NewVLANs(s.dev, IosVLANs(text, i)))
    [] ln.word \in {"ip route", "ip route cidr"} -> AfterLine(i, AddingAll(s.dev, "routes", IosRoutes(ln, i)))
    [] ln.word = "router static" -> AfterBlock(text, i, AddingAll(s.dev, "routes", StaticRoutes(text, i)))
    [] ln.word \in {"ntp server", "sntp server"} -> AfterLine(i, Adding(s.dev, "ntp", Target(ln.args[1], <<i>>)))
    [] ln.word \in {"logging host", "logging server"} ->
         AfterLine(i, Adding(s.dev, "syslog", Target(ln.args[1], <<i>>)))
    [] ln.word = "logging" /\ IsIPv4(ln.args[1]) -> AfterLine(i, Adding(s.dev, "syslog", Target(ln.args[1], <<i>>)))
    [] ln.word = "snmp-server" -> AfterLine(i, IosSNMP(s.dev, ln, i))
    [] OTHER                   -> AfterLine(i, s.dev)

IosLikeDevice(text) ==
  FoldLeft(LAMBDA s, i : IF i < s.next THEN s ELSE IosStep(text, s, i), Start, Lines(1, Len(text))).dev
=============================================================================
