------------------------------ MODULE CiscoText ------------------------------
(***************************************************************************)
(* The Cisco IOS parser (internal/parser/cisco/cisco.go): what its loop    *)
(* makes of each line or block of a configuration. The cases match the     *)
(* trimmed line, so an indented line outside every block counts too.       *)
(***************************************************************************)
EXTENDS ConfigText

CiscoStatement(intf, ln) ==
  CASE ln.word = "description"           -> [intf EXCEPT !.description = ln.args[1]]
    [] ln.word = "shutdown"              -> [intf EXCEPT !.shutdown = TRUE]
    [] ln.word = "no shutdown"           -> [intf EXCEPT !.shutdown = FALSE]
    [] ln.word = "switchport mode"       -> [intf EXCEPT !.mode = ln.args[1]]
    [] ln.word = "switchport access vlan" -> [intf EXCEPT !.access = NumberIn(ln.ids)]
    [] ln.word = "switchport trunk allowed vlan" -> [intf EXCEPT !.trunk = VLANList(ln.ids)]
    [] ln.word = "ip address"            -> [intf EXCEPT !.mode = "routed", !.ipv4 = ln.args[1]]
    [] OTHER                             -> intf

\* parseInterface: what the first lines of its block have made of it
CiscoInterface(text, i) ==
  LET lines == Body(text, i)
      Read[n \in 0 .. Len(lines)] ==
        IF n = 0 THEN NewInterface(text[i].args[1], BlockLines(text, i)) ELSE CiscoStatement(Read[n - 1], lines[n])
  IN Read[Len(lines)]

\* the last "name" of a block
NameIn(lines) ==
  FoldLeft(LAMBDA name, ln : IF ln.word = "name" THEN ln.args[1] ELSE name, None, lines)

\* parseVLAN: a header with a list or a range is no number, and the block is dropped
CiscoVLANs(text, i) ==
  IF ~IsNumber(text[i].ids) THEN << >>
  ELSE <<[id |-> NumberIn(text[i].ids), name |-> NameIn(Body(text, i)), evidence |-> BlockLines(text, i)]>>

\* parseRoute, after the destination and its mask: a next hop, or an interface and
\* whatever follows it as the next hop
CiscoRoutes(ln, i) ==
  IF ln.args = << >> THEN << >>
  ELSE LET route == NewRoute(ln.ids, <<i>>) IN
       IF IsIPv4(ln.args[1])
       THEN <<[route EXCEPT !.nexthop = ln.args[1], !.distance = Field(ln.args, 2)]>>
       ELSE <<[route EXCEPT !.interface = ln.args[1], !.nexthop = Field(ln.args, 2),
                            !.distance = Field(ln.args, 3)]>>

-----------------------------------------------------------------------------
\* parseNamedACLEntry, its sequence number and protocol left out
EntriesIn(text, lines) ==
  LET Entry(i)  == [action |-> text[i].word, match |-> text[i].args, evidence |-> <<i>>]
      IsEntry(i) == text[i].word \in {"permit", "deny"}
  IN [n \in DOMAIN SelectSeq(lines, IsEntry) |-> Entry(SelectSeq(lines, IsEntry)[n])]

CiscoNamedACLs(text, i) ==
  IF Len(text[i].args) < 2 THEN << >>
  ELSE <<[name |-> text[i].args[2], entries |-> EntriesIn(text, Tail(BlockLines(text, i))),
          evidence |-> BlockLines(text, i)]>>

\* Mutant of AppendACL: the entry goes to the last list of that name
AppendACLLast(acls, ln, i) ==
  LET named == {n \in DOMAIN acls : acls[n].name = ln.args[1]}
      entry == [action |-> ln.args[2], match |-> SubSeq(ln.args, 3, Len(ln.args)), evidence |-> <<i>>]
  IN IF Len(ln.args) < 3 THEN acls
     ELSE IF named = {} THEN Append(acls, [name |-> ln.args[1], entries |-> <<entry>>, evidence |-> <<i>>])
     ELSE [acls EXCEPT ![Max(named)].entries = Append(@, entry), ![Max(named)].evidence = Append(@, i)]

\* appendACL: a numbered entry joins the first list of its name, numbered or not
AppendACL(acls, ln, i) ==
  LET named == {n \in DOMAIN acls : acls[n].name = ln.args[1]}
      entry == [action |-> ln.args[2], match |-> SubSeq(ln.args, 3, Len(ln.args)), evidence |-> <<i>>]
  IN IF Len(ln.args) < 3 THEN acls
     ELSE IF named = {} THEN Append(acls, [name |-> ln.args[1], entries |-> <<entry>>, evidence |-> <<i>>])
     ELSE [acls EXCEPT ![Min(named)].entries = Append(@, entry), ![Min(named)].evidence = Append(@, i)]

\* Mutant of HostCommunity: the field after the host, "version" or not
HostCommunityNext(args) == Field(args, 3)

\* parseSNMPHost: the community comes after the version where there is one
HostCommunity(args) ==
  LET version == {n \in 3 .. Len(args) - 1 : args[n] = "version"}
  IN IF version = {} THEN Field(args, 3) ELSE Field(args, Min(version) + 2)

\* parseSNMP; locations, contacts and traps left out
CiscoSNMP(dev, ln, i) ==
  LET known     == Adding(dev, "statements", [kind |-> ln.args[1], evidence |-> <<i>>])
      community == IF ln.args[1] = "host" THEN HostCommunity(ln.args) ELSE Field(ln.args, 2)
      withHost  == IF ln.args[1] = "host" THEN Adding(known, "hosts", Target(ln.args[2], <<i>>)) ELSE known
  IN IF Len(ln.args) < 2 \/ ln.args[1] \notin {"community", "host"} THEN known
     ELSE IF community = None THEN withHost
     ELSE Adding(withHost, "communities", Target(community, <<i>>))

\* the rest of a line, options and all, as the name of a server
Rest(ln) ==
  IF Len(ln.args) = 1 THEN ln.args[1]
  ELSE FoldLeft(LAMBDA rest, field : rest \o " " \o field, ln.args[1], Tail(ln.args))

-----------------------------------------------------------------------------
\* one turn of ParseFile's loop
CiscoStep(text, s, i) ==
  LET ln == text[i] IN
  CASE ln.word = "hostname"       -> AfterLine(i, [s.dev EXCEPT !.hostname = ln.args[1], !.evidence = <<i>>])
    [] ln.word = "interface"      -> AfterBlock(text, i, Adding(s.dev, "interfaces", CiscoInterface(text, i)))
    [] ln.word = "vlan"           -> AfterBlock(text, i, AddingAll(s.dev, "vlans", CiscoVLANs(text, i)))
    [] ln.word = "ip access-list" -> AfterBlock(text, i, AddingAll(s.dev, "acls", CiscoNamedACLs(text, i)))
    [] ln.word = "ip route"       -> AfterLine(i, AddingAll(s.dev, "routes", CiscoRoutes(ln, i)))
    [] ln.word = "access-list"    -> AfterLine(i, [s.dev EXCEPT !.acls = AppendACL(@, ln, i)])
    [] ln.word = "ntp server"     -> AfterLine(i, Adding(s.dev, "ntp", Target(Rest(ln), <<i>>)))
    [] ln.word = "logging host"   -> AfterLine(i, Adding(s.dev, "syslog", Target(Rest(ln), <<i>>)))
    [] ln.word = "snmp-server"    -> AfterLine(i, CiscoSNMP(s.dev, ln, i))
    [] OTHER                      -> AfterLine(i, s.dev)

\* ParseFile's loop: the device it has made of the first lines, and the line it reads next
CiscoDevice(text) ==
  LET Done[n \in 0 .. Len(text)] ==
        IF n = 0 THEN Start
        ELSE LET s == Done[n - 1] IN IF n < s.next THEN s ELSE CiscoStep(text, s, n)
  IN Done[Len(text)].dev
=============================================================================
